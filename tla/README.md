# Verification of the CruiseGua-Chat server

TLA+ models of the chat server, the TLC runs that check them on small
instances, and TLAPS proofs of what matters most for any number of clients,
rooms and messages. Paths below are relative to `src/`.

## The system

The server (`server/`) is one process with one thread. Everything it does is a
coroutine on one Boost.Asio executor, so what runs between two `co_await`s is
atomic, and every interleaving is one of such pieces.

| Part | State it keeps | Operations | Talks to |
|---|---|---|---|
| `async_mutex` (`include/util/async_mutex.hpp`) | `locked_`, receivers pending on `chan_` | lock, try_lock, unlock | the coroutines of one websocket |
| websocket (`util/websocket.*`) | Beast stream, write mutex, `reading` flag | accept, read, write, lock_writes, write_locked, close | session, client |
| chat session (`src/api/chat_websocket.cpp`) | where `run()` is; guards of the write lock and of the subscription | authenticate, greet, store and broadcast, send a history, on_message | Redis, MySQL, pub/sub |
| `pubsub_service` | set of (topic, subscriber) | subscribe, unsubscribe, publish | sessions, by one coroutine per subscriber |
| `redis_client`, `redis_serialization` | one connection, pipelined requests | get_room_history, store_messages, set_nonexisting_key, get_int_key | Redis |
| `room_history_service` | none | history of rooms plus the names of the authors | Redis, MySQL |
| `mysql_client` | connection pool | create_user, get_user_by_email/_by_id, get_usernames | MySQL |
| `session_store`, `cookie_auth_service` | session keys in Redis, with expiry | generate a session, look one up | Redis, MySQL, cookies |
| auth API (`src/api/auth.cpp`) | none | create account, log in | MySQL, sessions |
| HTTP session (`src/http_session.cpp`) | parser, buffer, keep-alive | read, dispatch, respond, upgrade | all of the above |
| server, main | acceptor, signal set | accept, stop | HTTP sessions |
| `cookie_list`, `set_cookie_builder` (`util/cookie.*`) | an iterator: the pair it points to, where the next is looked for | begin, increment; name and value of a Set-Cookie header | sessions and their ids |
| base64, scrypt, password hashes (`util/`) | none | encode, decode; hash and verify a password | session ids, table `users` |
| e-mail check | none | a regular expression | |
| static files | none | serve a file | file system |
| web client (`client/pages/chat.tsx`) | rooms, current room, user | reducer over hello and serverMessages | websocket, HTTP API |

What is hard about it, and what would make each part correct:

* **async_mutex.** The mutex is not fair: a coroutine that was notified is only
  posted, and another may take the mutex before it runs. The channel that
  carries notifications has no buffer, so one that finds no receiver is gone.
  Correct: exclusion, no lost wakeup, every waiter notified in the end.
* **Chat sessions.** `run()` holds the write lock across two database requests
  to keep broadcasts behind the hello, subscribes before it fetches the history
  so as not to miss anything in between, and may return at any of these points.
  Correct: writes never overlap; the hello comes first; no message is missed or
  written twice; after `run()` nothing is started for the session and its
  connection goes away.
* **Storing and broadcasting.** Redis assigns the ids, and the broadcast happens
  an await later; a batch may be stored in part; the connection may break when
  everything has been stored. Correct: only what is stored is broadcast, under
  the ids it is stored with, in the order of the stream; what is stored and not
  broadcast ends the session of its author.
* **History.** Paging, the batch limit and `has_more`, the names of the authors.
* **Accounts.** An account and its session are two writes to two databases; a
  session id may collide; a handler is cancelled after 30 s wherever it is.
* **Restarts.** The process is stopped with SIGTERM wherever its coroutines are
  (`main.cpp:77`), and a new one is started over the same databases
  (`tools/deploy.sh`). Correct: what clients are sent before and after is one
  history.
* **Texts that come from outside.** A `Cookie` header is parsed in place, without
  copies, from whatever a client sends; base64 is decoded into a buffer whose
  size is computed first, with digits looked up by a plain `char`. Correct: nothing
  is written past the end, what the server wrote is read back, and no other text of
  ASCII is accepted.
* **HTTP session.** One loop per connection reads a request, answers it and reads
  on; clients pipeline, close and stop at any point; two timers race the
  answers; a request may turn the connection into a websocket. Correct: the
  requests that were read are answered in order, once; none is lost between two
  reads; nothing is read behind the last; no connection is kept for ever; and
  no session keeps the server from accepting the next client.

## Modules

```
MutexOps      value of an async_mutex and what its members do to it
  AsyncMutex    the mutex alone, any number of coroutines      --> implements Mutex
  ChatServer    sessions + pub/sub + Redis connection          --> implements Rooms, and
                                                                   each session's mutex
                                                                   implements AsyncMutex
    ChatView      what a client shows of the frames ChatServer sends it
  MutexLemmas   what each mutex step does to its invariant (TLAPS)
Mutex         the lock callers are promised
Rooms         the chat clients are promised
RoomHistory   the histories of the hello and of roomHistory events
HistoryParser the parser of Redis' answers to XREVRANGE
  HistoryReference  the encoding it is checked against
Accounts      sign-up, log-in, session keys, the cookie of a websocket
HttpSession   the accept loop and the HTTP sessions, with their timers
Base64Ops     the characters of texts; base64_encode()
  Base64        base64_decode(), a character at a time
  Cookies       the Cookie header and the session cookie
PasswordHash  hash_password(), verify_password() and the PHC strings between them
XProofs       theorems about X: AsyncMutex, ChatServer, RoomHistory, HistoryParser,
              Accounts, HttpSession
FormatsProofs theorems about Base64, Cookies and PasswordHash
MCX           the instances of X that TLC checks (MCFormats: Base64, Cookies and
              PasswordHash)
```

### MutexOps, AsyncMutex, Mutex

`mtx.locked` is `locked_`; `mtx.waiters` is the queue of receivers pending on
`chan_`, in arrival order. A coroutine is `idle`, `waiting` (suspended in
`async_receive`), `woken` (its receive is completed, and it has not run yet) or
`holding`. `LockLoop` is one evaluation of the `while (locked_)` of `lock()`:
`Lock` enters it, `Resume` re-enters it. `Unlock` clears the flag and wakes the
first receiver (`try_send` on a channel of capacity 0). Nothing reserves the
mutex for the woken coroutine; `Lock` and `TryLock` may overtake it.

`Mutex` is the abstract lock: a set of owners with at most one member and a
set of requesters. `ImplementsMutex` checks that `AsyncMutex` with its fairness
implements it with its fairness: a free mutex somebody waits for is taken. It
does not promise that a given waiter gets it, and neither does the code.

### ChatServer

| State | Code |
|---|---|
| `pc[s]` | where `run()` is suspended: `auth` (176), `closing` (183), `helloRedis`/`helloNames` (195, the two awaits of `get_room_history`), `helloWrite` (202), `reading` (213), `storing` (112), `histRedis`/`histNames` (135), `histLock`/`histWrite` (144), `ended` |
| `mtx[s]`, `co[s]` | the write mutex of the websocket, and each coroutine that uses it: `Run`, and one per broadcast |
| `subs` | the container of `pubsub_service` |
| `redisQ`, `replyQ` | the requests pipelined on the Redis connection and their answers, FIFO |
| `orphans` | requests of a process that is gone, which Redis has still to execute |
| `streams[k]` | the Redis stream of room `k`: the author of each message; the id of a message is its index |
| `published` | the broadcasts in the order of `publish()`; the coroutine of `published[p]` in session `s` is `co[s][p]` |
| `snap[s]` | how long each stream was when Redis gave the history for the hello of `s`, which carries the end of it (ChatView) |
| `sent[s]` | the frames written to the client |
| `sock[s]` | the connection, until a read or a write fails or the session object is destroyed |

(Numbers are lines of `server/src/api/chat_websocket.cpp`.) Each action is what
runs from one `co_await` to the next. `AuthOk`, for example, is lines 176 to
195: after authentication the write lock is taken (it is free), the session
subscribes and the history request is queued. `Finish` is every `co_return` of
`run()`: the guards go in reverse order of construction, subscription first,
then the write lock if it is held; the socket is closed when no `on_message()`
coroutine holds a reference to the session any more.

Points of fidelity that are easy to get wrong:

* A woken `on_message()` or `run()` looks at the flag again (`LockWrites`), and
  may suspend again, behind everybody else. Broadcasts can reach a client in
  an order other than that of `publish()`: see `view_latest`.
* `co_spawn` may run a coroutine at once or post it. In the model it starts at
  any later time, in the order of `publish()` within a session: a superset.
* `RedisExecutes`: a failed batch of XADDs may have stored any proper part of
  it. `RedisConnectionLost`: answers not received are lost, also of requests
  that were carried out; requests not yet written may survive (Boost.Redis
  reconnects).
* The room id of a client event is not checked (112, 135): `Keys` may have more
  elements than `RoomIds`. The proofs cover it; in the runs the two are equal.
* A list of messages may be empty (`Batches` has 0): the pipeline then has no
  command, nothing is stored, and an empty list is broadcast. That Boost.Redis
  answers such a request like another is an assumption.
* `ServerRestarts` ends every session at whatever await it is in, and with it
  the coroutines, the subscriptions and the requests not yet written. Requests
  that were written become `orphans`, which Redis executes before or after
  anything the next process asks (`RedisExecutesOrphan`), in part if it was cut
  off within the batch. Redis itself keeps what it has (`--appendonly yes` on a
  volume, `tools/deploy.sh`); a loss of its own data is not modelled. A session
  in `auth` may be one of the next process, so that clients that read before the
  restart and clients that arrive after it are compared.
* Errors of writes in `on_message()` are ignored (167), errors of writes in
  `run()` end the session.

Abstracted: texts, names, time stamps, JSON. An authentication succeeds or
fails. The length of an answer is not limited here (see RoomHistory). TCP loss
is the failure of a read or write.

### Rooms

The chat without server, database and locks: messages are posted to a log per
room, some of them announced, and a client that joins is greeted with its rooms up
to some message and owed every announcement that is not among those. How much of a
room's past a greeting shows is not part of the promise.
Three rules carry it: an announcement is of messages that are in the log, and
behind every earlier one of its room (`Announce`); the greeting must leave
nothing out that is not owed (`Greet`); and nothing is given before the greeting,
nor twice (`Give`). Announcements may be given in any order, as `view_latest`
shows they are, and messages may be posted and never announced.

`ImplementsRooms` maps a session to a client that joins when it subscribes, is
served from the moment its hello is written (`base` is then how far that hello
went, `given` the frames it is sent) and has left when its connection fails, `run()` returns or the process
ends; what it is owed are the broadcasts whose `on_message()` has not ended. The
write lock, the request pipeline, batches stored in part, the Redis connection
and `ServerRestarts` become steps of Rooms or stutter.

### RoomHistory

The requests behind the hello and behind `requestRoomHistory`, with what
ChatServer abstracts: the limit of a batch, `has_more`, the id a client names,
the users. A stream only grows and `XREVRANGE k + -` reads it from its end, so a
batch is an interval `lo..hi` of a stream. `stage[s]` is the await a session is
in; `RedisAnswers` and `MySQLAnswers` are the moments at which the databases
carry a request out, and accounts are created (`CreateUser`) and messages stored
(`StoreMessage`) at any time before, between and after. `asked[s].first` is the
`firstMessageId` of a client that names the oldest message it was sent; the code
reads it and does not use it, and `History` does not mention it. A session whose
history has no message skips MySQL (`get_usernames` returns at once).

The author of a message is a user who authenticated: `StoreMessage` takes its
author from `users`, and no row is ever deleted (there is no `DELETE` in the
server).

### ChatView

The reducer of `client/pages/chat.tsx`, applied to the frames of `sent[s]` one after
the other (a recursive function, so that it can be reasoned about): it adds
operators to ChatServer and no state. A view maps a room to the ids it lists.
`AddMessages` puts new messages in front, in reverse, and drops rooms it does
not know; events of another type, `roomHistory` among them, change nothing.
`SetInitialState` lists what `get_room_history()` takes from the end of each stream,
`MessageBatchSize` messages at most (`FirstInHello`; `redis_client.cpp:72`), of the
`snap` that there were.

`SettledViewsComplete` ties the three parts together: subscribing before
fetching, the broadcasts and the reducer. A session is settled when it has been
greeted, is connected, and no broadcast is on its way to it; then every message
published in its rooms is in its list, but for those that were already older than
a batch when its hello was made (`has_more` tells the client of these).

### HistoryParser, HistoryReference

`parse_room_history_batch()` with one action per state of its parser; the input
is any sequence of nodes, chosen one at a time. A node has a type, a depth, a
size and a value; a value is an id, a payload that converts to a message, or the
word `payload`. `End` is what follows the loop. `HistoryReference` says what
Redis answers for given batches (`Encode`) and compares: whatever is accepted is
the encoding of the result, up to the sizes of the responses, and no answer of
Redis is refused. `ReferenceIInv`, which the run checks too, is the first of them in
the middle of an input: what has been read is the encoding of the batches built so
far, followed by the nodes of the message that has been begun (`Begun`).

### Accounts

| State | Code |
|---|---|
| `users` | the rows of table `users` (`server/tools/db_setup.sql`), in the order of their ids |
| `keys` | the session keys in Redis, each the id of its user or `NoUser` |
| `req[r]`, `known[r]` | what request `r` asks, and how many accounts there were when it was received |
| `op[r]`, `done[r]`, `res[r]` | the operation its handler sent last, whether a database has carried it out, and with what result |
| `user[r]`, `sid[r]` | the user id the handler holds and the session id it generated last |
| `answer[r]` | the response |

A request creates an account, logs in, or authenticates a websocket by its
cookie (`user_from_cookie()`). Requests are numbered in the order in which they
are received. There is one action per operation of a database (`MySQLInserts`,
`RedisSets`, ...) and one per piece of a handler between two awaits (`Created`
is `handle_create_account()` after its `INSERT`, `SessionStored` one turn of the
loop of `generate_session_id()`). The two are apart on purpose: what a handler
has sent is carried out at any later moment, also when the handler has been
answered for with an error (`Fails`) or cancelled after 30 s (`TimesOut`). An
account may so be created, or a session set, with nobody to be told.

`RAND_bytes` returns any id, one that is taken included, and again and again.
Sessions expire at any time, also between the `GET` that finds the user and the
`SELECT` that reads it, and their ids can be generated again. Abstracted: a name
or an e-mail stands for the class of strings the collation of the table equates,
a password for its hash (`verify_password()`), the checks of the parameters are
the choice `valid`. The id of a user is the number of its row (MySQL may skip
numbers). The guess of a session id that was never handed out is one of the
cookies that are presented: `NoImpersonation` speaks of the person who earned
the session, not of the one who holds the cookie.

### Base64Ops, Base64

A character is a number; 0 to 63 are the alphabet by the place in it, so that
`alphabet` and `inverse_tab` are the identity on them, 64 is `=`, and all others
are characters without a digit. `base64_encode` is an operator, digit by digit.
`base64_decode()` is a state machine: `src` characters are consumed, `i` of the four
digits `c4` are of the current group, `out` is what has been written. `ReadDigit` is
one turn of the loop, `Finish` what follows it with the checks of the padding and of
the end. The input is any text, or the encoding of a message.

Texts are of bytes. Line 133 of `base64.cpp` looks a digit up with
`static_cast<std::size_t>(*src)`, and `*src` is a plain `char`: where that is
signed, a byte from 0x80 on (`Wide`) becomes an index beyond `inverse_tab`, and
what is in the memory there is taken for its digit, whatever it is. `wide_tab` is
what the look-up gives for these bytes, any values of a `signed char`, the same
throughout a build: -1 for all of them is a platform where `char` is unsigned.
`Bytes` has therefore the arithmetic of `unsigned char`, also of values that are no
digits. What such a text is decoded to is bounded (`WritesFit`) and a function of
what its characters were taken for (`DecodeIInv`); that an accepted text is the
encoding of something holds, and is stated, of texts of ASCII only
(`AcceptedIsEncoding`).

### Cookies

`header` is what a client sends: anything, or the cookies of a `jar` of a well
behaved client. `next` and `val` are the iterator; a `string_view` is a pair of
positions. `Begin` is `cookie_list::begin()`, `Increment` is `operator++` as
`find_if()` of `user_id_from_cookie()` calls it, both over `increment_from`, which is
`increment()` after its separator. The characters are those of Base64Ops and a few
others, one of each class that the two tables of `cookie.cpp` tell apart. `IsPair`
is the grammar in the comment above `increment()`, against which the list is
checked.

### PasswordHash

A stored hash is a record of its fields, with the number of `$` that follow the
first (`dollars`), because a field is there only if the `$` behind the one before it
is. `ParseHead`, `ParseParam` (one turn of the loop of `parse_phc_params()`) and
`Verify` are `verify_password()`. scrypt is abstracted to the record of its inputs and
the number of its bytes; `Computable` is the limit on memory with which it is called,
beyond which the library refuses and `scrypt_generate_hash()` throws.

### HttpSession

| State | Code |
|---|---|
| `running` | the `io_context` has not been stopped |
| `pc[c]` | where the session of connection `c` is: `arrived` (not accepted yet), `reading` (210), `handling` (138), `writing` (255), `accepting` (232), `websocket` (241), `closed` |
| `sent[c]`, `wire[c]`, `fin[c]` | what the client has sent, what of it has not been received, whether it has closed its side |
| `buff[c]` | what `buff` (191) holds at the start of a read: requests received with earlier ones |
| `got[c]`, `out[c]`, `status[c]` | the requests read, the responses written, and the response being written |
| `deadline[c]` | the timer of the stream (`expires_after`, 207), or of the websocket handshake |
| `limit[c]`, `awaits[c]` | the timer of `cancel_after` (147), and the awaits of the handler, odd or even |

(Numbers are lines of `server/src/http_session.cpp`.) `Reads` is lines 224 to 249
for a request that is complete: an upgrade, a handler, or a response that needs
no await. `Responses` is the routing, as the statuses a request may be answered
with: `handle_http_request_impl()` and `handle_static_file()`.

* Nothing resets the deadline between the read and the write: it runs on while
  the handler works, which is not an operation of the stream and so goes on when
  it has passed. The write that follows may then fail at once or still succeed
  (`StreamTimesOut` or `Writes`).
* `LimitReached` is one limit for all awaits of a handler. What the handler does
  is in Accounts; here it awaits any number of operations (`HandlerAwaits`, in
  Accounts for instance a session id that collides for ever), and nothing makes
  one complete.
* A handler that returns as its limit passes may have answered already:
  `HandlerReturns` stays possible.
* `SessionFails` stands for a connection that breaks, a failed handshake, and
  the exceptions of a session outside a handler: they all end this session and
  nothing else (`log_exception`).
* `Stops` is the signal handler, or `async_accept()` that throws into `main()`.

Abstracted: the bytes of a request, its headers and its body. `ok` says whether
Beast accepts it; a target stands for its class (an endpoint, a file, ...), and
is in normal form: the code looks for `api` in the segments of the raw target
and for the endpoint in the normalized path, which differ on other targets. The
limit on the size of a body (204) is set on a parser of which `async_read()` is
given the message only, so it is not the limit in force. What a client sends
behind an upgrade goes to the websocket with the buffer and is not followed.

## Runs

| Run | Question | Bounds |
|---|---|---|
| `mutex` | lost wakeups, the inductive invariant; every waiter is notified; the abstract lock, and with it exclusion | 5 coroutines, unlimited calls |
| `sessions` | the inductive invariant, with write exclusion and lost wakeups; hello first; stored before broadcast; stored is accounted for; nothing is started for an ended session; settled clients show all that was published since the batch of their hello; whoever wants to write is notified, requests end, ended sessions release their connection; sessions use the mutex as AsyncMutex says; the abstract chat | 2 clients, 1 room, 2 events, batches of 2 and of 0, a hello of 1 message, restarts |
| `sessions_three` | a client that arrives misses nothing; broadcasts follow the stream | 3 clients (symmetric), 2 events, no restart |
| `hello_first` | *violated:* the hello is first even when its data cannot be fetched | 2 clients, 1 event |
| `history` | the inductive invariant; nothing is hidden from a client that is told there is no more; authors have names | 1 session, 2 rooms, 3 users, batches of 2, streams of 3 |
| `history_paging` | *violated:* the answer to a request with an id is older than the id | 1 room, batches of 2 |
| `view_once` | *violated:* no message is listed twice | 2 clients, 1 event |
| `view_latest` | *violated:* the first message of a list is the latest | 2 clients, 2 events |
| `parser` | the parser's invariant; what is parsed is what was sent; no answer is refused | inputs of up to 12 nodes, 2 responses, 2 ids, 2 payloads |
| `accounts` | the inductive invariant; who presents a session id is the user of somebody who earned it; a log-in fails only without the account; a session keeps its user | 3 requests out of 8 kinds, 2 session ids |
| `http` | the inductive invariant; requests answered in order, none lost, none read behind the last; every connection ends and every client is accepted | 2 connections, 2 requests each, 5 kinds of request, timers of 1 tick |
| `formats` | the decoder's buffer, its round trip and what it accepts; the cookie list is that of the grammar and brings session ids back; a hash the server wrote verifies, and a match means the whole hash with all its parameters | texts (of 7 characters, two of them from 0x80 on) and headers of up to 5 characters, messages of up to 6 bytes, jars of up to 3 cookies, PHC strings of up to 2 parameters out of 4 names and 8 values |

The bounds. Five coroutines give a holder, a woken one, two receivers and one
that overtakes; nothing in the mutex counts further. Two sessions are enough
for an author and a reader, three for two authors and a client that is being
greeted (the interleaving `NoGap` and the stream order are about). `MaxEvents`
bounds the client events of a behaviour, hence the broadcasts and the
`on_message()` coroutines of a session: two plus `run()` contend for its lock (the
proofs and AsyncMutex cover any number). No property of liveness rests on that
bound: a waiter that is notified may be overtaken, and wait again, as often as there
are newcomers, so that it gets the lock is not promised, here or for the mutex
(`EveryWriterIsNotified`).
A batch of two is the smallest that can be stored in part, and one of none the
smallest there is. A hello of one message is shorter than such a batch, so it may
begin within one. `MayRestart` lets the process be replaced at any time; each time
ends every session, and one that has not authenticated yet can be the next. The Redis
queues are bounded by the number of sessions, each of which has one request
outstanding. A stream of three with batches of two is shorter than a batch, as
long, and longer; the second room has another stream in the same answer. Twelve
nodes are two messages, in one response or in two, so that a message can land in
the wrong batch and an id be used twice; sizes 0 to 2 and depths 0 to 4 give
every comparison of the parser both of its outcomes. Three requests are a
sign-up, a log-in or second sign-up that competes with it, and a websocket that
presents a cookie; two session ids are enough for one that is taken and one that
is free. Two requests on a connection are one and the next, which is what
pipelining, keep-alive and the order of answers are about; one connection sends
requests that end in each of the branches, the other one stands for the rest of
the server. A timer of one tick has run, runs, or has run out. Five characters are a full
group of base64 and the beginning of another one, six bytes two groups; of the two
characters beyond the table one is taken for a digit and one for something that is
none; five
characters of a header are two pairs with their separator less one, and jars go on
from there; two parameters let one be repeated, be unknown, or be refused after
another was taken. The proofs need none of these bounds.

Deadlock is checked in the runs of AsyncMutex, ChatServer, ChatView,
HistoryParser, Accounts and HttpSession; a state in which all sessions are gone
(`AllGone`), the parser has returned, every request is answered and every session
has expired, or the server has stopped or lost all its clients (`Over`) steps to
itself. It is not checked for RoomHistory, which really
stops: accounts and messages are bounded there, and a session ends with the
first error; nor for Formats, whose behaviours are calls that return.

### Fairness

* The executor runs what is posted to it: weak fairness of `Resume`, of
  `RunStep` and of `OnMessageStep` of each coroutine. Weak is enough, as a woken
  coroutine stays enabled until it runs.
* A holder leaves its critical section, whatever becomes of its session: a write ends, because Beast's suggested
  timeouts (`websocket::accept`) fail it in the end; and Redis and MySQL answer
  or fail. The last is an assumption: the server sets no deadline on them and
  Redis health checks are off (`redis_client.cpp:52`).
* In HttpSession, time goes by (`Tick`), a timer that has run out is served
  (`StreamTimesOut`, `LimitReached`), and a connection that arrived is accepted
  (`Accepts`): weak fairness of these four, for each connection. Clients, the
  network and the databases owe nothing: `EveryConnectionEnds` rests on the
  timers alone, that is, on an operation that Asio cancels completing. A session
  that has become a websocket is not covered by it (no limit is set on it), and
  all promises end with the process (`running`).
* Accounts assumes no fairness. Its requests have the limit of HttpSession; the
  authentication of a websocket is outside of it (the upgrade is not called under
  `cancel_after`).
* `RedisExecutesOrphan`, `RedisConnectionLost` and `ServerRestarts` have no fairness:
  nobody owes them.
* A client is never obliged to send, so `ClientStep` has no fairness, and a
  session that reads may read for ever.

### Disagreements between code and comments

* `hello_first`: the comment on `lock_writes()` in `run()` and the integration
  test say that the hello is the first thing a client gets. When the hello data
  cannot be fetched, `run()` returns, its guard unlocks, and the broadcasts that
  queued behind it are written to a client without a hello. With the condition
  that the session is still served it holds and is proved
  (`HelloFirstWhileServed`).
* `history_paging`: the comment on `firstMessageId` calls it a pagination
  mechanism; the service never passes it on, so the client is sent the newest
  messages again. (The architecture document also names the event
  `requestMessageHistory`; the code reads `requestRoomHistory`.)
* `view_once`: a message stored between the subscription and the history of the
  hello arrives twice and is listed twice, under one React key, although the
  document says that ids are unique in a room. It is the price of `NoGap`: the
  overlap is needed, and the reducer does not remove it.
* `view_latest`: a broadcast that was woken on the write lock may be overtaken by
  one that starts while the lock is free. The client puts what arrives in front
  and takes the first message for the latest.

Seven smaller ones show in the modules and have no run. The comment on
`unlock()` says that all waiters are notified; `Unlock` wakes one, and one is
enough (`EveryWaiterNotified`), because each passes the mutex on. The comment on
`has_more` says that there are more messages; `History` sets it for a room with
exactly `message_batch_size` of them too (the other direction is
`NothingIsHidden`). The comment at the end of the history parser speaks of
responses that are not over; `End` refuses only messages that are not, because
the sizes of responses are never compared (`Unsized`). The comment on `scrypt_data` says
that the length of a hash may differ from the default without breaking existing
data; `time_safe_equals` compares sizes, so such a hash never verifies (`Verify`). The
parser accepts `ln` and `r` up to 20 as a reasonable bound, while hashing is
allowed 32 MiB and throws beyond (`Computable`). The table of digits lists -1 for
128 to 255 (`base64.cpp:60`), which is not what is read for these bytes where `char`
is signed (`inverse`). And a single digit left over at the
end of a base64 text, which no encoding has, is accepted and stands for nothing
(`AcceptedIsEncoding`).

## Proofs

Checked by `tlapm`, for any constants that satisfy the named assumptions
(`ConstantsAssumption`: rooms are ids, the bounds are naturals; with and without
restarts).

* **MutexLemmas.** `Sound(m, p)` relates a mutex to the states of its coroutines:
  exclusion, no lost wakeup, and pending receivers that are exactly the waiting
  coroutines, each once. Neither of the first two is inductive without the third:
  an `unlock()` preserves them only because the receiver it takes off the queue
  is a waiting coroutine and the others still are. One lemma per kind of step
  (`SuspendSound`, `TakeSound`, `ReleaseSound`, `OutsideSound`), shared by both
  components.
* **AsyncMutexProofs.** `MutexInvariant` (`Spec => []IInv`), from it
  `MutexExcludes`, `MutexWakes`, and `MutexImplementsLock`: initial states map to
  initial states and every step to a step of `Mutex` or a stutter.
* **ChatServerProofs.** `ServerInvariant` (`Spec => []IInv`), in four layers that are
  proved one on top of the other.
  `SessionsInv` is what the sessions know of themselves: it adds to `Sound` where
  `run()` stands with respect to its lock in each state of `pc`, that sessions
  before authentication and after their end are not subscribed (so no coroutine is
  started behind their back), that broadcasts not yet published have no coroutine
  (so `publish()` starts fresh ones), and that frames exist only from the hello on.
  `RedisInv` is what the sessions and Redis know of each other. That broadcasts
  are stored, and in the order of the stream, is not inductive: a broadcast is made
  of an answer that Redis gave some steps before, so the answers that wait in
  `replyQ` must be stored, behind what is published and in the order of the queue
  (`AnswersFit`); that needs every session to have one request or answer on its
  way at most (`AskedOnce`), and requests of an earlier process to belong to ended
  sessions (`RequestsFit`). `MessagesAccounted` names the answer that accounts for a
  stored message; `EventsCounted` gives every broadcast a coroutine.
  `Delivery` is `NoGap` from the subscription on, when the hello has not been fetched
  yet: what is published in between is in the answer on its way, will be in one that
  Redis has still to give (`InHello`), or has its own coroutine.
  `FramesFit` is about what clients are written: one hello, before everything else
  unless it never comes, and broadcasts that are published.
  One lemma per action and layer; the returns of `run()` share `FinishFacts`. From
  `SessionsInv`: `WritesExclude`, `WritersWake`, `HelloIsFirstWhileServed`,
  `EndedIsLeftAlone`. From `RedisInv`: `OnlyStoredIsPublished`, `PublishedInOrder`,
  `NothingStoredIsForgotten`. From `Delivery`: `NoGapInWhatIsShown`, and with
  `FramesFit` `SettledViewsAreComplete`, about the client (ChatView). `View` is
  recursive; that it is defined for any number of frames, and that each frame keeps
  what was listed (`FrameLists`), is shown by the principle of the least number
  (`LeastNumber`: a counterexample to an induction would have a least one). After the
  hello, then, the view lists what the hello carried, a batch of each room at most,
  and every broadcast written (`Lists`), for any size of a batch but zero
  (`ChatViewAssumption`); `Delivery` says that a message published is one or the other, and
  `FramesFit` that no second hello resets the list.
  `SessionsKeepToMutex` has a lemma per action that says which step of AsyncMutex
  it is for each session, so that the theorems about that module hold of every
  websocket. `SessionsImplementRooms` is the refinement, action by action: `AuthOk`
  is `Join`, `HelloWritten` is `Greet`, `StoreReply` is `Announce`,
  `OnMessageWritten` is `Give`, `RoomHistoryWritten` is `GiveHistory`, `RedisExecutes`
  and `RedisExecutesOrphan` are `Post`, the returns of `run()`, failures and
  `ServerRestarts` are `Leave`, and everything else stutters. `Greet` is where `Delivery`
  is needed, `Announce` where `RedisInv` is.
* **RoomHistoryProofs.** `HistoryInvariant`, for any batch size. `NothingIsHidden`
  and `EveryAuthorIsNamed` speak of events that are out, while the streams and
  the users go on growing: `FetchedInv` keeps every batch an interval of its
  stream, and every author in `users`, so that the query for the names, an await
  later, finds them. `HistoryFacts` is what `History` returns; `HidesNothing` and
  `AuthorsAreNamed` follow from the invariant. Assumed: batches have at least one
  message (`HistoryAssumption`).
* **HistoryParserProofs.** `ParserInvariant` and `DereferencesAreSafe`, for inputs
  of any length: the id is set in exactly the three states after it was read, and
  a batch exists in every state but the first, so `*data.id` and `res.back()`
  are safe. `AddedToLast` is the lemma on `res.back()`.
  `WhatIsParsedIsSent` is not inductive, as it only speaks of inputs that have ended:
  `Accounted` states in every state of the parser which nodes have been read, and
  `ReferenceInvariant` proves it, one case per state (`FeedAccounted`): three of the
  nodes only add to `Begun`, the payload completes a message (`MessageStands`), a list at
  depth 0 or 1 begins a response or a message. The sizes of responses are not
  compared, so the last header may be off by the messages added since
  (`HeadersAlike`, `EncodeAdded`). `FlattenSeq` is recursive: `FlatExists` shows
  that it is defined, by the principle of the least number, and `FlattenAppend` what
  an element more adds to it; nothing else of it is used.
  `AnswersAreAcceptedHolds`, for any number of rooms and messages, goes the other
  way: the parser runs through a message (`RunsMessage`), hence by induction over
  prefixes (`PrefixInduction`) through a response and through a whole answer, and the
  states it has on the way (`Tracks`) are those it is in as long as what it has
  read is a prefix of the answer (`Follows`, the inductive invariant).
  Assumed: the null pointer is no id and no payload (`ParserAssumption`), and answers
  are lists of lists of messages (`AnswersAssumption`).
* **AccountsProofs.** `AccountsInvariant`, for any number of requests, inputs and
  session ids. `RequestInv` says what a handler may rely on at each of its
  awaits: a row it was given has the e-mail it asked for, the user whose session
  it sets is one whose credentials the request presented. The safety of the keys
  hangs on facts that outlast the handlers: `users` only grows (`Grows`), and who
  has set a key stays recorded as having set it (`KeepsKey`), so what was earned
  stays earned (`EarnedStays`), also after the session has expired and its id was
  given away again. Each action then has to show its own part only (`OwnPart`,
  `StepKeepsInv`). From it: `NobodyIsImpersonated`, `LoginsFailForAReason` (which
  needs that e-mails are unique), `CookiesAreOwners` and `SessionsKeepUser`.
  Assumed: inputs are requests, and the word for no cookie is no session id
  (`AccountsAssumption`).
* **HttpSessionProofs.** `HttpInvariant`, for any connections, requests and
  timers. The properties are not inductive alone: that a response fits its
  request needs that a session that handles or writes has read exactly one
  request more than it has answered (`SessionInv`), and that reading on is safe
  needs that all requests so far asked to keep the connection. `Own` is what the
  invariant says of one connection; as every step is one of a single connection,
  each lemma shows `Own` of that one (`OwnKeepsInv`). `ReadMoves` and `LastGrows`
  are the facts about sequences behind `NothingIsDropped`. From it:
  `RequestsAnsweredInOrder`, `PipelineIsKept` and `ClosedWhenAsked`. Assumed: inputs
  are requests, the bounds are naturals (`HttpAssumption`).
* **FormatsProofs**, base64. `DecodeIInvHolds`, for texts of any bytes and any length,
  and whatever lies beyond the table of digits (`wide_tab`). That a buffer is large
  enough says nothing of its contents, and the contents depend on `c4`, which keeps
  digits of earlier groups: the invariant says how many bytes belong to a cursor
  position, that the digits of the current group are what the text was taken for
  (`Taken`), and that every byte written is the byte of those at its place (`ByteOf`),
  so that no stale digit reaches the output. `WritesFitHolds` is then arithmetic. A
  text of ASCII is taken for its own digits, of which bytes are made without
  truncation (`PlainByteOf`, `BytesArePlain`); from what is true of one that was
  accepted (`AcceptedText`), encoding its bytes gives its digits back
  (`DigitsOfGroup`, `BytesOfGroup` and the eight lemmas that digits and bytes are
  each other's inverses), which is `AcceptedIsEncodingHolds`; `RoundTripHolds` goes the
  other way, from `EncodedInput`, the shape of an encoded message, which is ASCII. Assumed:
  texts and messages are sequences of bytes, and `wide_tab` has values of a
  `signed char` (`Base64Assumption`).
* **FormatsProofs**, cookies. `ListIsGrammarHolds`, for any header: `SkipFacts` says
  where `Skip` stops, `IncrementToPair` that the iterator takes a pair wherever the
  grammar has one, and exactly that pair, `IncrementOrReset` that it takes nothing
  else. The invariant (`ListInv`) keeps `next` at the end of the last pair.
  `SessionIdReturnsHolds`, for any jar and any session id: `Render` is recursive, and
  what it computes is proved by the principle of the least number (`LeastNumber`: a
  counterexample to an induction would have a least one), which gives where each
  cookie is in the header (`RenderedPrefix`, `CarriedParts`), hence that it is read
  as a pair with its own name and value (`CookieIsPair`), and that the next one
  follows it (`Laid`). The invariant (`JarInv`) says that the iterator is at a cookie
  of the jar, behind others of other names. That the cookie is legal at all comes
  from `EncodedText`: base64 with padding has only characters that values of cookies
  may have, and an id that is not empty has an encoding that is not empty.
  Assumed: headers are texts, ids are not empty, and the cookies of a jar have the
  names and values that RFC 6265 allows (`CookiesAssumption`).
* **FormatsProofs**, passwords. `PasswordIInvHolds`, for any stored string with any
  number of parameters: what has been parsed of them gives `params` (`Gives`), by the
  last occurrence of each name, which is what the whole string states when all are
  parsed (`StatedIsGiven`). From it `OwnHashVerifiesHolds`, which also needs that the
  parameters of `hash_password()` pass the parser and stay below the memory limit
  (`DefaultsComputable`), and `MatchMeansHashedHolds`. Assumed: the number of
  parameters is a natural and values are integers (`PasswordAssumption`).

Only model-checked: liveness, which is out of the prover's reach, and with it the parts
of `ImplementsMutex` that are about fairness. Every invariant that a passing run checks
is stated by a theorem.

## Plan

1. *(done)* MutexOps, AsyncMutex, Mutex and their proofs.
2. *(done)* ChatServer: sessions, pub/sub, Redis pipeline; the inductive invariant
   and its theorems.
3. *(done)* RoomHistory, ChatView and HistoryParser; invariants and theorems of the
   first and the last.
4. *(done)* Accounts: sign-up, log-in, session keys and the cookie of a websocket;
   invariant and four theorems.
5. *(done)* HttpSession: the loop of a connection, its timers, the upgrade, the
   accept loop and the end of the process; invariant and four theorems. Left:
   the composition with Accounts (a handler as the awaits of HttpSession) and
   with ChatServer (the websocket it hands over).
6. *(done)* Rooms, the abstract chat, implemented by ChatServer; the replacement of
   the process; events without messages.
7. *(done)* Proofs of `StoredIsAccounted`, `PublishedIsStored`, `PublishedInStreamOrder`
   and `NoGap`; the steps of `ImplementsRooms`; `SessionsUseMutex`.
8. *(done)* Codecs: base64, the cookie list, PHC strings, with their proofs.
9. *(done)* Proofs of `ParsedIsSent`, `AnswersAreAccepted` and `SettledViewsComplete`.
10. Left: the compositions of 5.

## Not modelled

Presentation in the web client and its log-in pages, the paths of static files,
scrypt itself, JSON and the e-mail expression (library calls), error categories and
logging, the MySQL connection pool, a Redis that loses what it has acknowledged,
build and the vendored documentation. `PROJECT.json` lists each with its reason, and
the hazards no property covers yet with theirs.
