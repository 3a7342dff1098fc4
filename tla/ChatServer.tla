----------------------------- MODULE ChatServer -----------------------------
(***************************************************************************)
(* The websocket sessions of the chat server and what they share: the      *)
(* room streams in Redis, the one pipelined Redis connection, and the      *)
(* publish/subscribe service that carries a stored message to every        *)
(* session.  A session is a coroutine, run(), plus one on_message()        *)
(* coroutine per broadcast it has been handed; they write to one websocket *)
(* under the session's async_mutex.  All coroutines share one thread, so   *)
(* what runs between two co_awaits is one step.                            *)
(*                                                                         *)
(* Abstracted: texts, names, timestamps and JSON.  A message is its place  *)
(* in its room's stream, a broadcast is its place in published.            *)
(***************************************************************************)
EXTENDS MutexOps, Integers, FiniteSets

CONSTANTS
  Sessions,   \* the websocket connections
  RoomIds,    \* the rooms every session subscribes to
  Keys,       \* the room ids a client may name; the server does not
              \* check that they are rooms
  MaxEvents,  \* bound: client events in a behaviour
  Batches,    \* bound: how many messages a client event may have
  MayRestart  \* bound: is the server replaced in some behaviour?

ASSUME ConstantsAssumption ==
  /\ RoomIds \subseteq Keys
  /\ MaxEvents \in Nat
  /\ Batches \subseteq Nat
  /\ MayRestart \in BOOLEAN

VARIABLES
  pc,        \* where run() of each session is suspended
  mtx,       \* the write mutex of each session
  co,        \* the coroutines of each session with respect to that mutex
  sock,      \* is the connection of each session open?
  subs,      \* the subscriptions: pairs of a room id and a session
  redisQ,    \* sessions whose request Redis has still to execute
  replyQ,    \* the answers on their way back
  orphans,   \* requests that outlived the process that sent them
  streams,   \* the Redis streams: the author of every message
  published, \* the broadcasts, in the order of publish()
  req,       \* the event that run() of a session is dispatching
  snap,      \* how much of each room there was when the hello of a session was
             \* made; it carries the end of that
  sent,      \* the frames written to each client
  events     \* the client events read so far

vars == <<pc, mtx, co, sock, subs, redisQ, replyQ, orphans, streams,
          published, req, snap, sent, events>>

redisVars == <<redisQ, replyQ, orphans, streams>>
-----------------------------------------------------------------------------
\* The coroutines of a session: run(), and on_message() of each broadcast.
Run == 0
Broadcasts == 1..MaxEvents
Coroutines == {Run} \cup Broadcasts

States == {"auth", "closing", "helloRedis", "helloNames", "helloWrite",
           "reading", "storing", "histRedis", "histNames", "histLock",
           "histWrite", "ended"}
CoStates == {"none", "spawned", "waiting", "woken", "holding", "done"}

Request == [key : Keys, n : Nat]
NoReq == [key |-> "none", n |-> 0]
Positions == [Keys -> Nat]
Answer == [s : Sessions, ok : BOOLEAN, at : Positions]
Broadcast == [key : Keys, from : Sessions, first : Int, last : Nat]
Frame == [kind : {"hello", "roomHistory", "serverMessages"}, id : Nat]

TypeOK ==
  /\ pc \in [Sessions -> States]
  /\ mtx \in [Sessions -> MutexType(Coroutines)]
  /\ co \in [Sessions -> [Coroutines -> CoStates]]
  /\ sock \in [Sessions -> {"open", "closed"}]
  /\ subs \subseteq RoomIds \X Sessions
  /\ redisQ \in Seq(Sessions)
  /\ replyQ \in Seq(Answer)
  /\ orphans \in Seq(Sessions)
  /\ streams \in [Keys -> Seq(Sessions)]
  /\ published \in Seq(Broadcast)
  /\ req \in [Sessions -> Request \cup {NoReq}]
  /\ snap \in [Sessions -> Positions]
  /\ sent \in [Sessions -> Seq(Frame)]
  /\ events \in 0..MaxEvents

Nothing == [k \in Keys |-> 0]

Init ==
  /\ pc = [s \in Sessions |-> "auth"]
  /\ mtx = [s \in Sessions |-> FreeMutex]
  /\ co = [s \in Sessions |-> [c \in Coroutines |-> "none"]]
  /\ sock = [s \in Sessions |-> "open"]
  /\ subs = {}
  /\ redisQ = << >>
  /\ replyQ = << >>
  /\ orphans = << >>
  /\ streams = [k \in Keys |-> << >>]
  /\ published = << >>
  /\ req = [s \in Sessions |-> NoReq]
  /\ snap = [s \in Sessions |-> Nothing]
  /\ sent = [s \in Sessions |-> << >>]
  /\ events = 0
-----------------------------------------------------------------------------
\* The session object lives as long as one of these refers to it: run(), a
\* subscription, an on_message() coroutine.  Its end closes the connection.
Live(s, p) == co[s][p] \in {"spawned", "waiting", "woken", "holding"}

\* Mutant: a coroutine that was notified takes the mutex without looking again.
LockWritesWithoutLoop(s, c) ==
  LET free == co[s][c] = "woken" \/ ~mtx[s].locked
  IN  /\ mtx' = [mtx EXCEPT ![s] = LockStep([@ EXCEPT !.locked = ~free], c)]
      /\ co' = [co EXCEPT ![s][c] = IF free THEN "holding" ELSE "waiting"]

\* One attempt of coroutine c of session s to get past ws_.lock_writes().
LockWrites(s, c) ==
  /\ mtx' = [mtx EXCEPT ![s] = LockStep(@, c)]
  /\ co' = [co EXCEPT ![s][c] = IF mtx[s].locked THEN "waiting" ELSE "holding"]

\* Coroutine c drops its write_guard and moves on to state st.
UnlockWrites(s, c, st) ==
  /\ mtx' = [mtx EXCEPT ![s] = Unlocked(@)]
  /\ co' = [co EXCEPT ![s] =
              [d \in Coroutines |->
                 IF d = c THEN st
                 ELSE IF d \in Notified(mtx[s]) THEN "woken" ELSE @[d]]]

\* Mutant: run() forgets to unsubscribe, so the subscriptions keep the session.
FinishSubscribed(s, broken) ==
  /\ pc' = [pc EXCEPT ![s] = "ended"]
  /\ IF co[s][Run] = "holding" THEN UnlockWrites(s, Run, "none")
                               ELSE UNCHANGED <<mtx, co>>
  /\ sock' = [sock EXCEPT ![s] = IF broken THEN "closed" ELSE @]
  /\ UNCHANGED <<subs, published, snap, sent, events>>

\* Mutant: run() returns with the lock locked, as without a guard.
FinishLocked(s, broken) ==
  /\ pc' = [pc EXCEPT ![s] = "ended"]
  /\ subs' = {e \in subs : e[2] # s}
  /\ sock' = [sock EXCEPT ![s] =
                IF broken \/ ~\E p \in Broadcasts : Live(s, p)
                THEN "closed" ELSE @]
  /\ UNCHANGED <<mtx, co, published, snap, sent, events>>

\* run() returns: the subscriptions go first, then the write_guard if it is
\* held.  The connection stays open while on_message() coroutines are left.
Finish(s, broken) ==
  /\ pc' = [pc EXCEPT ![s] = "ended"]
  /\ subs' = {e \in subs : e[2] # s}
  /\ IF co[s][Run] = "holding" THEN UnlockWrites(s, Run, "none")
                               ELSE UNCHANGED <<mtx, co>>
  /\ sock' = [sock EXCEPT ![s] =
                IF broken \/ ~\E p \in Broadcasts : Live(s, p)
                THEN "closed" ELSE @]
  /\ UNCHANGED <<published, snap, sent, events>>

\* run() hands a request to the Redis client and suspends.
AskRedis(s) ==
  /\ redisQ' = Append(redisQ, s)
  /\ UNCHANGED <<replyQ, orphans, streams>>

\* run() is resumed with the answer to its request: answers come in the order
\* of the requests.
TakeReply(s) ==
  /\ replyQ # << >>
  /\ Head(replyQ).s = s
  /\ replyQ' = Tail(replyQ)
  /\ UNCHANGED <<redisQ, orphans, streams>>

Reply == Head(replyQ)
-----------------------------------------------------------------------------
\* Mutant: the hello data is fetched without the write lock.
AuthOkUnlocked(s) ==
  /\ pc[s] = "auth"
  /\ subs' = subs \cup (RoomIds \X {s})
  /\ AskRedis(s)
  /\ pc' = [pc EXCEPT ![s] = "helloRedis"]
  /\ UNCHANGED <<mtx, co, sock, published, req, snap, sent, events>>

\* Mutant: the subscription guard is a temporary and unsubscribes at once.
AuthOkUnsubscribed(s) ==
  /\ pc[s] = "auth"
  /\ LockWrites(s, Run)
  /\ AskRedis(s)
  /\ pc' = [pc EXCEPT ![s] = "helloRedis"]
  /\ UNCHANGED <<sock, subs, published, req, snap, sent, events>>

\* The cookie is valid: lock the writes, subscribe, ask for the history.
AuthOk(s) ==
  /\ pc[s] = "auth"
  /\ LockWrites(s, Run)
  /\ subs' = subs \cup (RoomIds \X {s})
  /\ AskRedis(s)
  /\ pc' = [pc EXCEPT ![s] = "helloRedis"]
  /\ UNCHANGED <<sock, published, req, snap, sent, events>>

\* No valid cookie, or an error of Redis or MySQL while looking it up.
AuthFail(s) ==
  /\ pc[s] = "auth"
  /\ pc' = [pc EXCEPT ![s] = "closing"]
  /\ UNCHANGED <<mtx, co, sock, subs, redisVars, published, req, snap, sent, events>>

\* The close handshake is over, one way or the other.
CloseDone(s) ==
  /\ pc[s] = "closing"
  /\ Finish(s, TRUE)
  /\ UNCHANGED <<redisVars, req>>

\* Mutant: a failed request for the history is sent again.
HelloReplyRetried(s) ==
  /\ pc[s] = "helloRedis"
  /\ replyQ # << >>
  /\ Reply.s = s
  /\ replyQ' = Tail(replyQ)
  /\ redisQ' = IF Reply.ok THEN redisQ ELSE Append(redisQ, s)
  /\ snap' = [snap EXCEPT ![s] = Reply.at]
  /\ pc' = [pc EXCEPT ![s] = IF Reply.ok THEN "helloWrite" ELSE @]
  /\ UNCHANGED <<orphans, streams, mtx, co, sock, subs, published, req, sent,
                 events>>

\* get_hello_data(): the room history; user names are only looked up when
\* there is a message.
HelloReply(s) ==
  /\ pc[s] = "helloRedis"
  /\ TakeReply(s)
  /\ UNCHANGED req
  /\ \/ /\ ~Reply.ok
        /\ Finish(s, FALSE)
     \/ /\ Reply.ok
        /\ snap' = [snap EXCEPT ![s] = Reply.at]
        /\ pc' = [pc EXCEPT ![s] =
                    IF \A k \in RoomIds : Reply.at[k] = 0
                    THEN "helloWrite" ELSE "helloNames"]
        /\ UNCHANGED <<mtx, co, sock, subs, published, sent, events>>

HelloNames(s) ==
  /\ pc[s] = "helloNames"
  /\ UNCHANGED <<redisVars, req>>
  /\ \/ Finish(s, FALSE)
     \/ /\ pc' = [pc EXCEPT ![s] = "helloWrite"]
        /\ UNCHANGED <<mtx, co, sock, subs, published, snap, sent, events>>

\* A frame written by run(): the guard is dropped and the loop reads on.
RunWrote(s, kind) ==
  /\ sock[s] = "open"
  /\ sent' = [sent EXCEPT ![s] = Append(@, [kind |-> kind, id |-> 0])]
  /\ UnlockWrites(s, Run, "none")
  /\ pc' = [pc EXCEPT ![s] = "reading"]
  /\ UNCHANGED <<sock, subs, redisVars, published, req, snap, events>>

HelloWritten(s) == pc[s] = "helloWrite" /\ RunWrote(s, "hello")

RoomHistoryWritten(s) == pc[s] = "histWrite" /\ RunWrote(s, "roomHistory")

\* The peer is gone, or the write timed out.
RunWriteFails(s) ==
  /\ pc[s] \in {"helloWrite", "histWrite"}
  /\ Finish(s, TRUE)
  /\ UNCHANGED <<redisVars, req>>
-----------------------------------------------------------------------------
\* A clientMessages event: n messages for room k, one pipeline of XADDs.
ReadMessages(s, k, n) ==
  /\ pc[s] = "reading"
  /\ sock[s] = "open"
  /\ events < MaxEvents
  /\ events' = events + 1
  /\ req' = [req EXCEPT ![s] = [key |-> k, n |-> n]]
  /\ AskRedis(s)
  /\ pc' = [pc EXCEPT ![s] = "storing"]
  /\ UNCHANGED <<mtx, co, sock, subs, published, snap, sent>>

\* A requestRoomHistory event for room k.
ReadHistoryRequest(s, k) ==
  /\ pc[s] = "reading"
  /\ sock[s] = "open"
  /\ events < MaxEvents
  /\ events' = events + 1
  /\ req' = [req EXCEPT ![s] = [key |-> k, n |-> 0]]
  /\ AskRedis(s)
  /\ pc' = [pc EXCEPT ![s] = "histRedis"]
  /\ UNCHANGED <<mtx, co, sock, subs, published, snap, sent>>

\* An event that does not parse, or a read that fails, ends the session.
ReadEnds(s) ==
  /\ pc[s] = "reading"
  /\ \E broken \in BOOLEAN : Finish(s, broken)
  /\ UNCHANGED <<redisVars, req>>

\* publish(): one on_message() coroutine for every subscription of the topic.
\* The executor may start them at once or later.
Publish(k, event) ==
  /\ published' = Append(published, event)
  /\ co' = [t \in Sessions |->
              IF <<k, t>> \in subs
              THEN [co[t] EXCEPT ![Len(published) + 1] = "spawned"]
              ELSE co[t]]

\* Mutants: the result of storing is not looked at; a failure does not end the
\* session; the ids are one off.
StoreReplyUnchecked(s) ==
  /\ pc[s] = "storing"
  /\ TakeReply(s)
  /\ req' = [req EXCEPT ![s] = NoReq]
  /\ LET k == req[s].key
     IN  Publish(k, [key |-> k, from |-> s,
                     first |-> Reply.at[k], last |-> Reply.at[k]])
  /\ pc' = [pc EXCEPT ![s] = "reading"]
  /\ UNCHANGED <<mtx, sock, subs, snap, sent, events>>

StoreReplyGoesOn(s) ==
  /\ pc[s] = "storing"
  /\ TakeReply(s)
  /\ req' = [req EXCEPT ![s] = NoReq]
  /\ LET k == req[s].key
     IN  IF Reply.ok
         THEN Publish(k, [key |-> k, from |-> s,
                          first |-> Reply.at[k] + 1 - req[s].n,
                          last |-> Reply.at[k]])
         ELSE UNCHANGED <<published, co>>
  /\ pc' = [pc EXCEPT ![s] = "reading"]
  /\ UNCHANGED <<mtx, sock, subs, snap, sent, events>>

StoreReplyOffByOne(s) ==
  /\ pc[s] = "storing"
  /\ TakeReply(s)
  /\ req' = [req EXCEPT ![s] = NoReq]
  /\ \/ ~Reply.ok /\ Finish(s, FALSE)
     \/ /\ Reply.ok
        /\ LET k == req[s].key
           IN  Publish(k, [key |-> k, from |-> s,
                           first |-> Reply.at[k] - req[s].n,
                           last |-> Reply.at[k]])
        /\ pc' = [pc EXCEPT ![s] = "reading"]
        /\ UNCHANGED <<mtx, sock, subs, snap, sent, events>>

\* The messages are stored: tell every subscriber of the room.
StoreReply(s) ==
  /\ pc[s] = "storing"
  /\ TakeReply(s)
  /\ req' = [req EXCEPT ![s] = NoReq]
  /\ \/ /\ ~Reply.ok
        /\ Finish(s, FALSE)
     \/ /\ Reply.ok
        /\ LET k == req[s].key
               last == Reply.at[k]
           IN  Publish(k, [key |-> k, from |-> s,
                           first |-> last + 1 - req[s].n, last |-> last])
        /\ pc' = [pc EXCEPT ![s] = "reading"]
        /\ UNCHANGED <<mtx, sock, subs, snap, sent, events>>

\* The room history is there: wait for the turn to write it.
LockForHistory(s) ==
  /\ LockWrites(s, Run)
  /\ pc' = [pc EXCEPT ![s] = IF mtx[s].locked THEN "histLock" ELSE "histWrite"]
  /\ UNCHANGED <<sock, subs, published, snap, sent, events>>

HistoryReply(s) ==
  /\ pc[s] = "histRedis"
  /\ TakeReply(s)
  /\ req' = [req EXCEPT ![s] = NoReq]
  /\ \/ /\ ~Reply.ok
        /\ Finish(s, FALSE)
     \/ /\ Reply.ok
        /\ Reply.at[req[s].key] = 0
        /\ LockForHistory(s)
     \/ /\ Reply.ok
        /\ Reply.at[req[s].key] > 0
        /\ pc' = [pc EXCEPT ![s] = "histNames"]
        /\ UNCHANGED <<mtx, co, sock, subs, published, snap, sent, events>>

HistoryNames(s) ==
  /\ pc[s] = "histNames"
  /\ UNCHANGED <<redisVars, req>>
  /\ Finish(s, FALSE) \/ LockForHistory(s)

HistoryLockResumes(s) ==
  /\ pc[s] = "histLock"
  /\ co[s][Run] = "woken"
  /\ LockForHistory(s)
  /\ UNCHANGED <<redisVars, req>>
-----------------------------------------------------------------------------
\* on_message() of broadcast p: lock, write, unlock; the error is ignored.
\* The executor starts the coroutines of a session in the order of publish().
OnMessageStarts(s, p) ==
  /\ co[s][p] = "spawned"
  /\ \A q \in 1..(p - 1) : co[s][q] # "spawned"
  /\ LockWrites(s, p)
  /\ UNCHANGED <<pc, sock, subs, redisVars, published, req, snap, sent, events>>

OnMessageResumes(s, p) ==
  /\ co[s][p] = "woken"
  /\ LockWrites(s, p)
  /\ UNCHANGED <<pc, sock, subs, redisVars, published, req, snap, sent, events>>

\* The last reference to the session may go with this coroutine.
OnMessageReturns(s, p, broken) ==
  /\ UnlockWrites(s, p, "done")
  /\ sock' = [sock EXCEPT ![s] =
                IF \/ broken
                   \/ /\ pc[s] = "ended"
                      /\ \A e \in subs : e[2] # s
                      /\ \A q \in Broadcasts \ {p} : ~Live(s, q)
                THEN "closed" ELSE @]
  /\ UNCHANGED <<pc, subs, redisVars, published, req, snap, events>>

OnMessageWritten(s, p) ==
  /\ co[s][p] = "holding"
  /\ sock[s] = "open"
  /\ sent' = [sent EXCEPT ![s] =
                Append(@, [kind |-> "serverMessages", id |-> p])]
  /\ OnMessageReturns(s, p, FALSE)

OnMessageWriteFails(s, p) ==
  /\ co[s][p] = "holding"
  /\ OnMessageReturns(s, p, TRUE)
  /\ UNCHANGED sent
-----------------------------------------------------------------------------
\* What the Redis server does to the streams for a request of s: n of its
\* messages are appended, as one run (requests of one connection are not
\* interleaved with others of it).
Appends(s, n) ==
  streams' = IF n = 0 THEN streams
             ELSE [streams EXCEPT ![req[s].key] = @ \o [i \in 1..n |-> s]]

\* The next request is executed and answered.  A command may fail; a batch of
\* XADDs is not a transaction, so any number of them may have been carried out
\* when the batch as a whole fails.
RedisExecutes ==
  /\ redisQ # << >>
  /\ LET s == Head(redisQ)
     IN  \E n \in 0..req[s].n, ok \in BOOLEAN :
            /\ req[s].n > 0 => (ok <=> n = req[s].n)
            /\ Appends(s, n)
            /\ replyQ' = Append(replyQ,
                 [s |-> s, ok |-> ok,
                  at |-> IF ok THEN [j \in Keys |-> Len(streams'[j])]
                               ELSE Nothing])
  /\ redisQ' = Tail(redisQ)
  /\ UNCHANGED <<pc, mtx, co, sock, subs, orphans, published, req, snap, sent,
                 events>>

\* Redis gets to a request of a process that is gone: nobody waits for the
\* answer, and the connection may have ended within the batch.
RedisExecutesOrphan ==
  /\ orphans # << >>
  /\ \E n \in 0..req[Head(orphans)].n : Appends(Head(orphans), n)
  /\ orphans' = Tail(orphans)
  /\ UNCHANGED <<pc, mtx, co, sock, subs, redisQ, replyQ, published, req, snap,
                 sent, events>>

\* The connection to Redis breaks: the answers not received yet are lost, and
\* of the requests not executed yet those already written fail as well.
RedisConnectionLost ==
  /\ redisQ # << >> \/ replyQ # << >>
  /\ \E i \in 0..Len(replyQ), j \in 0..Len(redisQ) :
       /\ replyQ' = [m \in 1..(Len(replyQ) + j) |->
                       IF m <= i THEN replyQ[m]
                       ELSE [s |-> IF m <= Len(replyQ) THEN replyQ[m].s
                                   ELSE redisQ[m - Len(replyQ)],
                             ok |-> FALSE, at |-> Nothing]]
       /\ redisQ' = SubSeq(redisQ, j + 1, Len(redisQ))
  /\ UNCHANGED <<pc, mtx, co, sock, subs, orphans, streams, published, req,
                 snap, sent, events>>

\* Mutant: the streams go with the process.
ServerRestartsEmpty ==
  /\ MayRestart
  /\ \E s \in Sessions : pc[s] \notin {"auth", "ended"}
  /\ pc' = [s \in Sessions |-> IF pc[s] = "auth" THEN "auth" ELSE "ended"]
  /\ sock' = [s \in Sessions |-> IF pc[s] = "auth" THEN "open" ELSE "closed"]
  /\ mtx' = [s \in Sessions |-> FreeMutex]
  /\ co' = [s \in Sessions |-> [c \in Coroutines |->
              IF c # Run /\ co[s][c] # "none" THEN "done" ELSE "none"]]
  /\ subs' = {}
  /\ redisQ' = << >>
  /\ replyQ' = << >>
  /\ streams' = [k \in Keys |-> << >>]
  /\ UNCHANGED <<orphans, published, req, snap, sent, events>>

\* The container is replaced (tools/deploy.sh): SIGTERM stops the event loop
\* wherever the coroutines are, and a new process starts with nothing of
\* theirs.  Redis keeps its data, and has yet to execute those requests that
\* had been written to it.  A session in "auth" may as well be one that
\* connects to the new process.
ServerRestarts ==
  /\ MayRestart
  /\ \E s \in Sessions : pc[s] \notin {"auth", "ended"}
  /\ pc' = [s \in Sessions |-> IF pc[s] = "auth" THEN "auth" ELSE "ended"]
  /\ sock' = [s \in Sessions |-> IF pc[s] = "auth" THEN "open" ELSE "closed"]
  /\ mtx' = [s \in Sessions |-> FreeMutex]
  /\ co' = [s \in Sessions |-> [c \in Coroutines |->
              IF c # Run /\ co[s][c] # "none" THEN "done" ELSE "none"]]
  /\ subs' = {}
  /\ \E j \in 0..Len(redisQ) : orphans' = orphans \o SubSeq(redisQ, 1, j)
  /\ redisQ' = << >>
  /\ replyQ' = << >>
  /\ UNCHANGED <<streams, published, req, snap, sent, events>>
-----------------------------------------------------------------------------
\* run() goes on with what it waits for.
RunStep(s) ==
  \/ AuthOk(s) \/ AuthFail(s) \/ CloseDone(s)
  \/ HelloReply(s) \/ HelloNames(s) \/ HelloWritten(s)
  \/ StoreReply(s)
  \/ HistoryReply(s) \/ HistoryNames(s) \/ HistoryLockResumes(s)
  \/ RoomHistoryWritten(s) \/ RunWriteFails(s)

\* The client decides when these happen, if ever.
ClientStep(s) ==
  \/ \E k \in Keys, n \in Batches : ReadMessages(s, k, n)
  \/ \E k \in Keys : ReadHistoryRequest(s, k)
  \/ ReadEnds(s)

OnMessageStep(s, p) ==
  \/ OnMessageStarts(s, p) \/ OnMessageResumes(s, p)
  \/ OnMessageWritten(s, p) \/ OnMessageWriteFails(s, p)

\* Every session is over and no coroutine is left: nothing more happens.
AllGone ==
  /\ \A s \in Sessions :
       pc[s] = "ended" /\ \A p \in Broadcasts : ~Live(s, p)
  /\ UNCHANGED vars

Next ==
  \/ \E s \in Sessions : RunStep(s) \/ ClientStep(s)
  \/ \E s \in Sessions, p \in Broadcasts : OnMessageStep(s, p)
  \/ RedisExecutes \/ RedisExecutesOrphan
  \/ RedisConnectionLost
  \/ ServerRestarts
  \/ AllGone

Spec == Init /\ [][Next]_vars

\* The executor runs what is posted to it, Redis and MySQL answer or fail, a
\* write ends (Beast's idle timeout ends it in the worst case).  A client is
\* never obliged to send anything.
Fairness ==
  /\ \A s \in Sessions : WF_vars(RunStep(s))
  /\ \A s \in Sessions, p \in Broadcasts : WF_vars(OnMessageStep(s, p))
  /\ WF_vars(RedisExecutes)

FairSpec == Spec /\ Fairness
-----------------------------------------------------------------------------
WasSent(s, p) ==
  \E i \in DOMAIN sent[s] : sent[s][i] = [kind |-> "serverMessages", id |-> p]

\* Two coroutines never write to one websocket at a time, though run() and
\* any number of on_message() coroutines want to; run() has the lock exactly
\* while it writes or prepares its hello.
WriteExclusion ==
  \A s \in Sessions :
    /\ Exclusive(mtx[s], co[s])
    /\ co[s][Run] = "holding" <=>
         pc[s] \in {"helloRedis", "helloNames", "helloWrite", "histWrite"}

\* A mutex that is free while a coroutine waits for it has woken another one
\* that will pass it on (also when run() ends with the write_guard held).
NoLostWakeup ==
  \A s \in Sessions : NothingLost(mtx[s], co[s])

\* The comment in run() on lock_writes(), for the sessions that go on: no
\* broadcast overtakes the hello, however early it was published.
HelloFirstWhileServed ==
  \A s \in Sessions :
    pc[s] # "ended" /\ sent[s] # << >> => Head(sent[s]).kind = "hello"

\* The same comment without its condition, as the integration test's first
\* receive expects it: whatever a client gets, it gets the hello first.
HelloIsFirst ==
  \A s \in Sessions : sent[s] # << >> => Head(sent[s]).kind = "hello"

\* The reason for subscribing before the history is fetched: of a room it was
\* greeted with, every published message was there when the history for a served
\* client's hello was fetched, or came by a broadcast it got, or is on its way.
NoGap ==
  \A s \in Sessions, p \in DOMAIN published :
    LET m == published[p]
    IN  /\ pc[s] \notin {"auth", "closing", "helloRedis", "ended"}
        /\ m.key \in RoomIds
        /\ m.last > snap[s][m.key]
        /\ sock[s] = "open"
        => Live(s, p) \/ WasSent(s, p)

\* The batch of a broadcast is in its room's stream, and all of it is its author's.
IsStored(m) ==
  /\ 1 <= m.first
  /\ m.first <= m.last + 1
  /\ m.last <= Len(streams[m.key])
  /\ \A i \in m.first..m.last : streams[m.key][i] = m.from

\* Only what Redis has is broadcast, under the ids Redis gave it: the batch of
\* a broadcast is a run of its author's messages in the room's stream.
PublishedIsStored == \A p \in DOMAIN published : IsStored(published[p])

\* A room's broadcasts are published in the order of its stream, whoever
\* stored them: the answers of Redis are handled in the order of the requests.
PublishedInStreamOrder ==
  \A p, q \in DOMAIN published :
    p < q /\ published[p].key = published[q].key =>
      published[p].last < published[q].first

InBatch(k, i, m) == m.key = k /\ i \in m.first..m.last

Announced(k, i) == \E p \in DOMAIN published : InBatch(k, i, published[p])

\* A stored message is broadcast, or its author is about to, or was
\* disconnected on the way: nobody goes on as if it had not been stored.
StoredIsAccounted ==
  \A k \in Keys : \A i \in DOMAIN streams[k] :
    Announced(k, i) \/ pc[streams[k][i]] \in {"storing", "ended"}

Greeting == {"helloRedis", "helloNames", "helloWrite"}

\* What holds of one session in every state, and what each step needs: its
\* mutex is sound; run() stands to it as pc says; only a session past its
\* authentication and not over is subscribed; the broadcasts to come have no
\* coroutine; and frames are written from the hello on.
SessionInv(s) ==
  /\ Sound(mtx[s], co[s])
  /\ co[s][Run] = "holding" <=> pc[s] \in Greeting \cup {"histWrite"}
  /\ co[s][Run] \in {"waiting", "woken"} <=> pc[s] = "histLock"
  /\ co[s][Run] \in {"none", "waiting", "woken", "holding"}
  /\ pc[s] \in {"auth", "closing", "ended"} => \A e \in subs : e[2] # s
  /\ pc[s] \in {"auth", "closing"} =>
       \A p \in Broadcasts : co[s][p] = "none"
  /\ \A p \in Broadcasts : p > Len(published) => co[s][p] = "none"
  /\ pc[s] \in Greeting \cup {"auth", "closing"} => sent[s] = << >>
  /\ pc[s] \notin Greeting \cup {"auth", "closing", "ended"} =>
       sent[s] # << >> /\ Head(sent[s]).kind = "hello"
  /\ pc[s] \in {"storing", "histRedis"} => req[s] \in Request

\* What the sessions know of themselves.
SessionsInv == TypeOK /\ \A s \in Sessions : SessionInv(s)

Asking == {"helloRedis", "storing", "histRedis"}

\* A session has at most one request on its way, on its way once, and only
\* while run() waits for the answer.
AskedOnce ==
  /\ \A i \in DOMAIN redisQ : pc[redisQ[i]] \in Asking
  /\ \A i \in DOMAIN replyQ : pc[replyQ[i].s] \in Asking
  /\ \A i, j \in DOMAIN redisQ : redisQ[i] = redisQ[j] => i = j
  /\ \A i, j \in DOMAIN replyQ : replyQ[i].s = replyQ[j].s => i = j
  /\ \A i \in DOMAIN redisQ, j \in DOMAIN replyQ : redisQ[i] # replyQ[j].s

\* Only a session that stores has messages to be appended, or one whose
\* request outlived its process.
RequestsFit ==
  /\ \A s \in Sessions : pc[s] \notin {"storing", "ended"} => req[s].n = 0
  /\ \A i \in DOMAIN orphans : pc[orphans[i]] = "ended"

\* The broadcast that answer a becomes, if it is the good answer to an author.
BroadcastOf(a) ==
  LET k == req[a.s].key
  IN  [key |-> k, from |-> a.s, first |-> a.at[k] + 1 - req[a.s].n,
       last |-> a.at[k]]

\* The answers on their way that are going to be broadcast.
Announcing == {i \in DOMAIN replyQ : replyQ[i].ok /\ pc[replyQ[i].s] = "storing"}

\* The answers on their way tell of nothing Redis does not have; those to be
\* broadcast are stored, behind what is broadcast and in the order of the queue.
AnswersFit ==
  /\ \A i \in DOMAIN replyQ, k \in Keys : replyQ[i].at[k] <= Len(streams[k])
  /\ \A i \in Announcing : IsStored(BroadcastOf(replyQ[i]))
  /\ \A i \in Announcing, p \in DOMAIN published :
       LET m == BroadcastOf(replyQ[i])
       IN  published[p].key = m.key => published[p].last < m.first
  /\ \A i, j \in Announcing :
       LET m == BroadcastOf(replyQ[i])
           l == BroadcastOf(replyQ[j])
       IN  i < j /\ m.key = l.key => m.last < l.first

\* StoredIsAccounted, with the answer that accounts for the message.
MessagesAccounted ==
  \A k \in Keys : \A i \in DOMAIN streams[k] :
    LET author == streams[k][i]
    IN  \/ Announced(k, i)
        \/ pc[author] = "ended"
        \/ /\ pc[author] = "storing"
           /\ \E j \in DOMAIN replyQ :
                /\ replyQ[j].s = author
                /\ replyQ[j].ok => InBatch(k, i, BroadcastOf(replyQ[j]))

\* Every broadcast is one of the client events, so it has a coroutine.
Storing == {s \in Sessions : pc[s] = "storing"}
EventsCounted ==
  /\ IsFiniteSet(Storing)
  /\ Len(published) + Cardinality(Storing) <= events

\* Broadcast m was there when the history for the hello of s was fetched, or will
\* have been.
InHello(s, m) ==
  IF pc[s] = "helloRedis"
  THEN \A i \in DOMAIN replyQ :
         replyQ[i].s = s /\ replyQ[i].ok => m.last <= replyQ[i].at[m.key]
  ELSE m.last <= snap[s][m.key]

\* NoGap, from the subscription on.
DeliveryInv(s) ==
  /\ pc[s] = "auth" => sock[s] = "open"
  /\ pc[s] \notin {"auth", "closing", "ended"} => RoomIds \X {s} \subseteq subs
  /\ \A k \in Keys : snap[s][k] <= Len(streams[k])
  /\ pc[s] \notin {"auth", "closing", "ended"} /\ sock[s] = "open" =>
       \A p \in DOMAIN published :
         published[p].key \in RoomIds =>
           Live(s, p) \/ WasSent(s, p) \/ InHello(s, published[p])

Delivery == \A s \in Sessions : DeliveryInv(s)

\* What the sessions and Redis know of each other.
RedisInv ==
  /\ AskedOnce
  /\ RequestsFit
  /\ AnswersFit
  /\ PublishedIsStored
  /\ PublishedInStreamOrder
  /\ MessagesAccounted
  /\ EventsCounted

\* What clients are written: one hello, and broadcasts that are published.
FramesFit ==
  \A s \in Sessions : \A i \in DOMAIN sent[s] :
    /\ sent[s][i].kind = "hello" => i = 1
    /\ sent[s][i].kind = "serverMessages" => sent[s][i].id \in DOMAIN published

\* The inductive invariant.
IInv == SessionsInv /\ RedisInv /\ Delivery /\ FramesFit

\* No coroutine is started for a session that has ended: its subscriptions
\* went with it (the guard of subscribe_guarded()).
NoBroadcastAfterEnd ==
  [][\A s \in Sessions, p \in Broadcasts :
       pc[s] = "ended" /\ co[s][p] = "none" => co'[s][p] = "none"]_vars

\* Each session uses its mutex as AsyncMutex describes.
MutexOf(s) ==
  INSTANCE AsyncMutex WITH
    Tasks <- Coroutines,
    mtx   <- mtx[s],
    pc    <- [c \in Coroutines |->
                IF co[s][c] \in {"none", "spawned", "done"}
                THEN "idle" ELSE co[s][c]]

SessionsUseMutex ==
  /\ \A s \in Sessions : MutexOf(s)!Init
  /\ [][\/ ServerRestarts
        \/ \A s \in Sessions : [MutexOf(s)!Next]_(MutexOf(s)!vars)]_vars

\* What the sessions together promise their clients: the abstract chat, where
\* nothing comes between a message and its announcement but time.  A client
\* joins with the subscription, is served from the moment its hello is written,
\* and has left when its connection fails or run() returns; it is owed the
\* broadcasts whose coroutines have not come to an end.
StatusOf(s) ==
  IF pc[s] = "auth" THEN "away"
  ELSE IF pc[s] \in {"closing", "ended"} \/ sock[s] = "closed" THEN "left"
  ELSE IF pc[s] \in Greeting THEN "joining"
  ELSE "served"

Greeted(s) == sent[s] # << >> /\ Head(sent[s]).kind = "hello"

RoomStatus == [s \in Sessions |-> StatusOf(s)]
RoomBase == [s \in Sessions |-> IF Greeted(s) THEN snap[s] ELSE Nothing]
RoomOwed == [s \in Sessions |-> {p \in Broadcasts : Live(s, p)}]

Abstractly ==
  INSTANCE Rooms WITH
    Clients   <- Sessions,
    log       <- streams,
    announced <- published,
    status    <- RoomStatus,
    base      <- RoomBase,
    owed      <- RoomOwed,
    given     <- sent

ImplementsRooms == Abstractly!Spec

\* Whoever wants to write, run() or a broadcast, gets the lock or is notified when
\* it becomes free: each holder drops it, whatever becomes of its request, its
\* write and its session.  Not more is promised: one that was notified may find
\* that another was faster and has to wait again (async_mutex.hpp), each time.
EveryWriterIsNotified ==
  \A s \in Sessions, c \in Coroutines :
    co[s][c] \in {"spawned", "waiting"} ~> co[s][c] \notin {"spawned", "waiting"}

\* Whatever run() waits for comes, or it is over: it reads the next event, or has
\* its answer and waits for the lock, of which EveryWriterIsNotified tells.
EveryRequestEnds ==
  \A s \in Sessions :
    pc[s] # "reading" ~> pc[s] \in {"reading", "histLock", "ended"}

\* A session that is over gives up its connection, also when coroutines were
\* still waiting for its mutex.
EndedIsReleased ==
  \A s \in Sessions : pc[s] = "ended" ~> sock[s] = "closed"
=============================================================================
