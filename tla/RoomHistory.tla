----------------------------- MODULE RoomHistory -----------------------------
(***************************************************************************)
(* The histories the server hands out: the hello shows the newest messages *)
(* of every room, a roomHistory event those of one room.  Each takes two   *)
(* awaits: the messages come from Redis, the names of their authors from   *)
(* MySQL; accounts are created and messages stored in between.             *)
(*                                                                         *)
(* A stream only grows and XREVRANGE reads it from the end, so a batch of  *)
(* messages is an interval lo..hi of a stream, shown from hi down to lo,   *)
(* and the id of a message is its index.                                   *)
(***************************************************************************)
EXTENDS Integers, Sequences

CONSTANTS
  Sessions,          \* the websocket sessions
  RoomIds,           \* the rooms of the hello
  Keys,              \* the room ids a client may name
  UserIds,           \* the ids MySQL may give to an account
  MessageBatchSize,  \* redis_client::message_batch_size
  MaxMessages        \* bound: messages in one stream

ASSUME HistoryAssumption ==
  /\ RoomIds \subseteq Keys
  /\ MessageBatchSize \in Nat \ {0}
  /\ MaxMessages \in Nat

VARIABLES
  users,    \* the ids in table users
  streams,  \* the Redis streams: the author of every message
  stage,    \* how far the request of each session is
  asked,    \* the rooms of that request, and the firstMessageId it names
  batches,  \* the batch of each room that the session fetched last
  names     \* the users whose names were fetched with it

vars == <<users, streams, stage, asked, batches, names>>
-----------------------------------------------------------------------------
Stages == {"connected", "redis", "mysql", "sent", "ended"}

Batch == [lo : Nat, hi : Nat, hasMore : BOOLEAN]
NoBatch == [lo |-> 1, hi |-> 0, hasMore |-> FALSE]
Question == [rooms : SUBSET Keys, first : Nat]

TypeOK ==
  /\ users \subseteq UserIds
  /\ streams \in [Keys -> Seq(UserIds)]
  /\ stage \in [Sessions -> Stages]
  /\ asked \in [Sessions -> Question]
  /\ batches \in [Sessions -> [Keys -> Batch]]
  /\ names \in [Sessions -> SUBSET UserIds]

Init ==
  /\ users = {}
  /\ streams = [k \in Keys |-> << >>]
  /\ stage = [s \in Sessions |-> "connected"]
  /\ asked = [s \in Sessions |-> [rooms |-> {}, first |-> 0]]
  /\ batches = [s \in Sessions |-> [k \in Keys |-> NoBatch]]
  /\ names = [s \in Sessions |-> {}]
-----------------------------------------------------------------------------
\* Mutant: has_more only above the batch size.
HistoryTooEager(k) ==
  LET n == Len(streams[k])
      lo == IF n > MessageBatchSize THEN n - MessageBatchSize + 1 ELSE 1
  IN  [lo |-> lo, hi |-> n, hasMore |-> n - lo + 1 > MessageBatchSize]

\* Mutant: the end of the interval is one message too far.
HistoryTooLong(k) ==
  LET n == Len(streams[k])
      lo == IF n > MessageBatchSize THEN n - MessageBatchSize ELSE 1
  IN  [lo |-> lo, hi |-> n, hasMore |-> n - lo + 1 >= MessageBatchSize]

\* XREVRANGE k + - COUNT message_batch_size, and the flag set from its length.
History(k) ==
  LET n == Len(streams[k])
      lo == IF n > MessageBatchSize THEN n - MessageBatchSize + 1 ELSE 1
  IN  [lo |-> lo, hi |-> n, hasMore |-> n - lo + 1 >= MessageBatchSize]

Messages(b) == b.lo..b.hi

\* Mutant: only the newest message of each room is looked at.
UniqueUserIdsOfNewest(bs, rooms) ==
  {streams[k][bs[k].hi] : k \in {r \in rooms : bs[r].hi > 0}}

\* unique_user_ids(): the authors of the messages of all the batches.
UniqueUserIds(bs, rooms) ==
  UNION {{streams[k][i] : i \in Messages(bs[k])} : k \in rooms}
-----------------------------------------------------------------------------
\* create_user(): an account, and with it a row that is never deleted.
CreateUser(u) ==
  /\ u \notin users
  /\ users' = users \cup {u}
  /\ UNCHANGED <<streams, stage, asked, batches, names>>

\* A session that authenticated as u stores a message.
StoreMessage(u, k) ==
  /\ u \in users
  /\ Len(streams[k]) < MaxMessages
  /\ streams' = [streams EXCEPT ![k] = Append(@, u)]
  /\ UNCHANGED <<users, stage, asked, batches, names>>

\* get_hello_data(): all the rooms, no first message.
AskHello(s) ==
  /\ stage[s] = "connected"
  /\ stage' = [stage EXCEPT ![s] = "redis"]
  /\ asked' = [asked EXCEPT ![s] = [rooms |-> RoomIds, first |-> 0]]
  /\ UNCHANGED <<users, streams, batches, names>>

\* A requestRoomHistory event: firstMessageId names the oldest message of the
\* room the client was sent, if there is one.
AskRoomHistory(s, k) ==
  /\ stage[s] = "sent"
  /\ stage' = [stage EXCEPT ![s] = "redis"]
  /\ asked' = [asked EXCEPT ![s] =
                 [rooms |-> {k},
                  first |-> IF batches[s][k].hi > 0 THEN batches[s][k].lo ELSE 0]]
  /\ UNCHANGED <<users, streams, batches, names>>

\* Redis carries the request out: all its rooms at one moment, as they travel
\* in one pipeline.  Without a message there is no user to look up.
RedisAnswers(s) ==
  /\ stage[s] = "redis"
  /\ LET fetched == [k \in Keys |-> IF k \in asked[s].rooms THEN History(k)
                                    ELSE batches[s][k]]
     IN  /\ batches' = [batches EXCEPT ![s] = fetched]
         /\ stage' = [stage EXCEPT ![s] =
                        IF UniqueUserIds(fetched, asked[s].rooms) = {}
                        THEN "sent" ELSE "mysql"]
  /\ names' = [names EXCEPT ![s] = {}]
  /\ UNCHANGED <<users, streams, asked>>

\* get_usernames() finds the rows that exist when MySQL runs the query; the
\* event is then written.
MySQLAnswers(s) ==
  /\ stage[s] = "mysql"
  /\ names' = [names EXCEPT ![s] =
                 UniqueUserIds(batches[s], asked[s].rooms) \cap users]
  /\ stage' = [stage EXCEPT ![s] = "sent"]
  /\ UNCHANGED <<users, streams, asked, batches>>

\* An error of either database ends the session.
Fails(s) ==
  /\ stage[s] \in {"redis", "mysql"}
  /\ stage' = [stage EXCEPT ![s] = "ended"]
  /\ UNCHANGED <<users, streams, asked, batches, names>>

Next ==
  \/ \E u \in UserIds : CreateUser(u)
  \/ \E u \in UserIds, k \in Keys : StoreMessage(u, k)
  \/ \E s \in Sessions :
       \/ AskHello(s) \/ RedisAnswers(s) \/ MySQLAnswers(s) \/ Fails(s)
       \/ \E k \in Keys : AskRoomHistory(s, k)

Spec == Init /\ [][Next]_vars
-----------------------------------------------------------------------------
\* The session has an event out, with the batches of these rooms.
Shown(s, k) == stage[s] = "sent" /\ k \in asked[s].rooms

\* A client that is told that there is nothing more to load has the room from
\* its first message on; and no batch is longer than message_batch_size.
NothingIsHidden ==
  \A s \in Sessions, k \in Keys : Shown(s, k) =>
    LET b == batches[s][k]
    IN  /\ ~b.hasMore => b.lo = 1
        /\ b.hi - b.lo + 1 <= MessageBatchSize

\* serialize_messages() never has to default a name to the empty string: an
\* author has an account before the message, and the names are read after it.
EveryAuthorIsNamed ==
  \A s \in Sessions, k \in Keys : Shown(s, k) =>
    \A i \in Messages(batches[s][k]) : streams[k][i] \in names[s]

\* The comment on firstMessageId, "a pagination mechanism": what a client is
\* sent for it is older than the message it named.
OnlyOlderMessages ==
  \A s \in Sessions, k \in Keys :
    Shown(s, k) /\ asked[s].first > 0 => batches[s][k].hi < asked[s].first

\* What keeps the two properties: a batch that was fetched is an interval of
\* its stream that reaches down to the first message or says that there is
\* more; every author has an account.
FetchedInv(s, k) ==
  LET b == batches[s][k]
  IN  /\ b.lo >= 1
      /\ b.hi <= Len(streams[k])
      /\ b.hi - b.lo + 1 <= MessageBatchSize
      /\ ~b.hasMore => b.lo = 1
      /\ Shown(s, k) => \A i \in Messages(b) : streams[k][i] \in names[s]

IInv ==
  /\ TypeOK
  /\ \A k \in Keys : \A i \in DOMAIN streams[k] : streams[k][i] \in users
  /\ \A s \in Sessions, k \in Keys : FetchedInv(s, k)
=============================================================================
