-------------------------- MODULE RoomHistoryProofs --------------------------
(***************************************************************************)
(* Proofs about RoomHistory, for any sets of sessions, room ids and users  *)
(* and any batch size: a client that is told there is nothing more to load *)
(* has everything, and every message comes with the name of its author.    *)
(***************************************************************************)
EXTENDS RoomHistory, TLAPS

\* What XREVRANGE returns is a batch that ends with the newest message, is no
\* longer than the limit, and reaches the first message unless it says so.
LEMMA HistoryFacts ==
  ASSUME TypeOK, NEW k \in Keys
  PROVE  /\ History(k) \in Batch
         /\ History(k).lo >= 1
         /\ History(k).hi = Len(streams[k])
         /\ History(k).hi - History(k).lo + 1 <= MessageBatchSize
         /\ ~History(k).hasMore => History(k).lo = 1
<1> DEFINE n == Len(streams[k])
           lo == IF n > MessageBatchSize THEN n - MessageBatchSize + 1 ELSE 1
           more == n - lo + 1 >= MessageBatchSize
<1>1. n \in Nat /\ MessageBatchSize \in Nat \ {0}
  BY HistoryAssumption DEF TypeOK
<1>2. /\ lo \in Nat /\ lo >= 1
      /\ n - lo + 1 <= MessageBatchSize
      /\ ~more => lo = 1
  BY <1>1
<1>3. more \in BOOLEAN
  OBVIOUS
<1>4. History(k) = [lo |-> lo, hi |-> n, hasMore |-> more]
  BY DEF History
<1> HIDE DEF n, lo, more
<1>5. History(k) \in Batch
  BY <1>1, <1>2, <1>3, <1>4 DEF Batch
<1> QED BY <1>2, <1>4, <1>5 DEF n

\* Nothing is fetched in the initial state.
LEMMA InitHistory == Init => IInv
<1> SUFFICES ASSUME Init PROVE IInv
  OBVIOUS
<1>1. NoBatch \in Batch /\ NoBatch.lo = 1 /\ NoBatch.hi = 0
  BY DEF NoBatch, Batch
<1>2. TypeOK
  BY <1>1 DEF Init, TypeOK, Stages, Question
<1>3. \A s \in Sessions, k \in Keys : FetchedInv(s, k)
  BY <1>1, HistoryAssumption DEF Init, FetchedInv, Shown, NoBatch
<1> QED BY <1>2, <1>3 DEF IInv, Init

\* A batch stays what it is when the streams grow and accounts are created.
LEMMA GrowthKeepsFetched ==
  ASSUME IInv, UNCHANGED <<stage, asked, batches, names>>,
         streams' \in [Keys -> Seq(UserIds)],
         \A k \in Keys : /\ Len(streams[k]) <= Len(streams'[k])
                         /\ \A i \in 1..Len(streams[k]) :
                              streams'[k][i] = streams[k][i]
  PROVE  \A s \in Sessions, k \in Keys : FetchedInv(s, k)'
<1> TAKE s \in Sessions, k \in Keys
<1>1. FetchedInv(s, k) /\ batches[s][k] \in Batch
  BY DEF IInv, TypeOK
<1>2. Len(streams[k]) \in Nat /\ Len(streams'[k]) \in Nat
  BY DEF IInv, TypeOK
<1>3. Messages(batches[s][k]) \subseteq 1..Len(streams[k])
  BY <1>1, <1>2 DEF FetchedInv, Messages, Batch
<1>4. \A i \in Messages(batches[s][k]) : streams'[k][i] = streams[k][i]
  BY <1>3
<1>5. Shown(s, k)' <=> Shown(s, k)
  BY DEF Shown
<1> QED BY <1>1, <1>2, <1>4, <1>5 DEF FetchedInv, Messages, Batch

\* A session that has no event out has only its fetched batches to vouch for.
LEMMA WaitingKeepsFetched ==
  ASSUME IInv, NEW s \in Sessions, NEW to \in {"redis", "ended"},
         UNCHANGED <<streams, batches, names>>,
         stage' = [stage EXCEPT ![s] = to],
         \A t \in Sessions : t # s => asked'[t] = asked[t]
  PROVE  \A t \in Sessions, k \in Keys : FetchedInv(t, k)'
<1> TAKE t \in Sessions, k \in Keys
<1>1. FetchedInv(t, k)
  BY DEF IInv
<1>2. Shown(t, k)' => Shown(t, k)
  BY DEF Shown, IInv, TypeOK
<1> QED BY <1>1, <1>2 DEF FetchedInv, Messages

\* New accounts.
LEMMA CreateUserIInv ==
  ASSUME IInv, NEW u \in UserIds, CreateUser(u)
  PROVE  IInv'
<1>1. TypeOK'
  BY DEF IInv, TypeOK, CreateUser
<1>2. \A s \in Sessions, k \in Keys : FetchedInv(s, k)'
  BY GrowthKeepsFetched DEF CreateUser, IInv, TypeOK
<1> QED BY <1>1, <1>2 DEF IInv, CreateUser

\* New messages, whose authors have accounts.
LEMMA StoreMessageIInv ==
  ASSUME IInv, NEW u \in UserIds, NEW k \in Keys, StoreMessage(u, k)
  PROVE  IInv'
<1>1. streams[k] \in Seq(UserIds) /\ u \in users
  BY DEF IInv, TypeOK, StoreMessage
<1>2. /\ streams' = [streams EXCEPT ![k] = Append(streams[k], u)]
      /\ UNCHANGED <<users, stage, asked, batches, names>>
  BY DEF StoreMessage
<1>3. /\ Append(streams[k], u) \in Seq(UserIds)
      /\ Len(Append(streams[k], u)) = Len(streams[k]) + 1
      /\ \A i \in 1..Len(streams[k]) : Append(streams[k], u)[i] = streams[k][i]
      /\ Append(streams[k], u)[Len(streams[k]) + 1] = u
  BY <1>1
<1>4. /\ streams' \in [Keys -> Seq(UserIds)]
      /\ streams'[k] = Append(streams[k], u)
      /\ \A j \in Keys : j # k => streams'[j] = streams[j]
  BY <1>2, <1>3 DEF IInv, TypeOK
<1>5. TypeOK'
  BY <1>2, <1>4 DEF IInv, TypeOK
<1>6. \A j \in Keys : Len(streams[j]) \in Nat
  BY DEF IInv, TypeOK
<1>7. \A s \in Sessions, j \in Keys : FetchedInv(s, j)'
  BY <1>2, <1>3, <1>4, <1>6, GrowthKeepsFetched
<1>8. ASSUME NEW j \in Keys, NEW i \in DOMAIN streams'[j]
      PROVE  streams'[j][i] \in users'
  <2>1. CASE j = k
    <3>1. i \in 1..Len(streams[k]) \/ i = Len(streams[k]) + 1
      BY <1>3, <1>4, <1>6, <1>8, <2>1
    <3>2. \A m \in 1..Len(streams[k]) : streams[k][m] \in users
      BY <1>1 DEF IInv
    <3> QED BY <1>1, <1>2, <1>3, <1>4, <2>1, <3>1, <3>2
  <2>2. CASE j # k
    BY <1>2, <1>4, <1>8, <2>2 DEF IInv
  <2> QED BY <2>1, <2>2
<1> QED BY <1>5, <1>7, <1>8 DEF IInv

\* A session that starts a request has no event out any more.
LEMMA AskIInv ==
  ASSUME IInv, NEW s \in Sessions,
         AskHello(s) \/ \E k \in Keys : AskRoomHistory(s, k)
  PROVE  IInv'
<1>1. /\ UNCHANGED <<users, streams, batches, names>>
      /\ stage' = [stage EXCEPT ![s] = "redis"]
  BY DEF AskHello, AskRoomHistory
<1>2. PICK q \in Question : asked' = [asked EXCEPT ![s] = q]
  <2>1. CASE AskHello(s)
    BY <2>1, HistoryAssumption DEF AskHello, Question
  <2>2. CASE \E k \in Keys : AskRoomHistory(s, k)
    <3>1. PICK k \in Keys : AskRoomHistory(s, k)
      BY <2>2
    <3>2. batches[s][k].lo \in Nat
      BY DEF IInv, TypeOK, Batch
    <3> DEFINE first == IF batches[s][k].hi > 0 THEN batches[s][k].lo ELSE 0
    <3>3. first \in Nat
      BY <3>2
    <3>4. asked' = [asked EXCEPT ![s] = [rooms |-> {k}, first |-> first]]
      BY <3>1 DEF AskRoomHistory
    <3> HIDE DEF first
    <3>5. [rooms |-> {k}, first |-> first] \in Question
      BY <3>3 DEF Question
    <3> QED BY <3>4, <3>5
  <2> QED BY <2>1, <2>2
<1>3. TypeOK'
  BY <1>1, <1>2 DEF IInv, TypeOK, Stages
<1>4. \A t \in Sessions, k \in Keys : FetchedInv(t, k)'
  BY <1>1, <1>2, WaitingKeepsFetched DEF IInv, TypeOK
<1> QED BY <1>1, <1>3, <1>4 DEF IInv

\* The answer of Redis replaces the batches of the rooms that were asked for;
\* the event goes out at once only when there is no message in them.
LEMMA RedisAnswersIInv ==
  ASSUME IInv, NEW s \in Sessions, RedisAnswers(s)
  PROVE  IInv'
<1> DEFINE rooms == asked[s].rooms
           fetched == [k \in Keys |-> IF k \in rooms THEN History(k)
                                      ELSE batches[s][k]]
<1>1. /\ TypeOK
      /\ rooms \subseteq Keys
      /\ batches' = [batches EXCEPT ![s] = fetched]
      /\ stage' = [stage EXCEPT ![s] = IF UniqueUserIds(fetched, rooms) = {}
                                       THEN "sent" ELSE "mysql"]
      /\ names' = [names EXCEPT ![s] = {}]
      /\ UNCHANGED <<users, streams, asked>>
  BY DEF IInv, TypeOK, RedisAnswers, Question
<1>2. fetched \in [Keys -> Batch]
  BY <1>1, HistoryFacts DEF TypeOK
<1>3. TypeOK'
  BY <1>1, <1>2 DEF TypeOK, Stages
<1>4. ASSUME NEW t \in Sessions, NEW k \in Keys, t # s PROVE FetchedInv(t, k)'
  <2>1. /\ FetchedInv(t, k)
        /\ batches'[t] = batches[t] /\ names'[t] = names[t]
        /\ stage'[t] = stage[t]
    BY <1>1, <1>4 DEF IInv, TypeOK
  <2> QED BY <1>1, <2>1 DEF FetchedInv, Shown, Messages
<1>5. ASSUME NEW k \in Keys PROVE FetchedInv(s, k)'
  <2>1. batches'[s][k] = IF k \in rooms THEN History(k) ELSE batches[s][k]
    BY <1>1, <1>2 DEF TypeOK
  <2>2. FetchedInv(s, k) /\ batches[s][k] \in Batch /\ Len(streams[k]) \in Nat
    BY DEF IInv, TypeOK
  <2>3. ASSUME Shown(s, k)' PROVE Messages(batches'[s][k]) = {}
    <3>1. k \in rooms /\ UniqueUserIds(fetched, rooms) = {}
      BY <1>1, <2>3 DEF Shown, TypeOK
    <3>2. {streams[k][i] : i \in Messages(fetched[k])} = {}
      BY <3>1 DEF UniqueUserIds
    <3> QED BY <2>1, <3>1, <3>2
  <2>4. Shown(s, k)' =>
          \A i \in Messages(batches'[s][k]) : streams'[k][i] \in names'[s]
    BY <2>3
  <2>5. CASE k \in rooms
    BY <1>1, <2>1, <2>2, <2>4, <2>5, HistoryFacts DEF FetchedInv, Batch
  <2>6. CASE k \notin rooms
    BY <1>1, <2>1, <2>2, <2>4, <2>6 DEF FetchedInv
  <2> QED BY <2>5, <2>6
<1> QED BY <1>1, <1>3, <1>4, <1>5 DEF IInv

\* The answer of MySQL names every author, as all of them have accounts.
LEMMA MySQLAnswersIInv ==
  ASSUME IInv, NEW s \in Sessions, MySQLAnswers(s)
  PROVE  IInv'
<1> DEFINE found == UniqueUserIds(batches[s], asked[s].rooms) \cap users
<1>1. /\ TypeOK
      /\ names' = [names EXCEPT ![s] = found]
      /\ stage' = [stage EXCEPT ![s] = "sent"]
      /\ UNCHANGED <<users, streams, asked, batches>>
  BY DEF IInv, MySQLAnswers
<1>2. TypeOK'
  BY <1>1 DEF TypeOK, Stages
<1>3. ASSUME NEW t \in Sessions, NEW k \in Keys, t # s PROVE FetchedInv(t, k)'
  <2>1. FetchedInv(t, k) /\ names'[t] = names[t] /\ stage'[t] = stage[t]
    BY <1>1, <1>3 DEF IInv, TypeOK
  <2> QED BY <1>1, <2>1 DEF FetchedInv, Shown, Messages
<1>4. ASSUME NEW k \in Keys PROVE FetchedInv(s, k)'
  <2>1. FetchedInv(s, k) /\ batches[s][k] \in Batch /\ streams[k] \in Seq(UserIds)
    BY DEF IInv, TypeOK
  <2>2. ASSUME k \in asked[s].rooms, NEW i \in Messages(batches[s][k])
        PROVE  streams[k][i] \in found
    <3>1. i \in DOMAIN streams[k]
      BY <2>1, <2>2 DEF FetchedInv, Messages, Batch
    <3>2. streams[k][i] \in users
      BY <3>1 DEF IInv
    <3>3. streams[k][i] \in UniqueUserIds(batches[s], asked[s].rooms)
      BY <2>2 DEF UniqueUserIds
    <3> QED BY <3>2, <3>3
  <2>3. names'[s] = found
    BY <1>1 DEF TypeOK
  <2>4. Shown(s, k)' =>
          \A i \in Messages(batches[s][k]) : streams[k][i] \in names'[s]
    BY <1>1, <2>2, <2>3 DEF Shown
  <2> QED BY <1>1, <2>1, <2>4 DEF FetchedInv, Messages
<1> QED BY <1>1, <1>2, <1>3, <1>4 DEF IInv

\* A session that ends has no event out.
LEMMA FailsIInv ==
  ASSUME IInv, NEW s \in Sessions, Fails(s)
  PROVE  IInv'
<1>1. TypeOK'
  BY DEF IInv, TypeOK, Stages, Fails
<1>2. \A t \in Sessions, k \in Keys : FetchedInv(t, k)'
  BY WaitingKeepsFetched DEF Fails
<1> QED BY <1>1, <1>2 DEF IInv, Fails

\* Every step keeps the invariant.
LEMMA StepHistory == IInv /\ [Next]_vars => IInv'
<1> SUFFICES ASSUME IInv, [Next]_vars PROVE IInv'
  OBVIOUS
<1>1. ASSUME NEW u \in UserIds, CreateUser(u) PROVE IInv'
  BY <1>1, CreateUserIInv
<1>2. ASSUME NEW u \in UserIds, NEW k \in Keys, StoreMessage(u, k) PROVE IInv'
  BY <1>2, StoreMessageIInv
<1>3. ASSUME NEW s \in Sessions,
             \/ AskHello(s) \/ RedisAnswers(s) \/ MySQLAnswers(s) \/ Fails(s)
             \/ \E k \in Keys : AskRoomHistory(s, k)
      PROVE  IInv'
  BY <1>3, AskIInv, RedisAnswersIInv, MySQLAnswersIInv, FailsIInv
<1>4. CASE UNCHANGED vars
  BY <1>4 DEF vars, IInv, TypeOK, FetchedInv, Shown, Messages
<1> QED BY <1>1, <1>2, <1>3, <1>4 DEF Next

\* The invariant holds in every reachable state.
THEOREM HistoryInvariant == Spec => []IInv
<1>1. Init => IInv
  BY InitHistory
<1>2. IInv /\ [Next]_vars => IInv'
  BY StepHistory
<1> QED BY <1>1, <1>2, PTL DEF Spec

\* A client that is not offered more has the whole room, and no batch exceeds
\* the limit, for every batch size.
THEOREM HidesNothing == Spec => []NothingIsHidden
<1>1. IInv => NothingIsHidden
  BY DEF IInv, FetchedInv, NothingIsHidden
<1> QED BY <1>1, HistoryInvariant, PTL

\* No message is shown without the name of its author, whatever accounts and
\* messages come in between the two queries.
THEOREM AuthorsAreNamed == Spec => []EveryAuthorIsNamed
<1>1. IInv => EveryAuthorIsNamed
  BY DEF IInv, FetchedInv, EveryAuthorIsNamed
<1> QED BY <1>1, HistoryInvariant, PTL
=============================================================================
