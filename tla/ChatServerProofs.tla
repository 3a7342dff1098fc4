-------------------------- MODULE ChatServerProofs --------------------------
(***************************************************************************)
(* Proofs about ChatServer, for any sets of sessions, rooms and room ids   *)
(* and any bounds, with or without the replacement of the process.         *)
(*                                                                         *)
(* The sessions come first: SessionsInv is inductive by itself, and gives  *)
(* that frames are written one at a time, that no wakeup of the write      *)
(* mutex is lost, that the hello comes first for every client that is      *)
(* served, and that no broadcast is started for a session that is over.    *)
(* With it, RedisInv is inductive: what the queues, the streams and the    *)
(* broadcasts know of each other.  With both, Delivery is: what a client   *)
(* is owed, from its subscription on.  FramesFit says what it is written.  *)
(* The conjunction is IInv.  The refinement of Rooms rests on it, and what *)
(* clients show (ChatView) follows from it by induction over the frames.   *)
(***************************************************************************)
EXTENDS ChatView, MutexLemmas, FiniteSetTheorems, WellFoundedInduction

\* run() and the broadcasts are different coroutines.
LEMMA CoroutineFacts ==
  /\ Run \in Coroutines
  /\ Broadcasts \subseteq Coroutines
  /\ Run \notin Broadcasts
  /\ \A c \in Coroutines : c = Run \/ c \in Broadcasts
BY ConstantsAssumption DEF Run, Broadcasts, Coroutines

\* One attempt to take the write mutex of s keeps it sound and concerns no
\* other coroutine.
LEMMA LockWritesFacts ==
  ASSUME NEW s \in Sessions, NEW c \in Coroutines,
         mtx \in [Sessions -> MutexType(Coroutines)],
         co \in [Sessions -> [Coroutines -> CoStates]],
         Sound(mtx[s], co[s]),
         co[s][c] \notin {"waiting", "holding"},
         LockWrites(s, c)
  PROVE  /\ mtx' \in [Sessions -> MutexType(Coroutines)]
         /\ co' \in [Sessions -> [Coroutines -> CoStates]]
         /\ \A t \in Sessions : t # s => mtx'[t] = mtx[t] /\ co'[t] = co[t]
         /\ Sound(mtx'[s], co'[s])
         /\ co'[s][c] = IF mtx[s].locked THEN "waiting" ELSE "holding"
         /\ \A d \in Coroutines : d # c => co'[s][d] = co[s][d]
<1> DEFINE v == IF mtx[s].locked THEN "waiting" ELSE "holding"
<1>1. v \in CoStates
  BY DEF CoStates
<1>2. LockStep(mtx[s], c) \in MutexType(Coroutines)
  BY LockStepType
<1>3. /\ mtx' = [mtx EXCEPT ![s] = LockStep(mtx[s], c)]
      /\ co' = [co EXCEPT ![s] = [co[s] EXCEPT ![c] = v]]
  BY DEF LockWrites
<1>4. /\ mtx' \in [Sessions -> MutexType(Coroutines)]
      /\ \A t \in Sessions : t # s => mtx'[t] = mtx[t]
      /\ mtx'[s] = LockStep(mtx[s], c)
  BY <1>2, <1>3
<1>5. co[s] \in [Coroutines -> CoStates]
  OBVIOUS
<1>6. /\ [co[s] EXCEPT ![c] = v] \in [Coroutines -> CoStates]
      /\ [co[s] EXCEPT ![c] = v][c] = v
      /\ \A d \in Coroutines : d # c => [co[s] EXCEPT ![c] = v][d] = co[s][d]
  BY <1>1, <1>5
<1>7. /\ co' \in [Sessions -> [Coroutines -> CoStates]]
      /\ \A t \in Sessions : t # s => co'[t] = co[t]
      /\ co'[s] = [co[s] EXCEPT ![c] = v]
  BY <1>3, <1>6
<1>8. /\ DOMAIN co[s] = Coroutines /\ DOMAIN co'[s] = Coroutines
      /\ \A d \in Coroutines : co'[s][d] = IF d = c THEN v ELSE co[s][d]
  BY <1>5, <1>6, <1>7
<1>9. mtx[s] \in MutexType(Coroutines)
  OBVIOUS
<1>10. Sound(LockStep(mtx[s], c), co'[s])
  <2>1. CASE mtx[s].locked
    BY <2>1, <1>8, <1>9, SuspendSound
  <2>2. CASE ~mtx[s].locked
    BY <2>2, <1>8, <1>9, TakeSound
  <2> QED BY <2>1, <2>2
<1> QED BY <1>4, <1>7, <1>8, <1>10

\* Dropping the write_guard of s keeps the mutex sound; among the other
\* coroutines it only turns a waiting one into a woken one.
LEMMA UnlockWritesFacts ==
  ASSUME NEW s \in Sessions, NEW c \in Coroutines, NEW st \in {"none", "done"},
         mtx \in [Sessions -> MutexType(Coroutines)],
         co \in [Sessions -> [Coroutines -> CoStates]],
         Sound(mtx[s], co[s]),
         co[s][c] = "holding",
         UnlockWrites(s, c, st)
  PROVE  /\ mtx' \in [Sessions -> MutexType(Coroutines)]
         /\ co' \in [Sessions -> [Coroutines -> CoStates]]
         /\ \A t \in Sessions : t # s => mtx'[t] = mtx[t] /\ co'[t] = co[t]
         /\ Sound(mtx'[s], co'[s])
         /\ co'[s][c] = st
         /\ \A d \in Coroutines : d # c =>
              \/ co'[s][d] = co[s][d]
              \/ (co[s][d] = "waiting" /\ co'[s][d] = "woken")
<1> DEFINE q == [d \in Coroutines |->
                   IF d = c THEN st
                   ELSE IF d \in Notified(mtx[s]) THEN "woken" ELSE co[s][d]]
<1>1. st \in CoStates /\ "woken" \in CoStates
  BY DEF CoStates
<1>2. Unlocked(mtx[s]) \in MutexType(Coroutines)
  BY UnlockedType
<1>3. /\ mtx' = [mtx EXCEPT ![s] = Unlocked(mtx[s])]
      /\ co' = [co EXCEPT ![s] = q]
  BY DEF UnlockWrites
<1>4. /\ mtx' \in [Sessions -> MutexType(Coroutines)]
      /\ \A t \in Sessions : t # s => mtx'[t] = mtx[t]
      /\ mtx'[s] = Unlocked(mtx[s])
  BY <1>2, <1>3
<1>5. co[s] \in [Coroutines -> CoStates] /\ mtx[s] \in MutexType(Coroutines)
  OBVIOUS
<1>6. q \in [Coroutines -> CoStates]
  BY <1>1, <1>5
<1>7. /\ co' \in [Sessions -> [Coroutines -> CoStates]]
      /\ \A t \in Sessions : t # s => co'[t] = co[t]
      /\ co'[s] = q
  BY <1>3, <1>6
<1>8. /\ DOMAIN co[s] = Coroutines /\ DOMAIN q = Coroutines
      /\ q[c] = st
      /\ \A d \in Coroutines : d # c =>
           q[d] = IF d \in Notified(mtx[s]) THEN "woken" ELSE co[s][d]
  BY <1>5
<1> HIDE DEF q
<1>9. Sound(Unlocked(mtx[s]), q)
  BY <1>5, <1>8, ReleaseSound
<1>10. \A d \in Notified(mtx[s]) : co[s][d] = "waiting"
  BY <1>5, <1>8, NotifiedWaits
<1>11. \A d \in Coroutines : d # c =>
         \/ q[d] = co[s][d]
         \/ (co[s][d] = "waiting" /\ q[d] = "woken")
  BY <1>8, <1>10
<1> QED BY <1>4, <1>7, <1>8, <1>9, <1>11

\* What a session knows is not disturbed by a step of another one.
LEMMA Undisturbed ==
  ASSUME NEW t \in Sessions, SessionInv(t),
         mtx'[t] = mtx[t], co'[t] = co[t], pc'[t] = pc[t],
         sent'[t] = sent[t], req'[t] = req[t], published' = published,
         \A e \in subs' : e \in subs \/ e[2] # t
  PROVE  SessionInv(t)'
BY DEF SessionInv
-----------------------------------------------------------------------------
\* The parts of the type invariant that the steps disturb separately.
RedisType ==
  /\ redisQ \in Seq(Sessions)
  /\ replyQ \in Seq(Answer)
  /\ orphans \in Seq(Sessions)
  /\ streams \in [Keys -> Seq(Sessions)]

MutexTypes ==
  /\ mtx \in [Sessions -> MutexType(Coroutines)]
  /\ co \in [Sessions -> [Coroutines -> CoStates]]

RestType ==
  /\ pc \in [Sessions -> States]
  /\ sock \in [Sessions -> {"open", "closed"}]
  /\ subs \subseteq RoomIds \X Sessions
  /\ published \in Seq(Broadcast)
  /\ snap \in [Sessions -> Positions]
  /\ sent \in [Sessions -> Seq(Frame)]
  /\ events \in 0..MaxEvents

ReqType == req \in [Sessions -> Request \cup {NoReq}]

\* The type invariant is the conjunction of these four parts.
LEMMA TypeParts == TypeOK <=> RedisType /\ MutexTypes /\ RestType /\ ReqType
BY DEF TypeOK, RedisType, MutexTypes, RestType, ReqType

\* Sending a request keeps the queues well formed.
LEMMA AskRedisType ==
  ASSUME RedisType, NEW s \in Sessions, AskRedis(s)
  PROVE  RedisType'
BY DEF RedisType, AskRedis

\* So does taking an answer, which is one that Redis may give.
LEMMA TakeReplyType ==
  ASSUME RedisType, NEW s \in Sessions, TakeReply(s)
  PROVE  RedisType' /\ Reply.ok \in BOOLEAN /\ Reply.at \in Positions
<1>1. Head(replyQ) \in Answer
  BY DEF RedisType, TakeReply
<1>2. Tail(replyQ) \in Seq(Answer)
  BY DEF RedisType, TakeReply
<1> QED BY <1>1, <1>2 DEF RedisType, TakeReply, Reply, Answer

\* A step that concerns neither queue nor stream keeps them well formed.
LEMMA RedisUnchanged ==
  ASSUME RedisType, UNCHANGED redisVars
  PROVE  RedisType'
BY DEF RedisType, redisVars

\* When run() returns, from wherever but the wait for the mutex, its session
\* is over, unsubscribed, and does not hold the mutex.
LEMMA FinishFacts ==
  ASSUME SessionsInv, NEW s \in Sessions, NEW broken \in BOOLEAN,
         pc[s] # "histLock", Finish(s, broken),
         \A t \in Sessions : t # s => req'[t] = req[t]
  PROVE  MutexTypes' /\ RestType' /\ \A t \in Sessions : SessionInv(t)'
<1>1. MutexTypes /\ RestType /\ (\A t \in Sessions : SessionInv(t))
  BY TypeParts DEF SessionsInv
<1>2. /\ MutexTypes'
      /\ \A t \in Sessions : t # s => mtx'[t] = mtx[t] /\ co'[t] = co[t]
      /\ Sound(mtx'[s], co'[s])
      /\ co'[s][Run] = "none"
      /\ \A p \in Broadcasts : co[s][p] = "none" => co'[s][p] = "none"
  <2>1. CASE co[s][Run] = "holding"
    <3>1. UnlockWrites(s, Run, "none") /\ Sound(mtx[s], co[s])
      BY <1>1, <2>1 DEF Finish, SessionInv
    <3> QED BY <1>1, <2>1, <3>1, UnlockWritesFacts, CoroutineFacts
            DEF MutexTypes
  <2>2. CASE co[s][Run] # "holding"
    <3>1. UNCHANGED <<mtx, co>>
      BY <2>2 DEF Finish
    <3>2. co[s][Run] = "none" /\ Sound(mtx[s], co[s])
      BY <1>1, <2>2 DEF SessionInv
    <3> QED BY <1>1, <3>1, <3>2 DEF MutexTypes
  <2> QED BY <2>1, <2>2
<1>3. /\ pc' = [pc EXCEPT ![s] = "ended"]
      /\ subs' = {e \in subs : e[2] # s}
      /\ UNCHANGED <<published, snap, sent, events>>
  BY DEF Finish
<1>4. RestType'
  <2>1. sock' \in [Sessions -> {"open", "closed"}]
    BY <1>1 DEF Finish, RestType
  <2>2. pc' \in [Sessions -> States]
    BY <1>1, <1>3 DEF RestType, States
  <2> QED BY <1>1, <1>3, <2>1, <2>2 DEF RestType
<1>5. ASSUME NEW t \in Sessions, t # s PROVE SessionInv(t)'
  BY <1>1, <1>2, <1>3, <1>5, Undisturbed DEF RestType
<1>6. SessionInv(s)'
  <2>1. pc'[s] = "ended"
    BY <1>1, <1>3 DEF RestType
  <2>2. \A p \in Broadcasts : p > Len(published') => co'[s][p] = "none"
    BY <1>1, <1>2, <1>3 DEF SessionInv
  <2> QED BY <1>2, <1>3, <2>1, <2>2 DEF SessionInv, Greeting
<1> QED BY <1>2, <1>4, <1>5, <1>6
-----------------------------------------------------------------------------
\* The parts of the invariant, as the proofs of the actions use them.
LEMMA SessionsParts ==
  ASSUME SessionsInv
  PROVE  /\ RedisType /\ MutexTypes /\ RestType /\ ReqType
         /\ \A t \in Sessions : SessionInv(t)
BY TypeParts DEF SessionsInv

\* A step that keeps every part of the invariant keeps the invariant.
LEMMA SessionsFromParts ==
  ASSUME RedisType', MutexTypes', RestType', ReqType',
         \A t \in Sessions : SessionInv(t)'
  PROVE  SessionsInv'
BY DEF SessionsInv, TypeOK, RedisType, MutexTypes, RestType, ReqType

\* A fresh session takes its write mutex at once.
LEMMA AuthOkSessions ==
  ASSUME SessionsInv, NEW s \in Sessions, AuthOk(s)
  PROVE  SessionsInv'
<1>1. RedisType /\ MutexTypes /\ RestType /\ ReqType /\ (\A t \in Sessions : SessionInv(t))
  BY SessionsParts
<1>2. /\ Sound(mtx[s], co[s])
      /\ \A c \in Coroutines : co[s][c] = "none"
      /\ DOMAIN co[s] = Coroutines
  <2>1. co[s][Run] = "none" /\ \A p \in Broadcasts : co[s][p] = "none"
    BY <1>1 DEF AuthOk, SessionInv, Greeting
  <2> QED BY <1>1, <2>1, CoroutineFacts DEF SessionInv, MutexTypes
<1>3. ~mtx[s].locked
  BY <1>2 DEF Sound, Exclusive
<1>4. /\ MutexTypes'
      /\ \A t \in Sessions : t # s => mtx'[t] = mtx[t] /\ co'[t] = co[t]
      /\ Sound(mtx'[s], co'[s])
      /\ co'[s][Run] = "holding"
      /\ \A d \in Coroutines : d # Run => co'[s][d] = co[s][d]
  BY <1>1, <1>2, <1>3, LockWritesFacts, CoroutineFacts DEF AuthOk, MutexTypes
<1>5. /\ pc' = [pc EXCEPT ![s] = "helloRedis"]
      /\ subs' = subs \cup (RoomIds \X {s})
      /\ UNCHANGED <<sock, published, req, snap, sent, events>>
  BY DEF AuthOk
<1>6. RestType' /\ ReqType'
  BY <1>1, <1>5 DEF RestType, ReqType, States
<1>7. RedisType'
  BY <1>1, AskRedisType DEF AuthOk
<1>8. ASSUME NEW t \in Sessions, t # s PROVE SessionInv(t)'
  BY <1>1, <1>4, <1>5, <1>8, Undisturbed DEF RestType
<1>9. SessionInv(s)'
  <2>1. pc'[s] = "helloRedis" /\ pc[s] = "auth"
    BY <1>1, <1>5 DEF RestType, AuthOk
  <2>2. \A p \in Broadcasts : co'[s][p] = co[s][p]
    BY <1>4, CoroutineFacts
  <2> QED BY <1>1, <1>4, <1>5, <2>1, <2>2 DEF SessionInv, Greeting
<1> QED BY <1>4, <1>6, <1>7, <1>8, <1>9, SessionsFromParts

\* A step of run() from one state to another that leaves the mutex alone and
\* changes neither its frames nor its subscriptions.
LEMMA AdvanceSessions ==
  ASSUME SessionsInv, NEW s \in Sessions, NEW to \in States,
         pc' = [pc EXCEPT ![s] = to],
         UNCHANGED <<mtx, co, sock, subs, published, sent>>,
         snap' \in [Sessions -> Positions], events' \in 0..MaxEvents,
         RedisType', ReqType',
         \A t \in Sessions : t # s => req'[t] = req[t],
         \/ pc[s] = "auth" /\ to = "closing"
         \/ pc[s] \in Greeting /\ to \in Greeting
         \/ /\ pc[s] \in {"reading", "storing", "histRedis"}
            /\ to \in {"reading", "storing", "histRedis", "histNames"},
         to \in {"storing", "histRedis"} => req'[s] \in Request
  PROVE  SessionsInv'
<1>1. RedisType /\ MutexTypes /\ RestType /\ ReqType /\ (\A t \in Sessions : SessionInv(t))
  BY SessionsParts
<1>2. MutexTypes' /\ RestType'
  BY <1>1 DEF RestType, MutexTypes
<1>3. ASSUME NEW t \in Sessions, t # s PROVE SessionInv(t)'
  BY <1>1, <1>3, Undisturbed DEF RestType
<1>4. SessionInv(s)'
  <2>1. pc'[s] = to
    BY <1>1 DEF RestType
  <2> QED BY <1>1, <2>1 DEF SessionInv, Greeting
<1> QED BY <1>2, <1>3, <1>4, SessionsFromParts

\* run() returns.
LEMMA FinishSessions ==
  ASSUME SessionsInv, NEW s \in Sessions, NEW broken \in BOOLEAN,
         pc[s] # "histLock", Finish(s, broken),
         RedisType', ReqType',
         \A t \in Sessions : t # s => req'[t] = req[t]
  PROVE  SessionsInv'
BY FinishFacts, SessionsFromParts

\* Requests that are forgotten when they have been answered, or made.
LEMMA ReqReset ==
  ASSUME ReqType, NEW s \in Sessions, req' = [req EXCEPT ![s] = NoReq]
  PROVE  ReqType' /\ \A t \in Sessions : t # s => req'[t] = req[t]
BY DEF ReqType

\* A session that starts to dispatch an event notes a well formed request and
\* touches no other session's.
LEMMA ReqMade ==
  ASSUME ReqType, NEW s \in Sessions, NEW k \in Keys, NEW n \in Nat,
         req' = [req EXCEPT ![s] = [key |-> k, n |-> n]]
  PROVE  /\ ReqType'
         /\ req'[s] \in Request
         /\ \A t \in Sessions : t # s => req'[t] = req[t]
<1>1. [key |-> k, n |-> n] \in Request
  BY DEF Request
<1> QED BY <1>1 DEF ReqType

\* A step that leaves the requests alone keeps them well formed.
LEMMA ReqUnchanged ==
  ASSUME ReqType, UNCHANGED req
  PROVE  ReqType' /\ \A t \in Sessions : req'[t] = req[t]
BY DEF ReqType

\* A client that does not authenticate is sent to the closing handshake.
LEMMA AuthFailSessions ==
  ASSUME SessionsInv, NEW s \in Sessions, AuthFail(s)
  PROVE  SessionsInv'
<1>1. RedisType /\ RestType /\ ReqType
  BY SessionsParts
<1>2. RedisType' /\ ReqType' /\ \A t \in Sessions : req'[t] = req[t]
  BY <1>1, RedisUnchanged, ReqUnchanged DEF AuthFail
<1>3. "closing" \in States
  BY DEF States
<1> QED BY <1>1, <1>2, <1>3, AdvanceSessions DEF AuthFail, RestType

\* The end of the closing handshake is a return of run().
LEMMA CloseDoneSessions ==
  ASSUME SessionsInv, NEW s \in Sessions, CloseDone(s)
  PROVE  SessionsInv'
<1>1. RedisType' /\ ReqType' /\ \A t \in Sessions : req'[t] = req[t]
  BY SessionsParts, RedisUnchanged, ReqUnchanged DEF CloseDone
<1> QED BY <1>1, FinishSessions DEF CloseDone

\* The answer to the hello's request either ends run(), with the write lock
\* dropped, or moves it on with the lock kept.
LEMMA HelloReplySessions ==
  ASSUME SessionsInv, NEW s \in Sessions, HelloReply(s)
  PROVE  SessionsInv'
<1>1. RedisType /\ RestType /\ ReqType
  BY SessionsParts
<1>2. RedisType' /\ Reply.at \in Positions
  BY <1>1, TakeReplyType DEF HelloReply
<1>3. ReqType' /\ \A t \in Sessions : req'[t] = req[t]
  BY <1>1, ReqUnchanged DEF HelloReply
<1>4. CASE Finish(s, FALSE)
  BY <1>2, <1>3, <1>4, FinishSessions DEF HelloReply
<1>5. CASE /\ snap' = [snap EXCEPT ![s] = Reply.at]
           /\ pc' = [pc EXCEPT ![s] =
                       IF \A k \in RoomIds : Reply.at[k] = 0
                       THEN "helloWrite" ELSE "helloNames"]
           /\ UNCHANGED <<mtx, co, sock, subs, published, sent, events>>
  <2>1. PICK to \in {"helloWrite", "helloNames"} : pc' = [pc EXCEPT ![s] = to]
    BY <1>5
  <2>2. to \in States /\ to \in Greeting /\ pc[s] \in Greeting
    BY DEF States, Greeting, HelloReply
  <2>3. snap' \in [Sessions -> Positions] /\ events' \in 0..MaxEvents
    BY <1>1, <1>2, <1>5 DEF RestType
  <2>4. to \notin {"storing", "histRedis"}
    BY <2>1
  <2> QED BY <1>2, <1>3, <1>5, <2>1, <2>2, <2>3, <2>4, AdvanceSessions
<1> QED BY <1>4, <1>5 DEF HelloReply

\* So does the answer of the user name lookup.
LEMMA HelloNamesSessions ==
  ASSUME SessionsInv, NEW s \in Sessions, HelloNames(s)
  PROVE  SessionsInv'
<1>1. RedisType /\ RestType /\ ReqType
  BY SessionsParts
<1>2. RedisType' /\ ReqType' /\ \A t \in Sessions : req'[t] = req[t]
  BY <1>1, RedisUnchanged, ReqUnchanged DEF HelloNames
<1>3. CASE Finish(s, FALSE)
  BY <1>2, <1>3, FinishSessions DEF HelloNames
<1>4. CASE /\ pc' = [pc EXCEPT ![s] = "helloWrite"]
           /\ UNCHANGED <<mtx, co, sock, subs, published, snap, sent, events>>
  <2>1. "helloWrite" \in States /\ "helloWrite" \in Greeting /\ pc[s] \in Greeting
    BY DEF States, Greeting, HelloNames
  <2>2. snap' \in [Sessions -> Positions] /\ events' \in 0..MaxEvents
    BY <1>1, <1>4 DEF RestType
  <2> QED BY <1>2, <1>4, <2>1, <2>2, AdvanceSessions
<1> QED BY <1>3, <1>4 DEF HelloNames

\* Appending changes the head of a sequence only when it was empty: the first
\* frame of a client stays the first.
LEMMA AppendHead ==
  ASSUME NEW S, NEW q \in Seq(S), NEW e \in S
  PROVE  /\ Append(q, e) \in Seq(S)
         /\ Append(q, e) # << >>
         /\ Head(Append(q, e)) = IF q = << >> THEN e ELSE Head(q)
<1>1. /\ Append(q, e) \in Seq(S)
      /\ Len(Append(q, e)) = Len(q) + 1
      /\ Len(q) \in Nat
  OBVIOUS
<1>2. Append(q, e) # << >> /\ Head(Append(q, e)) = Append(q, e)[1]
  BY <1>1
<1>3. CASE q = << >>
  BY <1>1, <1>2, <1>3
<1>4. CASE q # << >>
  <2>1. 1 \in 1..Len(q) /\ Head(q) = q[1]
    BY <1>4
  <2> QED BY <1>1, <1>2, <1>4, <2>1
<1> QED BY <1>3, <1>4

\* A frame written by run() is the hello or comes after it.
LEMMA RunWroteSessions ==
  ASSUME SessionsInv, NEW s \in Sessions, NEW kind \in {"hello", "roomHistory"},
         RunWrote(s, kind),
         \/ pc[s] = "helloWrite" /\ kind = "hello"
         \/ pc[s] = "histWrite"
  PROVE  SessionsInv'
<1> DEFINE f == [kind |-> kind, id |-> 0]
<1>1. RedisType /\ MutexTypes /\ RestType /\ ReqType /\ (\A t \in Sessions : SessionInv(t))
  BY SessionsParts
<1>2. RedisType' /\ ReqType' /\ \A t \in Sessions : req'[t] = req[t]
  BY <1>1, RedisUnchanged, ReqUnchanged DEF RunWrote
<1>3. /\ MutexTypes'
      /\ \A t \in Sessions : t # s => mtx'[t] = mtx[t] /\ co'[t] = co[t]
      /\ Sound(mtx'[s], co'[s])
      /\ co'[s][Run] = "none"
      /\ \A p \in Broadcasts : co[s][p] = "none" => co'[s][p] = "none"
  <2>1. /\ UnlockWrites(s, Run, "none") /\ Sound(mtx[s], co[s])
        /\ co[s][Run] = "holding"
    BY <1>1 DEF RunWrote, SessionInv, Greeting
  <2> QED BY <1>1, <2>1, UnlockWritesFacts, CoroutineFacts DEF MutexTypes
<1>4. /\ pc' = [pc EXCEPT ![s] = "reading"]
      /\ sent' = [sent EXCEPT ![s] = Append(sent[s], f)]
      /\ UNCHANGED <<sock, subs, published, req, snap, events>>
  BY DEF RunWrote
<1>5. f \in Frame /\ sent[s] \in Seq(Frame)
  BY <1>1 DEF Frame, RestType
<1>6. /\ Append(sent[s], f) \in Seq(Frame)
      /\ Append(sent[s], f) # << >>
      /\ Head(Append(sent[s], f)) = IF sent[s] = << >> THEN f ELSE Head(sent[s])
  BY <1>5, AppendHead
<1>7. RestType'
  BY <1>1, <1>4, <1>6 DEF RestType, States
<1>8. ASSUME NEW t \in Sessions, t # s PROVE SessionInv(t)'
  BY <1>1, <1>3, <1>4, <1>8, Undisturbed DEF RestType
<1>9. SessionInv(s)'
  <2>1. pc'[s] = "reading" /\ sent'[s] = Append(sent[s], f)
    BY <1>1, <1>4 DEF RestType
  <2>2. Head(sent'[s]).kind = "hello" /\ sent'[s] # << >>
    BY <1>1, <1>6, <2>1 DEF SessionInv, Greeting
  <2>3. \A p \in Broadcasts : p > Len(published') => co'[s][p] = "none"
    BY <1>1, <1>3, <1>4 DEF SessionInv
  <2> QED BY <1>1, <1>3, <1>4, <2>1, <2>2, <2>3 DEF SessionInv, Greeting
<1> QED BY <1>2, <1>3, <1>7, <1>8, <1>9, SessionsFromParts

\* A write of run() that fails is a return of run() with the lock held.
LEMMA RunWriteFailsSessions ==
  ASSUME SessionsInv, NEW s \in Sessions, RunWriteFails(s)
  PROVE  SessionsInv'
<1>1. RedisType' /\ ReqType' /\ \A t \in Sessions : req'[t] = req[t]
  BY SessionsParts, RedisUnchanged, ReqUnchanged DEF RunWriteFails
<1> QED BY <1>1, FinishSessions DEF RunWriteFails

\* Dispatching a clientMessages event only records the request.
LEMMA ReadMessagesSessions ==
  ASSUME SessionsInv, NEW s \in Sessions, NEW k \in Keys, NEW n \in Batches,
         ReadMessages(s, k, n)
  PROVE  SessionsInv'
<1>1. RedisType /\ RestType /\ ReqType
  BY SessionsParts
<1>2. n \in Nat
  BY ConstantsAssumption
<1>3. ReqType' /\ req'[s] \in Request /\ \A t \in Sessions : t # s => req'[t] = req[t]
  <2>1. req' = [req EXCEPT ![s] = [key |-> k, n |-> n]]
    BY DEF ReadMessages
  <2> QED BY <1>1, <1>2, <2>1, ReqMade
<1>4. RedisType'
  BY <1>1, AskRedisType DEF ReadMessages
<1>5. events' \in 0..MaxEvents
  BY <1>1, ConstantsAssumption DEF ReadMessages, RestType
<1>6. "storing" \in States
  BY DEF States
<1> QED BY <1>1, <1>2, <1>3, <1>4, <1>5, <1>6, AdvanceSessions
        DEF ReadMessages, RestType

\* Dispatching a requestRoomHistory event only records the request.
LEMMA ReadHistoryRequestSessions ==
  ASSUME SessionsInv, NEW s \in Sessions, NEW k \in Keys, ReadHistoryRequest(s, k)
  PROVE  SessionsInv'
<1>1. RedisType /\ RestType /\ ReqType
  BY SessionsParts
<1>3. ReqType' /\ req'[s] \in Request /\ \A t \in Sessions : t # s => req'[t] = req[t]
  <2>1. req' = [req EXCEPT ![s] = [key |-> k, n |-> 0]]
    BY DEF ReadHistoryRequest
  <2> QED BY <1>1, <2>1, ReqMade
<1>4. RedisType'
  BY <1>1, AskRedisType DEF ReadHistoryRequest
<1>5. events' \in 0..MaxEvents
  BY <1>1, ConstantsAssumption DEF ReadHistoryRequest, RestType
<1>6. "histRedis" \in States
  BY DEF States
<1> QED BY <1>1, <1>3, <1>4, <1>5, <1>6, AdvanceSessions
        DEF ReadHistoryRequest, RestType

\* A failed read, or an event that does not parse, is a return of run() without
\* the lock.
LEMMA ReadEndsSessions ==
  ASSUME SessionsInv, NEW s \in Sessions, ReadEnds(s)
  PROVE  SessionsInv'
<1>1. RedisType' /\ ReqType' /\ \A t \in Sessions : req'[t] = req[t]
  BY SessionsParts, RedisUnchanged, ReqUnchanged DEF ReadEnds
<1> QED BY <1>1, FinishSessions DEF ReadEnds

\* run() gets in line for the mutex, behind the broadcasts or in front.
LEMMA LockForHistorySessions ==
  ASSUME SessionsInv, NEW s \in Sessions, LockForHistory(s),
         \/ pc[s] \in {"histRedis", "histNames"}
         \/ pc[s] = "histLock" /\ co[s][Run] = "woken",
         RedisType', ReqType', \A t \in Sessions : t # s => req'[t] = req[t]
  PROVE  SessionsInv'
<1>1. RedisType /\ MutexTypes /\ RestType /\ ReqType /\ (\A t \in Sessions : SessionInv(t))
  BY SessionsParts
<1>2. Sound(mtx[s], co[s]) /\ co[s][Run] \notin {"waiting", "holding"}
  BY <1>1 DEF SessionInv, Greeting
<1>3. /\ MutexTypes'
      /\ \A t \in Sessions : t # s => mtx'[t] = mtx[t] /\ co'[t] = co[t]
      /\ Sound(mtx'[s], co'[s])
      /\ co'[s][Run] = IF mtx[s].locked THEN "waiting" ELSE "holding"
      /\ \A d \in Coroutines : d # Run => co'[s][d] = co[s][d]
  BY <1>1, <1>2, LockWritesFacts, CoroutineFacts DEF LockForHistory, MutexTypes
<1>4. /\ pc' = [pc EXCEPT ![s] = IF mtx[s].locked THEN "histLock" ELSE "histWrite"]
      /\ UNCHANGED <<sock, subs, published, snap, sent, events>>
  BY DEF LockForHistory
<1>5. RestType'
  BY <1>1, <1>4 DEF RestType, States
<1>6. ASSUME NEW t \in Sessions, t # s PROVE SessionInv(t)'
  BY <1>1, <1>3, <1>4, <1>6, Undisturbed DEF RestType
<1>7. SessionInv(s)'
  <2>1. pc'[s] = IF mtx[s].locked THEN "histLock" ELSE "histWrite"
    BY <1>1, <1>4 DEF RestType
  <2>2. \A p \in Broadcasts : co'[s][p] = co[s][p]
    BY <1>3, CoroutineFacts
  <2> QED BY <1>1, <1>3, <1>4, <2>1, <2>2 DEF SessionInv, Greeting
<1> QED BY <1>3, <1>5, <1>6, <1>7, SessionsFromParts

\* The answer to a history request ends run(), moves it on to the user names,
\* or has it queue for the write lock.
LEMMA HistoryReplySessions ==
  ASSUME SessionsInv, NEW s \in Sessions, HistoryReply(s)
  PROVE  SessionsInv'
<1>1. RedisType /\ RestType /\ ReqType
  BY SessionsParts
<1>2. RedisType'
  BY <1>1, TakeReplyType DEF HistoryReply
<1>3. ReqType' /\ \A t \in Sessions : t # s => req'[t] = req[t]
  BY <1>1, ReqReset DEF HistoryReply
<1>4. CASE Finish(s, FALSE)
  BY <1>2, <1>3, <1>4, FinishSessions DEF HistoryReply
<1>5. CASE LockForHistory(s)
  BY <1>2, <1>3, <1>5, LockForHistorySessions DEF HistoryReply
<1>6. CASE /\ pc' = [pc EXCEPT ![s] = "histNames"]
           /\ UNCHANGED <<mtx, co, sock, subs, published, snap, sent, events>>
  <2>1. "histNames" \in States /\ pc[s] = "histRedis"
    BY DEF States, HistoryReply
  <2>2. snap' \in [Sessions -> Positions] /\ events' \in 0..MaxEvents
    BY <1>1, <1>6 DEF RestType
  <2> QED BY <1>2, <1>3, <1>6, <2>1, <2>2, AdvanceSessions
<1> QED BY <1>4, <1>5, <1>6 DEF HistoryReply

\* After the user names run() queues for the write lock, or returns.
LEMMA HistoryNamesSessions ==
  ASSUME SessionsInv, NEW s \in Sessions, HistoryNames(s)
  PROVE  SessionsInv'
<1>1. RedisType' /\ ReqType' /\ \A t \in Sessions : req'[t] = req[t]
  BY SessionsParts, RedisUnchanged, ReqUnchanged DEF HistoryNames
<1> QED BY <1>1, FinishSessions, LockForHistorySessions DEF HistoryNames

\* A notified run() tries the write lock once more.
LEMMA HistoryLockResumesSessions ==
  ASSUME SessionsInv, NEW s \in Sessions, HistoryLockResumes(s)
  PROVE  SessionsInv'
<1>1. RedisType' /\ ReqType' /\ \A t \in Sessions : req'[t] = req[t]
  BY SessionsParts, RedisUnchanged, ReqUnchanged DEF HistoryLockResumes
<1> QED BY <1>1, LockForHistorySessions DEF HistoryLockResumes
-----------------------------------------------------------------------------
\* publish() starts one coroutine, which had not been started, in some of the
\* sessions; a session that is not subscribed is left alone.
LEMMA PublishFacts ==
  ASSUME SessionsInv, NEW k, NEW event, Publish(k, event), UNCHANGED <<mtx, subs>>
  PROVE  /\ MutexTypes'
         /\ \A t \in Sessions :
              /\ Sound(mtx'[t], co'[t])
              /\ co'[t][Run] = co[t][Run]
              /\ (\A e \in subs : e[2] # t) => co'[t] = co[t]
              /\ \A p \in Broadcasts : p > Len(published) + 1 => co'[t][p] = "none"
<1> DEFINE p0 == Len(published) + 1
           c(t) == [co[t] EXCEPT ![p0] = "spawned"]
<1>1. MutexTypes /\ RestType /\ (\A t \in Sessions : SessionInv(t))
  BY SessionsParts
<1>2. Len(published) \in Nat
  BY <1>1 DEF RestType
<1>3. "spawned" \in CoStates
  BY DEF CoStates
<1>4. ASSUME NEW t \in Sessions
      PROVE  /\ co'[t] = IF <<k, t>> \in subs THEN c(t) ELSE co[t]
             /\ co[t] \in [Coroutines -> CoStates]
             /\ c(t) \in [Coroutines -> CoStates]
             /\ \A d \in Coroutines :
                  c(t)[d] = IF d = p0 THEN "spawned" ELSE co[t][d]
  BY <1>1, <1>3 DEF Publish, MutexTypes
<1>5. co' \in [Sessions -> [Coroutines -> CoStates]]
  <2>1. co' = [t \in Sessions |-> IF <<k, t>> \in subs THEN c(t) ELSE co[t]]
    BY DEF Publish
  <2> HIDE DEF c
  <2> QED BY <1>4, <2>1
<1>6. MutexTypes'
  BY <1>1, <1>5 DEF MutexTypes
<1>7. ASSUME NEW t \in Sessions
      PROVE  /\ Sound(mtx'[t], co'[t])
             /\ co'[t][Run] = co[t][Run]
             /\ (\A e \in subs : e[2] # t) => co'[t] = co[t]
             /\ \A p \in Broadcasts : p > p0 => co'[t][p] = "none"
  <2>1. SessionInv(t)
    BY <1>1
  <2>2. CASE <<k, t>> \in subs
    <3>1. co'[t] = c(t)
      BY <1>4, <2>2
    <3> HIDE DEF c
    <3>2. Run # p0
      BY <1>2 DEF Run
    <3>3. p0 \in Coroutines => co[t][p0] = "none"
      <4>1. p0 \in Coroutines => p0 \in Broadcasts /\ p0 > Len(published)
        BY <1>2, <3>2, CoroutineFacts
      <4> QED BY <2>1, <4>1 DEF SessionInv
    <3>4. Sound(mtx[t], c(t))
      <4>1. Sound(mtx[t], co[t])
        BY <2>1 DEF SessionInv
      <4>2. DOMAIN co[t] = Coroutines /\ DOMAIN c(t) = Coroutines
        BY <1>4
      <4>3. \A u \in Coroutines :
              \/ c(t)[u] = co[t][u]
              \/ /\ co[t][u] \notin {"waiting", "woken", "holding"}
                 /\ c(t)[u] \notin {"waiting", "woken", "holding"}
        BY <1>4, <3>3
      <4> QED BY <4>1, <4>2, <4>3, OutsideSound
    <3>5. c(t)[Run] = co[t][Run]
      BY <1>4, <3>2, CoroutineFacts
    <3>6. ASSUME NEW p \in Broadcasts, p > p0
          PROVE  c(t)[p] = "none"
      <4>1. p \in Coroutines /\ p # p0 /\ p > Len(published)
        BY <1>2, <3>6, CoroutineFacts DEF Broadcasts
      <4>2. co[t][p] = "none"
        BY <2>1, <4>1 DEF SessionInv
      <4> QED BY <1>4, <4>1, <4>2
    <3>7. \E e \in subs : e[2] = t
      BY <2>2
    <3> QED BY <3>1, <3>4, <3>5, <3>6, <3>7
  <2>3. CASE <<k, t>> \notin subs
    <3>1. co'[t] = co[t]
      BY <1>4, <2>3
    <3>2. ASSUME NEW p \in Broadcasts, p > p0
          PROVE  co[t][p] = "none"
      <4>1. p > Len(published)
        BY <1>2, <3>2 DEF Broadcasts
      <4> QED BY <2>1, <4>1 DEF SessionInv
    <3> QED BY <2>1, <3>1, <3>2 DEF SessionInv
  <2> QED BY <2>2, <2>3
<1> QED BY <1>6, <1>7

\* A batch that is stored is published.
LEMMA StoreReplySessions ==
  ASSUME SessionsInv, NEW s \in Sessions, StoreReply(s)
  PROVE  SessionsInv'
<1>1. RedisType /\ MutexTypes /\ RestType /\ ReqType /\ (\A t \in Sessions : SessionInv(t))
  BY SessionsParts
<1>2. RedisType' /\ Reply.at \in Positions
  BY <1>1, TakeReplyType DEF StoreReply
<1>3. ReqType' /\ \A t \in Sessions : t # s => req'[t] = req[t]
  BY <1>1, ReqReset DEF StoreReply
<1>4. CASE Finish(s, FALSE)
  BY <1>2, <1>3, <1>4, FinishSessions DEF StoreReply
<1>5. CASE Reply.ok
  <2> DEFINE k == req[s].key
             ev == [key |-> k, from |-> s,
                    first |-> Reply.at[k] + 1 - req[s].n, last |-> Reply.at[k]]
  <2>1. /\ Publish(k, ev)
        /\ pc' = [pc EXCEPT ![s] = "reading"]
        /\ UNCHANGED <<mtx, sock, subs, snap, sent, events>>
        /\ pc[s] = "storing"
    BY <1>5 DEF StoreReply
  <2>2. req[s] \in Request
    BY <1>1, <2>1 DEF SessionInv
  <2>3. ev \in Broadcast
    BY <1>2, <2>2, ConstantsAssumption DEF Broadcast, Request, Positions
  <2> HIDE DEF ev
  <2>4. /\ published' = Append(published, ev)
        /\ published' \in Seq(Broadcast)
        /\ Len(published') = Len(published) + 1
    BY <1>1, <2>1, <2>3 DEF Publish, RestType
  <2>5. RestType'
    BY <1>1, <2>1, <2>4 DEF RestType, States
  <2>6. /\ MutexTypes'
        /\ \A t \in Sessions :
             /\ Sound(mtx'[t], co'[t])
             /\ co'[t][Run] = co[t][Run]
             /\ (\A e \in subs : e[2] # t) => co'[t] = co[t]
             /\ \A p \in Broadcasts : p > Len(published) + 1 => co'[t][p] = "none"
    BY <2>1, PublishFacts
  <2>7. ASSUME NEW t \in Sessions
        PROVE  SessionInv(t)'
    <3>1. SessionInv(t)
      BY <1>1
    <3>2. /\ \/ pc'[t] = pc[t] /\ t # s
             \/ pc[t] = "storing" /\ pc'[t] = "reading"
          /\ pc'[t] \in {"storing", "histRedis"} => req'[t] = req[t]
      BY <1>1, <1>3, <2>1 DEF RestType
    <3>3. \A p \in Broadcasts : p > Len(published') => co'[t][p] = "none"
      BY <2>4, <2>6
    <3>4. pc'[t] \in {"auth", "closing"} => co'[t] = co[t]
      BY <2>6, <3>1, <3>2 DEF SessionInv
    <3> QED BY <2>1, <2>6, <3>1, <3>2, <3>3, <3>4 DEF SessionInv, Greeting
  <2> QED BY <1>2, <1>3, <2>5, <2>6, <2>7, SessionsFromParts
<1> QED BY <1>4, <1>5 DEF StoreReply

\* on_message() asks for the mutex, for the first time or again.
LEMMA OnMessageLocksSessions ==
  ASSUME SessionsInv, NEW s \in Sessions, NEW p \in Broadcasts,
         co[s][p] \in {"spawned", "woken"},
         LockWrites(s, p),
         UNCHANGED <<pc, sock, subs, redisVars, published, req, snap, sent, events>>
  PROVE  SessionsInv'
<1>1. RedisType /\ MutexTypes /\ RestType /\ ReqType /\ (\A t \in Sessions : SessionInv(t))
  BY SessionsParts
<1>2. Sound(mtx[s], co[s])
  BY <1>1 DEF SessionInv
<1>3. /\ MutexTypes'
      /\ \A t \in Sessions : t # s => mtx'[t] = mtx[t] /\ co'[t] = co[t]
      /\ Sound(mtx'[s], co'[s])
      /\ \A d \in Coroutines : d # p => co'[s][d] = co[s][d]
  BY <1>1, <1>2, LockWritesFacts, CoroutineFacts DEF MutexTypes
<1>4. RestType' /\ ReqType' /\ RedisType'
  BY <1>1, RedisUnchanged DEF RestType, ReqType
<1>5. ASSUME NEW t \in Sessions, t # s PROVE SessionInv(t)'
  BY <1>1, <1>3, <1>5, Undisturbed
<1>6. SessionInv(s)'
  <2>1. co'[s][Run] = co[s][Run]
    BY <1>3, CoroutineFacts
  <2>2. \A q \in Broadcasts : co[s][q] = "none" => co'[s][q] = "none"
    BY <1>3, CoroutineFacts
  <2> QED BY <1>1, <1>3, <2>1, <2>2 DEF SessionInv, Greeting
<1> QED BY <1>3, <1>4, <1>5, <1>6, SessionsFromParts

\* The broadcast that holds the mutex is written, or fails to be: never
\* during the greeting, because then run() holds it.
LEMMA OnMessageReturnsSessions ==
  ASSUME SessionsInv, NEW s \in Sessions, NEW p \in Broadcasts, NEW broken \in BOOLEAN,
         co[s][p] = "holding",
         OnMessageReturns(s, p, broken),
         \/ UNCHANGED sent
         \/ sent' = [sent EXCEPT ![s] =
                       Append(@, [kind |-> "serverMessages", id |-> p])]
  PROVE  SessionsInv'
<1> DEFINE f == [kind |-> "serverMessages", id |-> p]
<1>1. RedisType /\ MutexTypes /\ RestType /\ ReqType /\ (\A t \in Sessions : SessionInv(t))
  BY SessionsParts
<1>2. p \in Coroutines /\ p # Run /\ p \in Nat
  BY CoroutineFacts, ConstantsAssumption DEF Broadcasts
<1>3. /\ UnlockWrites(s, p, "done")
      /\ UNCHANGED <<pc, subs, redisVars, published, req, snap, events>>
  BY DEF OnMessageReturns
<1>4. /\ MutexTypes'
      /\ \A t \in Sessions : t # s => mtx'[t] = mtx[t] /\ co'[t] = co[t]
      /\ Sound(mtx'[s], co'[s])
      /\ \A d \in Coroutines : d # p =>
              \/ co'[s][d] = co[s][d]
              \/ (co[s][d] = "waiting" /\ co'[s][d] = "woken")
  <2>1. Sound(mtx[s], co[s])
    BY <1>1 DEF SessionInv
  <2> QED BY <1>1, <1>2, <1>3, <2>1, UnlockWritesFacts DEF MutexTypes
<1>5. pc[s] \notin Greeting \cup {"auth", "closing"}
  <2>1. co[s][Run] # "holding"
    <3>1. DOMAIN co[s] = Coroutines
      BY <1>1 DEF MutexTypes
    <3> QED BY <1>1, <1>2, <3>1, CoroutineFacts DEF SessionInv, Sound, Exclusive
  <2> QED BY <1>1, <2>1 DEF SessionInv
<1>6. /\ sent' \in [Sessions -> Seq(Frame)]
      /\ \A t \in Sessions : t # s => sent'[t] = sent[t]
      /\ sent[s] # << >> => sent'[s] # << >> /\ Head(sent'[s]) = Head(sent[s])
  <2>1. CASE UNCHANGED sent
    BY <1>1, <2>1 DEF RestType
  <2>2. CASE sent' = [sent EXCEPT ![s] = Append(sent[s], f)]
    <3>1. f \in Frame /\ sent[s] \in Seq(Frame)
      BY <1>1, <1>2 DEF Frame, RestType
    <3> HIDE DEF f
    <3>2. /\ Append(sent[s], f) \in Seq(Frame)
          /\ Append(sent[s], f) # << >>
          /\ sent[s] # << >> => Head(Append(sent[s], f)) = Head(sent[s])
      BY <3>1, AppendHead
    <3> QED BY <1>1, <2>2, <3>2 DEF RestType
  <2> QED BY <2>1, <2>2
<1>7. RestType' /\ ReqType' /\ RedisType'
  <2>1. sock' \in [Sessions -> {"open", "closed"}]
    BY <1>1 DEF OnMessageReturns, RestType
  <2> QED BY <1>1, <1>3, <1>6, <2>1, RedisUnchanged DEF RestType, ReqType
<1>8. ASSUME NEW t \in Sessions, t # s PROVE SessionInv(t)'
  BY <1>1, <1>3, <1>4, <1>6, <1>8, Undisturbed
<1>9. SessionInv(s)'
  <2>1. \/ co'[s][Run] = co[s][Run]
        \/ (co[s][Run] = "waiting" /\ co'[s][Run] = "woken")
    BY <1>2, <1>4, CoroutineFacts
  <2>2. \A q \in Broadcasts : co[s][q] = "none" => co'[s][q] = "none"
    BY <1>4, CoroutineFacts
  <2> QED BY <1>1, <1>3, <1>4, <1>5, <1>6, <2>1, <2>2 DEF SessionInv, Greeting
<1> QED BY <1>4, <1>7, <1>8, <1>9, SessionsFromParts
-----------------------------------------------------------------------------
\* Redis appends to one stream at the end: it keeps the streams well formed.
LEMMA AppendsType ==
  ASSUME RedisType, ReqType, NEW s \in Sessions, NEW n \in 0..req[s].n,
         Appends(s, n)
  PROVE  streams' \in [Keys -> Seq(Sessions)]
<1>1. req[s] \in Request \/ req[s] = NoReq
  BY DEF ReqType
<1>2. CASE n = 0
  BY <1>2 DEF Appends, RedisType
<1>3. CASE n # 0
  <2>1. req[s] \in Request
    BY <1>1, <1>3 DEF NoReq
  <2>2. n \in Nat /\ req[s].key \in Keys
    BY <2>1 DEF Request
  <2>3. [i \in 1..n |-> s] \in Seq(Sessions)
    BY <2>2
  <2>4. streams[req[s].key] \o [i \in 1..n |-> s] \in Seq(Sessions)
    BY <2>2, <2>3 DEF RedisType
  <2> QED BY <1>3, <2>2, <2>4 DEF Appends, RedisType
<1> QED BY <1>2, <1>3

\* Redis answers one request; its streams only grow at the end.
LEMMA RedisExecutesSessions ==
  ASSUME SessionsInv, RedisExecutes
  PROVE  SessionsInv'
<1>1. RedisType /\ MutexTypes /\ RestType /\ ReqType /\ (\A t \in Sessions : SessionInv(t))
  BY SessionsParts
<1> DEFINE s == Head(redisQ)
<1>2. s \in Sessions /\ redisQ' = Tail(redisQ) /\ Tail(redisQ) \in Seq(Sessions)
  BY <1>1 DEF RedisExecutes, RedisType
<1>3. PICK n \in 0..req[s].n, ok \in BOOLEAN :
        /\ Appends(s, n)
        /\ replyQ' = Append(replyQ,
             [s |-> s, ok |-> ok,
              at |-> IF ok THEN [j \in Keys |-> Len(streams'[j])] ELSE Nothing])
  BY DEF RedisExecutes
<1> HIDE DEF s
<1>4. streams' \in [Keys -> Seq(Sessions)]
  BY <1>1, <1>2, <1>3, AppendsType
<1>5. replyQ' \in Seq(Answer)
  <2> DEFINE at == IF ok THEN [j \in Keys |-> Len(streams'[j])] ELSE Nothing
  <2>1. at \in Positions
    BY <1>4 DEF Positions, Nothing
  <2> HIDE DEF at
  <2>2. [s |-> s, ok |-> ok, at |-> at] \in Answer
    BY <1>2, <2>1 DEF Answer
  <2>3. replyQ' = Append(replyQ, [s |-> s, ok |-> ok, at |-> at])
    BY <1>3 DEF at
  <2> QED BY <1>1, <2>2, <2>3 DEF RedisType
<1>6. UNCHANGED <<pc, mtx, co, sock, subs, orphans, published, req, snap, sent,
                  events>>
  BY DEF RedisExecutes
<1>7. RedisType' /\ MutexTypes' /\ RestType' /\ ReqType'
  BY <1>1, <1>2, <1>4, <1>5, <1>6 DEF RedisType, MutexTypes, RestType, ReqType
<1>8. \A t \in Sessions : SessionInv(t)'
  BY <1>1, <1>6, Undisturbed
<1> QED BY <1>7, <1>8, SessionsFromParts

\* So do the requests of a process that is gone.
LEMMA RedisExecutesOrphanSessions ==
  ASSUME SessionsInv, RedisExecutesOrphan
  PROVE  SessionsInv'
<1>1. RedisType /\ MutexTypes /\ RestType /\ ReqType /\ (\A t \in Sessions : SessionInv(t))
  BY SessionsParts
<1>2. /\ Head(orphans) \in Sessions
      /\ orphans' = Tail(orphans) /\ Tail(orphans) \in Seq(Sessions)
  BY <1>1 DEF RedisExecutesOrphan, RedisType
<1>3. streams' \in [Keys -> Seq(Sessions)]
  BY <1>1, <1>2, AppendsType DEF RedisExecutesOrphan
<1>4. UNCHANGED <<pc, mtx, co, sock, subs, redisQ, replyQ, published, req, snap,
                  sent, events>>
  BY DEF RedisExecutesOrphan
<1>5. RedisType' /\ MutexTypes' /\ RestType' /\ ReqType'
  BY <1>1, <1>2, <1>3, <1>4 DEF RedisType, MutexTypes, RestType, ReqType
<1>6. \A t \in Sessions : SessionInv(t)'
  BY <1>1, <1>4, Undisturbed
<1> QED BY <1>5, <1>6, SessionsFromParts

\* When the process is replaced every session that had authenticated is over,
\* none is subscribed, and every mutex is a new one.
LEMMA ServerRestartsSessions ==
  ASSUME SessionsInv, ServerRestarts
  PROVE  SessionsInv'
<1>1. RedisType /\ MutexTypes /\ RestType /\ ReqType /\ (\A t \in Sessions : SessionInv(t))
  BY SessionsParts
<1> DEFINE cs(t) == [c \in Coroutines |->
              IF c # Run /\ co[t][c] # "none" THEN "done" ELSE "none"]
<1>2. /\ pc' = [t \in Sessions |-> IF pc[t] = "auth" THEN "auth" ELSE "ended"]
      /\ sock' = [t \in Sessions |-> IF pc[t] = "auth" THEN "open" ELSE "closed"]
      /\ mtx' = [t \in Sessions |-> FreeMutex]
      /\ co' = [t \in Sessions |-> cs(t)]
      /\ subs' = {}
      /\ redisQ' = << >> /\ replyQ' = << >>
      /\ UNCHANGED <<streams, published, req, snap, sent, events>>
  BY DEF ServerRestarts
<1>3. \A t \in Sessions :
        /\ cs(t) \in [Coroutines -> CoStates]
        /\ DOMAIN cs(t) = Coroutines
        /\ \A c \in Coroutines : cs(t)[c] \in {"none", "done"}
        /\ cs(t)[Run] = "none"
        /\ \A p \in Broadcasts : co[t][p] = "none" => cs(t)[p] = "none"
  BY CoroutineFacts DEF CoStates
<1> HIDE DEF cs
<1>4. orphans' \in Seq(Sessions)
  <2>1. PICK j \in 0..Len(redisQ) : orphans' = orphans \o SubSeq(redisQ, 1, j)
    BY DEF ServerRestarts
  <2>2. SubSeq(redisQ, 1, j) \in Seq(Sessions)
    BY <1>1 DEF RedisType
  <2> QED BY <1>1, <2>1, <2>2 DEF RedisType
<1>5. RedisType' /\ ReqType'
  BY <1>1, <1>2, <1>4 DEF RedisType, ReqType
<1>6. MutexTypes'
  <2>1. FreeMutex \in MutexType(Coroutines)
    BY DEF FreeMutex, MutexType
  <2> QED BY <1>2, <1>3, <2>1 DEF MutexTypes
<1>7. RestType'
  BY <1>1, <1>2 DEF RestType, States
<1>8. ASSUME NEW t \in Sessions PROVE SessionInv(t)'
  <2>1. SessionInv(t)
    BY <1>1
  <2>2. /\ pc'[t] = IF pc[t] = "auth" THEN "auth" ELSE "ended"
        /\ mtx'[t] = FreeMutex /\ co'[t] = cs(t)
    BY <1>2
  <2>3. Sound(mtx'[t], co'[t])
    BY <1>3, <2>2, FreeMutexSound
  <2>4. \A p \in Broadcasts : co[t][p] = "none" => co'[t][p] = "none"
    BY <1>3, <2>2
  <2> QED BY <1>2, <1>3, <2>1, <2>2, <2>3, <2>4 DEF SessionInv, Greeting
<1> QED BY <1>5, <1>6, <1>7, <1>8, SessionsFromParts

\* A broken connection turns requests and answers into failed answers.
LEMMA RedisConnectionLostSessions ==
  ASSUME SessionsInv, RedisConnectionLost
  PROVE  SessionsInv'
<1>1. RedisType /\ MutexTypes /\ RestType /\ ReqType /\ (\A t \in Sessions : SessionInv(t))
  BY SessionsParts
<1>2. PICK i \in 0..Len(replyQ), j \in 0..Len(redisQ) :
       /\ replyQ' = [m \in 1..(Len(replyQ) + j) |->
                       IF m <= i THEN replyQ[m]
                       ELSE [s |-> IF m <= Len(replyQ) THEN replyQ[m].s
                                   ELSE redisQ[m - Len(replyQ)],
                             ok |-> FALSE, at |-> Nothing]]
       /\ redisQ' = SubSeq(redisQ, j + 1, Len(redisQ))
  BY DEF RedisConnectionLost
<1>3. /\ redisQ \in Seq(Sessions) /\ replyQ \in Seq(Answer)
      /\ Len(replyQ) \in Nat /\ Len(redisQ) \in Nat /\ i \in Nat /\ j \in Nat
      /\ i <= Len(replyQ) /\ j <= Len(redisQ)
  BY <1>1 DEF RedisType
<1>4. redisQ' \in Seq(Sessions)
  BY <1>2, <1>3
<1>5. replyQ' \in Seq(Answer)
  <2>1. Nothing \in Positions
    BY DEF Nothing, Positions
  <2>2. ASSUME NEW m \in 1..(Len(replyQ) + j)
        PROVE  replyQ'[m] \in Answer
    <3>1. CASE m <= i
      BY <1>2, <1>3, <3>1
    <3>2. CASE i < m /\ m <= Len(replyQ)
      <4>0. replyQ[m] \in Answer
        BY <1>3, <3>2
      <4>1. replyQ[m].s \in Sessions
        BY <4>0 DEF Answer
      <4>2. replyQ'[m] = [s |-> replyQ[m].s, ok |-> FALSE, at |-> Nothing]
        BY <1>2, <1>3, <3>2
      <4> QED BY <2>1, <4>1, <4>2 DEF Answer
    <3>3. CASE Len(replyQ) < m
      <4>1. m - Len(replyQ) \in 1..Len(redisQ)
        BY <1>3, <3>3
      <4>2. redisQ[m - Len(replyQ)] \in Sessions
        BY <1>3, <4>1
      <4>3. replyQ'[m] = [s |-> redisQ[m - Len(replyQ)], ok |-> FALSE,
                          at |-> Nothing]
        <5>1. ~(m <= i) /\ ~(m <= Len(replyQ))
          BY <1>3, <3>3
        <5> QED BY <1>2, <5>1, Zenon
      <4> QED BY <2>1, <4>2, <4>3 DEF Answer
    <3> QED BY <1>3, <3>1, <3>2, <3>3
  <2>3. replyQ' \in [1..(Len(replyQ) + j) -> Answer]
    BY <1>2, <2>2
  <2> QED BY <1>3, <2>3
<1>6. UNCHANGED <<pc, mtx, co, sock, subs, orphans, streams, published, req,
                  snap, sent, events>>
  BY DEF RedisConnectionLost
<1>7. RedisType' /\ MutexTypes' /\ RestType' /\ ReqType'
  BY <1>1, <1>4, <1>5, <1>6 DEF RedisType, MutexTypes, RestType, ReqType
<1>8. \A t \in Sessions : SessionInv(t)'
  BY <1>1, <1>6, Undisturbed
<1> QED BY <1>7, <1>8, SessionsFromParts
-----------------------------------------------------------------------------
\* In the initial state every session waits for its authentication.
LEMMA InitSessions == Init => SessionsInv
<1> SUFFICES ASSUME Init PROVE SessionsInv
  OBVIOUS
<1>1. FreeMutex \in MutexType(Coroutines)
  BY DEF FreeMutex, MutexType
<1>2. MutexTypes
  BY <1>1 DEF Init, MutexTypes, CoStates
<1>3. RedisType
  BY DEF Init, RedisType
<1>4. RestType /\ ReqType
  BY ConstantsAssumption DEF Init, RestType, ReqType, States, Nothing, Positions
<1>5. ASSUME NEW s \in Sessions PROVE SessionInv(s)
  <2>1. /\ pc[s] = "auth" /\ sent[s] = << >> /\ mtx[s] = FreeMutex
        /\ DOMAIN co[s] = Coroutines
        /\ \A c \in Coroutines : co[s][c] = "none"
        /\ subs = {}
    BY DEF Init
  <2>2. Sound(mtx[s], co[s])
    BY <2>1, FreeMutexSound
  <2> QED BY <2>1, <2>2, CoroutineFacts DEF SessionInv, Greeting
<1> QED BY <1>2, <1>3, <1>4, <1>5, TypeParts DEF SessionsInv

\* Every step keeps the invariant.
LEMMA StepSessions == SessionsInv /\ [Next]_vars => SessionsInv'
<1> SUFFICES ASSUME SessionsInv, [Next]_vars PROVE SessionsInv'
  OBVIOUS
<1>1. ASSUME NEW s \in Sessions, RunStep(s) PROVE SessionsInv'
  <2>1. CASE HelloWritten(s)
    BY <2>1, RunWroteSessions DEF HelloWritten
  <2>2. CASE RoomHistoryWritten(s)
    BY <2>2, RunWroteSessions DEF RoomHistoryWritten
  <2> QED BY <1>1, <2>1, <2>2, AuthOkSessions, AuthFailSessions, CloseDoneSessions,
             HelloReplySessions, HelloNamesSessions, StoreReplySessions, HistoryReplySessions,
             HistoryNamesSessions, HistoryLockResumesSessions, RunWriteFailsSessions
          DEF RunStep
<1>2. ASSUME NEW s \in Sessions, ClientStep(s) PROVE SessionsInv'
  BY <1>2, ReadMessagesSessions, ReadHistoryRequestSessions, ReadEndsSessions DEF ClientStep
<1>3. ASSUME NEW s \in Sessions, NEW p \in Broadcasts, OnMessageStep(s, p)
      PROVE  SessionsInv'
  <2>1. CASE OnMessageStarts(s, p) \/ OnMessageResumes(s, p)
    BY <2>1, OnMessageLocksSessions DEF OnMessageStarts, OnMessageResumes
  <2>2. CASE OnMessageWritten(s, p)
    BY <2>2, OnMessageReturnsSessions DEF OnMessageWritten
  <2>3. CASE OnMessageWriteFails(s, p)
    BY <2>3, OnMessageReturnsSessions DEF OnMessageWriteFails
  <2> QED BY <1>3, <2>1, <2>2, <2>3 DEF OnMessageStep
<1>4. CASE UNCHANGED vars
  <2>1. UNCHANGED redisVars
    BY <1>4 DEF vars, redisVars
  <2>2. /\ RedisType /\ MutexTypes /\ RestType /\ ReqType
        /\ \A t \in Sessions : SessionInv(t)
    BY SessionsParts
  <2>3. RedisType' /\ MutexTypes' /\ RestType' /\ ReqType'
    BY <1>4, <2>1, <2>2, RedisUnchanged
       DEF vars, MutexTypes, RestType, ReqType
  <2>4. \A t \in Sessions : SessionInv(t)'
    BY <1>4, <2>2, Undisturbed DEF vars
  <2> QED BY <2>3, <2>4, SessionsFromParts
<1> QED BY <1>1, <1>2, <1>3, <1>4, RedisExecutesSessions, RedisExecutesOrphanSessions,
           RedisConnectionLostSessions, ServerRestartsSessions
        DEF Next, AllGone

\* The inductive invariant of the sessions holds in every reachable state.
THEOREM SessionsInvariant == Spec => []SessionsInv
<1>1. Init => SessionsInv
  BY InitSessions
<1>2. SessionsInv /\ [Next]_vars => SessionsInv'
  BY StepSessions
<1> QED BY <1>1, <1>2, PTL DEF Spec

\* Writes to one websocket never overlap, and run() holds the write lock
\* exactly while it prepares and writes its hello or writes a room history.
THEOREM WritesExclude == Spec => []WriteExclusion
<1>1. SessionsInv => WriteExclusion
  BY DEF SessionsInv, SessionInv, WriteExclusion, Sound, Greeting
<1> QED BY <1>1, SessionsInvariant, PTL

\* No session is left with a free write mutex and only sleeping writers.
THEOREM WritersWake == Spec => []NoLostWakeup
<1>1. SessionsInv => NoLostWakeup
  BY DEF SessionsInv, SessionInv, NoLostWakeup, Sound
<1> QED BY <1>1, SessionsInvariant, PTL

\* The first frame of a client that is served is the hello, for any number of
\* sessions, events and broadcasts.
THEOREM HelloIsFirstWhileServed == Spec => []HelloFirstWhileServed
<1>1. SessionsInv => HelloFirstWhileServed
  BY DEF SessionsInv, SessionInv, HelloFirstWhileServed, TypeOK, Greeting
<1> QED BY <1>1, SessionsInvariant, PTL
-----------------------------------------------------------------------------
\* Taking the write mutex starts no broadcast.
LEMMA LockStartsNone ==
  ASSUME SessionsInv, NEW t \in Sessions, NEW c \in Coroutines, LockWrites(t, c),
         c = Run \/ co[t][c] # "none",
         NEW s \in Sessions, NEW p \in Broadcasts, co[s][p] = "none"
  PROVE  co'[s][p] = "none"
<1>1. co[s] \in [Coroutines -> CoStates] /\ co[t] \in [Coroutines -> CoStates]
      /\ co \in [Sessions -> [Coroutines -> CoStates]]
  BY SessionsParts DEF MutexTypes
<1>2. ~(s = t /\ p = c) /\ p \in Coroutines
  BY CoroutineFacts
<1> QED BY <1>1, <1>2 DEF LockWrites

\* Nor does dropping it.
LEMMA UnlockStartsNone ==
  ASSUME SessionsInv, NEW t \in Sessions, NEW c \in Coroutines,
         NEW st \in {"none", "done"}, UnlockWrites(t, c, st), co[t][c] = "holding",
         NEW s \in Sessions, NEW p \in Broadcasts, co[s][p] = "none"
  PROVE  co'[s][p] = "none"
<1>1. MutexTypes /\ Sound(mtx[t], co[t])
  BY SessionsParts DEF SessionInv
<1>2. /\ \A u \in Sessions : u # t => co'[u] = co[u]
      /\ co'[t][c] = st
      /\ \A d \in Coroutines : d # c =>
           \/ co'[t][d] = co[t][d]
           \/ (co[t][d] = "waiting" /\ co'[t][d] = "woken")
  BY <1>1, UnlockWritesFacts DEF MutexTypes
<1>3. p \in Coroutines
  BY CoroutineFacts
<1> QED BY <1>2, <1>3

\* A return of run() starts no coroutine of any session.
LEMMA FinishStartsNone ==
  ASSUME SessionsInv, NEW t \in Sessions, NEW broken \in BOOLEAN, Finish(t, broken),
         NEW s \in Sessions, NEW p \in Broadcasts, co[s][p] = "none"
  PROVE  co'[s][p] = "none"
BY UnlockStartsNone, CoroutineFacts DEF Finish

\* A broadcast is only started for a session that is subscribed.
LEMMA OnlySubscribersStart ==
  ASSUME SessionsInv, Next, NEW s \in Sessions, NEW p \in Broadcasts,
         co[s][p] = "none", \A e \in subs : e[2] # s
  PROVE  co'[s][p] = "none"
<1>1. ASSUME NEW t \in Sessions, RunStep(t) PROVE co'[s][p] = "none"
  <2>1. CASE AuthOk(t)
    BY <2>1, LockStartsNone, CoroutineFacts DEF AuthOk
  <2>2. CASE AuthFail(t)
    BY <2>2 DEF AuthFail
  <2>3. CASE CloseDone(t) \/ RunWriteFails(t)
    BY <2>3, FinishStartsNone DEF CloseDone, RunWriteFails
  <2>4. CASE HelloReply(t) \/ HelloNames(t)
    BY <2>4, FinishStartsNone DEF HelloReply, HelloNames
  <2>5. CASE HelloWritten(t) \/ RoomHistoryWritten(t)
    <3>1. /\ pc[t] \in {"helloWrite", "histWrite"}
          /\ UnlockWrites(t, Run, "none")
      BY <2>5 DEF HelloWritten, RoomHistoryWritten, RunWrote
    <3>2. co[t][Run] = "holding"
      BY <3>1, SessionsParts DEF SessionInv, Greeting
    <3> QED BY <3>1, <3>2, UnlockStartsNone, CoroutineFacts
  <2>6. CASE StoreReply(t)
    <3>1. CASE Finish(t, FALSE)
      BY <3>1, FinishStartsNone
    <3>2. CASE Reply.ok
      <4>1. PICK k, event : Publish(k, event) /\ UNCHANGED <<mtx, subs>>
        BY <2>6, <3>2 DEF StoreReply
      <4> QED BY <4>1, PublishFacts
    <3> QED BY <2>6, <3>1, <3>2 DEF StoreReply
  <2>7. CASE HistoryReply(t) \/ HistoryNames(t) \/ HistoryLockResumes(t)
    <3>1. \/ Finish(t, FALSE)
          \/ LockWrites(t, Run)
          \/ UNCHANGED co
      BY <2>7 DEF HistoryReply, HistoryNames, HistoryLockResumes, LockForHistory
    <3> QED BY <3>1, FinishStartsNone, LockStartsNone, CoroutineFacts
  <2> QED BY <1>1, <2>1, <2>2, <2>3, <2>4, <2>5, <2>6, <2>7 DEF RunStep
<1>2. ASSUME NEW t \in Sessions, ClientStep(t) PROVE co'[s][p] = "none"
  <2>1. CASE ReadEnds(t)
    BY <2>1, FinishStartsNone DEF ReadEnds
  <2>2. CASE UNCHANGED co
    BY <2>2
  <2> QED BY <1>2, <2>1, <2>2 DEF ClientStep, ReadMessages, ReadHistoryRequest
<1>3. ASSUME NEW t \in Sessions, NEW q \in Broadcasts, OnMessageStep(t, q)
      PROVE  co'[s][p] = "none"
  <2>1. CASE OnMessageStarts(t, q) \/ OnMessageResumes(t, q)
    BY <2>1, LockStartsNone, CoroutineFacts DEF OnMessageStarts, OnMessageResumes
  <2>2. CASE OnMessageWritten(t, q) \/ OnMessageWriteFails(t, q)
    BY <2>2, UnlockStartsNone, CoroutineFacts
       DEF OnMessageWritten, OnMessageWriteFails, OnMessageReturns
  <2> QED BY <1>3, <2>1, <2>2 DEF OnMessageStep
<1>4. CASE \/ RedisExecutes \/ RedisExecutesOrphan \/ RedisConnectionLost
           \/ AllGone
  BY <1>4 DEF RedisExecutes, RedisExecutesOrphan, RedisConnectionLost, AllGone,
              vars
<1>5. CASE ServerRestarts
  BY <1>5, CoroutineFacts DEF ServerRestarts
<1> QED BY <1>1, <1>2, <1>3, <1>4, <1>5 DEF Next

\* publish() reaches no session that is over: its guard has unsubscribed it.
THEOREM EndedIsLeftAlone == Spec => NoBroadcastAfterEnd
<1> DEFINE A == \A s \in Sessions, p \in Broadcasts :
                  pc[s] = "ended" /\ co[s][p] = "none" => co'[s][p] = "none"
<1>1. SessionsInv /\ [Next]_vars => [A]_vars
  <2> SUFFICES ASSUME SessionsInv, Next PROVE A
    OBVIOUS
  <2>1. ASSUME NEW s \in Sessions, NEW p \in Broadcasts,
               pc[s] = "ended", co[s][p] = "none"
        PROVE  co'[s][p] = "none"
    <3>1. \A e \in subs : e[2] # s
      BY <2>1, SessionsParts DEF SessionInv
    <3> QED BY <2>1, <3>1, OnlySubscribersStart
  <2> QED BY <2>1
<1> QED BY <1>1, SessionsInvariant, PTL DEF Spec, NoBroadcastAfterEnd
-----------------------------------------------------------------------------
(* Redis: requests, answers, streams and broadcasts                        *)

\* The types that the proofs about Redis use.
LEMMA RedisFacts ==
  ASSUME SessionsInv
  PROVE  /\ redisQ \in Seq(Sessions)
         /\ replyQ \in Seq(Answer)
         /\ orphans \in Seq(Sessions)
         /\ streams \in [Keys -> Seq(Sessions)]
         /\ published \in Seq(Broadcast)
         /\ pc \in [Sessions -> States]
         /\ snap \in [Sessions -> Positions]
         /\ \A s \in Sessions : req[s] \in Request \cup {NoReq} /\ req[s].n \in Nat
         /\ events \in Nat /\ events <= MaxEvents
         /\ \A i \in DOMAIN redisQ : redisQ[i] \in Sessions
         /\ \A i \in DOMAIN replyQ :
              /\ replyQ[i].s \in Sessions
              /\ replyQ[i].ok \in BOOLEAN
              /\ replyQ[i].at \in [Keys -> Nat]
         /\ \A s \in Sessions : pc[s] \in {"storing", "histRedis"} =>
              /\ req[s] \in Request
              /\ req[s].key \in Keys
         /\ \A p \in DOMAIN published :
              /\ published[p].key \in Keys
              /\ published[p].first \in Int
              /\ published[p].last \in Nat
<1>1. /\ RedisType /\ MutexTypes /\ RestType /\ ReqType
      /\ \A t \in Sessions : SessionInv(t)
  BY SessionsParts
<1>2. \A s \in Sessions : req[s].n \in Nat
  BY <1>1 DEF ReqType, Request, NoReq
<1>3. \A s \in Sessions : req[s] \in Request => req[s].key \in Keys
  BY DEF Request
<1>4. \A i \in DOMAIN replyQ : replyQ[i] \in Answer
  BY <1>1 DEF RedisType
<1>5. \A i \in DOMAIN replyQ :
        /\ replyQ[i].s \in Sessions
        /\ replyQ[i].ok \in BOOLEAN
        /\ replyQ[i].at \in [Keys -> Nat]
  BY <1>4 DEF Answer, Positions
<1>6. \A p \in DOMAIN published : published[p] \in Broadcast
  BY <1>1 DEF RestType
<1>7. \A p \in DOMAIN published :
        /\ published[p].key \in Keys
        /\ published[p].first \in Int
        /\ published[p].last \in Nat
  BY <1>6 DEF Broadcast
<1>8. \A i \in DOMAIN redisQ : redisQ[i] \in Sessions
  BY <1>1 DEF RedisType
<1>9. events \in Nat /\ events <= MaxEvents
  BY <1>1, ConstantsAssumption DEF RestType
<1>10. \A s \in Sessions : pc[s] \in {"storing", "histRedis"} => req[s] \in Request
  BY <1>1 DEF SessionInv
<1> QED BY <1>1, <1>2, <1>3, <1>5, <1>7, <1>8, <1>9, <1>10
        DEF RedisType, RestType, ReqType

\* Steps that concern neither queues nor streams, nor who waits for Redis.
LEMMA QuietRedis ==
  ASSUME RedisInv, SessionsInv,
         UNCHANGED <<redisQ, replyQ, streams, published, events, req>>,
         orphans' = orphans,
         \A t \in Sessions :
           \/ pc'[t] = pc[t]
           \/ pc[t] \notin Asking \cup {"ended"} /\ pc'[t] \notin Asking
  PROVE  RedisInv'
<1>0. \A i \in DOMAIN redisQ : redisQ[i] \in Sessions
  BY RedisFacts
<1>1. \A i \in DOMAIN replyQ : replyQ[i].s \in Sessions
  BY RedisFacts
<1>2. \A t \in Sessions :
        /\ pc[t] = "storing" <=> pc'[t] = "storing"
        /\ pc[t] \in Asking => pc'[t] = pc[t]
        /\ pc[t] = "ended" => pc'[t] = "ended"
  BY DEF Asking
<1>3. AskedOnce'
  BY <1>0, <1>1, <1>2 DEF RedisInv, AskedOnce
<1>4. RequestsFit'
  BY <1>2, RedisFacts DEF RedisInv, RequestsFit, Asking
<1>5. Announcing' = Announcing
  BY <1>1, <1>2 DEF Announcing
<1>7. AnswersFit'
  BY <1>5 DEF RedisInv, AnswersFit, BroadcastOf, IsStored
<1>8. PublishedIsStored' /\ PublishedInStreamOrder'
  BY DEF RedisInv, PublishedIsStored, PublishedInStreamOrder, IsStored
<1>9. MessagesAccounted'
  <2>1. \A k \in Keys : \A i \in DOMAIN streams[k] : streams[k][i] \in Sessions
    BY RedisFacts
  <2> QED BY <1>2, <2>1
          DEF RedisInv, MessagesAccounted, Announced, InBatch, BroadcastOf
<1>10. EventsCounted'
  <2>1. Storing' = Storing
    BY <1>2 DEF Storing
  <2> QED BY <2>1 DEF RedisInv, EventsCounted
<1> QED BY <1>3, <1>4, <1>7, <1>8, <1>9, <1>10 DEF RedisInv

\* run() of s asks Redis for something.  Only storing has messages to append.
LEMMA AskingRedis ==
  ASSUME RedisInv, SessionsInv, NEW s \in Sessions, AskRedis(s),
         NEW to \in Asking, pc' = [pc EXCEPT ![s] = to],
         pc[s] \notin Asking \cup {"ended"},
         published' = published,
         \A t \in Sessions : t # s => req'[t] = req[t],
         to # "storing" => req'[s].n = 0 /\ events' \in Nat /\ events' >= events,
         to = "storing" => events' = events + 1
  PROVE  RedisInv'
<1> DEFINE n == Len(redisQ)
<1>1. /\ redisQ \in Seq(Sessions) /\ n \in Nat
      /\ DOMAIN redisQ = 1..n /\ DOMAIN redisQ' = 1..(n + 1)
      /\ redisQ'[n + 1] = s
      /\ \A i \in 1..n : redisQ'[i] = redisQ[i] /\ redisQ[i] \in Sessions
  BY RedisFacts DEF AskRedis
<1>2. UNCHANGED <<replyQ, orphans, streams>>
  BY DEF AskRedis
<1>3. \A i \in DOMAIN replyQ : replyQ[i].s \in Sessions
  BY RedisFacts
<1>4. pc'[s] = to /\ \A t \in Sessions : t # s => pc'[t] = pc[t]
  BY RedisFacts
<1>5. /\ \A i \in 1..n : redisQ[i] # s
      /\ \A i \in DOMAIN replyQ : replyQ[i].s # s
  BY <1>1 DEF RedisInv, AskedOnce
<1>6. AskedOnce'
  <2>1. \A i \in 1..(n + 1) : i \in 1..n \/ i = n + 1
    BY <1>1
  <2>2. \A i \in DOMAIN redisQ' : pc'[redisQ'[i]] \in Asking
    BY <1>1, <1>4, <1>5, <2>1 DEF RedisInv, AskedOnce
  <2>3. \A i, j \in DOMAIN redisQ' : redisQ'[i] = redisQ'[j] => i = j
    BY <1>1, <1>5, <2>1 DEF RedisInv, AskedOnce
  <2>4. \A i \in DOMAIN redisQ', j \in DOMAIN replyQ : redisQ'[i] # replyQ[j].s
    BY <1>1, <1>5, <2>1 DEF RedisInv, AskedOnce
  <2> QED BY <1>2, <1>3, <1>4, <1>5, <2>2, <2>3, <2>4 DEF RedisInv, AskedOnce
<1>7. RequestsFit'
  <2>1. \A i \in DOMAIN orphans : orphans[i] \in Sessions /\ orphans[i] # s
    BY RedisFacts DEF RedisInv, RequestsFit
  <2> QED BY <1>2, <1>4, <2>1 DEF RedisInv, RequestsFit
<1>8. \A i \in DOMAIN replyQ : BroadcastOf(replyQ[i])' = BroadcastOf(replyQ[i])
  BY <1>2, <1>3, <1>5 DEF BroadcastOf
<1>9. AnswersFit'
  <2>1. Announcing' = Announcing
    BY <1>2, <1>3, <1>4, <1>5 DEF Announcing
  <2>2. Announcing \subseteq DOMAIN replyQ
    BY DEF Announcing
  <2> QED BY <1>2, <1>8, <2>1, <2>2 DEF RedisInv, AnswersFit, IsStored
<1>10. PublishedIsStored' /\ PublishedInStreamOrder'
  BY <1>2 DEF RedisInv, PublishedIsStored, PublishedInStreamOrder, IsStored
<1>11. MessagesAccounted'
  <2> SUFFICES ASSUME NEW k \in Keys, NEW i \in DOMAIN streams[k]
               PROVE  LET author == streams[k][i]
                      IN  \/ Announced(k, i)
                          \/ pc'[author] = "ended"
                          \/ /\ pc'[author] = "storing"
                             /\ \E j \in DOMAIN replyQ :
                                  /\ replyQ[j].s = author
                                  /\ replyQ[j].ok =>
                                       InBatch(k, i, BroadcastOf(replyQ[j])')
    BY <1>2 DEF MessagesAccounted, Announced, InBatch
  <2>1. streams[k][i] \in Sessions
    BY RedisFacts
  <2> QED BY <1>4, <1>5, <1>8, <2>1 DEF RedisInv, MessagesAccounted, Asking
<1>12. EventsCounted'
  <2>1. /\ IsFiniteSet(Storing) /\ Len(published) \in Nat
        /\ Len(published) + Cardinality(Storing) <= events
        /\ events \in Nat
    BY RedisFacts DEF RedisInv, EventsCounted
  <2>2. Cardinality(Storing) \in Nat
    BY <2>1, FS_CardinalityType
  <2>3. CASE to = "storing"
    <3>1. Storing' = Storing \cup {s}
      BY <1>4, <2>3 DEF Storing
    <3>2. s \notin Storing
      BY DEF Storing, Asking
    <3>3. /\ IsFiniteSet(Storing \cup {s})
          /\ Cardinality(Storing \cup {s}) = Cardinality(Storing) + 1
      BY <2>1, <3>2, FS_AddElement
    <3> QED BY <1>2, <2>1, <2>2, <2>3, <3>1, <3>3 DEF EventsCounted
  <2>4. CASE to # "storing"
    <3>1. Storing' = Storing
      BY <1>4, <2>4 DEF Storing, Asking
    <3> QED BY <2>1, <2>2, <2>4, <3>1 DEF EventsCounted
  <2> QED BY <2>3, <2>4
<1> QED BY <1>6, <1>7, <1>9, <1>10, <1>11, <1>12 DEF RedisInv

\* The answers that are left when the first one was taken.
LEMMA TakeReplyFacts ==
  ASSUME SessionsInv, NEW s \in Sessions, TakeReply(s)
  PROVE  /\ Len(replyQ) \in Nat /\ 1 <= Len(replyQ)
         /\ DOMAIN replyQ = 1..Len(replyQ)
         /\ DOMAIN replyQ' = 1..(Len(replyQ) - 1)
         /\ \A i \in DOMAIN replyQ' :
              i + 1 \in DOMAIN replyQ /\ replyQ'[i] = replyQ[i + 1]
         /\ 1 \in DOMAIN replyQ
         /\ Reply = replyQ[1]
         /\ replyQ[1].s = s
         /\ UNCHANGED <<redisQ, orphans, streams>>
<1>1. replyQ \in Seq(Answer) /\ replyQ # << >>
  BY RedisFacts DEF TakeReply
<1>2. Len(replyQ) \in Nat /\ 1 <= Len(replyQ) /\ DOMAIN replyQ = 1..Len(replyQ)
  BY <1>1
<1>3. /\ DOMAIN replyQ' = 1..(Len(replyQ) - 1)
      /\ \A i \in 1..(Len(replyQ) - 1) : replyQ'[i] = replyQ[i + 1]
  BY <1>1, <1>2 DEF TakeReply
<1>4. Head(replyQ) = replyQ[1]
  BY <1>1, <1>2
<1> QED BY <1>2, <1>3, <1>4 DEF TakeReply, Reply

\* Taking an answer leaves the queues in order, whatever run() does next, if
\* only it is not storing any more.
LEMMA TakenAnswers ==
  ASSUME RedisInv, SessionsInv, NEW s \in Sessions, TakeReply(s),
         NEW to \in States \ Asking, pc' = [pc EXCEPT ![s] = to],
         \A t \in Sessions : t # s => req'[t] = req[t]
  PROVE  /\ \A i \in DOMAIN redisQ : redisQ[i] \in Sessions /\ redisQ[i] # s
         /\ \A i \in DOMAIN replyQ' :
              /\ replyQ'[i].s \in Sessions
              /\ replyQ'[i].s # s
              /\ BroadcastOf(replyQ[i])' = BroadcastOf(replyQ[i + 1])
              /\ i \in Announcing' <=> i + 1 \in Announcing
         /\ Announcing' \subseteq DOMAIN replyQ'
         /\ AskedOnce'
<1>1. /\ DOMAIN replyQ = 1..Len(replyQ) /\ Len(replyQ) \in Nat
      /\ DOMAIN replyQ' = 1..(Len(replyQ) - 1)
      /\ \A i \in DOMAIN replyQ' :
           i + 1 \in DOMAIN replyQ /\ replyQ'[i] = replyQ[i + 1]
      /\ 1 \in DOMAIN replyQ /\ replyQ[1].s = s
      /\ UNCHANGED <<redisQ, orphans, streams>>
  BY TakeReplyFacts
<1>2. /\ pc'[s] = to
      /\ \A t \in Sessions : t # s => pc'[t] = pc[t]
      /\ \A i \in DOMAIN redisQ : redisQ[i] \in Sessions
      /\ \A i \in DOMAIN replyQ : replyQ[i].s \in Sessions
  BY RedisFacts
<1>3. /\ \A i \in DOMAIN redisQ : redisQ[i] # s
      /\ \A i \in DOMAIN replyQ : i # 1 => replyQ[i].s # s
  BY <1>1 DEF RedisInv, AskedOnce
<1>4. \A i \in DOMAIN replyQ' : i \in Nat /\ i + 1 # 1 /\ replyQ'[i].s # s
  BY <1>1, <1>3
<1>5. \A i \in DOMAIN replyQ' :
         BroadcastOf(replyQ[i])' = BroadcastOf(replyQ[i + 1])
  BY <1>1, <1>2, <1>4 DEF BroadcastOf
<1>6. \A i \in DOMAIN replyQ' : i \in Announcing' <=> i + 1 \in Announcing
  BY <1>1, <1>2, <1>4 DEF Announcing
<1>7. AskedOnce'
  <2>1. \A i \in DOMAIN redisQ : pc'[redisQ[i]] \in Asking
    BY <1>2, <1>3 DEF RedisInv, AskedOnce
  <2>2. \A i \in DOMAIN replyQ' : pc'[replyQ'[i].s] \in Asking
    BY <1>1, <1>2, <1>4 DEF RedisInv, AskedOnce
  <2>3. \A i, j \in DOMAIN replyQ' : replyQ'[i].s = replyQ'[j].s => i = j
    <3> SUFFICES ASSUME NEW i \in DOMAIN replyQ', NEW j \in DOMAIN replyQ',
                        replyQ'[i].s = replyQ'[j].s
                 PROVE  i = j
      OBVIOUS
    <3>1. i + 1 = j + 1
      BY <1>1 DEF RedisInv, AskedOnce
    <3> QED BY <1>1, <1>4, <3>1
  <2>4. \A i \in DOMAIN redisQ, j \in DOMAIN replyQ' : redisQ[i] # replyQ'[j].s
    BY <1>1 DEF RedisInv, AskedOnce
  <2> QED BY <1>1, <2>1, <2>2, <2>3, <2>4 DEF RedisInv, AskedOnce
<1> QED BY <1>1, <1>2, <1>3, <1>4, <1>5, <1>6, <1>7 DEF Announcing

\* An answer is taken and nothing is published.
LEMMA TakingReply ==
  ASSUME RedisInv, SessionsInv, NEW s \in Sessions, TakeReply(s),
         NEW to \in States \ Asking, pc' = [pc EXCEPT ![s] = to],
         pc[s] \in Asking, pc[s] = "storing" => to = "ended",
         UNCHANGED <<published, events>>,
         \A t \in Sessions : t # s => req'[t] = req[t],
         to # "ended" => req'[s].n = 0
  PROVE  RedisInv'
<1>1. /\ DOMAIN replyQ = 1..Len(replyQ) /\ Len(replyQ) \in Nat
      /\ DOMAIN replyQ' = 1..(Len(replyQ) - 1)
      /\ \A i \in DOMAIN replyQ' :
           i + 1 \in DOMAIN replyQ /\ replyQ'[i] = replyQ[i + 1]
      /\ 1 \in DOMAIN replyQ /\ replyQ[1].s = s
      /\ UNCHANGED <<redisQ, orphans, streams>>
  BY TakeReplyFacts
<1>2. /\ \A i \in DOMAIN replyQ' :
              /\ replyQ'[i].s \in Sessions
              /\ replyQ'[i].s # s
              /\ BroadcastOf(replyQ[i])' = BroadcastOf(replyQ[i + 1])
              /\ i \in Announcing' <=> i + 1 \in Announcing
      /\ Announcing' \subseteq DOMAIN replyQ'
      /\ AskedOnce'
  BY TakenAnswers
<1>0. pc'[s] = to /\ \A t \in Sessions : t # s => pc'[t] = pc[t]
  BY RedisFacts
<1>3. RequestsFit'
  <2>1. \A i \in DOMAIN orphans : orphans[i] \in Sessions /\ orphans[i] # s
    BY RedisFacts DEF RedisInv, RequestsFit, Asking
  <2> QED BY <1>0, <1>1, <2>1 DEF RedisInv, RequestsFit, Asking
<1>4. AnswersFit'
  <2>1. \A i \in DOMAIN replyQ', k \in Keys : replyQ'[i].at[k] <= Len(streams[k])
    BY <1>1 DEF RedisInv, AnswersFit
  <2>2. \A i \in Announcing' : IsStored(BroadcastOf(replyQ[i])')
    BY <1>2 DEF RedisInv, AnswersFit
  <2>3. \A i \in Announcing', p \in DOMAIN published :
          LET m == BroadcastOf(replyQ[i])'
          IN  published[p].key = m.key => published[p].last < m.first
    BY <1>2 DEF RedisInv, AnswersFit
  <2>4. \A i, j \in Announcing' :
          LET m == BroadcastOf(replyQ[i])'
              l == BroadcastOf(replyQ[j])'
          IN  i < j /\ m.key = l.key => m.last < l.first
    BY <1>1, <1>2 DEF RedisInv, AnswersFit
  <2> QED BY <1>1, <2>1, <2>2, <2>3, <2>4 DEF AnswersFit, IsStored
<1>5. PublishedIsStored' /\ PublishedInStreamOrder'
  BY <1>1 DEF RedisInv, PublishedIsStored, PublishedInStreamOrder, IsStored
<1>6. MessagesAccounted'
  <2> SUFFICES ASSUME NEW k \in Keys, NEW i \in DOMAIN streams[k],
                      NEW a, a = streams[k][i]
               PROVE  \/ Announced(k, i)
                      \/ pc'[a] = "ended"
                      \/ /\ pc'[a] = "storing"
                         /\ \E j \in DOMAIN replyQ' :
                              /\ replyQ'[j].s = a
                              /\ replyQ'[j].ok =>
                                   InBatch(k, i, BroadcastOf(replyQ[j])')
    BY <1>1 DEF MessagesAccounted, Announced, InBatch
  <2>1. a \in Sessions
    BY RedisFacts
  <2>2. CASE Announced(k, i) \/ pc[a] = "ended"
    BY <1>0, <2>1, <2>2 DEF Asking
  <2>3. CASE a = s /\ ~(Announced(k, i) \/ pc[a] = "ended")
    <3>1. MessagesAccounted
      BY DEF RedisInv
    <3>2. pc[a] = "storing"
      BY <2>3, <3>1 DEF MessagesAccounted
    <3> QED BY <1>0, <2>3, <3>2
  <2>4. CASE a # s /\ ~(Announced(k, i) \/ pc[a] = "ended")
    <3>1. PICK j \in DOMAIN replyQ :
            /\ replyQ[j].s = a
            /\ replyQ[j].ok => InBatch(k, i, BroadcastOf(replyQ[j]))
      BY <2>4 DEF RedisInv, MessagesAccounted
    <3>2. j - 1 \in DOMAIN replyQ' /\ (j - 1) + 1 = j
      BY <1>1, <2>4, <3>1
    <3>3. pc'[a] = "storing"
      BY <1>0, <2>1, <2>4 DEF RedisInv, MessagesAccounted
    <3>4. replyQ'[j - 1] = replyQ[j]
          /\ BroadcastOf(replyQ[j - 1])' = BroadcastOf(replyQ[j])
      BY <1>1, <1>2, <3>2
    <3> QED BY <3>1, <3>2, <3>3, <3>4
  <2> QED BY <2>2, <2>3, <2>4
<1>7. EventsCounted'
  <2>1. /\ IsFiniteSet(Storing) /\ Len(published) \in Nat
        /\ Len(published) + Cardinality(Storing) <= events
        /\ events \in Nat
    BY RedisFacts DEF RedisInv, EventsCounted
  <2>2. Storing' = Storing \ {s}
    BY <1>0 DEF Storing, Asking
  <2>3. /\ IsFiniteSet(Storing \ {s})
        /\ Cardinality(Storing \ {s}) =
             IF s \in Storing THEN Cardinality(Storing) - 1 ELSE Cardinality(Storing)
    BY <2>1, FS_RemoveElement
  <2>4. Cardinality(Storing) \in Nat
    BY <2>1, FS_CardinalityType
  <2> QED BY <2>1, <2>2, <2>3, <2>4 DEF EventsCounted
<1> QED BY <1>2, <1>3, <1>4, <1>5, <1>6, <1>7 DEF RedisInv

\* A good answer to an author is taken, and its batch is published.
LEMMA PublishingReply ==
  ASSUME RedisInv, SessionsInv, NEW s \in Sessions, TakeReply(s),
         pc[s] = "storing", Reply.ok,
         pc' = [pc EXCEPT ![s] = "reading"],
         req' = [req EXCEPT ![s] = NoReq],
         published' = Append(published, BroadcastOf(Reply)),
         UNCHANGED events
  PROVE  RedisInv'
<1> DEFINE n == Len(published)
           m == BroadcastOf(Reply)
<1>0. /\ pc'[s] = "reading" /\ \A t \in Sessions : t # s => pc'[t] = pc[t]
      /\ req'[s].n = 0 /\ \A t \in Sessions : t # s => req'[t] = req[t]
  BY SessionsParts DEF RestType, ReqType, NoReq
<1>1. /\ DOMAIN replyQ = 1..Len(replyQ) /\ Len(replyQ) \in Nat
      /\ DOMAIN replyQ' = 1..(Len(replyQ) - 1)
      /\ \A i \in DOMAIN replyQ' :
           i + 1 \in DOMAIN replyQ /\ replyQ'[i] = replyQ[i + 1]
      /\ 1 \in DOMAIN replyQ /\ replyQ[1].s = s
      /\ Reply = replyQ[1]
      /\ UNCHANGED <<redisQ, orphans, streams>>
  BY TakeReplyFacts
<1>2. /\ \A i \in DOMAIN replyQ' :
              /\ replyQ'[i].s \in Sessions
              /\ replyQ'[i].s # s
              /\ BroadcastOf(replyQ[i])' = BroadcastOf(replyQ[i + 1])
              /\ i \in Announcing' <=> i + 1 \in Announcing
      /\ Announcing' \subseteq DOMAIN replyQ'
      /\ AskedOnce'
  <2>1. "reading" \in States \ Asking
    BY DEF States, Asking
  <2> QED BY <1>0, <2>1, TakenAnswers
<1>3. /\ n \in Nat /\ DOMAIN published = 1..n /\ DOMAIN published' = 1..(n + 1)
      /\ published'[n + 1] = m
      /\ \A p \in 1..n : published'[p] = published[p]
      /\ \A p \in 1..(n + 1) : p \in 1..n \/ p = n + 1
      /\ Len(published') = n + 1
  BY RedisFacts
<1>4. 1 \in Announcing
  BY <1>1 DEF Announcing
<1>5. RequestsFit'
  <2>1. \A i \in DOMAIN orphans : orphans[i] \in Sessions /\ orphans[i] # s
    BY RedisFacts DEF RedisInv, RequestsFit, Asking
  <2> QED BY <1>0, <1>1, <2>1 DEF RedisInv, RequestsFit
<1>6. PublishedIsStored'
  <2>1. IsStored(m)
    BY <1>1, <1>4 DEF RedisInv, AnswersFit
  <2>2. \A p \in 1..n : IsStored(published[p])
    BY <1>3 DEF RedisInv, PublishedIsStored
  <2>3. \A p \in 1..(n + 1) : IsStored(published'[p])
    BY <1>3, <2>1, <2>2
  <2> HIDE DEF n, m
  <2> QED BY <1>1, <1>3, <2>3 DEF PublishedIsStored, IsStored
<1>7. \A p \in 1..n : published[p].key = m.key => published[p].last < m.first
  BY <1>1, <1>3, <1>4 DEF RedisInv, AnswersFit
<1>8. PublishedInStreamOrder'
  <2> HIDE DEF n, m
  <2>1. \A p, q \in 1..(n + 1) :
          p < q /\ published'[p].key = published'[q].key =>
            published'[p].last < published'[q].first
    <3> SUFFICES ASSUME NEW p \in 1..(n + 1), NEW q \in 1..(n + 1), p < q,
                        published'[p].key = published'[q].key
                 PROVE  published'[p].last < published'[q].first
      OBVIOUS
    <3>1. p \in 1..n /\ published'[p] = published[p]
      BY <1>3
    <3>2. CASE q \in 1..n
      BY <1>3, <3>1, <3>2 DEF RedisInv, PublishedInStreamOrder
    <3>3. CASE q = n + 1
      BY <1>3, <1>7, <3>1, <3>3
    <3> QED BY <1>3, <3>2, <3>3
  <2> QED BY <1>3, <2>1 DEF PublishedInStreamOrder
<1>9. AnswersFit'
  <2> HIDE DEF n, m
  <2>1. \A i \in DOMAIN replyQ', k \in Keys : replyQ'[i].at[k] <= Len(streams[k])
    BY <1>1 DEF RedisInv, AnswersFit
  <2>2. \A i \in Announcing' : IsStored(BroadcastOf(replyQ[i])')
    BY <1>2 DEF RedisInv, AnswersFit
  <2>3. ASSUME NEW i \in Announcing', NEW p \in 1..(n + 1),
               published'[p].key = BroadcastOf(replyQ[i])'.key
        PROVE  published'[p].last < BroadcastOf(replyQ[i])'.first
    <3>1. /\ i + 1 \in Announcing /\ i \in Nat /\ 1 < i + 1
          /\ BroadcastOf(replyQ[i])' = BroadcastOf(replyQ[i + 1])
      BY <1>1, <1>2
    <3>2. CASE p \in 1..n
      BY <1>3, <2>3, <3>1, <3>2 DEF RedisInv, AnswersFit
    <3>3. CASE p = n + 1
      BY <1>1, <1>3, <1>4, <2>3, <3>1, <3>3 DEF RedisInv, AnswersFit, m
    <3> QED BY <1>3, <3>2, <3>3
  <2>4. \A i, j \in Announcing' :
          LET b == BroadcastOf(replyQ[i])'
              l == BroadcastOf(replyQ[j])'
          IN  i < j /\ b.key = l.key => b.last < l.first
    BY <1>1, <1>2 DEF RedisInv, AnswersFit
  <2> QED BY <1>1, <1>3, <2>1, <2>2, <2>3, <2>4 DEF AnswersFit, IsStored
<1>10. MessagesAccounted'
  <2> SUFFICES ASSUME NEW k \in Keys, NEW i \in DOMAIN streams[k],
                      NEW a, a = streams[k][i]
               PROVE  \/ Announced(k, i)'
                      \/ pc'[a] = "ended"
                      \/ /\ pc'[a] = "storing"
                         /\ \E j \in DOMAIN replyQ' :
                              /\ replyQ'[j].s = a
                              /\ replyQ'[j].ok =>
                                   InBatch(k, i, BroadcastOf(replyQ[j])')
    BY <1>1 DEF MessagesAccounted, Announced, InBatch
  <2> HIDE DEF n, m
  <2>1. a \in Sessions
    BY RedisFacts
  <2>2. CASE Announced(k, i)
    BY <1>3, <2>2 DEF Announced
  <2>3. CASE pc[a] = "ended"
    BY <1>0, <2>1, <2>3
  <2>4. CASE ~(Announced(k, i) \/ pc[a] = "ended")
    <3>1. PICK j \in DOMAIN replyQ :
            /\ replyQ[j].s = a
            /\ replyQ[j].ok => InBatch(k, i, BroadcastOf(replyQ[j]))
      BY <2>4 DEF RedisInv, MessagesAccounted
    <3>2. CASE a = s
      <4>1. j = 1
        BY <1>1, <3>1, <3>2 DEF RedisInv, AskedOnce
      <4>2. InBatch(k, i, m)
        BY <1>1, <3>1, <4>1 DEF m
      <4> QED BY <1>3, <4>2 DEF Announced
    <3>3. CASE a # s
      <4>1. j - 1 \in DOMAIN replyQ' /\ (j - 1) + 1 = j
        BY <1>1, <3>1, <3>3
      <4>2. pc'[a] = "storing"
        BY <1>0, <2>1, <2>4, <3>3 DEF RedisInv, MessagesAccounted
      <4>3. replyQ'[j - 1] = replyQ[j]
            /\ BroadcastOf(replyQ[j - 1])' = BroadcastOf(replyQ[j])
        BY <1>1, <1>2, <4>1
      <4> QED BY <3>1, <4>1, <4>2, <4>3
    <3> QED BY <3>2, <3>3
  <2> QED BY <2>2, <2>3, <2>4
<1>11. EventsCounted'
  <2>1. /\ IsFiniteSet(Storing) /\ n + Cardinality(Storing) <= events
        /\ events \in Nat
    BY RedisFacts DEF RedisInv, EventsCounted
  <2>2. Storing' = Storing \ {s} /\ s \in Storing
    BY <1>0 DEF Storing
  <2>3. /\ IsFiniteSet(Storing \ {s})
        /\ Cardinality(Storing \ {s}) = Cardinality(Storing) - 1
    BY <2>1, <2>2, FS_RemoveElement
  <2>4. Cardinality(Storing) \in Nat
    BY <2>1, FS_CardinalityType
  <2> HIDE DEF n
  <2> QED BY <1>3, <2>1, <2>2, <2>3, <2>4 DEF EventsCounted
<1> QED BY <1>2, <1>5, <1>6, <1>8, <1>9, <1>10, <1>11 DEF RedisInv

\* The elements of a concatenation.
LEMMA ConcatFacts ==
  ASSUME NEW S, NEW p \in Seq(S), NEW q \in Seq(S)
  PROVE  /\ p \o q \in Seq(S)
         /\ Len(p \o q) = Len(p) + Len(q)
         /\ \A i \in 1..(Len(p) + Len(q)) :
              (p \o q)[i] = IF i <= Len(p) THEN p[i] ELSE q[i - Len(p)]
OBVIOUS

\* What Redis appends for a request goes behind everything in its stream.
LEMMA AppendsFacts ==
  ASSUME SessionsInv, NEW s \in Sessions, NEW n \in 0..req[s].n, Appends(s, n)
  PROVE  /\ streams' \in [Keys -> Seq(Sessions)]
         /\ \A k \in Keys :
              /\ Len(streams[k]) \in Nat /\ Len(streams'[k]) \in Nat
              /\ DOMAIN streams[k] = 1..Len(streams[k])
              /\ DOMAIN streams'[k] = 1..Len(streams'[k])
              /\ Len(streams'[k]) =
                   IF n > 0 /\ k = req[s].key THEN Len(streams[k]) + n
                   ELSE Len(streams[k])
              /\ \A i \in DOMAIN streams'[k] :
                   streams'[k][i] = IF i <= Len(streams[k]) THEN streams[k][i] ELSE s
<1>1. /\ streams \in [Keys -> Seq(Sessions)]
      /\ req[s] \in Request \cup {NoReq} /\ req[s].n \in Nat
  BY RedisFacts
<1>2. CASE n = 0
  BY <1>1, <1>2 DEF Appends
<1>3. CASE n # 0
  <2> DEFINE r == req[s].key
             new == [i \in 1..n |-> s]
  <2>1. req[s] \in Request /\ n \in Nat
    BY <1>1, <1>3 DEF NoReq
  <2>2. r \in Keys
    BY <2>1 DEF Request
  <2>3. new \in Seq(Sessions) /\ Len(new) = n /\ \A i \in 1..n : new[i] = s
    BY <2>1
  <2> HIDE DEF new
  <2>4. streams' = [streams EXCEPT ![r] = streams[r] \o new]
    BY <1>3 DEF Appends, new
  <2>5. /\ streams[r] \o new \in Seq(Sessions)
        /\ Len(streams[r] \o new) = Len(streams[r]) + n
        /\ \A i \in 1..(Len(streams[r]) + n) : (streams[r] \o new)[i] =
             IF i <= Len(streams[r]) THEN streams[r][i] ELSE new[i - Len(streams[r])]
    <3>1. streams[r] \in Seq(Sessions)
      BY <1>1, <2>2
    <3> QED BY <2>3, <3>1, ConcatFacts
  <2>6. \A i \in 1..(Len(streams[r]) + n) : (streams[r] \o new)[i] =
             IF i <= Len(streams[r]) THEN streams[r][i] ELSE s
    <3> SUFFICES ASSUME NEW i \in 1..(Len(streams[r]) + n), ~(i <= Len(streams[r]))
                 PROVE  (streams[r] \o new)[i] = s
      BY <2>5
    <3>1. i - Len(streams[r]) \in 1..n
      BY <1>1, <2>1, <2>2
    <3> QED BY <2>3, <2>5, <3>1
  <2> DEFINE grown == streams[r] \o new
  <2> HIDE DEF grown
  <2>7. /\ streams' = [streams EXCEPT ![r] = grown]
        /\ grown \in Seq(Sessions) /\ Len(grown) = Len(streams[r]) + n
        /\ \A i \in 1..(Len(streams[r]) + n) :
             grown[i] = IF i <= Len(streams[r]) THEN streams[r][i] ELSE s
    BY <2>4, <2>5, <2>6 DEF grown
  <2>8. /\ streams' \in [Keys -> Seq(Sessions)]
        /\ streams'[r] = grown
        /\ \A k \in Keys : k # r => streams'[k] = streams[k]
    BY <1>1, <2>2, <2>7
  <2>9. n \in Nat /\ n > 0
    BY <1>3, <2>1
  <2>10. ASSUME NEW k \in Keys
         PROVE  /\ Len(streams[k]) \in Nat /\ Len(streams'[k]) \in Nat
                /\ DOMAIN streams[k] = 1..Len(streams[k])
                /\ DOMAIN streams'[k] = 1..Len(streams'[k])
    BY <1>1, <2>8
  <2>11. ASSUME NEW k \in Keys
         PROVE  /\ Len(streams'[k]) = IF k = r THEN Len(streams[k]) + n
                                      ELSE Len(streams[k])
                /\ \A i \in DOMAIN streams'[k] :
                     streams'[k][i] = IF i <= Len(streams[k]) THEN streams[k][i] ELSE s
    <3>1. CASE k = r
      BY <2>7, <2>8, <2>10, <3>1
    <3>2. CASE k # r
      BY <2>8, <2>10, <3>2
    <3> QED BY <3>1, <3>2
  <2> QED BY <2>8, <2>9, <2>10, <2>11
<1> QED BY <1>2, <1>3

\* What is stored stays stored, and stays where it is, when a stream grows.
LEMMA GrowthKeepsStored ==
  ASSUME SessionsInv, NEW s \in Sessions, NEW n \in 0..req[s].n, Appends(s, n),
         NEW m, m.key \in Keys, m.first \in Int, m.last \in Int, IsStored(m)
  PROVE  IsStored(m)'
<1>1. /\ Len(streams[m.key]) \in Nat /\ Len(streams'[m.key]) \in Nat
      /\ DOMAIN streams'[m.key] = 1..Len(streams'[m.key])
      /\ Len(streams'[m.key]) >= Len(streams[m.key])
      /\ \A i \in DOMAIN streams'[m.key] :
           i <= Len(streams[m.key]) => streams'[m.key][i] = streams[m.key][i]
  <2>1. n \in Nat
    BY RedisFacts
  <2> QED BY <2>1, AppendsFacts
<1> QED BY <1>1 DEF IsStored

\* The broadcasts that answers are going to become are well formed.
LEMMA AnnouncingFacts ==
  ASSUME SessionsInv, NEW i \in Announcing
  PROVE  /\ i \in DOMAIN replyQ
         /\ BroadcastOf(replyQ[i]).key \in Keys
         /\ BroadcastOf(replyQ[i]).first \in Int
         /\ BroadcastOf(replyQ[i]).last \in Nat
         /\ BroadcastOf(replyQ[i]).last = replyQ[i].at[BroadcastOf(replyQ[i]).key]
<1>1. i \in DOMAIN replyQ /\ pc[replyQ[i].s] = "storing" /\ replyQ[i].s \in Sessions
  BY RedisFacts DEF Announcing
<1>2. /\ replyQ[i].at \in [Keys -> Nat]
      /\ req[replyQ[i].s].key \in Keys
      /\ req[replyQ[i].s].n \in Nat
  BY <1>1, RedisFacts
<1> QED BY <1>1, <1>2 DEF BroadcastOf

\* Redis executes the next request.
LEMMA ExecutingRequest ==
  ASSUME RedisInv, SessionsInv, RedisExecutes
  PROVE  RedisInv'
<1>0. PICK s, l : s = Head(redisQ) /\ l = Len(replyQ)
  OBVIOUS
<1>1. /\ s \in Sessions /\ s = redisQ[1] /\ 1 \in DOMAIN redisQ
      /\ Len(redisQ) \in Nat /\ DOMAIN redisQ = 1..Len(redisQ)
      /\ DOMAIN redisQ' = 1..(Len(redisQ) - 1)
      /\ \A i \in DOMAIN redisQ' :
           i \in Nat /\ i + 1 \in DOMAIN redisQ /\ redisQ'[i] = redisQ[i + 1]
  <2>1. redisQ \in Seq(Sessions) /\ redisQ # << >> /\ redisQ' = Tail(redisQ)
    BY RedisFacts DEF RedisExecutes
  <2> QED BY <1>0, <2>1
<1>2. PICK n \in 0..req[s].n, ok \in BOOLEAN :
        /\ req[s].n > 0 => (ok <=> n = req[s].n)
        /\ Appends(s, n)
        /\ replyQ' = Append(replyQ,
             [s |-> s, ok |-> ok,
              at |-> IF ok THEN [j \in Keys |-> Len(streams'[j])] ELSE Nothing])
  BY <1>0 DEF RedisExecutes
<1>3. UNCHANGED <<pc, orphans, published, req, events>>
  BY DEF RedisExecutes
<1>30. PICK a : a = [s |-> s, ok |-> ok,
                 at |-> IF ok THEN [j \in Keys |-> Len(streams'[j])] ELSE Nothing]
  OBVIOUS
<1>4. /\ l \in Nat /\ DOMAIN replyQ = 1..l /\ DOMAIN replyQ' = 1..(l + 1)
      /\ replyQ'[l + 1] = a
      /\ \A i \in 1..l : replyQ'[i] = replyQ[i] /\ replyQ[i].s \in Sessions
      /\ \A i \in 1..(l + 1) : i \in 1..l \/ i = l + 1
  BY <1>0, <1>2, <1>30, RedisFacts
<1>5. /\ a.s = s /\ a.ok = ok
      /\ ok => a.at = [j \in Keys |-> Len(streams'[j])]
      /\ ~ok => a.at = [j \in Keys |-> 0]
  BY <1>30 DEF Nothing
<1>6. /\ streams' \in [Keys -> Seq(Sessions)]
      /\ n \in Nat
      /\ \A k \in Keys :
              /\ Len(streams[k]) \in Nat /\ Len(streams'[k]) \in Nat
              /\ DOMAIN streams[k] = 1..Len(streams[k])
              /\ DOMAIN streams'[k] = 1..Len(streams'[k])
              /\ Len(streams'[k]) =
                   IF n > 0 /\ k = req[s].key THEN Len(streams[k]) + n
                   ELSE Len(streams[k])
              /\ \A i \in DOMAIN streams'[k] :
                   streams'[k][i] = IF i <= Len(streams[k]) THEN streams[k][i] ELSE s
  <2>1. n \in Nat
    BY <1>1, RedisFacts
  <2> QED BY <1>1, <1>2, <2>1, AppendsFacts
<1>7. \A k \in Keys : Len(streams[k]) <= Len(streams'[k])
  BY <1>6
<1>60. ASSUME NEW k \in Keys, k = req[s].key
      PROVE  /\ Len(streams[k]) \in Nat
             /\ Len(streams'[k]) = Len(streams[k]) + n
             /\ \A j \in 1..Len(streams'[k]) :
                  j > Len(streams[k]) => streams'[k][j] = s
  <2>1. /\ Len(streams[k]) \in Nat
        /\ DOMAIN streams'[k] = 1..Len(streams'[k])
        /\ Len(streams'[k]) = IF n > 0 THEN Len(streams[k]) + n ELSE Len(streams[k])
    BY <1>6, <1>60
  <2>2. Len(streams'[k]) = Len(streams[k]) + n
    BY <1>6, <2>1
  <2>3. \A j \in DOMAIN streams'[k] :
          streams'[k][j] = IF j <= Len(streams[k]) THEN streams[k][j] ELSE s
    BY <1>6
  <2> QED BY <1>6, <2>1, <2>2, <2>3
<1>8. pc[s] \in Asking /\ (n > 0 => pc[s] = "storing")
  <2>1. pc[s] \in Asking
    BY <1>1 DEF RedisInv, AskedOnce
  <2>2. req[s].n \in Nat
    BY <1>1, RedisFacts
  <2> QED BY <1>1, <1>6, <2>1, <2>2 DEF RedisInv, RequestsFit, Asking
<1>9. AskedOnce'
  <2>1. /\ \A i \in 1..l : replyQ[i].s # s
        /\ \A i \in DOMAIN redisQ' : redisQ'[i] # s
    BY <1>1, <1>4 DEF RedisInv, AskedOnce
  <2>2. /\ \A i \in DOMAIN redisQ' : pc[redisQ'[i]] \in Asking
        /\ \A i, j \in DOMAIN redisQ' : redisQ'[i] = redisQ'[j] => i = j
    <3>1. \A i, j \in DOMAIN redisQ' : redisQ'[i] = redisQ'[j] => i + 1 = j + 1
      BY <1>1 DEF RedisInv, AskedOnce
    <3>2. \A i \in DOMAIN redisQ' : pc[redisQ'[i]] \in Asking
      BY <1>1 DEF RedisInv, AskedOnce
    <3> QED BY <1>1, <3>1, <3>2
  <2>3. \A i \in DOMAIN replyQ' : pc[replyQ'[i].s] \in Asking
    BY <1>4, <1>5, <1>8 DEF RedisInv, AskedOnce
  <2>4. \A i, j \in DOMAIN replyQ' : replyQ'[i].s = replyQ'[j].s => i = j
    BY <1>4, <1>5, <2>1 DEF RedisInv, AskedOnce
  <2>5. \A i \in DOMAIN redisQ', j \in DOMAIN replyQ' : redisQ'[i] # replyQ'[j].s
    BY <1>1, <1>4, <1>5, <2>1 DEF RedisInv, AskedOnce
  <2> QED BY <1>3, <2>2, <2>3, <2>4, <2>5 DEF AskedOnce
<1>10. RequestsFit'
  BY <1>3 DEF RedisInv, RequestsFit
<1>31. PICK b : b = [key |-> req[s].key, from |-> s,
                   first |-> a.at[req[s].key] + 1 - req[s].n,
                   last |-> a.at[req[s].key]]
  OBVIOUS
<1>11. /\ \A i \in 1..l : BroadcastOf(replyQ[i])' = BroadcastOf(replyQ[i])
       /\ BroadcastOf(replyQ[l + 1])' = b
  BY <1>3, <1>4, <1>5, <1>31 DEF BroadcastOf
<1>12. ASSUME ok, pc[s] = "storing"
       PROVE  /\ req[s].key \in Keys
              /\ b.key = req[s].key /\ b.from = s
              /\ b.first = Len(streams[b.key]) + 1
              /\ b.last = Len(streams'[b.key])
              /\ b.last = Len(streams[b.key]) + n
  <2>1. req[s].key \in Keys /\ req[s].n \in Nat
    BY <1>1, <1>12, RedisFacts
  <2>2. n = req[s].n
    BY <1>2, <1>6, <1>12, <2>1
  <2>3. a.at[req[s].key] = Len(streams'[req[s].key])
    BY <1>5, <1>12, <2>1
  <2>4. /\ b.key = req[s].key /\ b.from = s
        /\ b.first = Len(streams'[req[s].key]) + 1 - n
        /\ b.last = Len(streams'[req[s].key])
    BY <1>31, <2>2, <2>3
  <2>5. /\ Len(streams'[req[s].key]) = Len(streams[req[s].key]) + n
        /\ Len(streams[req[s].key]) \in Nat
    BY <1>60, <2>1
  <2> QED BY <1>6, <2>1, <2>4, <2>5
<1>13. /\ \A i \in 1..l : i \in Announcing' <=> i \in Announcing
       /\ Announcing' \subseteq 1..(l + 1)
       /\ Announcing \subseteq 1..l
       /\ l + 1 \in Announcing' => ok /\ pc[s] = "storing"
  BY <1>3, <1>4, <1>5 DEF Announcing
<1>14. AnswersFit'
  <2>1. ASSUME NEW i \in 1..(l + 1), NEW k \in Keys
        PROVE  replyQ'[i].at[k] <= Len(streams'[k])
    <3>1. CASE i \in 1..l
      <4>1. replyQ[i].at[k] <= Len(streams[k]) /\ replyQ[i].at[k] \in Nat
        BY <1>4, <3>1, RedisFacts DEF RedisInv, AnswersFit
      <4> QED BY <1>4, <1>6, <1>7, <3>1, <4>1
    <3>2. CASE i = l + 1
      BY <1>4, <1>5, <1>6, <3>2
    <3> QED BY <1>4, <3>1, <3>2
  <2>2. ASSUME NEW i \in Announcing'
        PROVE  IsStored(BroadcastOf(replyQ[i]))'
    <3>1. CASE i \in 1..l
      <4>1. /\ IsStored(BroadcastOf(replyQ[i]))
            /\ BroadcastOf(replyQ[i])' = BroadcastOf(replyQ[i])
            /\ BroadcastOf(replyQ[i]).key \in Keys
            /\ BroadcastOf(replyQ[i]).first \in Int
            /\ BroadcastOf(replyQ[i]).last \in Int
        BY <1>11, <1>13, <3>1, AnnouncingFacts DEF RedisInv, AnswersFit
      <4>0. PICK m : m = BroadcastOf(replyQ[i])
        OBVIOUS
      <4>2. /\ IsStored(m) /\ m.key \in Keys /\ m.first \in Int /\ m.last \in Int
            /\ BroadcastOf(replyQ[i])' = m
        BY <4>0, <4>1
      <4>3. IsStored(m)'
        BY <1>1, <1>2, <4>2, GrowthKeepsStored
      <4> QED BY <4>2, <4>3 DEF IsStored
    <3>2. CASE i = l + 1
      <4>1. /\ b.key \in Keys /\ b.from = s
            /\ b.first = Len(streams[b.key]) + 1
            /\ b.last = Len(streams'[b.key])
            /\ b.last = Len(streams[b.key]) + n
        BY <1>12, <1>13, <3>2
      <4>2. /\ Len(streams[b.key]) \in Nat
            /\ Len(streams'[b.key]) = Len(streams[b.key]) + n
            /\ \A j \in 1..Len(streams'[b.key]) :
                 j > Len(streams[b.key]) => streams'[b.key][j] = s
        BY <1>12, <1>13, <1>60, <3>2, <4>1
      <4>3. \A j \in b.first..b.last : streams'[b.key][j] = s
        BY <1>6, <4>1, <4>2
      <4>4. /\ 1 <= b.first /\ b.first <= b.last + 1
            /\ b.last <= Len(streams'[b.key])
        BY <1>6, <4>1, <4>2
      <4>5. IsStored(b)'
        BY <4>1, <4>3, <4>4 DEF IsStored
      <4>6. BroadcastOf(replyQ[i])' = b
        BY <1>11, <3>2
      <4> QED BY <4>5, <4>6 DEF IsStored
    <3> QED BY <1>13, <1>4, <3>1, <3>2
  <2>3. ASSUME NEW i \in Announcing', NEW p \in DOMAIN published,
               published[p].key = BroadcastOf(replyQ[i])'.key
        PROVE  published[p].last < BroadcastOf(replyQ[i])'.first
    <3>1. CASE i \in 1..l
      BY <1>11, <1>13, <2>3, <3>1 DEF RedisInv, AnswersFit
    <3>2. CASE i = l + 1
      <4>1. /\ b.key \in Keys
            /\ b.first = Len(streams[b.key]) + 1
        BY <1>12, <1>13, <3>2
      <4>2. published[p].last <= Len(streams[published[p].key])
            /\ published[p].last \in Nat
        BY RedisFacts DEF RedisInv, PublishedIsStored, IsStored
      <4> QED BY <1>6, <1>11, <2>3, <3>2, <4>1, <4>2
    <3> QED BY <1>13, <1>4, <3>1, <3>2
  <2>4. ASSUME NEW i \in Announcing', NEW j \in Announcing', i < j,
               BroadcastOf(replyQ[i])'.key = BroadcastOf(replyQ[j])'.key
        PROVE  BroadcastOf(replyQ[i])'.last < BroadcastOf(replyQ[j])'.first
    <3>1. i \in 1..l
      BY <1>4, <1>13, <2>4
    <3>2. CASE j \in 1..l
      BY <1>11, <1>13, <2>4, <3>1, <3>2 DEF RedisInv, AnswersFit
    <3>3. CASE j = l + 1
      <4>1. /\ b.key \in Keys
            /\ b.first = Len(streams[b.key]) + 1
        BY <1>12, <1>13, <3>3
      <4>0. PICK m : m = BroadcastOf(replyQ[i])
        OBVIOUS
      <4>2. /\ m.key \in Keys
            /\ m.last \in Nat
            /\ m.last = replyQ[i].at[m.key]
            /\ i \in DOMAIN replyQ
        BY <1>13, <3>1, <4>0, AnnouncingFacts
      <4>3. m.last <= Len(streams[m.key])
        BY <4>2 DEF RedisInv, AnswersFit
      <4>4. BroadcastOf(replyQ[i])' = m /\ m.key = b.key
        BY <1>11, <2>4, <3>1, <3>3, <4>0
      <4> QED BY <1>6, <1>11, <3>3, <4>1, <4>2, <4>3, <4>4
    <3> QED BY <1>13, <1>4, <3>2, <3>3
  <2> QED BY <1>3, <1>4, <2>1, <2>2, <2>3, <2>4 DEF AnswersFit, IsStored
<1>15. PublishedIsStored'
  <2>1. ASSUME NEW p \in DOMAIN published
        PROVE  IsStored(published[p])'
    <3>1. /\ IsStored(published[p]) /\ published[p].key \in Keys
          /\ published[p].first \in Int /\ published[p].last \in Int
      BY RedisFacts DEF RedisInv, PublishedIsStored
    <3>0. PICK m : m = published[p]
      OBVIOUS
    <3>2. IsStored(m)'
      <4>1. IsStored(m) /\ m.key \in Keys /\ m.first \in Int /\ m.last \in Int
        BY <3>0, <3>1
      <4> QED BY <1>1, <1>2, <4>1, GrowthKeepsStored
    <3> QED BY <1>3, <3>0, <3>2 DEF IsStored
  <2> QED BY <1>3, <2>1 DEF PublishedIsStored
<1>16. PublishedInStreamOrder'
  BY <1>3 DEF RedisInv, PublishedInStreamOrder
<1>17. MessagesAccounted'
  <2> SUFFICES ASSUME NEW k \in Keys, NEW i \in DOMAIN streams'[k],
                      NEW u, u = streams'[k][i]
               PROVE  \/ Announced(k, i)
                      \/ pc[u] = "ended"
                      \/ /\ pc[u] = "storing"
                         /\ \E j \in DOMAIN replyQ' :
                              /\ replyQ'[j].s = u
                              /\ replyQ'[j].ok =>
                                   InBatch(k, i, BroadcastOf(replyQ[j])')
    BY <1>3 DEF MessagesAccounted, Announced, InBatch
  <2>1. CASE i <= Len(streams[k])
    <3>1. i \in DOMAIN streams[k] /\ u = streams[k][i]
      BY <1>6, <2>1
    <3>2. CASE Announced(k, i) \/ pc[u] = "ended"
      BY <3>2
    <3>3. CASE ~(Announced(k, i) \/ pc[u] = "ended")
      <4>1. PICK j \in DOMAIN replyQ :
              /\ replyQ[j].s = u
              /\ replyQ[j].ok => InBatch(k, i, BroadcastOf(replyQ[j]))
        BY <3>1, <3>3 DEF RedisInv, MessagesAccounted
      <4>2. pc[u] = "storing"
        BY <3>1, <3>3 DEF RedisInv, MessagesAccounted
      <4>3. /\ j \in DOMAIN replyQ' /\ replyQ'[j] = replyQ[j]
            /\ BroadcastOf(replyQ[j])' = BroadcastOf(replyQ[j])
        BY <1>4, <1>11
      <4> QED BY <4>1, <4>2, <4>3
    <3> QED BY <3>2, <3>3
  <2>2. CASE ~(i <= Len(streams[k]))
    <3>1. u = s /\ n > 0 /\ k = req[s].key /\ i \in Nat
          /\ i <= Len(streams[k]) + n
      BY <1>6, <2>2
    <3>2. pc[u] = "storing"
      BY <1>8, <3>1
    <3>3. l + 1 \in DOMAIN replyQ' /\ replyQ'[l + 1].s = u
      BY <1>4, <1>5, <3>1
    <3>4. ASSUME replyQ'[l + 1].ok
          PROVE  InBatch(k, i, BroadcastOf(replyQ[l + 1])')
      <4>1. /\ b.key = k
            /\ b.first = Len(streams[b.key]) + 1
            /\ b.last = Len(streams[b.key]) + n
        BY <1>4, <1>5, <1>12, <3>1, <3>2, <3>4
      <4>2. i \in b.first..b.last
        BY <1>6, <2>2, <3>1, <4>1
      <4> QED BY <1>11, <4>1, <4>2 DEF InBatch
    <3> QED BY <3>2, <3>3, <3>4
  <2> QED BY <2>1, <2>2
<1>18. EventsCounted'
  BY <1>3 DEF RedisInv, EventsCounted, Storing
<1> QED BY <1>9, <1>10, <1>14, <1>15, <1>16, <1>17, <1>18 DEF RedisInv

\* Redis executes a request whose process is gone: its author is over.
LEMMA ExecutingOrphan ==
  ASSUME RedisInv, SessionsInv, RedisExecutesOrphan
  PROVE  RedisInv'
<1>1. PICK s : s = Head(orphans)
  OBVIOUS
<1>2. /\ s \in Sessions /\ pc[s] = "ended"
      /\ \A i \in DOMAIN orphans' : i + 1 \in DOMAIN orphans /\ orphans'[i] = orphans[i + 1]
  <2>1. orphans \in Seq(Sessions) /\ orphans # << >> /\ orphans' = Tail(orphans)
    BY RedisFacts DEF RedisExecutesOrphan
  <2>2. 1 \in DOMAIN orphans /\ s = orphans[1] /\ s \in Sessions
    BY <1>1, <2>1
  <2>3. \A i \in DOMAIN orphans' : i + 1 \in DOMAIN orphans /\ orphans'[i] = orphans[i + 1]
    BY <2>1
  <2> QED BY <2>2, <2>3 DEF RedisInv, RequestsFit
<1>3. PICK n \in 0..req[s].n : Appends(s, n)
  BY <1>1 DEF RedisExecutesOrphan
<1>4. UNCHANGED <<pc, redisQ, replyQ, published, req, events>>
  BY DEF RedisExecutesOrphan
<1>5. /\ \A k \in Keys :
              /\ Len(streams[k]) \in Nat /\ Len(streams'[k]) \in Nat
              /\ DOMAIN streams[k] = 1..Len(streams[k])
              /\ DOMAIN streams'[k] = 1..Len(streams'[k])
              /\ Len(streams'[k]) =
                   IF n > 0 /\ k = req[s].key THEN Len(streams[k]) + n
                   ELSE Len(streams[k])
              /\ \A i \in DOMAIN streams'[k] :
                   streams'[k][i] = IF i <= Len(streams[k]) THEN streams[k][i] ELSE s
      /\ n \in Nat
  BY <1>2, <1>3, RedisFacts, AppendsFacts
<1>6. \A k \in Keys : Len(streams[k]) <= Len(streams'[k])
  BY <1>5
<1>7. AskedOnce' /\ RequestsFit'
  BY <1>2, <1>4 DEF RedisInv, AskedOnce, RequestsFit
<1>8. \A i \in DOMAIN replyQ : BroadcastOf(replyQ[i])' = BroadcastOf(replyQ[i])
  BY <1>4 DEF BroadcastOf
<1>9. ASSUME NEW m, m.key \in Keys, m.first \in Int, m.last \in Int, IsStored(m)
      PROVE  IsStored(m)'
  BY <1>2, <1>3, <1>9, GrowthKeepsStored
<1>10. AnswersFit'
  <2>0. Announcing' = Announcing /\ Announcing \subseteq DOMAIN replyQ
    BY <1>4 DEF Announcing
  <2>1. ASSUME NEW i \in DOMAIN replyQ, NEW k \in Keys
        PROVE  replyQ[i].at[k] <= Len(streams'[k])
    <3>1. replyQ[i].at[k] <= Len(streams[k]) /\ replyQ[i].at[k] \in Nat
      BY RedisFacts DEF RedisInv, AnswersFit
    <3> QED BY <1>5, <1>6, <3>1
  <2>2. ASSUME NEW i \in Announcing
        PROVE  IsStored(BroadcastOf(replyQ[i]))'
    <3>1. PICK m : m = BroadcastOf(replyQ[i])
      OBVIOUS
    <3>2. /\ m.key \in Keys /\ m.first \in Int /\ m.last \in Int
          /\ IsStored(m) /\ i \in DOMAIN replyQ
      BY <3>1, AnnouncingFacts DEF RedisInv, AnswersFit
    <3>3. IsStored(m)' /\ BroadcastOf(replyQ[i])' = m
      BY <1>8, <1>9, <3>1, <3>2
    <3> QED BY <3>3 DEF IsStored
  <2>3. \A i \in Announcing, p \in DOMAIN published :
          LET m == BroadcastOf(replyQ[i])'
          IN  published[p].key = m.key => published[p].last < m.first
    BY <1>8, <2>0 DEF RedisInv, AnswersFit
  <2>4. \A i, j \in Announcing :
          LET m == BroadcastOf(replyQ[i])'
              l == BroadcastOf(replyQ[j])'
          IN  i < j /\ m.key = l.key => m.last < l.first
    BY <1>8, <2>0 DEF RedisInv, AnswersFit
  <2> QED BY <1>4, <2>0, <2>1, <2>2, <2>3, <2>4 DEF AnswersFit, IsStored
<1>11. PublishedIsStored'
  <2>1. ASSUME NEW p \in DOMAIN published
        PROVE  IsStored(published[p])'
    <3>1. PICK m : m = published[p]
      OBVIOUS
    <3>2. /\ m.key \in Keys /\ m.first \in Int /\ m.last \in Int
          /\ IsStored(m)
      BY <3>1, RedisFacts DEF RedisInv, PublishedIsStored
    <3>3. IsStored(m)'
      BY <1>9, <3>2
    <3> QED BY <1>4, <3>1, <3>3 DEF IsStored
  <2> QED BY <1>4, <2>1 DEF PublishedIsStored
<1>12. PublishedInStreamOrder'
  BY <1>4 DEF RedisInv, PublishedInStreamOrder
<1>13. MessagesAccounted'
  <2> SUFFICES ASSUME NEW k \in Keys, NEW i \in DOMAIN streams'[k],
                      NEW u, u = streams'[k][i]
               PROVE  \/ Announced(k, i)
                      \/ pc[u] = "ended"
                      \/ /\ pc[u] = "storing"
                         /\ \E j \in DOMAIN replyQ :
                              /\ replyQ[j].s = u
                              /\ replyQ[j].ok =>
                                   InBatch(k, i, BroadcastOf(replyQ[j])')
    BY <1>4 DEF MessagesAccounted, Announced, InBatch
  <2>1. CASE i <= Len(streams[k])
    <3>1. i \in DOMAIN streams[k] /\ u = streams[k][i]
      BY <1>5, <2>1
    <3>2. MessagesAccounted
      BY DEF RedisInv
    <3> QED BY <1>8, <3>1, <3>2 DEF MessagesAccounted
  <2>2. CASE ~(i <= Len(streams[k]))
    BY <1>2, <1>5, <2>2
  <2> QED BY <2>1, <2>2
<1>14. EventsCounted'
  BY <1>4 DEF RedisInv, EventsCounted, Storing
<1> QED BY <1>7, <1>10, <1>11, <1>12, <1>13, <1>14 DEF RedisInv

\* The connection to Redis breaks: requests become failed answers, in their
\* order; the answers that are kept are those that came first.
LEMMA LosingConnection ==
  ASSUME RedisInv, SessionsInv, RedisConnectionLost
  PROVE  RedisInv'
<1>0. PICK l : l = Len(replyQ)
  OBVIOUS
<1>1. PICK i \in 0..l, j \in 0..Len(redisQ) :
       /\ replyQ' = [m \in 1..(l + j) |->
                       IF m <= i THEN replyQ[m]
                       ELSE [s |-> IF m <= l THEN replyQ[m].s ELSE redisQ[m - l],
                             ok |-> FALSE, at |-> Nothing]]
       /\ redisQ' = SubSeq(redisQ, j + 1, Len(redisQ))
  BY <1>0 DEF RedisConnectionLost
<1>2. /\ l \in Nat /\ DOMAIN replyQ = 1..l
      /\ Len(redisQ) \in Nat /\ DOMAIN redisQ = 1..Len(redisQ)
      /\ i \in Nat /\ j \in Nat /\ i <= l /\ j <= Len(redisQ)
      /\ redisQ \in Seq(Sessions)
  BY <1>0, RedisFacts
<1>3. UNCHANGED <<pc, orphans, streams, published, req, events>>
  BY DEF RedisConnectionLost
<1>4. /\ DOMAIN redisQ' = 1..(Len(redisQ) - j)
      /\ \A m \in DOMAIN redisQ' :
           m + j \in DOMAIN redisQ /\ m + j > j /\ redisQ'[m] = redisQ[m + j]
  BY <1>1, <1>2
<1>5. /\ DOMAIN replyQ' = 1..(l + j)
      /\ \A m \in 1..(l + j) : m <= i => replyQ'[m] = replyQ[m]
      /\ \A m \in 1..(l + j) : ~(m <= i) =>
           replyQ'[m] = [s |-> IF m <= l THEN replyQ[m].s ELSE redisQ[m - l],
                         ok |-> FALSE, at |-> Nothing]
  BY <1>1, Zenon
<1>6. \A m \in 1..(l + j) :
        /\ m <= l => m \in DOMAIN replyQ /\ replyQ'[m].s = replyQ[m].s
        /\ m > l => m - l \in DOMAIN redisQ /\ m - l <= j
                    /\ replyQ'[m].s = redisQ[m - l]
  <2> SUFFICES ASSUME NEW m \in 1..(l + j)
               PROVE  /\ m <= l => m \in DOMAIN replyQ /\ replyQ'[m].s = replyQ[m].s
                      /\ m > l => m - l \in DOMAIN redisQ /\ m - l <= j
                                  /\ replyQ'[m].s = redisQ[m - l]
    OBVIOUS
  <2>1. CASE m <= i
    BY <1>2, <1>5, <2>1
  <2>2. CASE ~(m <= i)
    <3>1. replyQ'[m].s = IF m <= l THEN replyQ[m].s ELSE redisQ[m - l]
      BY <1>5, <2>2
    <3> QED BY <1>2, <3>1
  <2> QED BY <2>1, <2>2
<1>7. \A m \in 1..(l + j) : replyQ'[m].ok =>
        /\ m \in DOMAIN replyQ /\ replyQ'[m] = replyQ[m] /\ replyQ[m].ok
        /\ BroadcastOf(replyQ[m])' = BroadcastOf(replyQ[m])
  <2> SUFFICES ASSUME NEW m \in 1..(l + j), replyQ'[m].ok
               PROVE  /\ m \in DOMAIN replyQ /\ replyQ'[m] = replyQ[m] /\ replyQ[m].ok
                      /\ BroadcastOf(replyQ[m])' = BroadcastOf(replyQ[m])
    OBVIOUS
  <2>1. m <= i
    BY <1>5
  <2>2. m \in DOMAIN replyQ /\ replyQ'[m] = replyQ[m]
    BY <1>2, <1>5, <2>1
  <2> QED BY <1>3, <2>2 DEF BroadcastOf
<1>8. AskedOnce'
  <2>1. \A m \in DOMAIN redisQ' : pc[redisQ'[m]] \in Asking
    BY <1>4 DEF RedisInv, AskedOnce
  <2>2. ASSUME NEW m \in DOMAIN replyQ'
        PROVE  pc[replyQ'[m].s] \in Asking
    <3>0. m \in 1..(l + j)
      BY <1>5
    <3>1. CASE m <= l
      BY <1>6, <3>0, <3>1 DEF RedisInv, AskedOnce
    <3>2. CASE m > l
      BY <1>6, <3>0, <3>2 DEF RedisInv, AskedOnce
    <3> QED BY <1>2, <3>0, <3>1, <3>2
  <2>3. ASSUME NEW m \in DOMAIN redisQ', NEW o \in DOMAIN redisQ',
               redisQ'[m] = redisQ'[o]
        PROVE  m = o
    <3>1. m + j = o + j
      BY <1>4, <2>3 DEF RedisInv, AskedOnce
    <3> QED BY <1>2, <1>4, <3>1
  <2>4. ASSUME NEW m \in DOMAIN replyQ', NEW o \in DOMAIN replyQ',
               replyQ'[m].s = replyQ'[o].s
        PROVE  m = o
    <3>1. CASE m <= l /\ o <= l
      BY <1>5, <1>6, <2>4, <3>1 DEF RedisInv, AskedOnce
    <3>2. CASE m > l /\ o > l
      <4>1. m - l = o - l
        BY <1>5, <1>6, <2>4, <3>2 DEF RedisInv, AskedOnce
      <4> QED BY <1>2, <1>5, <4>1
    <3>3. CASE (m <= l /\ o > l) \/ (m > l /\ o <= l)
      BY <1>5, <1>6, <2>4, <3>3 DEF RedisInv, AskedOnce
    <3> QED BY <1>2, <1>5, <3>1, <3>2, <3>3
  <2>5. ASSUME NEW m \in DOMAIN redisQ', NEW o \in DOMAIN replyQ',
               redisQ'[m] = replyQ'[o].s
        PROVE  FALSE
    <3>1. m + j \in DOMAIN redisQ /\ m + j > j /\ redisQ'[m] = redisQ[m + j]
      BY <1>4
    <3>2. CASE o <= l
      <4>1. o \in DOMAIN replyQ /\ replyQ'[o].s = replyQ[o].s
        BY <1>5, <1>6, <3>2
      <4>2. redisQ[m + j] = replyQ[o].s
        BY <2>5, <3>1, <4>1
      <4> QED BY <3>1, <4>1, <4>2 DEF RedisInv, AskedOnce
    <3>3. CASE o > l
      <4>1. o - l \in DOMAIN redisQ /\ o - l <= j /\ replyQ'[o].s = redisQ[o - l]
        BY <1>5, <1>6, <3>3
      <4>2. m + j = o - l
        BY <2>5, <3>1, <4>1 DEF RedisInv, AskedOnce
      <4> QED BY <1>2, <1>4, <1>5, <3>1, <4>1, <4>2
    <3> QED BY <1>2, <1>5, <3>2, <3>3
  <2> QED BY <1>3, <2>1, <2>2, <2>3, <2>4, <2>5 DEF AskedOnce
<1>9. RequestsFit'
  BY <1>3 DEF RedisInv, RequestsFit
<1>10. \A m \in Announcing' : m \in Announcing
         /\ BroadcastOf(replyQ[m])' = BroadcastOf(replyQ[m])
  BY <1>3, <1>5, <1>7 DEF Announcing
<1>11. AnswersFit'
  <2>1. ASSUME NEW m \in DOMAIN replyQ', NEW k \in Keys
        PROVE  replyQ'[m].at[k] <= Len(streams[k])
    <3>1. CASE m <= i
      BY <1>2, <1>5, <3>1 DEF RedisInv, AnswersFit
    <3>2. CASE ~(m <= i)
      <4>1. replyQ'[m].at[k] = 0
        BY <1>5, <3>2 DEF Nothing
      <4>2. Len(streams[k]) \in Nat
        BY RedisFacts
      <4> QED BY <4>1, <4>2
    <3> QED BY <3>1, <3>2
  <2>2. \A m \in Announcing' : IsStored(BroadcastOf(replyQ[m])')
    BY <1>10 DEF RedisInv, AnswersFit
  <2>3. \A m \in Announcing', p \in DOMAIN published :
          LET b == BroadcastOf(replyQ[m])'
          IN  published[p].key = b.key => published[p].last < b.first
    BY <1>10 DEF RedisInv, AnswersFit
  <2>4. \A m, o \in Announcing' :
          LET b == BroadcastOf(replyQ[m])'
              d == BroadcastOf(replyQ[o])'
          IN  m < o /\ b.key = d.key => b.last < d.first
    BY <1>10 DEF RedisInv, AnswersFit
  <2> QED BY <1>3, <2>1, <2>2, <2>3, <2>4 DEF AnswersFit, IsStored
<1>12. PublishedIsStored' /\ PublishedInStreamOrder'
  BY <1>3 DEF RedisInv, PublishedIsStored, PublishedInStreamOrder, IsStored
<1>13. MessagesAccounted'
  <2> SUFFICES ASSUME NEW k \in Keys, NEW n \in DOMAIN streams[k],
                      NEW u, u = streams[k][n],
                      ~(Announced(k, n) \/ pc[u] = "ended")
               PROVE  /\ pc[u] = "storing"
                      /\ \E m \in DOMAIN replyQ' :
                           /\ replyQ'[m].s = u
                           /\ replyQ'[m].ok =>
                                InBatch(k, n, BroadcastOf(replyQ[m])')
    BY <1>3 DEF MessagesAccounted, Announced, InBatch
  <2>0. MessagesAccounted
    BY DEF RedisInv
  <2>1. pc[u] = "storing"
    BY <2>0 DEF MessagesAccounted
  <2>2. PICK m \in DOMAIN replyQ :
          /\ replyQ[m].s = u
          /\ replyQ[m].ok => InBatch(k, n, BroadcastOf(replyQ[m]))
    BY <2>0 DEF MessagesAccounted
  <2>3. m \in 1..(l + j) /\ m <= l
    BY <1>2
  <2>4. m \in DOMAIN replyQ' /\ replyQ'[m].s = u
    BY <1>5, <1>6, <2>2, <2>3
  <2>5. replyQ'[m].ok => InBatch(k, n, BroadcastOf(replyQ[m])')
    BY <1>7, <2>2, <2>3
  <2> QED BY <2>1, <2>4, <2>5
<1>14. EventsCounted'
  BY <1>3 DEF RedisInv, EventsCounted, Storing
<1> QED BY <1>8, <1>9, <1>11, <1>12, <1>13, <1>14 DEF RedisInv

\* The process is replaced: the queues are new, and the requests that outlive
\* the process are of sessions that are over.
LEMMA ReplacingServer ==
  ASSUME RedisInv, SessionsInv, ServerRestarts
  PROVE  RedisInv'
<1>1. /\ \A t \in Sessions : pc'[t] = IF pc[t] = "auth" THEN "auth" ELSE "ended"
      /\ redisQ' = << >> /\ replyQ' = << >>
      /\ UNCHANGED <<streams, published, req, events>>
  BY DEF ServerRestarts
<1>2. DOMAIN redisQ' = {} /\ DOMAIN replyQ' = {}
  BY <1>1
<1>3. PICK j \in 0..Len(redisQ) : orphans' = orphans \o SubSeq(redisQ, 1, j)
  BY DEF ServerRestarts
<1>4. \A i \in DOMAIN orphans' : pc'[orphans'[i]] = "ended"
  <2>1. /\ redisQ \in Seq(Sessions) /\ orphans \in Seq(Sessions)
        /\ Len(redisQ) \in Nat /\ j \in Nat /\ j <= Len(redisQ)
    BY RedisFacts
  <2>2. PICK q : q = SubSeq(redisQ, 1, j)
    OBVIOUS
  <2>3. q \in Seq(Sessions) /\ Len(q) = j /\ \A i \in 1..j : q[i] = redisQ[i]
    BY <2>1, <2>2
  <2>4. /\ orphans' \in Seq(Sessions)
        /\ DOMAIN orphans' = 1..(Len(orphans) + j)
        /\ \A i \in 1..(Len(orphans) + j) :
             orphans'[i] = IF i <= Len(orphans) THEN orphans[i] ELSE q[i - Len(orphans)]
    BY <1>3, <2>1, <2>2, <2>3, ConcatFacts
  <2> SUFFICES ASSUME NEW i \in 1..(Len(orphans) + j)
               PROVE  pc'[orphans'[i]] = "ended"
    BY <2>4
  <2>5. CASE i <= Len(orphans)
    <3>1. i \in DOMAIN orphans /\ orphans'[i] = orphans[i] /\ orphans[i] \in Sessions
      BY <2>1, <2>4, <2>5
    <3>2. pc[orphans[i]] = "ended"
      BY <3>1 DEF RedisInv, RequestsFit
    <3> QED BY <1>1, <3>1, <3>2
  <2>6. CASE ~(i <= Len(orphans))
    <3>1. i - Len(orphans) \in 1..j
      BY <2>1, <2>6
    <3>2. /\ i - Len(orphans) \in DOMAIN redisQ
          /\ orphans'[i] = redisQ[i - Len(orphans)]
      BY <2>1, <2>3, <2>4, <2>6, <3>1
    <3>3. orphans'[i] \in Sessions /\ pc[orphans'[i]] \in Asking
      BY <3>2, RedisFacts DEF RedisInv, AskedOnce
    <3> QED BY <1>1, <3>3 DEF Asking
  <2> QED BY <2>5, <2>6
<1>5. AskedOnce' /\ RequestsFit'
  BY <1>1, <1>2, <1>4 DEF RedisInv, AskedOnce, RequestsFit
<1>6. Announcing' = {}
  BY <1>2 DEF Announcing
<1>7. AnswersFit'
  BY <1>2, <1>6 DEF AnswersFit
<1>8. PublishedIsStored' /\ PublishedInStreamOrder'
  BY <1>1 DEF RedisInv, PublishedIsStored, PublishedInStreamOrder, IsStored
<1>9. MessagesAccounted'
  <2> SUFFICES ASSUME NEW k \in Keys, NEW n \in DOMAIN streams[k],
                      NEW u, u = streams[k][n]
               PROVE  Announced(k, n) \/ pc'[u] = "ended"
    BY <1>1 DEF MessagesAccounted, Announced, InBatch
  <2>1. MessagesAccounted /\ u \in Sessions
    BY RedisFacts DEF RedisInv
  <2>2. Announced(k, n) \/ pc[u] \in {"ended", "storing"}
    BY <2>1 DEF MessagesAccounted
  <2> QED BY <1>1, <2>1, <2>2
<1>10. EventsCounted'
  <2>1. Storing' = {}
    BY <1>1 DEF Storing
  <2>2. /\ IsFiniteSet(Storing) /\ Len(published) \in Nat
        /\ Len(published) + Cardinality(Storing) <= events
        /\ events \in Nat
    BY RedisFacts DEF RedisInv, EventsCounted
  <2>3. Cardinality(Storing) \in Nat
    BY <2>2, FS_CardinalityType
  <2>4. IsFiniteSet({}) /\ Cardinality({}) = 0
    BY FS_EmptySet
  <2> QED BY <1>1, <2>1, <2>2, <2>3, <2>4 DEF EventsCounted
<1> QED BY <1>5, <1>7, <1>8, <1>9, <1>10 DEF RedisInv

\* A return of run() while no request is on its way is no matter for Redis.
LEMMA FinishRedis ==
  ASSUME RedisInv, SessionsInv, NEW s \in Sessions, NEW broken \in BOOLEAN,
         Finish(s, broken), pc[s] \notin Asking \cup {"ended"},
         UNCHANGED <<redisVars, req>>
  PROVE  RedisInv'
<1>1. \A t \in Sessions :
        \/ pc'[t] = pc[t]
        \/ pc[t] \notin Asking \cup {"ended"} /\ pc'[t] \notin Asking
  BY RedisFacts DEF Finish, Asking
<1> QED BY <1>1, QuietRedis DEF Finish, redisVars

\* Nor is any other step of one session that is not about a request.
LEMMA AdvanceRedis ==
  ASSUME RedisInv, SessionsInv, NEW s \in Sessions, NEW to \in States \ Asking,
         pc' = [pc EXCEPT ![s] = to], pc[s] \notin Asking \cup {"ended"},
         UNCHANGED <<redisVars, req, published, events>>
  PROVE  RedisInv'
<1>1. \A t \in Sessions :
        \/ pc'[t] = pc[t]
        \/ pc[t] \notin Asking \cup {"ended"} /\ pc'[t] \notin Asking
  BY RedisFacts
<1> QED BY <1>1, QuietRedis DEF redisVars

\* Neither are the steps of the broadcasts.
LEMMA StillRedis ==
  ASSUME RedisInv, SessionsInv, UNCHANGED <<pc, redisVars, req, published, events>>
  PROVE  RedisInv'
BY QuietRedis DEF redisVars

\* The steps that take an answer.
LEMMA AnsweredRedis ==
  ASSUME RedisInv, SessionsInv, NEW s \in Sessions,
         HelloReply(s) \/ HistoryReply(s) \/ StoreReply(s)
  PROVE  RedisInv'
<1>1. ASSUME TakeReply(s), pc[s] \in Asking, Finish(s, FALSE),
             \A t \in Sessions : t # s => req'[t] = req[t]
      PROVE  RedisInv'
  <2>1. /\ pc' = [pc EXCEPT ![s] = "ended"]
        /\ UNCHANGED <<published, events>>
        /\ "ended" \in States \ Asking
    BY <1>1 DEF Finish, States, Asking
  <2> QED BY <1>1, <2>1, TakingReply
<1>2. CASE HelloReply(s)
  <2>1. TakeReply(s) /\ pc[s] = "helloRedis" /\ req' = req
    BY <1>2 DEF HelloReply
  <2>2. CASE Finish(s, FALSE)
    BY <1>1, <2>1, <2>2 DEF Asking
  <2>3. CASE ~Finish(s, FALSE)
    <3>1. PICK to \in {"helloWrite", "helloNames"} : pc' = [pc EXCEPT ![s] = to]
      BY <1>2, <2>3 DEF HelloReply
    <3>2. UNCHANGED <<published, events>>
      BY <1>2, <2>3 DEF HelloReply
    <3>3. to \in States \ Asking /\ pc[s] \in Asking
      BY <2>1 DEF States, Asking
    <3>4. req'[s].n = 0
      BY <2>1 DEF RedisInv, RequestsFit
    <3> QED BY <2>1, <3>1, <3>2, <3>3, <3>4, TakingReply
  <2> QED BY <2>2, <2>3
<1>3. CASE HistoryReply(s)
  <2>1. TakeReply(s) /\ pc[s] = "histRedis" /\ req' = [req EXCEPT ![s] = NoReq]
    BY <1>3 DEF HistoryReply
  <2>2. /\ \A t \in Sessions : t # s => req'[t] = req[t]
        /\ req'[s].n = 0
    BY <2>1, SessionsParts DEF ReqType, NoReq
  <2>3. CASE Finish(s, FALSE)
    BY <1>1, <2>1, <2>2, <2>3 DEF Asking
  <2>4. CASE ~Finish(s, FALSE)
    <3>1. PICK to \in {"histLock", "histWrite", "histNames"} :
            pc' = [pc EXCEPT ![s] = to]
      BY <1>3, <2>4 DEF HistoryReply, LockForHistory
    <3>2. UNCHANGED <<published, events>>
      BY <1>3, <2>4 DEF HistoryReply, LockForHistory
    <3>3. to \in States \ Asking /\ pc[s] \in Asking
      BY <2>1 DEF States, Asking
    <3> QED BY <2>1, <2>2, <3>1, <3>2, <3>3, TakingReply
  <2> QED BY <2>3, <2>4
<1>4. CASE StoreReply(s)
  <2>1. TakeReply(s) /\ pc[s] = "storing" /\ req' = [req EXCEPT ![s] = NoReq]
    BY <1>4 DEF StoreReply
  <2>2. \A t \in Sessions : t # s => req'[t] = req[t]
    BY <2>1, SessionsParts DEF ReqType
  <2>3. CASE Finish(s, FALSE)
    BY <1>1, <2>1, <2>2, <2>3 DEF Asking
  <2>4. CASE ~Finish(s, FALSE)
    <3>1. Reply.ok /\ pc' = [pc EXCEPT ![s] = "reading"] /\ UNCHANGED events
      BY <1>4, <2>4 DEF StoreReply
    <3>2. Reply.s = s
      BY <2>1 DEF TakeReply, Reply
    <3>3. published' = Append(published, BroadcastOf(Reply))
      BY <1>4, <2>4, <3>2 DEF StoreReply, Publish, BroadcastOf
    <3> QED BY <2>1, <3>1, <3>3, PublishingReply
  <2> QED BY <2>3, <2>4
<1> QED BY <1>2, <1>3, <1>4

\* run() of a session between its requests.
LEMMA RunningRedis ==
  ASSUME RedisInv, SessionsInv, NEW s \in Sessions,
         \/ AuthOk(s) \/ AuthFail(s) \/ CloseDone(s) \/ HelloNames(s)
         \/ HelloWritten(s) \/ RoomHistoryWritten(s) \/ RunWriteFails(s)
         \/ HistoryNames(s) \/ HistoryLockResumes(s)
  PROVE  RedisInv'
<1>1. CASE AuthOk(s)
  <2>1. /\ pc[s] = "auth" /\ AskRedis(s)
        /\ pc' = [pc EXCEPT ![s] = "helloRedis"]
        /\ UNCHANGED <<published, req, events>>
    BY <1>1 DEF AuthOk
  <2>2. "helloRedis" \in Asking /\ pc[s] \notin Asking \cup {"ended"}
    BY <2>1 DEF Asking
  <2>3. req'[s].n = 0 /\ events' \in Nat /\ events' >= events
    BY <2>1, RedisFacts DEF RedisInv, RequestsFit
  <2> QED BY <2>1, <2>2, <2>3, AskingRedis
<1>2. CASE AuthFail(s)
  <2>1. "closing" \in States \ Asking /\ "auth" \notin Asking \cup {"ended"}
    BY DEF States, Asking
  <2> QED BY <1>2, <2>1, AdvanceRedis DEF AuthFail
<1>3. CASE \E broken \in BOOLEAN : Finish(s, broken)
  <2>1. pc[s] \notin Asking \cup {"ended"} /\ UNCHANGED <<redisVars, req>>
    <3>1. \/ AuthOk(s) \/ AuthFail(s)
          \/ /\ pc[s] \in {"closing", "helloNames", "helloWrite", "histWrite",
                           "histNames", "histLock"}
             /\ UNCHANGED <<redisVars, req>>
      BY DEF CloseDone, HelloNames, HelloWritten, RoomHistoryWritten, RunWrote,
             RunWriteFails, HistoryNames, HistoryLockResumes
    <3>2. ~AuthOk(s) /\ ~AuthFail(s)
      BY <1>3, RedisFacts DEF AuthOk, AuthFail, Finish
    <3> QED BY <3>1, <3>2 DEF Asking
  <2> QED BY <1>3, <2>1, FinishRedis
<1>4. CASE HelloNames(s) /\ ~Finish(s, FALSE)
  <2>1. "helloWrite" \in States \ Asking /\ "helloNames" \notin Asking \cup {"ended"}
    BY DEF States, Asking
  <2> QED BY <1>4, <2>1, AdvanceRedis DEF HelloNames
<1>5. CASE HelloWritten(s) \/ RoomHistoryWritten(s)
  <2>1. "reading" \in States \ Asking
    BY DEF States, Asking
  <2>2. pc[s] \notin Asking \cup {"ended"}
    BY <1>5 DEF HelloWritten, RoomHistoryWritten, Asking
  <2> QED BY <1>5, <2>1, <2>2, AdvanceRedis
          DEF HelloWritten, RoomHistoryWritten, RunWrote
<1>6. CASE LockForHistory(s) /\ (HistoryNames(s) \/ HistoryLockResumes(s))
  <2>1. PICK to \in {"histLock", "histWrite"} : pc' = [pc EXCEPT ![s] = to]
    BY <1>6 DEF LockForHistory
  <2>2. to \in States \ Asking
    BY DEF States, Asking
  <2>3. pc[s] \notin Asking \cup {"ended"}
    BY <1>6 DEF HistoryNames, HistoryLockResumes, Asking
  <2>4. UNCHANGED <<redisVars, req, published, events>>
    BY <1>6 DEF LockForHistory, HistoryNames, HistoryLockResumes
  <2> QED BY <2>1, <2>2, <2>3, <2>4, AdvanceRedis
<1> QED BY <1>1, <1>2, <1>3, <1>4, <1>5, <1>6
        DEF CloseDone, HelloNames, RunWriteFails, HistoryNames, HistoryLockResumes

\* What the client decides.
LEMMA ClientRedis ==
  ASSUME RedisInv, SessionsInv, NEW s \in Sessions, ClientStep(s)
  PROVE  RedisInv'
<1>0. req \in [Sessions -> Request \cup {NoReq}] /\ events \in Nat
  BY SessionsParts, RedisFacts DEF ReqType
<1>1. ASSUME NEW k \in Keys, NEW n \in Batches, ReadMessages(s, k, n)
      PROVE  RedisInv'
  <2>1. /\ pc[s] = "reading" /\ AskRedis(s)
        /\ pc' = [pc EXCEPT ![s] = "storing"]
        /\ events' = events + 1 /\ published' = published
        /\ \A t \in Sessions : t # s => req'[t] = req[t]
    BY <1>0, <1>1 DEF ReadMessages
  <2>2. "storing" \in Asking /\ pc[s] \notin Asking \cup {"ended"}
    BY <2>1 DEF Asking
  <2> QED BY <2>1, <2>2, AskingRedis
<1>2. ASSUME NEW k \in Keys, ReadHistoryRequest(s, k)
      PROVE  RedisInv'
  <2>1. /\ pc[s] = "reading" /\ AskRedis(s)
        /\ pc' = [pc EXCEPT ![s] = "histRedis"]
        /\ events' = events + 1 /\ published' = published
        /\ \A t \in Sessions : t # s => req'[t] = req[t]
        /\ req'[s].n = 0
    BY <1>0, <1>2 DEF ReadHistoryRequest
  <2>2. "histRedis" \in Asking /\ pc[s] \notin Asking \cup {"ended"}
    BY <2>1 DEF Asking
  <2>3. events' \in Nat /\ events' >= events
    BY <1>0, <2>1
  <2> QED BY <2>1, <2>2, <2>3, AskingRedis
<1>3. CASE ReadEnds(s)
  <2>1. pc[s] \notin Asking \cup {"ended"}
    BY <1>3 DEF ReadEnds, Asking
  <2> QED BY <1>3, <2>1, FinishRedis DEF ReadEnds
<1> QED BY <1>1, <1>2, <1>3 DEF ClientStep

\* Every step keeps what Redis and the sessions know of each other.
LEMMA StepRedis == RedisInv /\ SessionsInv /\ [Next]_vars => RedisInv'
<1> SUFFICES ASSUME RedisInv, SessionsInv, [Next]_vars PROVE RedisInv'
  OBVIOUS
<1>1. ASSUME NEW s \in Sessions, RunStep(s) PROVE RedisInv'
  BY <1>1, AnsweredRedis, RunningRedis DEF RunStep
<1>2. ASSUME NEW s \in Sessions, NEW p \in Broadcasts, OnMessageStep(s, p)
      PROVE  RedisInv'
  BY <1>2, StillRedis
     DEF OnMessageStep, OnMessageStarts, OnMessageResumes, OnMessageWritten,
         OnMessageWriteFails, OnMessageReturns
<1>3. CASE UNCHANGED vars
  BY <1>3, StillRedis DEF vars, redisVars
<1> QED BY <1>1, <1>2, <1>3, ClientRedis, ExecutingRequest, ExecutingOrphan,
           LosingConnection, ReplacingServer DEF Next, AllGone

\* At first there are no requests, no answers and no messages.
LEMMA InitRedis == Init => RedisInv
<1> SUFFICES ASSUME Init PROVE RedisInv
  OBVIOUS
<1>1. AskedOnce /\ RequestsFit
  BY DEF Init, AskedOnce, RequestsFit, NoReq
<1>2. AnswersFit
  BY DEF Init, AnswersFit, Announcing
<1>3. PublishedIsStored /\ PublishedInStreamOrder
  BY DEF Init, PublishedIsStored, PublishedInStreamOrder
<1>4. MessagesAccounted
  BY DEF Init, MessagesAccounted
<1>5. EventsCounted
  <2>1. Storing = {}
    BY DEF Init, Storing
  <2> QED BY <2>1, FS_EmptySet DEF Init, EventsCounted
<1> QED BY <1>1, <1>2, <1>3, <1>4, <1>5 DEF RedisInv
-----------------------------------------------------------------------------
(* What the clients are owed                                               *)

\* Every broadcast has its coroutine.
LEMMA PublishedAreBroadcasts ==
  ASSUME SessionsInv, RedisInv
  PROVE  /\ Len(published) \in Nat
         /\ DOMAIN published = 1..Len(published)
         /\ DOMAIN published \subseteq Broadcasts
         /\ \A s \in Sessions : pc[s] = "storing" => Len(published) + 1 \in Broadcasts
<1>1. /\ Len(published) \in Nat /\ DOMAIN published = 1..Len(published)
      /\ events \in Nat /\ events <= MaxEvents /\ MaxEvents \in Nat
  BY RedisFacts, ConstantsAssumption
<1>2. Cardinality(Storing) \in Nat /\ Len(published) + Cardinality(Storing) <= events
  BY FS_CardinalityType DEF RedisInv, EventsCounted
<1>3. \A s \in Sessions : pc[s] = "storing" => Cardinality(Storing) # 0
  BY FS_EmptySet DEF RedisInv, EventsCounted, Storing
<1> QED BY <1>1, <1>2, <1>3 DEF Broadcasts

\* Asking for the mutex leaves every broadcast on its way that was on it.
LEMMA LockKeepsLive ==
  ASSUME SessionsInv, NEW s \in Sessions, NEW c \in Coroutines, LockWrites(s, c),
         c = Run \/ Live(s, c)
  PROVE  \A t \in Sessions, p \in Broadcasts : Live(t, p)' <=> Live(t, p)
<1>1. /\ co \in [Sessions -> [Coroutines -> CoStates]]
      /\ \A p \in Broadcasts : p \in Coroutines /\ p # Run
  BY SessionsParts, CoroutineFacts DEF MutexTypes
<1>2. PICK v \in {"waiting", "holding"} : co' = [co EXCEPT ![s][c] = v]
  BY DEF LockWrites
<1> QED BY <1>1, <1>2 DEF Live

\* Dropping it ends the coroutine that had it, and no other one.
LEMMA UnlockEndsOne ==
  ASSUME SessionsInv, NEW s \in Sessions, NEW c \in Coroutines,
         NEW st \in {"none", "done"}, UnlockWrites(s, c, st), co[s][c] = "holding"
  PROVE  \A t \in Sessions, p \in Broadcasts :
           Live(t, p)' <=> Live(t, p) /\ ~(t = s /\ p = c)
<1>1. MutexTypes /\ Sound(mtx[s], co[s])
  BY SessionsParts DEF SessionInv
<1>2. /\ \A t \in Sessions : t # s => co'[t] = co[t]
      /\ co'[s][c] = st
      /\ \A d \in Coroutines : d # c =>
           \/ co'[s][d] = co[s][d]
           \/ (co[s][d] = "waiting" /\ co'[s][d] = "woken")
  BY <1>1, UnlockWritesFacts DEF MutexTypes
<1> QED BY <1>2, CoroutineFacts DEF Live

\* A return of run() leaves the broadcasts of its session on their way.
LEMMA FinishKeepsLive ==
  ASSUME SessionsInv, NEW s \in Sessions, NEW broken \in BOOLEAN, Finish(s, broken)
  PROVE  \A t \in Sessions, p \in Broadcasts : Live(t, p)' <=> Live(t, p)
<1>1. CASE co[s][Run] = "holding"
  BY <1>1, UnlockEndsOne, CoroutineFacts DEF Finish
<1>2. CASE co[s][Run] # "holding"
  BY <1>2 DEF Finish, Live
<1> QED BY <1>1, <1>2

\* publish() puts one broadcast on its way to the subscribers.
LEMMA PublishMakesLive ==
  ASSUME SessionsInv, RedisInv, NEW k, NEW event, Publish(k, event),
         Len(published) + 1 \in Broadcasts
  PROVE  \A t \in Sessions, p \in Broadcasts :
           Live(t, p)' <=> \/ Live(t, p)
                           \/ p = Len(published) + 1 /\ <<k, t>> \in subs
<1>1. /\ co \in [Sessions -> [Coroutines -> CoStates]]
      /\ \A p \in Broadcasts : p \in Coroutines
  BY SessionsParts, CoroutineFacts DEF MutexTypes
<1>2. PICK n : n = Len(published) + 1
  OBVIOUS
<1>3. \A t \in Sessions : co'[t] = IF <<k, t>> \in subs
                                    THEN [co[t] EXCEPT ![n] = "spawned"] ELSE co[t]
  BY <1>2 DEF Publish
<1> QED BY <1>1, <1>2, <1>3 DEF Live

\* The states of a session that was told, or is about to be told, what there is.
Told == States \ {"auth", "closing", "helloRedis", "ended"}

\* What a session is owed it is still owed after a step that neither publishes
\* nor answers it, if no broadcast of its own gets lost.
LEMMA StillDelivered ==
  ASSUME SessionsInv, RedisInv, NEW t \in Sessions, DeliveryInv(t),
         published' = published,
         snap'[t] = snap[t],
         \A k \in Keys : Len(streams'[k]) \in Nat /\ Len(streams'[k]) >= Len(streams[k]),
         \/ pc'[t] = pc[t]
         \/ pc[t] \in Told /\ pc'[t] \in Told
         \/ pc'[t] \in {"closing", "ended"},
         \/ sock'[t] = sock[t]
         \/ pc'[t] # "auth" /\ sock'[t] = "closed",
         pc'[t] \notin {"closing", "ended"} => \A e \in subs : e[2] = t => e \in subs',
         \A p \in Broadcasts :
           sock'[t] = "open" /\ (Live(t, p) \/ WasSent(t, p)) =>
             Live(t, p)' \/ WasSent(t, p)',
         pc'[t] = "helloRedis" =>
           \A i \in DOMAIN replyQ' :
             replyQ'[i].s = t /\ replyQ'[i].ok =>
               \/ \E j \in DOMAIN replyQ : replyQ[j] = replyQ'[i]
               \/ \A k \in Keys : replyQ'[i].at[k] = Len(streams'[k])
  PROVE  DeliveryInv(t)'
<1>1. pc'[t] = "auth" => pc[t] = "auth"
  BY DEF Told
<1>2. pc'[t] = "auth" => sock'[t] = "open"
  BY <1>1 DEF DeliveryInv
<1>3. pc'[t] \notin {"auth", "closing", "ended"} =>
        /\ pc[t] \notin {"auth", "closing", "ended"}
        /\ pc'[t] = "helloRedis" <=> pc[t] = "helloRedis"
  BY DEF Told
<1>4. pc'[t] \notin {"auth", "closing", "ended"} => RoomIds \X {t} \subseteq subs'
  BY <1>3 DEF DeliveryInv
<1>5. \A k \in Keys : snap'[t][k] <= Len(streams'[k])
  <2> SUFFICES ASSUME NEW k \in Keys PROVE snap'[t][k] <= Len(streams'[k])
    OBVIOUS
  <2>1. snap[t][k] \in Nat /\ Len(streams[k]) \in Nat
    BY RedisFacts DEF Positions
  <2> QED BY <2>1 DEF DeliveryInv
<1>6. ASSUME pc'[t] \notin {"auth", "closing", "ended"}, sock'[t] = "open",
             NEW p \in DOMAIN published, published[p].key \in RoomIds
      PROVE  Live(t, p)' \/ WasSent(t, p)' \/ InHello(t, published[p])'
  <2>1. Live(t, p) \/ WasSent(t, p) \/ InHello(t, published[p])
    BY <1>3, <1>6 DEF DeliveryInv
  <2>2. p \in Broadcasts
    BY PublishedAreBroadcasts
  <2>3. CASE InHello(t, published[p])
    <3>1. CASE pc'[t] # "helloRedis"
      BY <1>3, <1>6, <2>3, <3>1 DEF InHello
    <3>2. CASE pc'[t] = "helloRedis"
      <4>1. ASSUME NEW i \in DOMAIN replyQ', replyQ'[i].s = t, replyQ'[i].ok
            PROVE  published[p].last <= replyQ'[i].at[published[p].key]
        <5>1. CASE \E j \in DOMAIN replyQ : replyQ[j] = replyQ'[i]
          BY <1>3, <1>6, <2>3, <3>2, <4>1, <5>1 DEF InHello
        <5>2. CASE \A k \in Keys : replyQ'[i].at[k] = Len(streams'[k])
          <6>1. /\ published[p].key \in Keys
                /\ published[p].last \in Nat
                /\ published[p].last <= Len(streams[published[p].key])
                /\ Len(streams[published[p].key]) \in Nat
            BY RedisFacts DEF RedisInv, PublishedIsStored, IsStored
          <6> QED BY <5>2, <6>1
        <5> QED BY <3>2, <4>1, <5>1, <5>2
      <4> QED BY <1>6, <3>2, <4>1 DEF InHello
    <3> QED BY <3>1, <3>2
  <2> QED BY <1>6, <2>1, <2>2, <2>3
<1> QED BY <1>2, <1>4, <1>5, <1>6 DEF DeliveryInv

\* A step of one session that neither publishes nor greets.
LEMMA QuietDelivery ==
  ASSUME SessionsInv, RedisInv, Delivery, NEW s \in Sessions,
         NEW to \in States, pc' = [pc EXCEPT ![s] = to],
         \/ to = pc[s]
         \/ pc[s] \in Told /\ to \in Told
         \/ to \in {"closing", "ended"},
         NEW x, sock' = [sock EXCEPT ![s] = x],
         x = sock[s] \/ (to # "auth" /\ x = "closed"),
         subs' = subs \/ (to = "ended" /\ subs' = {e \in subs : e[2] # s}),
         UNCHANGED <<published, snap, streams>>,
         \A t \in Sessions, p \in Broadcasts : WasSent(t, p) => WasSent(t, p)',
         \A t \in Sessions, p \in Broadcasts :
           (t # s \/ x = "open") /\ Live(t, p) => Live(t, p)' \/ WasSent(t, p)',
         \A i \in DOMAIN replyQ' : \E j \in DOMAIN replyQ : replyQ[j] = replyQ'[i]
  PROVE  Delivery'
<1>1. /\ pc \in [Sessions -> States] /\ sock \in [Sessions -> {"open", "closed"}]
      /\ \A k \in Keys : Len(streams[k]) \in Nat
  BY RedisFacts, SessionsParts DEF RestType
<1>2. SUFFICES ASSUME NEW t \in Sessions PROVE DeliveryInv(t)'
  BY DEF Delivery
<1>3. \/ pc'[t] = pc[t]
      \/ pc[t] \in Told /\ pc'[t] \in Told
      \/ pc'[t] \in {"closing", "ended"}
  BY <1>1
<1>4. \/ sock'[t] = sock[t]
      \/ pc'[t] # "auth" /\ sock'[t] = "closed"
  BY <1>1
<1>5. pc'[t] \notin {"closing", "ended"} => \A e \in subs : e[2] = t => e \in subs'
  BY <1>1
<1>6. \A p \in Broadcasts :
        sock'[t] = "open" /\ (Live(t, p) \/ WasSent(t, p)) =>
          Live(t, p)' \/ WasSent(t, p)'
  BY <1>1
<1>7. \A k \in Keys : Len(streams'[k]) \in Nat /\ Len(streams'[k]) >= Len(streams[k])
  BY <1>1
<1>8. DeliveryInv(t)
  BY DEF Delivery
<1> QED BY <1>3, <1>4, <1>5, <1>6, <1>7, <1>8, StillDelivered

\* Answers that are not touched, or the first of which is taken.
LEMMA AnswersKept ==
  ASSUME SessionsInv, NEW s \in Sessions,
         UNCHANGED redisVars \/ AskRedis(s) \/ TakeReply(s)
  PROVE  /\ \A i \in DOMAIN replyQ' : \E j \in DOMAIN replyQ : replyQ[j] = replyQ'[i]
         /\ streams' = streams
<1>1. CASE TakeReply(s)
  BY <1>1, TakeReplyFacts DEF TakeReply
<1> QED BY <1>1 DEF redisVars, AskRedis

\* run() returns.
LEMMA FinishDelivery ==
  ASSUME SessionsInv, RedisInv, Delivery, NEW s \in Sessions,
         NEW broken \in BOOLEAN, Finish(s, broken),
         UNCHANGED redisVars \/ TakeReply(s)
  PROVE  Delivery'
<1>1. /\ pc' = [pc EXCEPT ![s] = "ended"]
      /\ "ended" \in States
      /\ subs' = {e \in subs : e[2] # s}
      /\ UNCHANGED <<published, snap, sent>>
  BY DEF Finish, States
<1>2. PICK x : sock' = [sock EXCEPT ![s] = x] /\ (x = sock[s] \/ x = "closed")
  BY DEF Finish
<1>3. /\ \A i \in DOMAIN replyQ' : \E j \in DOMAIN replyQ : replyQ[j] = replyQ'[i]
      /\ streams' = streams
  BY AnswersKept
<1>4. \A t \in Sessions, p \in Broadcasts : Live(t, p)' <=> Live(t, p)
  BY FinishKeepsLive
<1>5. \A t \in Sessions, p \in Broadcasts : WasSent(t, p) => WasSent(t, p)'
  BY <1>1 DEF WasSent
<1> QED BY <1>1, <1>2, <1>3, <1>4, <1>5, QuietDelivery

\* run() goes on with nothing written, the mutex as it was, or asked for.
LEMMA AdvanceDelivery ==
  ASSUME SessionsInv, RedisInv, Delivery, NEW s \in Sessions,
         NEW to \in States, pc' = [pc EXCEPT ![s] = to],
         (pc[s] \in Told /\ to \in Told) \/ to = "closing",
         co' = co \/ LockWrites(s, Run),
         UNCHANGED <<sock, subs, published, snap, sent>>,
         UNCHANGED redisVars \/ AskRedis(s) \/ TakeReply(s)
  PROVE  Delivery'
<1>1. sock' = [sock EXCEPT ![s] = sock[s]]
  BY SessionsParts DEF RestType
<1>2. /\ \A i \in DOMAIN replyQ' : \E j \in DOMAIN replyQ : replyQ[j] = replyQ'[i]
      /\ streams' = streams
  BY AnswersKept
<1>3. \A t \in Sessions, p \in Broadcasts : Live(t, p)' <=> Live(t, p)
  <2>1. CASE co' = co
    BY <2>1 DEF Live
  <2> QED BY <2>1, LockKeepsLive, CoroutineFacts
<1>4. \A t \in Sessions, p \in Broadcasts : WasSent(t, p) => WasSent(t, p)'
  BY DEF WasSent
<1> QED BY <1>1, <1>2, <1>3, <1>4, QuietDelivery

\* A frame more is sent: those that were sent remain.
LEMMA SentRemains ==
  ASSUME SessionsInv, NEW s \in Sessions, NEW f \in Frame,
         sent' = [sent EXCEPT ![s] = Append(@, f)]
  PROVE  /\ \A t \in Sessions, p \in Broadcasts : WasSent(t, p) => WasSent(t, p)'
         /\ \E i \in DOMAIN sent'[s] : sent'[s][i] = f
         /\ \A t \in Sessions : t # s => sent'[t] = sent[t]
         /\ sent'[s] # << >>
         /\ Head(sent'[s]) = IF sent[s] = << >> THEN f ELSE Head(sent[s])
<1>1. sent \in [Sessions -> Seq(Frame)]
  BY SessionsParts DEF RestType
<1>2. PICK q : q = sent[s]
  OBVIOUS
<1>3. /\ q \in Seq(Frame) /\ Len(q) \in Nat
      /\ sent'[s] = Append(q, f)
      /\ \A t \in Sessions : t # s => sent'[t] = sent[t]
  BY <1>1, <1>2
<1>4. /\ DOMAIN q = 1..Len(q)
      /\ DOMAIN Append(q, f) = 1..(Len(q) + 1)
      /\ \A i \in 1..Len(q) : Append(q, f)[i] = q[i]
      /\ Append(q, f)[Len(q) + 1] = f
      /\ Len(q) + 1 \in 1..(Len(q) + 1)
  BY <1>3
<1>5. ASSUME NEW t \in Sessions, NEW p \in Broadcasts, WasSent(t, p)
      PROVE  WasSent(t, p)'
  <2>1. PICK i \in DOMAIN sent[t] : sent[t][i] = [kind |-> "serverMessages", id |-> p]
    BY <1>5 DEF WasSent
  <2>2. i \in DOMAIN sent'[t] /\ sent'[t][i] = sent[t][i]
    BY <1>2, <1>3, <1>4
  <2> QED BY <2>1, <2>2 DEF WasSent
<1>6. /\ Append(q, f) # << >>
      /\ Head(Append(q, f)) = IF q = << >> THEN f ELSE Head(q)
  <2>1. Append(q, f) # << >> /\ (q # << >> => Head(Append(q, f)) = Head(q))
    BY <1>3, AppendHead
  <2>2. q = << >> => Head(Append(q, f)) = f
    BY <1>4
  <2> QED BY <2>1, <2>2
<1> QED BY <1>2, <1>3, <1>4, <1>5, <1>6

\* run() has written a frame.
LEMMA WroteDelivery ==
  ASSUME SessionsInv, RedisInv, Delivery, NEW s \in Sessions,
         HelloWritten(s) \/ RoomHistoryWritten(s)
  PROVE  Delivery'
<1>1. PICK kind \in {"hello", "roomHistory"} :
        RunWrote(s, kind) /\ pc[s] \in {"helloWrite", "histWrite"}
  BY DEF HelloWritten, RoomHistoryWritten
<1>2. PICK f : f = [kind |-> kind, id |-> 0]
  OBVIOUS
<1>3. /\ sent' = [sent EXCEPT ![s] = Append(@, f)] /\ f \in Frame
      /\ UnlockWrites(s, Run, "none")
      /\ pc' = [pc EXCEPT ![s] = "reading"]
      /\ UNCHANGED <<sock, subs, redisVars, published, snap>>
  BY <1>1, <1>2 DEF RunWrote, Frame
<1>4. co[s][Run] = "holding"
  BY <1>1, SessionsParts DEF SessionInv, Greeting
<1>5. \A t \in Sessions, p \in Broadcasts : Live(t, p)' <=> Live(t, p)
  BY <1>3, <1>4, UnlockEndsOne, CoroutineFacts
<1>6. pc[s] \in Told /\ "reading" \in Told /\ "reading" \in States
  BY <1>1 DEF Told, States
<1>7. sock' = [sock EXCEPT ![s] = sock[s]]
  BY <1>3, SessionsParts DEF RestType
<1>8. /\ \A i \in DOMAIN replyQ' : \E j \in DOMAIN replyQ : replyQ[j] = replyQ'[i]
      /\ streams' = streams
  BY <1>3, AnswersKept
<1>9. \A t \in Sessions, p \in Broadcasts : WasSent(t, p) => WasSent(t, p)'
  BY <1>3, SentRemains
<1> QED BY <1>3, <1>5, <1>6, <1>7, <1>8, <1>9, QuietDelivery

\* A broadcast asks for the mutex of its session.
LEMMA OnMessageLocksDelivery ==
  ASSUME SessionsInv, RedisInv, Delivery, NEW s \in Sessions, NEW p \in Broadcasts,
         OnMessageStarts(s, p) \/ OnMessageResumes(s, p)
  PROVE  Delivery'
<1>1. /\ LockWrites(s, p) /\ Live(s, p)
      /\ UNCHANGED <<pc, sock, subs, redisVars, published, req, snap, sent, events>>
  BY DEF OnMessageStarts, OnMessageResumes, Live
<1>2. \A t \in Sessions, q \in Broadcasts : Live(t, q)' <=> Live(t, q)
  BY <1>1, LockKeepsLive, CoroutineFacts
<1>3. sock' = [sock EXCEPT ![s] = sock[s]] /\ pc' = [pc EXCEPT ![s] = pc[s]]
      /\ pc[s] \in States
  BY <1>1, SessionsParts DEF RestType
<1>4. /\ \A i \in DOMAIN replyQ' : \E j \in DOMAIN replyQ : replyQ[j] = replyQ'[i]
      /\ streams' = streams
  BY <1>1, AnswersKept
<1>5. \A t \in Sessions, q \in Broadcasts : WasSent(t, q) => WasSent(t, q)'
  BY <1>1 DEF WasSent
<1> QED BY <1>1, <1>2, <1>3, <1>4, <1>5, QuietDelivery

\* A broadcast ends: it was written, or the connection is gone.
LEMMA OnMessageReturnsDelivery ==
  ASSUME SessionsInv, RedisInv, Delivery, NEW s \in Sessions, NEW p \in Broadcasts,
         OnMessageWritten(s, p) \/ OnMessageWriteFails(s, p)
  PROVE  Delivery'
<1>1. PICK broken \in BOOLEAN :
        /\ OnMessageReturns(s, p, broken)
        /\ \/ sent' = [sent EXCEPT ![s] =
                         Append(@, [kind |-> "serverMessages", id |-> p])]
           \/ broken /\ sent' = sent
  BY DEF OnMessageWritten, OnMessageWriteFails
<1>2. /\ UnlockWrites(s, p, "done") /\ co[s][p] = "holding"
      /\ UNCHANGED <<pc, subs, redisVars, published, snap>>
  BY <1>1 DEF OnMessageReturns, OnMessageWritten, OnMessageWriteFails
<1>3. \A t \in Sessions, q \in Broadcasts :
        Live(t, q)' <=> Live(t, q) /\ ~(t = s /\ q = p)
  BY <1>2, UnlockEndsOne, CoroutineFacts
<1>4. PICK x : /\ sock' = [sock EXCEPT ![s] = x]
               /\ x = sock[s] \/ (x = "closed" /\ pc[s] = "ended")
                              \/ (x = "closed" /\ broken)
               /\ broken => x = "closed"
  BY <1>1 DEF OnMessageReturns
<1>5. pc[s] # "auth"
  BY <1>2, SessionsParts DEF SessionInv
<1>6. PICK to \in States : to = pc[s] /\ pc' = [pc EXCEPT ![s] = to]
  BY <1>2, SessionsParts DEF RestType
<1>7. /\ \A i \in DOMAIN replyQ' : \E j \in DOMAIN replyQ : replyQ[j] = replyQ'[i]
      /\ streams' = streams
  BY <1>2, AnswersKept
<1>8. /\ \A t \in Sessions, q \in Broadcasts : WasSent(t, q) => WasSent(t, q)'
      /\ ~broken => WasSent(s, p)'
  <2>1. CASE broken /\ sent' = sent
    BY <2>1 DEF WasSent
  <2>2. CASE sent' = [sent EXCEPT ![s] =
                        Append(@, [kind |-> "serverMessages", id |-> p])]
    <3>1. PICK f : f = [kind |-> "serverMessages", id |-> p]
      OBVIOUS
    <3>2. f \in Frame
      BY <3>1, ConstantsAssumption DEF Frame, Broadcasts
    <3>3. /\ \A t \in Sessions, q \in Broadcasts : WasSent(t, q) => WasSent(t, q)'
          /\ \E i \in DOMAIN sent'[s] : sent'[s][i] = f
      BY <2>2, <3>1, <3>2, SentRemains
    <3> QED BY <3>1, <3>3 DEF WasSent
  <2> QED BY <1>1, <2>1, <2>2
<1>9. \A t \in Sessions, q \in Broadcasts :
        (t # s \/ x = "open") /\ Live(t, q) => Live(t, q)' \/ WasSent(t, q)'
  BY <1>3, <1>4, <1>8
<1>10. x = sock[s] \/ (to # "auth" /\ x = "closed")
  BY <1>4, <1>5, <1>6
<1> QED BY <1>2, <1>4, <1>6, <1>7, <1>8, <1>9, <1>10, QuietDelivery

\* The session that subscribes: nothing of its history is on the way yet, so
\* all that is published so far may still be in it.
LEMMA AuthOkDelivery ==
  ASSUME SessionsInv, RedisInv, Delivery, NEW s \in Sessions, AuthOk(s)
  PROVE  Delivery'
<1>1. /\ pc[s] = "auth" /\ LockWrites(s, Run)
      /\ subs' = subs \cup (RoomIds \X {s})
      /\ pc' = [pc EXCEPT ![s] = "helloRedis"]
      /\ UNCHANGED <<sock, published, snap, sent, replyQ, streams>>
  BY DEF AuthOk, AskRedis
<1>2. \A t \in Sessions, p \in Broadcasts : Live(t, p)' <=> Live(t, p)
  BY <1>1, LockKeepsLive, CoroutineFacts
<1>3. /\ pc \in [Sessions -> States]
      /\ \A k \in Keys : Len(streams[k]) \in Nat
      /\ \A i \in DOMAIN replyQ : replyQ[i].s # s
  <2>1. pc[s] \notin Asking
    BY <1>1 DEF Asking
  <2>2. \A i \in DOMAIN replyQ : replyQ[i].s # s
    BY <2>1 DEF RedisInv, AskedOnce
  <2> QED BY <2>2, RedisFacts
<1>4. ASSUME NEW t \in Sessions, t # s PROVE DeliveryInv(t)'
  <2>1. DeliveryInv(t) /\ pc'[t] = pc[t] /\ sock'[t] = sock[t]
    BY <1>1, <1>3, <1>4 DEF Delivery
  <2>2. \A p \in Broadcasts : Live(t, p) \/ WasSent(t, p) => Live(t, p)' \/ WasSent(t, p)'
    BY <1>1, <1>2 DEF WasSent
  <2> QED BY <1>1, <1>3, <2>1, <2>2, StillDelivered
<1>5. DeliveryInv(s)'
  <2>1. /\ pc'[s] = "helloRedis"
        /\ RoomIds \X {s} \subseteq subs'
        /\ \A k \in Keys : snap'[s][k] <= Len(streams'[k])
    BY <1>1, <1>3 DEF Delivery, DeliveryInv
  <2>2. \A p \in DOMAIN published : InHello(s, published[p])'
    BY <1>1, <1>3, <2>1 DEF InHello
  <2> QED BY <1>1, <2>1, <2>2 DEF DeliveryInv
<1> QED BY <1>4, <1>5 DEF Delivery

\* The history is there: the hello will carry it.
LEMMA HelloReplyDelivery ==
  ASSUME SessionsInv, RedisInv, Delivery, NEW s \in Sessions, HelloReply(s)
  PROVE  Delivery'
<1>1. pc[s] = "helloRedis" /\ TakeReply(s)
  BY DEF HelloReply
<1>2. CASE Finish(s, FALSE)
  BY <1>1, <1>2, FinishDelivery
<1>3. CASE ~Finish(s, FALSE)
  <2>1. PICK a : a = Reply
    OBVIOUS
  <2>2. /\ 1 \in DOMAIN replyQ /\ replyQ[1] = a /\ a.s = s /\ a.ok
        /\ snap' = [snap EXCEPT ![s] = a.at]
        /\ UNCHANGED <<co, sock, subs, published, sent, streams>>
    BY <1>1, <1>3, <2>1, TakeReplyFacts DEF HelloReply, TakeReply, Reply
  <2>3. PICK to \in {"helloWrite", "helloNames"} : pc' = [pc EXCEPT ![s] = to]
    BY <1>3 DEF HelloReply
  <2>4. /\ pc \in [Sessions -> States] /\ snap \in [Sessions -> Positions]
        /\ a.at \in Positions
        /\ \A k \in Keys : Len(streams[k]) \in Nat
    BY <2>2, RedisFacts DEF Positions
  <2>5. ASSUME NEW t \in Sessions, t # s PROVE DeliveryInv(t)'
    <3>1. DeliveryInv(t) /\ pc'[t] = pc[t] /\ sock'[t] = sock[t] /\ snap'[t] = snap[t]
      BY <2>2, <2>3, <2>4, <2>5 DEF Delivery
    <3>2. \A p \in Broadcasts : Live(t, p) \/ WasSent(t, p) => Live(t, p)' \/ WasSent(t, p)'
      BY <2>2 DEF Live, WasSent
    <3>3. \A i \in DOMAIN replyQ' : \E j \in DOMAIN replyQ : replyQ[j] = replyQ'[i]
      BY <1>1, AnswersKept
    <3> QED BY <2>2, <2>4, <3>1, <3>2, <3>3, StillDelivered
  <2>6. DeliveryInv(s)'
    <3>1. pc'[s] = to /\ snap'[s] = a.at
      BY <2>2, <2>3, <2>4
    <3>2. \A k \in Keys : snap'[s][k] <= Len(streams'[k])
      BY <2>2, <3>1 DEF RedisInv, AnswersFit
    <3>3. RoomIds \X {s} \subseteq subs'
      BY <1>1, <2>2 DEF Delivery, DeliveryInv
    <3>4. ASSUME sock'[s] = "open", NEW p \in DOMAIN published,
                 published[p].key \in RoomIds
          PROVE  Live(s, p)' \/ WasSent(s, p)' \/ InHello(s, published[p])'
      <4>1. Live(s, p) \/ WasSent(s, p) \/ InHello(s, published[p])
        BY <1>1, <2>2, <3>4 DEF Delivery, DeliveryInv
      <4>2. InHello(s, published[p]) => published[p].last <= a.at[published[p].key]
        BY <1>1, <2>2 DEF InHello
      <4>3. InHello(s, published[p]) => InHello(s, published[p])'
        BY <2>2, <3>1, <4>2 DEF InHello
      <4> QED BY <2>2, <4>1, <4>3 DEF Live, WasSent
    <3> QED BY <2>2, <3>1, <3>2, <3>3, <3>4 DEF DeliveryInv
  <2> QED BY <2>5, <2>6 DEF Delivery
<1> QED BY <1>2, <1>3

\* The batch is stored: whoever is subscribed is owed the broadcast of it.
LEMMA StoreReplyDelivery ==
  ASSUME SessionsInv, RedisInv, Delivery, NEW s \in Sessions, StoreReply(s)
  PROVE  Delivery'
<1>1. pc[s] = "storing" /\ TakeReply(s)
  BY DEF StoreReply
<1>2. CASE Finish(s, FALSE)
  BY <1>1, <1>2, FinishDelivery
<1>3. CASE ~Finish(s, FALSE)
  <2>1. PICK k, e : k = req[s].key
                    /\ e = [key |-> k, from |-> s,
                            first |-> Reply.at[k] + 1 - req[s].n, last |-> Reply.at[k]]
    OBVIOUS
  <2>2. /\ Publish(k, e) /\ e.key = k
        /\ pc' = [pc EXCEPT ![s] = "reading"]
        /\ UNCHANGED <<sock, subs, snap, sent>>
    BY <1>3, <2>1 DEF StoreReply
  <2>3. PICK n : n = Len(published) + 1
    OBVIOUS
  <2>4. /\ n \in Broadcasts /\ n \in Nat
        /\ DOMAIN published = 1..(n - 1) /\ DOMAIN published' = 1..n
        /\ \A p \in DOMAIN published : published'[p] = published[p]
        /\ published'[n] = e
    BY <1>1, <2>2, <2>3, PublishedAreBroadcasts DEF Publish
  <2>5. \A t \in Sessions, p \in Broadcasts :
          Live(t, p)' <=> Live(t, p) \/ (p = n /\ <<k, t>> \in subs)
    BY <2>2, <2>3, <2>4, PublishMakesLive
  <2>6. /\ \A i \in DOMAIN replyQ' : \E j \in DOMAIN replyQ : replyQ[j] = replyQ'[i]
        /\ streams' = streams
    BY <1>1, AnswersKept
  <2>7. ASSUME NEW t \in Sessions PROVE DeliveryInv(t)'
    <3>1. /\ DeliveryInv(t)
          /\ pc'[t] = pc[t] \/ (pc[t] \in Told /\ pc'[t] = "reading")
      BY <1>1, <2>2, RedisFacts DEF Delivery, Told, States
    <3>2. /\ pc'[t] = "auth" <=> pc[t] = "auth"
          /\ pc'[t] \in {"auth", "closing", "ended"} <=>
               pc[t] \in {"auth", "closing", "ended"}
          /\ pc'[t] = "helloRedis" <=> pc[t] = "helloRedis"
      BY <3>1 DEF Told
    <3>3. /\ pc'[t] = "auth" => sock'[t] = "open"
          /\ pc'[t] \notin {"auth", "closing", "ended"} => RoomIds \X {t} \subseteq subs'
          /\ \A j \in Keys : snap'[t][j] <= Len(streams'[j])
      BY <2>2, <2>6, <3>1, <3>2 DEF DeliveryInv
    <3>4. ASSUME pc'[t] \notin {"auth", "closing", "ended"}, sock'[t] = "open",
                 NEW p \in DOMAIN published', published'[p].key \in RoomIds
          PROVE  \/ Live(t, p)' \/ WasSent(t, p)'
                 \/ InHello(t, published[p])' /\ published'[p] = published[p]
      <4>1. CASE p = n
        <5>1. <<k, t>> \in subs
          BY <2>2, <2>4, <3>1, <3>2, <3>4, <4>1 DEF DeliveryInv
        <5> QED BY <2>4, <2>5, <4>1, <5>1
      <4>2. CASE p # n
        <5>1. p \in DOMAIN published /\ published'[p] = published[p] /\ p \in Broadcasts
          BY <2>4, <4>2, PublishedAreBroadcasts
        <5>2. Live(t, p) \/ WasSent(t, p) \/ InHello(t, published[p])
          BY <2>2, <3>1, <3>2, <3>4, <5>1 DEF DeliveryInv
        <5>3. PICK m : m = published[p]
          OBVIOUS
        <5>4. InHello(t, m) => InHello(t, m)'
          BY <2>2, <2>6, <3>2 DEF InHello
        <5> QED BY <2>2, <2>5, <5>1, <5>2, <5>3, <5>4 DEF WasSent
      <4> QED BY <4>1, <4>2
    <3> QED BY <3>3, <3>4 DEF DeliveryInv
  <2> QED BY <2>7 DEF Delivery
<1> QED BY <1>2, <1>3

\* Redis and the connection to it touch no session; an answer with a history
\* has all that is stored, and so all that is published.
LEMMA RedisDelivery ==
  ASSUME SessionsInv, RedisInv, Delivery,
         RedisExecutes \/ RedisExecutesOrphan \/ RedisConnectionLost
  PROVE  Delivery'
<1>1. UNCHANGED <<pc, co, sock, subs, published, snap, sent>>
  BY DEF RedisExecutes, RedisExecutesOrphan, RedisConnectionLost
<1>2. \A t \in Sessions, p \in Broadcasts :
        Live(t, p) \/ WasSent(t, p) => Live(t, p)' \/ WasSent(t, p)'
  BY <1>1 DEF Live, WasSent
<1>3. /\ \A k \in Keys : /\ Len(streams[k]) \in Nat /\ Len(streams'[k]) \in Nat
                         /\ Len(streams'[k]) >= Len(streams[k])
      /\ \A i \in DOMAIN replyQ' : replyQ'[i].ok =>
           \/ \E j \in DOMAIN replyQ : replyQ[j] = replyQ'[i]
           \/ \A k \in Keys : replyQ'[i].at[k] = Len(streams'[k])
  <2>1. ASSUME NEW s \in Sessions, NEW n \in 0..req[s].n, Appends(s, n)
        PROVE  \A k \in Keys : /\ Len(streams[k]) \in Nat /\ Len(streams'[k]) \in Nat
                               /\ Len(streams'[k]) >= Len(streams[k])
    BY <2>1, AppendsFacts, RedisFacts
  <2>2. CASE RedisExecutes
    <3>0. PICK s \in Sessions : s = Head(redisQ)
      BY <2>2, RedisFacts DEF RedisExecutes
    <3>1. PICK n \in 0..req[s].n, ok \in BOOLEAN :
            /\ Appends(s, n)
            /\ replyQ' = Append(replyQ,
                 [s |-> s, ok |-> ok,
                  at |-> IF ok THEN [j \in Keys |-> Len(streams'[j])]
                               ELSE Nothing])
      BY <2>2, <3>0 DEF RedisExecutes
    <3>2. PICK a : a = [s |-> s, ok |-> ok,
                        at |-> IF ok THEN [j \in Keys |-> Len(streams'[j])]
                                     ELSE Nothing]
      OBVIOUS
    <3>3. replyQ' = Append(replyQ, a)
      BY <3>1, <3>2
    <3>4. \A i \in DOMAIN replyQ' :
            (i \in DOMAIN replyQ /\ replyQ'[i] = replyQ[i]) \/ replyQ'[i] = a
      BY <3>3, RedisFacts
    <3>5. a.ok => \A k \in Keys : a.at[k] = Len(streams'[k])
      BY <3>2
    <3> QED BY <2>1, <3>1, <3>4, <3>5
  <2>3. CASE RedisExecutesOrphan
    <3>0. PICK s \in Sessions : s = Head(orphans)
      BY <2>3, RedisFacts DEF RedisExecutesOrphan
    <3>1. PICK n \in 0..req[s].n : Appends(s, n) /\ replyQ' = replyQ
      BY <2>3, <3>0 DEF RedisExecutesOrphan
    <3> QED BY <2>1, <3>1
  <2>4. CASE RedisConnectionLost
    <3>1. PICK l : l = Len(replyQ)
      OBVIOUS
    <3>2. PICK i \in 0..l, j \in 0..Len(redisQ) :
            replyQ' = [m \in 1..(l + j) |->
                         IF m <= i THEN replyQ[m]
                         ELSE [s |-> IF m <= l THEN replyQ[m].s ELSE redisQ[m - l],
                               ok |-> FALSE, at |-> Nothing]]
      BY <2>4, <3>1 DEF RedisConnectionLost
    <3>3. l \in Nat /\ DOMAIN replyQ = 1..l
      BY <3>1, RedisFacts
    <3>4. ASSUME NEW m \in DOMAIN replyQ', replyQ'[m].ok
          PROVE  m \in DOMAIN replyQ /\ replyQ[m] = replyQ'[m]
      <4>1. m \in 1..(l + j) /\ m <= i
        BY <3>2, <3>4
      <4> QED BY <3>2, <3>3, <4>1
    <3>5. streams' = streams
      BY <2>4 DEF RedisConnectionLost
    <3> QED BY <3>4, <3>5, RedisFacts
  <2> QED BY <2>2, <2>3, <2>4
<1>4. ASSUME NEW t \in Sessions PROVE DeliveryInv(t)'
  <2>1. DeliveryInv(t)
    BY DEF Delivery
  <2> QED BY <1>1, <1>2, <1>3, <2>1, StillDelivered
<1> QED BY <1>4 DEF Delivery

\* The process is replaced: only sessions that have not begun go on.
LEMMA RestartDelivery ==
  ASSUME SessionsInv, RedisInv, Delivery, ServerRestarts
  PROVE  Delivery'
<1>1. /\ \A t \in Sessions : pc'[t] = IF pc[t] = "auth" THEN "auth" ELSE "ended"
      /\ \A t \in Sessions : pc[t] = "auth" => sock'[t] = "open"
      /\ UNCHANGED <<snap, streams>>
  BY DEF ServerRestarts
<1> QED BY <1>1 DEF Delivery, DeliveryInv
-----------------------------------------------------------------------------
(* The invariant, and what follows from it                                 *)

\* run() between the greeting and its end.
LEMMA RunDelivery ==
  ASSUME SessionsInv, RedisInv, Delivery, NEW s \in Sessions,
         \/ AuthFail(s) \/ CloseDone(s) \/ HelloNames(s) \/ RunWriteFails(s)
         \/ HistoryReply(s) \/ HistoryNames(s) \/ HistoryLockResumes(s)
         \/ ClientStep(s)
  PROVE  Delivery'
<1>1. CASE \E broken \in BOOLEAN : Finish(s, broken)
  <2>1. pc'[s] = "ended"
    BY <1>1, RedisFacts DEF Finish
  <2>2. ~ \/ AuthFail(s)
          \/ \E k \in Keys, n \in Batches : ReadMessages(s, k, n)
          \/ \E k \in Keys : ReadHistoryRequest(s, k)
    BY <2>1, RedisFacts DEF AuthFail, ReadMessages, ReadHistoryRequest
  <2>3. ~LockForHistory(s)
    BY <2>1, RedisFacts DEF LockForHistory
  <2>4. UNCHANGED redisVars \/ TakeReply(s)
    BY <2>2, <2>3 DEF CloseDone, HelloNames, RunWriteFails, HistoryReply,
       HistoryNames, HistoryLockResumes, ClientStep, ReadEnds
  <2> QED BY <1>1, <2>4, FinishDelivery
<1>2. CASE AuthFail(s)
  <2>1. "closing" \in States
    BY DEF States
  <2> QED BY <1>2, <2>1, AdvanceDelivery DEF AuthFail
<1>3. CASE HelloNames(s) /\ ~Finish(s, FALSE)
  <2>1. "helloNames" \in Told /\ "helloWrite" \in Told /\ "helloWrite" \in States
    BY DEF States, Told
  <2> QED BY <1>3, <2>1, AdvanceDelivery DEF HelloNames
<1>4. CASE LockForHistory(s)
           /\ (HistoryReply(s) \/ HistoryNames(s) \/ HistoryLockResumes(s))
  <2>1. PICK to \in {"histLock", "histWrite"} : pc' = [pc EXCEPT ![s] = to]
    BY <1>4 DEF LockForHistory
  <2>2. pc[s] \in Told /\ to \in Told /\ to \in States
    BY <1>4 DEF HistoryReply, HistoryNames, HistoryLockResumes, Told, States
  <2>3. /\ LockWrites(s, Run)
        /\ UNCHANGED <<sock, subs, published, snap, sent>>
        /\ UNCHANGED redisVars \/ TakeReply(s)
    BY <1>4 DEF LockForHistory, HistoryReply, HistoryNames, HistoryLockResumes
  <2> QED BY <2>1, <2>2, <2>3, AdvanceDelivery
<1>5. CASE HistoryReply(s) /\ ~LockForHistory(s) /\ ~Finish(s, FALSE)
  <2>1. "histRedis" \in Told /\ "histNames" \in Told /\ "histNames" \in States
    BY DEF States, Told
  <2> QED BY <1>5, <2>1, AdvanceDelivery DEF HistoryReply
<1>6. ASSUME NEW k \in Keys, NEW n \in Batches, ReadMessages(s, k, n)
      PROVE  Delivery'
  <2>1. "reading" \in Told /\ "storing" \in Told /\ "storing" \in States
    BY DEF States, Told
  <2> QED BY <1>6, <2>1, AdvanceDelivery DEF ReadMessages
<1>7. ASSUME NEW k \in Keys, ReadHistoryRequest(s, k)
      PROVE  Delivery'
  <2>1. "reading" \in Told /\ "histRedis" \in Told /\ "histRedis" \in States
    BY DEF States, Told
  <2> QED BY <1>7, <2>1, AdvanceDelivery DEF ReadHistoryRequest
<1> QED BY <1>1, <1>2, <1>3, <1>4, <1>5, <1>6, <1>7
        DEF CloseDone, HelloNames, RunWriteFails, HistoryReply, HistoryNames,
            HistoryLockResumes, ClientStep, ReadEnds

\* Every step keeps what is owed to the clients.
LEMMA StepDelivery == SessionsInv /\ RedisInv /\ Delivery /\ [Next]_vars => Delivery'
<1> SUFFICES ASSUME SessionsInv, RedisInv, Delivery, [Next]_vars PROVE Delivery'
  OBVIOUS
<1>1. ASSUME NEW s \in Sessions, RunStep(s) PROVE Delivery'
  BY <1>1, AuthOkDelivery, HelloReplyDelivery, StoreReplyDelivery, WroteDelivery,
     RunDelivery DEF RunStep
<1>2. ASSUME NEW s \in Sessions, NEW p \in Broadcasts, OnMessageStep(s, p)
      PROVE  Delivery'
  BY <1>2, OnMessageLocksDelivery, OnMessageReturnsDelivery DEF OnMessageStep
<1>3. CASE UNCHANGED vars
  BY <1>3 DEF vars, Delivery, DeliveryInv, Live, WasSent, InHello
<1> QED BY <1>1, <1>2, <1>3, RunDelivery, RedisDelivery, RestartDelivery
        DEF Next, AllGone

-----------------------------------------------------------------------------
(* The frames that clients are sent                                       *)

\* What a step writes: nothing, or a frame that fits.
Fits(s, f) ==
  /\ f \in Frame
  /\ f.kind = "hello" => sent[s] = << >>
  /\ f.kind = "serverMessages" => f.id \in DOMAIN published

\* A frame is written to the client of s.
Writes(s, f) == Fits(s, f) /\ sent' = [sent EXCEPT ![s] = Append(@, f)]

\* One frame is written, to one client.
WritesOne == \E s \in Sessions, f \in Frame : Writes(s, f)

\* Broadcasts stay published.
PublishedStays == DOMAIN published \subseteq DOMAIN published'

\* run() writes the hello first and the answers to history requests later.
LEMMA HelloWrites ==
  ASSUME SessionsInv, NEW s \in Sessions, HelloWritten(s) \/ RoomHistoryWritten(s)
  PROVE  WritesOne /\ published' = published
<1>1. PICK kind \in {"hello", "roomHistory"} :
        /\ sent' = [sent EXCEPT ![s] = Append(@, [kind |-> kind, id |-> 0])]
        /\ published' = published
        /\ kind = "hello" => pc[s] = "helloWrite"
  BY DEF HelloWritten, RoomHistoryWritten, RunWrote
<1>2. PICK f : f = [kind |-> kind, id |-> 0]
  OBVIOUS
<1>3. f \in Frame /\ f.kind = kind /\ f.kind # "serverMessages"
  BY <1>1, <1>2 DEF Frame
<1>4. pc[s] = "helloWrite" => sent[s] = << >>
  BY DEF SessionsInv, SessionInv, Greeting
<1>5. Writes(s, f)
  BY <1>1, <1>2, <1>3, <1>4 DEF Writes, Fits
<1> QED BY <1>1, <1>3, <1>5 DEF WritesOne

\* on_message() writes a broadcast that was published before it was started.
LEMMA OnMessageWrites ==
  ASSUME SessionsInv, NEW s \in Sessions, NEW p \in Broadcasts, OnMessageWritten(s, p)
  PROVE  WritesOne /\ published' = published
<1>1. PICK f : f = [kind |-> "serverMessages", id |-> p]
  OBVIOUS
<1>2. f \in Frame /\ f.kind = "serverMessages" /\ f.id = p
  BY <1>1 DEF Frame, Broadcasts
<1>3. /\ co[s][p] = "holding" /\ published' = published
      /\ sent' = [sent EXCEPT ![s] = Append(@, f)]
  BY <1>1 DEF OnMessageWritten, OnMessageReturns
<1>4. p \in DOMAIN published
  <2>1. ~(p > Len(published)) /\ published \in Seq(Broadcast)
    BY <1>3 DEF SessionsInv, SessionInv, TypeOK
  <2> QED BY <2>1 DEF Broadcasts
<1>5. Writes(s, f)
  BY <1>2, <1>3, <1>4 DEF Writes, Fits
<1> QED BY <1>2, <1>3, <1>5 DEF WritesOne

\* What a stored batch adds to the broadcasts is written to nobody yet.
LEMMA StoreReplyPublishes ==
  ASSUME SessionsInv, NEW s \in Sessions, StoreReply(s)
  PROVE  sent' = sent /\ PublishedStays
<1>1. sent' = sent
  BY DEF StoreReply, Finish
<1>2. published' = published \/ \E m : published' = Append(published, m)
  BY DEF StoreReply, Finish, Publish
<1>3. published \in Seq(Broadcast)
  BY DEF SessionsInv, TypeOK
<1>4. SessionsInv'
  BY StepSessions DEF Next, RunStep
<1>5. published' \in Seq(Broadcast)
  BY <1>4 DEF SessionsInv, TypeOK
<1>6. Len(published) <= Len(published')
  BY <1>2, <1>3, <1>5
<1> QED BY <1>1, <1>3, <1>5, <1>6 DEF PublishedStays

\* No step writes more than one frame, or takes a broadcast back.
LEMMA FramesMove ==
  ASSUME SessionsInv, [Next]_vars
  PROVE  (sent' = sent \/ WritesOne) /\ PublishedStays
<1>1. ASSUME NEW s \in Sessions, RunStep(s)
      PROVE  (sent' = sent \/ WritesOne) /\ PublishedStays
  <2>1. CASE HelloWritten(s) \/ RoomHistoryWritten(s)
    BY <2>1, HelloWrites DEF PublishedStays
  <2>2. CASE StoreReply(s)
    BY <2>2, StoreReplyPublishes
  <2>3. CASE \/ AuthOk(s) \/ AuthFail(s) \/ CloseDone(s)
             \/ HelloReply(s) \/ HelloNames(s)
             \/ HistoryReply(s) \/ HistoryNames(s) \/ HistoryLockResumes(s)
             \/ RunWriteFails(s)
    <3>1. sent' = sent /\ published' = published
      BY <2>3 DEF AuthOk, AuthFail, CloseDone, HelloReply, HelloNames, HistoryReply,
         HistoryNames, HistoryLockResumes, RunWriteFails, Finish, LockForHistory
    <3> QED BY <3>1 DEF PublishedStays
  <2> QED BY <1>1, <2>1, <2>2, <2>3 DEF RunStep
<1>2. ASSUME NEW s \in Sessions, ClientStep(s)
      PROVE  (sent' = sent \/ WritesOne) /\ PublishedStays
  <2>1. sent' = sent /\ published' = published
    BY <1>2 DEF ClientStep, ReadMessages, ReadHistoryRequest, ReadEnds, Finish
  <2> QED BY <2>1 DEF PublishedStays
<1>3. ASSUME NEW s \in Sessions, NEW p \in Broadcasts, OnMessageStep(s, p)
      PROVE  (sent' = sent \/ WritesOne) /\ PublishedStays
  <2>1. CASE OnMessageWritten(s, p)
    BY <2>1, OnMessageWrites DEF PublishedStays
  <2>2. CASE OnMessageStarts(s, p) \/ OnMessageResumes(s, p) \/ OnMessageWriteFails(s, p)
    <3>1. sent' = sent /\ published' = published
      BY <2>2 DEF OnMessageStarts, OnMessageResumes, OnMessageWriteFails, OnMessageReturns
    <3> QED BY <3>1 DEF PublishedStays
  <2> QED BY <1>3, <2>1, <2>2 DEF OnMessageStep
<1>4. CASE \/ RedisExecutes \/ RedisExecutesOrphan \/ RedisConnectionLost
           \/ ServerRestarts \/ UNCHANGED vars
  <2>1. sent' = sent /\ published' = published
    BY <1>4 DEF RedisExecutes, RedisExecutesOrphan, RedisConnectionLost,
       ServerRestarts, vars
  <2> QED BY <2>1 DEF PublishedStays
<1> QED BY <1>1, <1>2, <1>3, <1>4 DEF Next, AllGone

\* So the frames that clients are sent fit, always.
LEMMA StepFrames == SessionsInv /\ FramesFit /\ [Next]_vars => FramesFit'
<1> SUFFICES ASSUME SessionsInv, FramesFit, [Next]_vars PROVE FramesFit'
  OBVIOUS
<1>1. (sent' = sent \/ WritesOne) /\ PublishedStays
  BY FramesMove
<1>2. CASE sent' = sent
  BY <1>1, <1>2 DEF FramesFit, PublishedStays
<1>3. ASSUME NEW s \in Sessions, NEW f \in Frame, Writes(s, f)
      PROVE  FramesFit'
  <2> SUFFICES ASSUME NEW t \in Sessions, NEW i \in DOMAIN sent'[t]
               PROVE  /\ sent'[t][i].kind = "hello" => i = 1
                      /\ sent'[t][i].kind = "serverMessages"
                           => sent'[t][i].id \in DOMAIN published'
    BY DEF FramesFit
  <2>1. sent \in [Sessions -> Seq(Frame)]
    BY DEF SessionsInv, TypeOK
  <2>2. /\ t # s => sent'[t] = sent[t]
        /\ sent'[s] = Append(sent[s], f)
    BY <1>3, <2>1 DEF Writes
  <2>3. CASE i \in DOMAIN sent[t] /\ sent'[t][i] = sent[t][i]
    BY <1>1, <2>3 DEF FramesFit, PublishedStays
  <2>4. CASE t = s /\ i = Len(sent[s]) + 1 /\ sent'[t][i] = f
    <3>1. sent[s] = << >> => i = 1
      BY <2>4
    <3> QED BY <1>1, <1>3, <2>4, <3>1 DEF Writes, Fits, PublishedStays
  <2>5. t = s => \/ i \in DOMAIN sent[s] /\ Append(sent[s], f)[i] = sent[s][i]
                 \/ i = Len(sent[s]) + 1 /\ Append(sent[s], f)[i] = f
    <3>1. PICK q \in Seq(Frame) : q = sent[s]
      BY <2>1
    <3>2. t = s => i \in DOMAIN Append(q, f)
      BY <2>2, <3>1
    <3>3. t = s => \/ i \in DOMAIN q /\ Append(q, f)[i] = q[i]
                   \/ i = Len(q) + 1 /\ Append(q, f)[i] = f
      BY <3>1, <3>2
    <3> QED BY <3>1, <3>3
  <2> QED BY <2>2, <2>3, <2>4, <2>5
<1> QED BY <1>1, <1>2, <1>3 DEF WritesOne

\* Nothing is sent at first.
LEMMA InitFrames == Init => FramesFit
BY DEF Init, FramesFit

\* The invariant holds at first.
LEMMA InitServer == Init => IInv
<1> SUFFICES ASSUME Init PROVE IInv
  OBVIOUS
<1>1. SessionsInv /\ RedisInv
  BY InitSessions, InitRedis
<1>2. Delivery
  <2>1. \A k \in Keys : streams[k] = << >> /\ Nothing[k] = 0
    BY DEF Init, Nothing
  <2> QED BY <2>1 DEF Init, Delivery, DeliveryInv
<1> QED BY <1>1, <1>2, InitFrames DEF IInv

\* Every step keeps it.
LEMMA StepServer == IInv /\ [Next]_vars => IInv'
<1> SUFFICES ASSUME IInv, [Next]_vars PROVE IInv'
  OBVIOUS
<1>1. SessionsInv /\ RedisInv /\ Delivery /\ FramesFit
  BY DEF IInv
<1>2. SessionsInv' /\ RedisInv' /\ Delivery' /\ FramesFit'
  BY <1>1, StepSessions, StepRedis, StepDelivery, StepFrames
<1> QED BY <1>2 DEF IInv

\* The inductive invariant holds in every reachable state.
THEOREM ServerInvariant == Spec => []IInv
<1>1. Init => IInv
  BY InitServer
<1>2. IInv /\ [Next]_vars => IInv'
  BY StepServer
<1> QED BY <1>1, <1>2, PTL DEF Spec

\* A broadcast carries messages that Redis has, its author's, under the ids that
\* Redis gave them, whatever fails or is replaced in between.
THEOREM OnlyStoredIsPublished == Spec => []PublishedIsStored
<1>1. IInv => PublishedIsStored
  BY DEF IInv, RedisInv
<1> QED BY <1>1, ServerInvariant, PTL

\* The broadcasts of a room follow each other as in its stream.
THEOREM PublishedInOrder == Spec => []PublishedInStreamOrder
<1>1. IInv => PublishedInStreamOrder
  BY DEF IInv, RedisInv
<1> QED BY <1>1, ServerInvariant, PTL

\* Whose messages are stored, goes on only after they have been broadcast.
THEOREM NothingStoredIsForgotten == Spec => []StoredIsAccounted
<1>1. IInv => StoredIsAccounted
  BY DEF IInv, RedisInv, MessagesAccounted, StoredIsAccounted
<1> QED BY <1>1, ServerInvariant, PTL

\* A served client misses no message of its rooms: what is published is in its
\* hello, was sent to it, or is on its way.
THEOREM NoGapInWhatIsShown == Spec => []NoGap
<1>1. IInv => NoGap
  <2> SUFFICES ASSUME IInv, NEW s \in Sessions, NEW p \in DOMAIN published,
                      pc[s] \notin {"auth", "closing", "helloRedis", "ended"},
                      published[p].key \in RoomIds,
                      published[p].last > snap[s][published[p].key],
                      sock[s] = "open"
               PROVE  Live(s, p) \/ WasSent(s, p)
    BY DEF NoGap
  <2>1. /\ SessionsInv /\ DeliveryInv(s)
    BY DEF IInv, Delivery
  <2>2. /\ published[p].last \in Nat
        /\ snap[s][published[p].key] \in Nat
    BY <2>1, RedisFacts DEF Positions
  <2> QED BY <2>1, <2>2 DEF DeliveryInv, InHello
<1> QED BY <1>1, ServerInvariant, PTL
-----------------------------------------------------------------------------
(* What clients show                                                       *)

\* The order of the natural numbers.
Below == {p \in Nat \X Nat : p[1] < p[2]}

\* The principle of the least number.
LEMMA LeastNumber ==
  ASSUME NEW T \in SUBSET Nat, T # {}
  PROVE  \E x \in T : \A y \in T : x <= y
<1>1. Below = OpToRel(<, Nat)
  BY DEF Below, OpToRel
<1>2. IsWellFoundedOn(Below, Nat)
  BY <1>1, NatLessThanWellFounded
<1>3. PICK x \in T : \A y \in T : ~ (<<y, x>> \in Below)
  BY <1>2, WFMin
<1>4. ASSUME NEW y \in T PROVE x <= y
  <2>1. <<y, x>> \in Nat \X Nat /\ <<y, x>>[1] = y /\ <<y, x>>[2] = x
    OBVIOUS
  <2>2. x \in Nat /\ y \in Nat
    OBVIOUS
  <2>3. ~(y < x)
    BY <2>1, <1>3 DEF Below
  <2> QED BY <2>2, <2>3
<1> QED BY <1>4

\* f has what the client shows after each of its first n frames.
IsView(f, s, n) ==
  f = [i \in 0..n |-> IF i = 0 THEN NoRooms
                      ELSE OnWebsocketMessage(s, f[i - 1], sent[s][i])]

\* There is such a function.
HasView(s, n) == \E f : IsView(f, s, n)

\* Before the first frame ...
LEMMA FirstView == ASSUME NEW s PROVE HasView(s, 0)
<1>1. PICK f : f = [i \in 0..0 |-> NoRooms]
  OBVIOUS
<1>2. f = [i \in 0..0 |-> IF i = 0 THEN NoRooms
                          ELSE OnWebsocketMessage(s, f[i - 1], sent[s][i])]
  BY <1>1
<1> QED BY <1>2 DEF IsView, HasView

\* ... and after each frame more.
LEMMA NextView ==
  ASSUME NEW s, NEW n \in Nat, HasView(s, n)
  PROVE  HasView(s, n + 1)
<1>1. PICK f : IsView(f, s, n)
  BY DEF HasView
<1>2. PICK x : x = OnWebsocketMessage(s, f[n], sent[s][n + 1])
  OBVIOUS
<1>3. PICK g : g = [i \in 0..(n + 1) |-> IF i = n + 1 THEN x ELSE f[i]]
  OBVIOUS
<1>4. ASSUME NEW i \in 0..(n + 1)
      PROVE  g[i] = IF i = 0 THEN NoRooms
                    ELSE OnWebsocketMessage(s, g[i - 1], sent[s][i])
  <2>1. CASE i = n + 1
    <3>1. i # 0 /\ i - 1 = n /\ n \in 0..(n + 1) /\ n # n + 1
      BY <2>1
    <3>2. g[n] = f[n] /\ g[i] = x
      BY <1>3, <2>1, <3>1
    <3> QED BY <1>2, <2>1, <3>1, <3>2
  <2>2. CASE i # n + 1
    <3>1. i \in 0..n /\ g[i] = f[i]
      BY <1>3, <2>2
    <3>2. f[i] = IF i = 0 THEN NoRooms
                 ELSE OnWebsocketMessage(s, f[i - 1], sent[s][i])
      BY <1>1, <3>1 DEF IsView
    <3>3. i # 0 => g[i - 1] = f[i - 1]
      BY <1>3, <3>1
    <3> QED BY <3>1, <3>2, <3>3
  <2> QED BY <2>1, <2>2
<1>5. g = [i \in 0..(n + 1) |-> g[i]]
  BY <1>3
<1>6. IsView(g, s, n + 1)
  BY <1>4, <1>5 DEF IsView
<1> QED BY <1>6 DEF HasView

\* The views are defined after any number of frames: there is no least number
\* of frames without one.
LEMMA ViewExists == ASSUME NEW s, NEW n \in Nat PROVE HasView(s, n)
<1> DEFINE T == {k \in Nat : ~HasView(s, k)}
<1> SUFFICES ASSUME T # {} PROVE FALSE
  OBVIOUS
<1>1. T \in SUBSET Nat
  OBVIOUS
<1>2. PICK k \in T : \A j \in T : k <= j
  <2> HIDE DEF T
  <2> QED BY <1>1, LeastNumber
<1>3. CASE k = 0
  BY <1>2, <1>3, FirstView
<1>4. CASE k # 0
  <2>1. k - 1 \in Nat /\ (k - 1) + 1 = k /\ ~(k <= k - 1)
    BY <1>1, <1>2, <1>4
  <2>2. HasView(s, k - 1)
    BY <1>2, <2>1
  <2>3. HasView(s, k)
    BY <2>1, <2>2, NextView
  <2> QED BY <1>2, <2>3
<1> QED BY <1>3, <1>4

\* What the client shows is the last of them.
LEMMA ViewIs ==
  ASSUME NEW s, Len(sent[s]) \in Nat
  PROVE  \E f : IsView(f, s, Len(sent[s])) /\ View(s) = f[Len(sent[s])]
<1> DEFINE f == CHOOSE f : IsView(f, s, Len(sent[s]))
<1>1. IsView(f, s, Len(sent[s]))
  BY ViewExists DEF HasView
<1>2. View(s) = f[Len(sent[s])]
  BY DEF View, IsView
<1> QED BY <1>1, <1>2

\* onWebsocketMessage(), by the kind of the frame.
LEMMA OnFrame ==
  ASSUME NEW s, NEW view, NEW frame
  PROVE  /\ frame.kind = "hello" =>
              OnWebsocketMessage(s, view, frame) = SetInitialState(s)
         /\ frame.kind = "serverMessages" =>
              OnWebsocketMessage(s, view, frame) = AddMessages(view, published[frame.id])
         /\ frame.kind = "roomHistory" => OnWebsocketMessage(s, view, frame) = view
<1>1. "hello" # "serverMessages" /\ "hello" # "roomHistory" /\ "serverMessages" # "roomHistory"
  OBVIOUS
<1> QED BY <1>1 DEF OnWebsocketMessage

\* v has the n elements of s and then the m elements of t.
Joins(v, s, t, n, m) ==
  /\ v \in Seq(Int) /\ Len(v) = n + m
  /\ \A i \in 1..n : v[i] = s[i]
  /\ \A k \in (n + 1)..(n + m) : v[k] = t[k - n]

\* The operator on sequences that joins two lists does so.
LEMMA JoinedIds ==
  ASSUME NEW s \in Seq(Int), NEW t \in Seq(Int)
  PROVE  Joins(s \o t, s, t, Len(s), Len(t))
BY DEF Joins

\* A function on the first n numbers is a list.
LEMMA SequenceOf ==
  ASSUME NEW n \in Nat, NEW r \in [1..n -> Int]
  PROVE  r \in Seq(Int) /\ Len(r) = n
OBVIOUS

\* What is added to a list is in it, and what was in it stays.
LEMMA AddedAreListed ==
  ASSUME NEW old \in Seq(Int), NEW new \in Seq(Int)
  PROVE  /\ AddNewMessages(old, new) \in Seq(Int)
         /\ ToSet(old) \subseteq ToSet(AddNewMessages(old, new))
         /\ ToSet(new) \subseteq ToSet(AddNewMessages(old, new))
<1>1. PICK m \in Nat, n \in Nat : m = Len(old) /\ n = Len(new)
  OBVIOUS
<1>2. PICK r : r = Reverse(new)
  OBVIOUS
<1>3. r = [i \in 1..n |-> new[(n - i) + 1]]
  BY <1>1, <1>2 DEF Reverse
<1>4. \A i \in 1..n : (n - i) + 1 \in 1..n /\ (n - ((n - i) + 1)) + 1 = i
  BY <1>1
<1>5. \A i \in 1..n : new[i] \in Int
  BY <1>1
<1>6. r \in [1..n -> Int]
  BY <1>3, <1>4, <1>5
<1>7. r \in Seq(Int) /\ Len(r) = n
  BY <1>6, SequenceOf
<1>8. PICK a : a = r \o old
  OBVIOUS
<1>9. /\ a \in Seq(Int) /\ Len(a) = n + m
      /\ \A i \in 1..n : a[i] = r[i]
      /\ \A i \in 1..m : a[n + i] = old[i]
  <2>1. /\ a \in Seq(Int) /\ Len(a) = n + m
        /\ \A i \in 1..n : a[i] = r[i]
        /\ \A k \in (n + 1)..(n + m) : a[k] = old[k - n]
    <3>1. Joins(r \o old, r, old, Len(r), Len(old))
      BY <1>7, JoinedIds
    <3> QED BY <1>1, <1>7, <1>8, <3>1 DEF Joins
  <2>2. \A i \in 1..m : n + i \in (n + 1)..(n + m) /\ (n + i) - n = i
    BY <1>1
  <2>3. ASSUME NEW i \in 1..m PROVE a[n + i] = old[i]
    <3>1. a[n + i] = old[(n + i) - n]
      BY <2>1, <2>2
    <3>2. (n + i) - n = i
      BY <2>2
    <3> QED BY <3>1, <3>2
  <2> QED BY <2>1, <2>3
<1>10. ToSet(old) \subseteq ToSet(a)
  <2> SUFFICES ASSUME NEW i \in 1..m PROVE old[i] \in ToSet(a)
    BY <1>1 DEF ToSet
  <2>1. n + i \in 1..(n + m) /\ a[n + i] = old[i]
    BY <1>1, <1>9
  <2>2. DOMAIN a = 1..(n + m)
    BY <1>9
  <2> QED BY <2>1, <2>2 DEF ToSet
<1>11. ToSet(new) \subseteq ToSet(a)
  <2> SUFFICES ASSUME NEW i \in 1..n PROVE new[i] \in ToSet(a)
    BY <1>1 DEF ToSet
  <2>1. PICK j \in 1..n : j = (n - i) + 1 /\ (n - j) + 1 = i
    BY <1>4
  <2>2. a[j] = new[i]
    BY <1>3, <1>9, <2>1
  <2>3. DOMAIN a = 1..(n + m) /\ j \in 1..(n + m)
    BY <1>1, <1>9
  <2> QED BY <2>2, <2>3 DEF ToSet
<1> QED BY <1>2, <1>8, <1>9, <1>10, <1>11 DEF AddNewMessages

\* The view lists what came with the hello and with the first n frames.
Lists(view, s, n) ==
  /\ view \in [RoomIds -> Seq(Int)]
  /\ \A k \in RoomIds : FirstInHello(s, k)..snap[s][k] \subseteq ToSet(view[k])
  /\ \A i \in 1..n :
       LET m == published[sent[s][i].id]
       IN  sent[s][i].kind = "serverMessages" /\ m.key \in RoomIds =>
             m.first..m.last \subseteq ToSet(view[m.key])

\* The hello lists every message that Redis had for it, in every room, up to the
\* size of a batch.
LEMMA HelloLists ==
  ASSUME IInv, NEW s \in Sessions
  PROVE  /\ SetInitialState(s) \in [RoomIds -> Seq(Int)]
         /\ \A k \in RoomIds :
              FirstInHello(s, k)..snap[s][k] \subseteq ToSet(SetInitialState(s)[k])
<1>1. snap[s] \in [Keys -> Nat] /\ RoomIds \subseteq Keys
  BY ConstantsAssumption DEF IInv, SessionsInv, TypeOK, Positions
<1>2. ASSUME NEW k \in RoomIds
      PROVE  /\ SetInitialState(s)[k] \in Seq(Int)
             /\ FirstInHello(s, k)..snap[s][k] \subseteq ToSet(SetInitialState(s)[k])
  <2>1. PICK n \in Nat : n = snap[s][k]
    BY <1>1
  <2>7. PICK lo \in Nat : lo = FirstInHello(s, k) /\ lo <= n + 1
    <3>1. PICK size \in Nat : size = MessageBatchSize
      BY ChatViewAssumption
    <3>2. n > size => n + 1 - size \in Nat /\ n + 1 - size <= n + 1
      OBVIOUS
    <3> QED BY <2>1, <3>1, <3>2 DEF FirstInHello
  <2>2. PICK l : l = [i \in 1..(n + 1 - lo) |-> n + 1 - i]
    OBVIOUS
  <2>3. l = SetInitialState(s)[k]
    BY <2>1, <2>7, <2>2 DEF SetInitialState
  <2>4. l \in [1..(n + 1 - lo) -> Int]
    BY <2>1, <2>2
  <2>5. l \in Seq(Int)
    <3>1. n + 1 - lo \in Nat
      BY <2>1, <2>7
    <3> QED BY <2>4, <3>1
  <2>6. ASSUME NEW i \in lo..n PROVE i \in ToSet(l)
    <3>1. PICK j \in 1..(n + 1 - lo) : j = n + 1 - i /\ n + 1 - j = i
      BY <2>1, <2>7
    <3>2. l[j] = i /\ j \in DOMAIN l
      BY <2>2, <3>1
    <3> QED BY <3>2 DEF ToSet
  <2> QED BY <2>1, <2>7, <2>3, <2>5, <2>6
<1> QED BY <1>2 DEF SetInitialState

\* A broadcast adds its messages to its room, if the client knows the room,
\* and hides none that was listed.
LEMMA MessagesList ==
  ASSUME IInv, NEW view \in [RoomIds -> Seq(Int)], NEW p \in DOMAIN published,
         NEW after, after = AddMessages(view, published[p])
  PROVE  /\ after \in [RoomIds -> Seq(Int)]
         /\ \A k \in RoomIds : ToSet(view[k]) \subseteq ToSet(after[k])
         /\ published[p].key \in RoomIds =>
              published[p].first..published[p].last
                \subseteq ToSet(after[published[p].key])
<1>1. PICK m : m = published[p]
  OBVIOUS
<1>2. m \in Broadcast /\ m.first <= m.last + 1
  BY <1>1 DEF IInv, SessionsInv, TypeOK, RedisInv, PublishedIsStored, IsStored
<1>3. m.first \in Int /\ m.last \in Int
  BY <1>2 DEF Broadcast
<1>4. CASE m.key \notin RoomIds
  BY <1>1, <1>4 DEF AddMessages
<1>5. CASE m.key \in RoomIds
  <2>1. PICK n \in Nat : n = m.last + 1 - m.first
    BY <1>2, <1>3
  <2>2. PICK new : new = [i \in 1..n |-> m.first + i - 1]
    OBVIOUS
  <2>3. new \in [1..n -> Int]
    BY <1>3, <2>1, <2>2
  <2>4. new \in Seq(Int)
    BY <2>1, <2>3
  <2>5. PICK old \in Seq(Int) : old = view[m.key]
    BY <1>5
  <2>6. PICK l : l = AddNewMessages(old, new)
    OBVIOUS
  <2>7. /\ l \in Seq(Int) /\ ToSet(old) \subseteq ToSet(l)
        /\ ToSet(new) \subseteq ToSet(l)
    BY <2>4, <2>5, <2>6, AddedAreListed
  <2>8. after = [view EXCEPT ![m.key] = l]
    BY <1>1, <1>5, <2>1, <2>2, <2>5, <2>6 DEF AddMessages
  <2>9. m.first..m.last \subseteq ToSet(new)
    <3> SUFFICES ASSUME NEW i \in m.first..m.last PROVE i \in ToSet(new)
      OBVIOUS
    <3>1. PICK a \in Int, b \in Int : a = m.first /\ b = m.last
      BY <1>3
    <3>2. n = b + 1 - a /\ i \in a..b
      BY <2>1, <3>1
    <3>3. (i - a) + 1 \in 1..n /\ a + ((i - a) + 1) - 1 = i
      BY <3>2
    <3>4. PICK j \in 1..n : j = (i - a) + 1
      BY <3>3
    <3>5. new[j] = i /\ j \in DOMAIN new
      BY <2>2, <3>1, <3>3, <3>4
    <3> QED BY <3>5 DEF ToSet
  <2>10. /\ after \in [RoomIds -> Seq(Int)] /\ after[m.key] = l
         /\ \A k \in RoomIds : k # m.key => after[k] = view[k]
    BY <1>5, <2>7, <2>8
  <2> QED BY <1>1, <1>5, <2>5, <2>7, <2>9, <2>10
<1> QED BY <1>4, <1>5

\* A frame more: nothing listed is lost, and a broadcast is listed.
LEMMA FrameLists ==
  ASSUME IInv, NEW s \in Sessions, NEW n \in Nat, n >= 1, n + 1 \in DOMAIN sent[s],
         NEW view, Lists(view, s, n)
  PROVE  Lists(OnWebsocketMessage(s, view, sent[s][n + 1]), s, n + 1)
<1>1. PICK f : f = sent[s][n + 1]
  OBVIOUS
<1>2. f \in Frame /\ f.kind # "hello"
      /\ (f.kind = "serverMessages" => f.id \in DOMAIN published)
  BY <1>1 DEF IInv, SessionsInv, TypeOK, FramesFit
<1>3. PICK after : after = OnWebsocketMessage(s, view, f)
  OBVIOUS
<1>4. /\ after \in [RoomIds -> Seq(Int)]
      /\ \A k \in RoomIds : ToSet(view[k]) \subseteq ToSet(after[k])
      /\ f.kind = "serverMessages" /\ published[f.id].key \in RoomIds =>
           published[f.id].first..published[f.id].last
             \subseteq ToSet(after[published[f.id].key])
  <2>1. CASE f.kind = "serverMessages"
    <3>1. after = AddMessages(view, published[f.id])
      BY <1>3, <2>1, OnFrame
    <3>2. view \in [RoomIds -> Seq(Int)] /\ f.id \in DOMAIN published
      BY <1>2, <2>1 DEF Lists
    <3>3. PICK p \in DOMAIN published : p = f.id
      BY <3>2
    <3>4. after = AddMessages(view, published[p])
      BY <3>1, <3>3
    <3>5. /\ after \in [RoomIds -> Seq(Int)]
          /\ \A k \in RoomIds : ToSet(view[k]) \subseteq ToSet(after[k])
          /\ published[p].key \in RoomIds =>
               published[p].first..published[p].last
                 \subseteq ToSet(after[published[p].key])
      BY <3>2, <3>4, MessagesList
    <3> QED BY <3>3, <3>5
  <2>2. CASE f.kind = "roomHistory"
    <3>1. after = view
      BY <1>3, <2>2, OnFrame
    <3> QED BY <2>2, <3>1 DEF Lists
  <2> QED BY <1>2, <2>1, <2>2 DEF Frame
<1>5. \A k \in RoomIds : FirstInHello(s, k)..snap[s][k] \subseteq ToSet(after[k])
  BY <1>4 DEF Lists
<1>6. ASSUME NEW i \in 1..(n + 1), sent[s][i].kind = "serverMessages",
             published[sent[s][i].id].key \in RoomIds
      PROVE  published[sent[s][i].id].first..published[sent[s][i].id].last
               \subseteq ToSet(after[published[sent[s][i].id].key])
  <2>1. CASE i = n + 1
    BY <1>1, <1>4, <1>6, <2>1
  <2>2. CASE i # n + 1
    <3>1. i \in 1..n
      BY <2>2
    <3> QED BY <1>4, <1>6, <3>1 DEF Lists
  <2> QED BY <2>1, <2>2
<1>7. Lists(after, s, n + 1)
  BY <1>4, <1>5, <1>6 DEF Lists
<1> QED BY <1>1, <1>3, <1>7

\* A client that has got its hello lists everything it was sent.
LEMMA ViewLists ==
  ASSUME IInv, NEW s \in Sessions, sent[s] # << >>, Head(sent[s]).kind = "hello"
  PROVE  Lists(View(s), s, Len(sent[s]))
<1>1. sent[s] \in Seq(Frame)
  BY DEF IInv, SessionsInv, TypeOK
<1>2. PICK l \in Nat : l = Len(sent[s]) /\ l >= 1 /\ DOMAIN sent[s] = 1..l
  BY <1>1
<1>3. sent[s][1].kind = "hello"
  BY <1>1
<1>4. PICK f : IsView(f, s, l) /\ View(s) = f[l]
  BY <1>2, ViewIs
<1>5. Lists(f[1], s, 1)
  <2>1. 0 \in 0..l /\ 1 \in 0..l /\ 1 # 0 /\ 1 - 1 = 0
    BY <1>2
  <2>2. f[1] = OnWebsocketMessage(s, f[0], sent[s][1])
    BY <1>4, <2>1 DEF IsView
  <2>3. f[1] = SetInitialState(s)
    BY <1>3, <2>2, OnFrame
  <2>4. \A i \in 1..1 : sent[s][i].kind # "serverMessages"
    BY <1>3
  <2> QED BY <2>3, <2>4, HelloLists DEF Lists
<1> DEFINE T == {n \in 1..l : ~Lists(f[n], s, n)}
<1>6. T = {}
  <2> SUFFICES ASSUME T # {} PROVE FALSE
    OBVIOUS
  <2>1. T \in SUBSET Nat
    OBVIOUS
  <2>2. PICK n \in T : \A m \in T : n <= m
    <3> HIDE DEF T
    <3> QED BY <2>1, LeastNumber
  <2>3. n \in 1..l /\ n # 1
    BY <1>5, <2>2
  <2>4. PICK m \in Nat : m >= 1 /\ m + 1 = n /\ m \in 1..l /\ ~(n <= m)
    <3>1. n - 1 \in Nat /\ n - 1 >= 1 /\ (n - 1) + 1 = n /\ n - 1 \in 1..l /\ ~(n <= n - 1)
      BY <1>2, <2>3
    <3> QED BY <3>1
  <2>5. Lists(f[m], s, m)
    BY <2>2, <2>4
  <2>6. f[n] = OnWebsocketMessage(s, f[m], sent[s][n])
    <3>1. n \in 0..l /\ n # 0 /\ n - 1 = m
      BY <1>2, <2>3, <2>4
    <3> QED BY <1>4, <3>1 DEF IsView
  <2>7. m + 1 \in DOMAIN sent[s]
    BY <1>2, <2>3, <2>4
  <2>8. Lists(f[n], s, n)
    BY <2>4, <2>5, <2>6, <2>7, FrameLists
  <2> QED BY <2>2, <2>8
<1>7. l \in 1..l
  BY <1>2
<1> QED BY <1>2, <1>4, <1>6, <1>7

\* The client of a served session, once nothing is on its way, shows every
\* message that has been published in its rooms, but for those that were already
\* older than a batch when its hello was made: none is lost between the
\* subscription, the answer of Redis, the writes and the reducer of chat.tsx.
THEOREM SettledViewsAreComplete == Spec => []SettledViewsComplete
<1>1. IInv => SettledViewsComplete
  <2> SUFFICES ASSUME IInv, NEW s \in Sessions, NEW p \in DOMAIN published,
                      Settled(s), published[p].key \in RoomIds
               PROVE  {i \in published[p].first..published[p].last :
                         i >= FirstInHello(s, published[p].key)}
                        \subseteq ToSet(View(s)[published[p].key])
    BY DEF SettledViewsComplete
  <2>1. sent[s] # << >> /\ Head(sent[s]).kind = "hello"
    BY DEF Settled, IInv, SessionsInv, SessionInv, Greeting
  <2>2. Lists(View(s), s, Len(sent[s]))
    BY <2>1, ViewLists
  <2>3. PICK m : m = published[p]
    OBVIOUS
  <2>4. m.first \in Int /\ m.last \in Int /\ 1 <= m.first /\ m.key \in RoomIds
    <3>1. m \in Broadcast
      BY <2>3 DEF IInv, SessionsInv, TypeOK
    <3>2. IsStored(m)
      BY <2>3 DEF IInv, RedisInv, PublishedIsStored
    <3> QED BY <2>3, <3>1, <3>2 DEF Broadcast, IsStored
  <2>5. snap[s][m.key] \in Nat
    BY <2>4, ConstantsAssumption DEF IInv, SessionsInv, TypeOK, Positions
  <2>6. p \in Broadcasts
    BY PublishedAreBroadcasts DEF IInv
  <2>7. WasSent(s, p) \/ m.last <= snap[s][m.key]
    BY <2>3, <2>4, <2>6 DEF IInv, Delivery, DeliveryInv, InHello, Settled
  <2>8. CASE m.last <= snap[s][m.key]
    <3>1. ASSUME NEW i \in m.first..m.last, i >= FirstInHello(s, m.key)
          PROVE  i \in FirstInHello(s, m.key)..snap[s][m.key]
      <4>1. FirstInHello(s, m.key) \in Int
        BY <2>5, ChatViewAssumption DEF FirstInHello
      <4> QED BY <2>4, <2>5, <2>8, <3>1, <4>1
    <3>2. FirstInHello(s, m.key)..snap[s][m.key] \subseteq ToSet(View(s)[m.key])
      BY <2>2, <2>4 DEF Lists
    <3> QED BY <2>3, <3>1, <3>2
  <2>9. CASE WasSent(s, p)
    <3>1. PICK i \in DOMAIN sent[s] : sent[s][i] = [kind |-> "serverMessages", id |-> p]
      BY <2>9 DEF WasSent
    <3>2. sent[s][i].kind = "serverMessages" /\ sent[s][i].id = p
      BY <3>1
    <3>3. i \in 1..Len(sent[s])
      BY DEF IInv, SessionsInv, TypeOK
    <3> QED BY <2>2, <2>3, <2>4, <3>2, <3>3 DEF Lists
  <2> QED BY <2>7, <2>8, <2>9
<1> QED BY <1>1, ServerInvariant, PTL
-----------------------------------------------------------------------------
(* Each session uses its mutex as AsyncMutex describes                     *)

\* Where the coroutines of a session are with respect to its mutex.
UserOf(s) == [c \in Coroutines |->
                IF co[s][c] \in {"none", "spawned", "done"} THEN "idle" ELSE co[s][c]]

\* Every session makes a step of its mutex, or leaves it alone.
MutexUsed == \A s \in Sessions : [MutexOf(s)!Next]_(MutexOf(s)!vars)

\* The operators on mutexes do not depend on the session.
LEMMA SameOperators ==
  ASSUME NEW s
  PROVE  /\ MutexOf(s)!FreeMutex = FreeMutex
         /\ \A m, t : MutexOf(s)!LockStep(m, t) = LockStep(m, t)
         /\ \A m : MutexOf(s)!Unlocked(m) = Unlocked(m)
         /\ \A m : MutexOf(s)!Notified(m) = Notified(m)
BY DEF MutexOf!FreeMutex, FreeMutex, MutexOf!LockStep, LockStep,
       MutexOf!Unlocked, Unlocked, MutexOf!Notified, Notified

\* Asking for the mutex is a call of lock(), or the next round of its loop.
LEMMA LockUsesMutex ==
  ASSUME SessionsInv, NEW s \in Sessions, NEW c \in Coroutines, LockWrites(s, c),
         co[s][c] \in {"none", "spawned", "woken"}
  PROVE  MutexUsed
<1>1. /\ mtx \in [Sessions -> MutexType(Coroutines)]
      /\ co \in [Sessions -> [Coroutines -> CoStates]]
  BY SessionsParts DEF MutexTypes
<1>2. PICK v : v = IF mtx[s].locked THEN "waiting" ELSE "holding"
  OBVIOUS
<1>3. /\ mtx' = [mtx EXCEPT ![s] = LockStep(mtx[s], c)]
      /\ co' = [co EXCEPT ![s] = [co[s] EXCEPT ![c] = v]]
  BY <1>2 DEF LockWrites
<1>4. /\ mtx'[s] = LockStep(mtx[s], c)
      /\ \A d \in Coroutines : co'[s][d] = IF d = c THEN v ELSE co[s][d]
      /\ \A t \in Sessions : t # s => mtx'[t] = mtx[t] /\ co'[t] = co[t]
  BY <1>1, <1>3
<1>5. \A t \in Sessions : t # s => UNCHANGED MutexOf(t)!vars
  BY <1>4 DEF MutexOf!vars
<1>6. MutexOf(s)!Next
  <2>1. UserOf(s)' = [UserOf(s) EXCEPT ![c] = v]
    BY <1>2, <1>4 DEF UserOf
  <2>2. UserOf(s)[c] = IF co[s][c] = "woken" THEN "woken" ELSE "idle"
    BY DEF UserOf
  <2>3. MutexOf(s)!LockLoop(c)
    BY <1>2, <1>4, <2>1, SameOperators DEF MutexOf!LockLoop, UserOf
  <2>4. MutexOf(s)!Lock(c) \/ MutexOf(s)!Resume(c)
    BY <2>2, <2>3 DEF MutexOf!Lock, MutexOf!Resume, UserOf
  <2> QED BY <2>4 DEF MutexOf!Next
<1> QED BY <1>5, <1>6 DEF MutexUsed

\* Dropping the guard is a call of unlock().
LEMMA UnlockUsesMutex ==
  ASSUME SessionsInv, NEW s \in Sessions, NEW c \in Coroutines,
         NEW st \in {"none", "done"}, UnlockWrites(s, c, st), co[s][c] = "holding"
  PROVE  MutexUsed
<1>1. /\ mtx \in [Sessions -> MutexType(Coroutines)]
      /\ co \in [Sessions -> [Coroutines -> CoStates]]
  BY SessionsParts DEF MutexTypes
<1>2. /\ mtx'[s] = Unlocked(mtx[s])
      /\ \A d \in Coroutines :
           co'[s][d] = IF d = c THEN st
                       ELSE IF d \in Notified(mtx[s]) THEN "woken" ELSE co[s][d]
      /\ \A t \in Sessions : t # s => mtx'[t] = mtx[t] /\ co'[t] = co[t]
  BY <1>1 DEF UnlockWrites
<1>3. \A t \in Sessions : t # s => UNCHANGED MutexOf(t)!vars
  BY <1>2 DEF MutexOf!vars
<1>4. MutexOf(s)!Next
  <2>1. UserOf(s)' = [d \in Coroutines |->
                        IF d = c THEN "idle"
                        ELSE IF d \in Notified(mtx[s]) THEN "woken" ELSE UserOf(s)[d]]
    BY <1>2 DEF UserOf
  <2>2. UserOf(s)[c] = "holding"
    BY DEF UserOf
  <2>3. MutexOf(s)!Unlock(c)
    BY <1>2, <2>1, <2>2, SameOperators DEF MutexOf!Unlock, UserOf
  <2> QED BY <2>3 DEF MutexOf!Next
<1> QED BY <1>3, <1>4 DEF MutexUsed

\* A return of run() calls unlock(), if run() has the mutex.
LEMMA FinishUsesMutex ==
  ASSUME SessionsInv, NEW s \in Sessions, NEW broken \in BOOLEAN, Finish(s, broken)
  PROVE  MutexUsed
<1>1. CASE co[s][Run] = "holding"
  BY <1>1, UnlockUsesMutex, CoroutineFacts DEF Finish
<1>2. CASE co[s][Run] # "holding"
  BY <1>2 DEF Finish, MutexUsed, MutexOf!vars
<1> QED BY <1>1, <1>2

\* publish() starts coroutines that have not called lock().
LEMMA PublishUsesMutex ==
  ASSUME SessionsInv, NEW k, NEW event, Publish(k, event), mtx' = mtx
  PROVE  MutexUsed
<1>1. /\ co \in [Sessions -> [Coroutines -> CoStates]]
      /\ Len(published) \in Nat
      /\ \A t \in Sessions : SessionInv(t)
  BY SessionsParts, RedisFacts DEF MutexTypes
<1>2. PICK n : n = Len(published) + 1
  OBVIOUS
<1>3. \A t \in Sessions : co'[t] = IF <<k, t>> \in subs
                                    THEN [co[t] EXCEPT ![n] = "spawned"] ELSE co[t]
  BY <1>2 DEF Publish
<1>4. n \in Coroutines => n \in Broadcasts /\ n > Len(published)
  BY <1>1, <1>2, CoroutineFacts DEF Run
<1>5. \A t \in Sessions : n \in Coroutines => co[t][n] = "none"
  BY <1>1, <1>4 DEF SessionInv
<1>6. ASSUME NEW t \in Sessions PROVE UserOf(t)' = UserOf(t)
  <2>1. \A d \in Coroutines :
          co'[t][d] = co[t][d] \/ (co[t][d] = "none" /\ co'[t][d] = "spawned")
    BY <1>1, <1>3, <1>5
  <2> QED BY <2>1 DEF UserOf
<1>7. \A t \in Sessions : UNCHANGED MutexOf(t)!vars
  BY <1>6 DEF MutexOf!vars, UserOf
<1> QED BY <1>7 DEF MutexUsed

\* Every step of the server, but its replacement.
LEMMA StepUsesMutex ==
  ASSUME SessionsInv, Next, ~ServerRestarts
  PROVE  MutexUsed
<1>0. \A s \in Sessions : SessionInv(s)
  BY SessionsParts
<1>1. ASSUME UNCHANGED <<mtx, co>> PROVE MutexUsed
  BY <1>1 DEF MutexUsed, MutexOf!vars
<1>2. ASSUME NEW s \in Sessions, RunStep(s) PROVE MutexUsed
  <2>1. CASE AuthOk(s)
    <3>1. co[s][Run] = "none"
      BY <1>0, <2>1 DEF AuthOk, SessionInv, Greeting
    <3> QED BY <2>1, <3>1, LockUsesMutex, CoroutineFacts DEF AuthOk
  <2>2. CASE HelloWritten(s) \/ RoomHistoryWritten(s)
    <3>1. /\ pc[s] \in {"helloWrite", "histWrite"}
          /\ UnlockWrites(s, Run, "none")
      BY <2>2 DEF HelloWritten, RoomHistoryWritten, RunWrote
    <3>2. co[s][Run] = "holding"
      BY <1>0, <3>1 DEF SessionInv, Greeting
    <3> QED BY <3>1, <3>2, UnlockUsesMutex, CoroutineFacts
  <2>3. CASE LockForHistory(s)
             /\ (HistoryReply(s) \/ HistoryNames(s) \/ HistoryLockResumes(s))
    <3>1. pc[s] \in {"histRedis", "histNames"} \/ co[s][Run] = "woken"
      BY <2>3 DEF HistoryReply, HistoryNames, HistoryLockResumes
    <3>2. co[s][Run] \in {"none", "woken"}
      BY <1>0, <3>1 DEF SessionInv, Greeting
    <3> QED BY <2>3, <3>2, LockUsesMutex, CoroutineFacts DEF LockForHistory
  <2>4. CASE StoreReply(s) /\ ~Finish(s, FALSE)
    <3>1. PICK k, event : Publish(k, event) /\ mtx' = mtx
      BY <2>4 DEF StoreReply
    <3> QED BY <3>1, PublishUsesMutex
  <2> QED BY <1>1, <1>2, <2>1, <2>2, <2>3, <2>4, FinishUsesMutex
          DEF RunStep, AuthFail, CloseDone, HelloReply, HelloNames, StoreReply,
              HistoryReply, HistoryNames, HistoryLockResumes, RunWriteFails
<1>3. ASSUME NEW s \in Sessions, ClientStep(s) PROVE MutexUsed
  BY <1>1, <1>3, FinishUsesMutex
     DEF ClientStep, ReadMessages, ReadHistoryRequest, ReadEnds
<1>4. ASSUME NEW s \in Sessions, NEW p \in Broadcasts, OnMessageStep(s, p)
      PROVE  MutexUsed
  <2>1. CASE OnMessageStarts(s, p) \/ OnMessageResumes(s, p)
    BY <2>1, LockUsesMutex, CoroutineFacts DEF OnMessageStarts, OnMessageResumes
  <2>2. CASE OnMessageWritten(s, p) \/ OnMessageWriteFails(s, p)
    BY <2>2, UnlockUsesMutex, CoroutineFacts
       DEF OnMessageWritten, OnMessageWriteFails, OnMessageReturns
  <2> QED BY <1>4, <2>1, <2>2 DEF OnMessageStep
<1>5. CASE \/ RedisExecutes \/ RedisExecutesOrphan \/ RedisConnectionLost
           \/ AllGone
  <2>1. UNCHANGED <<mtx, co>>
    BY <1>5 DEF RedisExecutes, RedisExecutesOrphan, RedisConnectionLost, AllGone,
                vars
  <2> QED BY <1>1, <2>1
<1> QED BY <1>2, <1>3, <1>4, <1>5 DEF Next

\* The mutex of each session goes through the states that AsyncMutex gives it,
\* so what is shown of that module holds of every websocket; only a new process
\* begins with new ones.
THEOREM SessionsKeepToMutex == Spec => SessionsUseMutex
<1> DEFINE A == ServerRestarts \/ \A s \in Sessions : [MutexOf(s)!Next]_(MutexOf(s)!vars)
<1>1. Init => \A s \in Sessions : MutexOf(s)!Init
  <2> SUFFICES ASSUME Init, NEW s \in Sessions PROVE MutexOf(s)!Init
    OBVIOUS
  <2>1. mtx[s] = FreeMutex /\ UserOf(s) = [c \in Coroutines |-> "idle"]
    BY DEF Init, UserOf
  <2> QED BY <2>1, SameOperators DEF MutexOf!Init, UserOf
<1>2. SessionsInv /\ [Next]_vars => [A]_vars
  BY StepUsesMutex DEF MutexUsed
<1> QED BY <1>1, <1>2, SessionsInvariant, PTL DEF Spec, SessionsUseMutex
-----------------------------------------------------------------------------
(* The abstract chat                                                       *)

\* Where the abstract chat sees a session.
LEMMA StatusFacts ==
  ASSUME NEW s \in Sessions, pc[s] \in States
  PROVE  /\ RoomStatus[s] = StatusOf(s)
         /\ pc[s] = "auth" => StatusOf(s) = "away"
         /\ pc[s] \in {"closing", "ended"} => StatusOf(s) = "left"
         /\ pc[s] # "auth" /\ sock[s] = "closed" => StatusOf(s) = "left"
         /\ pc[s] \in Greeting /\ sock[s] # "closed" => StatusOf(s) = "joining"
         /\ pc[s] \notin Greeting \cup {"auth", "closing", "ended"}
              /\ sock[s] # "closed" => StatusOf(s) = "served"
BY DEF RoomStatus, StatusOf, Greeting

\* A step of one session that says nothing to a client: the session is where
\* it was, has joined, or has left.
LEMMA QuietRooms ==
  ASSUME NEW s \in Sessions,
         \A t \in Sessions : t # s => pc'[t] = pc[t] /\ sock'[t] = sock[t],
         \A t \in Sessions, p \in Broadcasts : t # s => (Live(t, p)' <=> Live(t, p)),
         \A p \in Broadcasts : Live(s, p)' => Live(s, p),
         UNCHANGED <<streams, published, sent>>,
         RoomBase' = RoomBase,
         \/ StatusOf(s)' = "left"
         \/ /\ \A p \in Broadcasts : Live(s, p)' <=> Live(s, p)
            /\ \/ StatusOf(s)' = StatusOf(s)
               \/ StatusOf(s) = "away" /\ StatusOf(s)' = "joining"
  PROVE  Abstractly!Next \/ UNCHANGED Abstractly!vars
<1>1. /\ DOMAIN RoomOwed = Sessions /\ DOMAIN RoomOwed' = Sessions
      /\ \A t \in Sessions : RoomOwed[t] = {p \in Broadcasts : Live(t, p)}
      /\ \A t \in Sessions : RoomOwed'[t] = {p \in Broadcasts : Live(t, p)'}
  BY DEF RoomOwed
<1>2. /\ RoomOwed'[s] \subseteq RoomOwed[s]
      /\ \A t \in Sessions : t # s => RoomOwed'[t] = RoomOwed[t]
      /\ (\A p \in Broadcasts : Live(s, p)' <=> Live(s, p)) => RoomOwed' = RoomOwed
  <2>1. \A t \in Sessions : t # s => RoomOwed'[t] = RoomOwed[t]
    BY <1>1
  <2>2. RoomOwed'[s] \subseteq RoomOwed[s]
    BY <1>1
  <2>3. ASSUME \A p \in Broadcasts : Live(s, p)' <=> Live(s, p)
        PROVE  RoomOwed' = RoomOwed
    <3>1. \A t \in Sessions : {p \in Broadcasts : Live(t, p)'} = {p \in Broadcasts : Live(t, p)}
      BY <2>3
    <3> QED BY <3>1 DEF RoomOwed
  <2> QED BY <2>1, <2>2, <2>3
<1>3. \A t \in Sessions : t # s => StatusOf(t)' = StatusOf(t)
  BY DEF StatusOf
<1>4. CASE StatusOf(s)' = "left"
  <2>1. RoomStatus' = [t \in Sessions |-> IF t \in {s} THEN "left" ELSE RoomStatus[t]]
    BY <1>3, <1>4 DEF RoomStatus
  <2>2. Abstractly!Leave({s})
    BY <1>1, <1>2, <2>1 DEF Abstractly!Leave
  <2> QED BY <2>2 DEF Abstractly!Next
<1>5. CASE /\ \A p \in Broadcasts : Live(s, p)' <=> Live(s, p)
           /\ StatusOf(s)' = StatusOf(s)
  <2>1. RoomStatus' = RoomStatus
    BY <1>3, <1>5 DEF RoomStatus
  <2> QED BY <1>2, <1>5, <2>1 DEF Abstractly!vars
<1>6. CASE /\ \A p \in Broadcasts : Live(s, p)' <=> Live(s, p)
           /\ StatusOf(s) = "away" /\ StatusOf(s)' = "joining"
  <2>1. RoomStatus' = [RoomStatus EXCEPT ![s] = "joining"]
    BY <1>3, <1>6 DEF RoomStatus
  <2>2. RoomStatus[s] = "away"
    BY <1>6 DEF RoomStatus
  <2>3. Abstractly!Join(s)
    BY <1>2, <1>6, <2>1, <2>2 DEF Abstractly!Join
  <2> QED BY <2>3 DEF Abstractly!Next
<1> QED BY <1>4, <1>5, <1>6

\* The greetings do not change while nothing is sent.
LEMMA SameBase ==
  ASSUME UNCHANGED <<snap, sent>>
  PROVE  RoomBase' = RoomBase
BY DEF RoomBase, Greeted

\* run() returns: the client has left.
LEMMA FinishRooms ==
  ASSUME IInv, NEW s \in Sessions, NEW broken \in BOOLEAN, Finish(s, broken),
         streams' = streams
  PROVE  Abstractly!Next \/ UNCHANGED Abstractly!vars
<1>1. SessionsInv
  BY DEF IInv
<1>2. /\ \A t \in Sessions : t # s => pc'[t] = pc[t] /\ sock'[t] = sock[t]
      /\ pc'[s] = "ended"
      /\ UNCHANGED <<published, snap, sent>>
  BY <1>1, SessionsParts DEF Finish, RestType
<1>3. \A t \in Sessions, p \in Broadcasts : Live(t, p)' <=> Live(t, p)
  BY <1>1, FinishKeepsLive
<1>4. StatusOf(s)' = "left"
  BY <1>2 DEF StatusOf
<1> QED BY <1>2, <1>3, <1>4, SameBase, QuietRooms

\* run() goes on within the same part of its conversation.
LEMMA AdvanceRooms ==
  ASSUME IInv, NEW s \in Sessions,
         NEW to \in States, pc' = [pc EXCEPT ![s] = to],
         \/ pc[s] \in Greeting /\ to \in Greeting
         \/ /\ pc[s] \notin Greeting \cup {"auth", "closing", "ended"}
            /\ to \notin Greeting \cup {"auth", "closing", "ended"}
         \/ pc[s] = "auth" /\ to \in {"closing", "helloRedis"},
         co' = co \/ LockWrites(s, Run),
         UNCHANGED <<sock, published, streams, sent>>,
         RoomBase' = RoomBase
  PROVE  Abstractly!Next \/ UNCHANGED Abstractly!vars
<1>1. SessionsInv /\ DeliveryInv(s)
  BY DEF IInv, Delivery
<1>2. /\ \A t \in Sessions : t # s => pc'[t] = pc[t] /\ sock'[t] = sock[t]
      /\ pc'[s] = to /\ sock'[s] = sock[s] /\ pc[s] \in States
  BY <1>1, SessionsParts DEF RestType
<1>3. \A t \in Sessions, p \in Broadcasts : Live(t, p)' <=> Live(t, p)
  <2>1. CASE co' = co
    BY <2>1 DEF Live
  <2> QED BY <1>1, <2>1, LockKeepsLive, CoroutineFacts
<1>4. \/ StatusOf(s)' = "left"
      \/ StatusOf(s)' = StatusOf(s)
      \/ StatusOf(s) = "away" /\ StatusOf(s)' = "joining"
  <2>1. CASE pc[s] = "auth"
    <3>1. sock[s] = "open"
      BY <1>1, <2>1 DEF DeliveryInv
    <3> QED BY <1>2, <2>1, <3>1 DEF StatusOf, Greeting
  <2>2. CASE pc[s] # "auth"
    BY <1>2, <2>2 DEF StatusOf, Greeting
  <2> QED BY <2>1, <2>2
<1> QED BY <1>2, <1>3, <1>4, QuietRooms

\* What run() does between the frames.
LEMMA RunRooms ==
  ASSUME IInv, NEW s \in Sessions,
         \/ AuthOk(s) \/ AuthFail(s) \/ CloseDone(s) \/ HelloReply(s)
         \/ HelloNames(s) \/ RunWriteFails(s)
         \/ HistoryReply(s) \/ HistoryNames(s) \/ HistoryLockResumes(s)
         \/ ClientStep(s)
  PROVE  Abstractly!Next \/ UNCHANGED Abstractly!vars
<1>1. SessionsInv
  BY DEF IInv
<1>2. streams' = streams
  BY DEF AuthOk, AuthFail, CloseDone, HelloReply, HelloNames, RunWriteFails,
     HistoryReply, HistoryNames, HistoryLockResumes, ClientStep, ReadMessages,
     ReadHistoryRequest, ReadEnds, AskRedis, TakeReply, redisVars
<1>3. CASE \E broken \in BOOLEAN : Finish(s, broken)
  BY <1>2, <1>3, FinishRooms
<1>4. CASE HelloReply(s) /\ ~Finish(s, FALSE)
  <2>1. PICK to \in {"helloWrite", "helloNames"} : pc' = [pc EXCEPT ![s] = to]
    BY <1>4 DEF HelloReply
  <2>2. pc[s] \in Greeting /\ to \in Greeting /\ to \in States
    BY <1>4 DEF HelloReply, Greeting, States
  <2>3. /\ snap' = [snap EXCEPT ![s] = Reply.at]
        /\ UNCHANGED <<co, sock, published, sent>>
    BY <1>4 DEF HelloReply
  <2>4. RoomBase' = RoomBase
    <3>1. ~Greeted(s) /\ \A t \in Sessions : Greeted(t)' <=> Greeted(t)
      BY <1>1, <2>2, <2>3, SessionsParts DEF Greeted, SessionInv
    <3>2. \A t \in Sessions : t # s => snap'[t] = snap[t]
      BY <1>1, <2>3, SessionsParts DEF RestType
    <3> QED BY <3>1, <3>2 DEF RoomBase, Greeted
  <2> QED BY <1>2, <2>1, <2>2, <2>3, <2>4, AdvanceRooms
<1>5. CASE ~HelloReply(s) /\ ~\E broken \in BOOLEAN : Finish(s, broken)
  <2>1. /\ co' = co \/ LockWrites(s, Run)
        /\ UNCHANGED <<sock, published, snap, sent>>
    BY <1>5 DEF AuthOk, AuthFail, CloseDone, HelloNames, RunWriteFails,
       HistoryReply, HistoryNames, HistoryLockResumes, LockForHistory, ClientStep,
       ReadMessages, ReadHistoryRequest, ReadEnds
  <2>2. PICK to \in States :
          /\ pc' = [pc EXCEPT ![s] = to]
          /\ \/ pc[s] \in Greeting /\ to \in Greeting
             \/ /\ pc[s] \notin Greeting \cup {"auth", "closing", "ended"}
                /\ to \notin Greeting \cup {"auth", "closing", "ended"}
             \/ pc[s] = "auth" /\ to \in {"closing", "helloRedis"}
    <3> DEFINE P(to) ==
          /\ to \in States
          /\ pc' = [pc EXCEPT ![s] = to]
          /\ \/ pc[s] \in Greeting /\ to \in Greeting
             \/ /\ pc[s] \notin Greeting \cup {"auth", "closing", "ended"}
                /\ to \notin Greeting \cup {"auth", "closing", "ended"}
             \/ pc[s] = "auth" /\ to \in {"closing", "helloRedis"}
    <3>1. CASE AuthOk(s)
      <4>1. P("helloRedis")
        BY <3>1 DEF AuthOk, States
      <4> QED BY <4>1
    <3>2. CASE AuthFail(s)
      <4>1. P("closing")
        BY <3>2 DEF AuthFail, States
      <4> QED BY <4>1
    <3>3. CASE HelloNames(s)
      <4>1. P("helloWrite")
        BY <1>5, <3>3 DEF HelloNames, Greeting, States
      <4> QED BY <4>1
    <3>4. CASE LockForHistory(s)
               /\ (HistoryReply(s) \/ HistoryNames(s) \/ HistoryLockResumes(s))
      <4>1. P("histLock") \/ P("histWrite")
        <5>1. pc[s] \in {"histRedis", "histNames", "histLock"}
          BY <3>4 DEF HistoryReply, HistoryNames, HistoryLockResumes
        <5>2. \/ pc' = [pc EXCEPT ![s] = "histLock"]
              \/ pc' = [pc EXCEPT ![s] = "histWrite"]
          BY <3>4 DEF LockForHistory
        <5> QED BY <5>1, <5>2 DEF Greeting, States
      <4> QED BY <4>1
    <3>5. CASE HistoryReply(s) /\ ~LockForHistory(s)
      <4>1. P("histNames")
        BY <1>5, <3>5 DEF HistoryReply, Greeting, States
      <4> QED BY <4>1
    <3>6. CASE ClientStep(s)
      <4>1. P("storing") \/ P("histRedis")
        BY <1>5, <3>6 DEF ClientStep, ReadMessages, ReadHistoryRequest, ReadEnds,
           Greeting, States
      <4> QED BY <4>1
    <3> QED BY <1>5, <3>1, <3>2, <3>3, <3>4, <3>5, <3>6
            DEF CloseDone, RunWriteFails, HistoryNames, HistoryLockResumes
  <2> QED BY <1>2, <2>1, <2>2, SameBase, AdvanceRooms
<1> QED BY <1>3, <1>4, <1>5

\* What is on its way stays on its way in a step that ends no broadcast.
LEMMA SameOwed ==
  ASSUME \A t \in Sessions, p \in Broadcasts : Live(t, p)' <=> Live(t, p)
  PROVE  RoomOwed' = RoomOwed
<1>1. \A t \in Sessions : {p \in Broadcasts : Live(t, p)'} = {p \in Broadcasts : Live(t, p)}
  OBVIOUS
<1> QED BY <1>1 DEF RoomOwed

\* Writing a frame of run().
LEMMA WroteFacts ==
  ASSUME IInv, NEW s \in Sessions, NEW kind \in {"hello", "roomHistory"},
         RunWrote(s, kind), pc[s] \in {"helloWrite", "histWrite"}
  PROVE  /\ RoomOwed' = RoomOwed
         /\ RoomStatus' = [RoomStatus EXCEPT ![s] = "served"]
         /\ sock[s] = "open"
         /\ UNCHANGED <<streams, published, snap>>
         /\ Abstractly!IsGiven(s, kind, 0)
         /\ \A t \in Sessions : t # s => sent'[t] = sent[t]
         /\ sent'[s] # << >>
         /\ Head(sent'[s]) = IF sent[s] = << >> THEN [kind |-> kind, id |-> 0]
                                                ELSE Head(sent[s])
<1>1. SessionsInv
  BY DEF IInv
<1>2. /\ sock[s] = "open"
      /\ sent' = [sent EXCEPT ![s] = Append(@, [kind |-> kind, id |-> 0])]
      /\ UnlockWrites(s, Run, "none")
      /\ pc' = [pc EXCEPT ![s] = "reading"]
      /\ UNCHANGED <<sock, streams, published, snap>>
  BY DEF RunWrote, redisVars
<1>3. co[s][Run] = "holding"
  BY <1>1, SessionsParts DEF SessionInv, Greeting
<1>4. \A t \in Sessions, p \in Broadcasts : Live(t, p)' <=> Live(t, p)
  BY <1>1, <1>2, <1>3, UnlockEndsOne, CoroutineFacts
<1>5. /\ StatusOf(s)' = "served"
      /\ \A t \in Sessions : t # s => StatusOf(t)' = StatusOf(t)
  BY <1>1, <1>2, SessionsParts DEF RestType, StatusOf, Greeting
<1>6. RoomStatus' = [RoomStatus EXCEPT ![s] = "served"]
  BY <1>5 DEF RoomStatus
<1>7. PICK f : f = [kind |-> kind, id |-> 0]
  OBVIOUS
<1>8. f \in Frame
  BY <1>7 DEF Frame
<1>9. /\ \A t \in Sessions : t # s => sent'[t] = sent[t]
      /\ sent'[s] # << >>
      /\ Head(sent'[s]) = IF sent[s] = << >> THEN f ELSE Head(sent[s])
  BY <1>1, <1>2, <1>7, <1>8, SentRemains
<1> QED BY <1>2, <1>4, <1>6, <1>7, <1>9, SameOwed DEF Abstractly!IsGiven

\* The hello is the greeting: what is published and not in it is on its way.
LEMMA HelloRooms ==
  ASSUME IInv, NEW s \in Sessions, HelloWritten(s)
  PROVE  Abstractly!Next
<1>1. /\ SessionsInv /\ RedisInv /\ DeliveryInv(s) /\ SessionInv(s)
      /\ pc[s] = "helloWrite" /\ RunWrote(s, "hello")
  BY SessionsParts DEF IInv, Delivery, HelloWritten
<1>2. /\ RoomOwed' = RoomOwed
      /\ RoomStatus' = [RoomStatus EXCEPT ![s] = "served"]
      /\ sock[s] = "open"
      /\ UNCHANGED <<streams, published, snap>>
      /\ Abstractly!IsGiven(s, "hello", 0)
      /\ \A t \in Sessions : t # s => sent'[t] = sent[t]
      /\ sent'[s] # << >>
      /\ Head(sent'[s]) = IF sent[s] = << >> THEN [kind |-> "hello", id |-> 0]
                                             ELSE Head(sent[s])
  BY <1>1, WroteFacts
<1>3. sent[s] = << >>
  BY <1>1 DEF SessionInv, Greeting
<1>4. Head(sent'[s]).kind = "hello"
  BY <1>2, <1>3
<1>5. RoomBase' = [RoomBase EXCEPT ![s] = snap[s]]
  BY <1>2, <1>4 DEF RoomBase, Greeted
<1>6. RoomBase'[s] = snap[s] /\ snap[s] \in [Keys -> Nat]
  BY <1>1, <1>5, RedisFacts DEF RoomBase, Greeted, Positions
<1>7. RoomStatus[s] = "joining"
  BY <1>1, <1>2 DEF RoomStatus, StatusOf, Greeting
<1>8. \A k \in Keys : snap[s][k] <= Len(streams[k])
  BY <1>1 DEF DeliveryInv
<1>9. ASSUME NEW p \in DOMAIN published, published[p].key \in RoomIds
      PROVE  published[p].last <= snap[s][published[p].key] \/ p \in RoomOwed[s]
  <2>1. ~WasSent(s, p)
    BY <1>3 DEF WasSent
  <2>2. Live(s, p) \/ InHello(s, published[p])
    BY <1>1, <1>2, <1>9, <2>1 DEF DeliveryInv
  <2>3. p \in Broadcasts
    BY <1>1, PublishedAreBroadcasts
  <2> QED BY <1>1, <2>2, <2>3 DEF InHello, RoomOwed
<1>10. Abstractly!Greet(s, snap[s])
  BY <1>2, <1>5, <1>6, <1>7, <1>8, <1>9 DEF Abstractly!Greet
<1> QED BY <1>6, <1>10 DEF Abstractly!Next

\* So is the room history a history given to a client that is here.
LEMMA RoomHistoryRooms ==
  ASSUME IInv, NEW s \in Sessions, RoomHistoryWritten(s)
  PROVE  Abstractly!Next
<1>1. /\ SessionsInv /\ SessionInv(s)
      /\ pc[s] = "histWrite" /\ RunWrote(s, "roomHistory")
  BY SessionsParts DEF IInv, RoomHistoryWritten
<1>2. /\ RoomOwed' = RoomOwed
      /\ RoomStatus' = [RoomStatus EXCEPT ![s] = "served"]
      /\ sock[s] = "open"
      /\ UNCHANGED <<streams, published, snap>>
      /\ Abstractly!IsGiven(s, "roomHistory", 0)
      /\ \A t \in Sessions : t # s => sent'[t] = sent[t]
      /\ sent'[s] # << >>
      /\ Head(sent'[s]) = IF sent[s] = << >> THEN [kind |-> "roomHistory", id |-> 0]
                                             ELSE Head(sent[s])
  BY <1>1, WroteFacts
<1>3. sent[s] # << >> /\ Head(sent[s]).kind = "hello"
  BY <1>1 DEF SessionInv, Greeting
<1>4. RoomBase' = RoomBase
  BY <1>2, <1>3 DEF RoomBase, Greeted
<1>5. RoomStatus[s] = "served"
  BY <1>1, <1>2 DEF RoomStatus, StatusOf, Greeting
<1>6. RoomStatus' = RoomStatus
  BY <1>2, <1>5 DEF RoomStatus
<1>7. Abstractly!GiveHistory(s)
  BY <1>2, <1>4, <1>5, <1>6 DEF Abstractly!GiveHistory
<1> QED BY <1>7 DEF Abstractly!Next

\* A broadcast is written: the client is given the announcement it is owed.
LEMMA WrittenRooms ==
  ASSUME IInv, NEW s \in Sessions, NEW p \in Broadcasts, OnMessageWritten(s, p)
  PROVE  Abstractly!Next
<1>1. SessionsInv /\ SessionInv(s) /\ MutexTypes /\ RestType
  BY SessionsParts DEF IInv
<1>2. /\ co[s][p] = "holding" /\ sock[s] = "open"
      /\ sent' = [sent EXCEPT ![s] =
                    Append(@, [kind |-> "serverMessages", id |-> p])]
      /\ UnlockWrites(s, p, "done")
      /\ UNCHANGED <<pc, streams, published, snap>>
      /\ \/ sock' = [sock EXCEPT ![s] = sock[s]]
         \/ sock' = [sock EXCEPT ![s] = "closed"] /\ pc[s] = "ended"
  BY DEF OnMessageWritten, OnMessageReturns, redisVars
<1>3. pc[s] \notin Greeting \cup {"auth", "closing"}
  <2>1. DOMAIN co[s] = Coroutines /\ p \in Coroutines /\ p # Run
    BY <1>1, CoroutineFacts DEF MutexTypes
  <2>2. co[s][Run] # "holding"
    BY <1>1, <1>2, <2>1, CoroutineFacts DEF SessionInv, Sound, Exclusive
  <2> QED BY <1>1, <1>2, <2>2 DEF SessionInv
<1>4. \A t \in Sessions : StatusOf(t)' = StatusOf(t)
  BY <1>1, <1>2 DEF StatusOf, RestType
<1>5. RoomStatus' = RoomStatus
  BY <1>4 DEF RoomStatus
<1>6. RoomStatus[s] \in {"served", "left"}
  BY <1>3 DEF RoomStatus, StatusOf
<1>7. PICK f : f = [kind |-> "serverMessages", id |-> p]
  OBVIOUS
<1>8. f \in Frame
  BY <1>7, ConstantsAssumption DEF Frame, Broadcasts
<1>9. /\ \A t \in Sessions : t # s => sent'[t] = sent[t]
      /\ sent'[s] # << >>
      /\ Head(sent'[s]) = IF sent[s] = << >> THEN f ELSE Head(sent[s])
  BY <1>1, <1>2, <1>7, <1>8, SentRemains
<1>10. f.kind # "hello"
  BY <1>7
<1>11. RoomBase' = RoomBase
  BY <1>2, <1>9, <1>10 DEF RoomBase, Greeted
<1>12. \A t \in Sessions, q \in Broadcasts :
         Live(t, q)' <=> Live(t, q) /\ ~(t = s /\ q = p)
  BY <1>1, <1>2, UnlockEndsOne, CoroutineFacts
<1>13. p \in RoomOwed[s] /\ RoomOwed' = [RoomOwed EXCEPT ![s] = @ \ {p}]
  <2>1. Live(s, p)
    BY <1>2 DEF Live
  <2>2. \A t \in Sessions :
          {q \in Broadcasts : Live(t, q)'} =
            IF t = s THEN {q \in Broadcasts : Live(t, q)} \ {p}
                     ELSE {q \in Broadcasts : Live(t, q)}
    BY <1>12
  <2> QED BY <2>1, <2>2 DEF RoomOwed
<1>14. Abstractly!Give(s, p)
  BY <1>2, <1>5, <1>6, <1>11, <1>13 DEF Abstractly!Give, Abstractly!IsGiven
<1> QED BY <1>13, <1>14 DEF Abstractly!Next

\* A broadcast that fails takes the connection with it; one that waits for the
\* mutex is still owed.
LEMMA OnMessageRooms ==
  ASSUME IInv, NEW s \in Sessions, NEW p \in Broadcasts, OnMessageStep(s, p)
  PROVE  Abstractly!Next \/ UNCHANGED Abstractly!vars
<1>1. SessionsInv /\ SessionInv(s) /\ MutexTypes /\ RestType
  BY SessionsParts DEF IInv
<1>2. CASE OnMessageStarts(s, p) \/ OnMessageResumes(s, p)
  <2>1. /\ LockWrites(s, p) /\ Live(s, p)
        /\ UNCHANGED <<pc, sock, published, streams, snap, sent>>
    BY <1>2 DEF OnMessageStarts, OnMessageResumes, Live, redisVars
  <2>2. \A t \in Sessions, q \in Broadcasts : Live(t, q)' <=> Live(t, q)
    BY <1>1, <2>1, LockKeepsLive, CoroutineFacts
  <2>3. StatusOf(s)' = StatusOf(s)
    BY <2>1 DEF StatusOf
  <2> QED BY <2>1, <2>2, <2>3, SameBase, QuietRooms
<1>3. CASE OnMessageWriteFails(s, p)
  <2>1. /\ UnlockWrites(s, p, "done") /\ co[s][p] = "holding"
        /\ sock' = [sock EXCEPT ![s] = "closed"]
        /\ UNCHANGED <<pc, published, streams, snap, sent>>
    BY <1>3 DEF OnMessageWriteFails, OnMessageReturns, redisVars
  <2>2. \A t \in Sessions, q \in Broadcasts :
          Live(t, q)' <=> Live(t, q) /\ ~(t = s /\ q = p)
    BY <1>1, <2>1, UnlockEndsOne, CoroutineFacts
  <2>3. pc[s] # "auth"
    BY <1>1, <2>1 DEF SessionInv
  <2>4. /\ StatusOf(s)' = "left"
        /\ \A t \in Sessions : t # s => sock'[t] = sock[t]
    BY <1>1, <2>1, <2>3 DEF StatusOf, RestType
  <2> QED BY <2>1, <2>2, <2>4, SameBase, QuietRooms
<1> QED BY <1>2, <1>3, WrittenRooms DEF OnMessageStep

\* A stored batch is announced, to everyone who is here.
LEMMA StoreReplyRooms ==
  ASSUME IInv, NEW s \in Sessions, StoreReply(s)
  PROVE  Abstractly!Next \/ UNCHANGED Abstractly!vars
<1>1. /\ SessionsInv /\ RedisInv /\ Delivery /\ RestType
      /\ \A t \in Sessions : SessionInv(t)
  BY SessionsParts DEF IInv
<1>2. pc[s] = "storing" /\ TakeReply(s)
  BY DEF StoreReply
<1>3. streams' = streams
  BY <1>2 DEF TakeReply
<1>4. CASE Finish(s, FALSE)
  BY <1>3, <1>4, FinishRooms
<1>5. CASE ~Finish(s, FALSE)
  <2>1. PICK k, e : k = req[s].key
                    /\ e = [key |-> k, from |-> s,
                            first |-> Reply.at[k] + 1 - req[s].n, last |-> Reply.at[k]]
    OBVIOUS
  <2>2. /\ Publish(k, e)
        /\ pc' = [pc EXCEPT ![s] = "reading"]
        /\ UNCHANGED <<sock, subs, snap, sent>>
        /\ Reply.ok
    BY <1>5, <2>1 DEF StoreReply
  <2>3. PICK n : n = Len(published) + 1
    OBVIOUS
  <2>4. /\ n \in Broadcasts /\ n \in Nat
        /\ DOMAIN published = 1..(n - 1) /\ DOMAIN published' = 1..n
        /\ published' = Append(published, e)
        /\ published'[n] = e
    BY <1>1, <1>2, <2>2, <2>3, PublishedAreBroadcasts DEF Publish
  <2>5. \A t \in Sessions, p \in Broadcasts :
          Live(t, p)' <=> Live(t, p) \/ (p = n /\ <<k, t>> \in subs)
    BY <1>1, <2>2, <2>3, <2>4, PublishMakesLive
  <2>6. e = BroadcastOf(replyQ[1]) /\ 1 \in Announcing /\ replyQ[1].s = s
    <3>1. 1 \in DOMAIN replyQ /\ replyQ[1] = Reply /\ Reply.s = s
      BY <1>1, <1>2, TakeReplyFacts DEF TakeReply, Reply
    <3> QED BY <1>2, <2>1, <2>2, <3>1 DEF BroadcastOf, Announcing
  <2>7. /\ IsStored(e)
        /\ \A p \in DOMAIN published : published[p].key = e.key => published[p].last < e.first
    BY <1>1, <2>6 DEF RedisInv, AnswersFit
  <2>8. /\ e.key \in Keys /\ e.first \in Int /\ e.last \in Nat /\ e.from \in Sessions
        /\ e.key = k
    BY <1>1, <2>1, <2>6, AnnouncingFacts
  <2>9. e \in Abstractly!Announcement
    <3>1. e = [key |-> e.key, from |-> e.from, first |-> e.first, last |-> e.last]
      BY <2>1
    <3>2. e.first \in Nat
      BY <2>7, <2>8 DEF IsStored
    <3> QED BY <2>8, <3>1, <3>2 DEF Abstractly!Announcement
  <2>10. /\ e.last <= Len(streams[e.key])
         /\ \A i \in e.first..e.last : streams[e.key][i] = e.from
    BY <2>7 DEF IsStored
  <2>11. ASSUME NEW t \in Sessions
         PROVE  \/ /\ k \in RoomIds
                   /\ RoomStatus[t] # "away"
                   /\ RoomOwed'[t] = RoomOwed[t] \cup {n}
                \/ /\ k \in RoomIds => RoomStatus[t] \in {"away", "left"}
                   /\ RoomOwed'[t] = RoomOwed[t]
    <3>1. /\ RoomOwed[t] = {p \in Broadcasts : Live(t, p)}
          /\ RoomOwed'[t] = {p \in Broadcasts : Live(t, p)'}
          /\ RoomStatus[t] = StatusOf(t)
      BY DEF RoomOwed, RoomStatus
    <3>2. CASE <<k, t>> \in subs
      <4>1. k \in RoomIds
        BY <1>1, <3>2 DEF RestType
      <4>2. pc[t] # "auth"
        BY <1>1, <3>2 DEF SessionInv
      <4>3. RoomStatus[t] # "away"
        BY <3>1, <4>2 DEF StatusOf
      <4>4. RoomOwed'[t] = RoomOwed[t] \cup {n}
        BY <2>4, <2>5, <3>1, <3>2
      <4> QED BY <4>1, <4>3, <4>4
    <3>3. CASE <<k, t>> \notin subs
      <4>1. k \in RoomIds => pc[t] \in {"auth", "closing", "ended"}
        BY <1>1, <3>3 DEF Delivery, DeliveryInv
      <4>2. k \in RoomIds => RoomStatus[t] \in {"away", "left"}
        BY <3>1, <4>1 DEF StatusOf
      <4>3. RoomOwed'[t] = RoomOwed[t]
        BY <2>5, <3>1, <3>3
      <4> QED BY <4>2, <4>3
    <3> QED BY <3>2, <3>3
  <2>12. /\ RoomStatus' = RoomStatus /\ RoomBase' = RoomBase
         /\ DOMAIN RoomOwed' = Sessions
    <3>1. \A t \in Sessions : pc'[t] = pc[t] \/ (pc[t] = "storing" /\ pc'[t] = "reading")
      BY <1>1, <1>2, <2>2 DEF RestType
    <3>2. \A t \in Sessions : StatusOf(t)' = StatusOf(t)
      BY <2>2, <3>1 DEF StatusOf, Greeting
    <3> QED BY <2>2, <3>2, SameBase DEF RoomStatus, RoomOwed
  <2>13. Abstractly!Announce(e)
    BY <1>3, <2>2, <2>3, <2>4, <2>7, <2>8, <2>9, <2>10, <2>11, <2>12
       DEF Abstractly!Announce
  <2>14. n \in DOMAIN published' \ DOMAIN published
    BY <2>4
  <2> QED BY <2>4, <2>13, <2>14 DEF Abstractly!Next
<1> QED BY <1>4, <1>5

\* Redis appends to a room, or does what no client sees.
LEMMA RedisRooms ==
  ASSUME IInv, RedisExecutes \/ RedisExecutesOrphan \/ RedisConnectionLost
  PROVE  Abstractly!Next \/ UNCHANGED Abstractly!vars
<1>1. SessionsInv
  BY DEF IInv
<1>2. UNCHANGED <<pc, co, sock, published, snap, sent>>
  BY DEF RedisExecutes, RedisExecutesOrphan, RedisConnectionLost
<1>3. UNCHANGED <<RoomStatus, RoomBase, RoomOwed>>
  BY <1>2 DEF RoomStatus, RoomBase, RoomOwed, StatusOf, Greeted, Live
<1>4. CASE streams' = streams
  BY <1>2, <1>3, <1>4 DEF Abstractly!vars
<1>5. ASSUME NEW s \in Sessions, NEW n \in 0..req[s].n, n # 0, Appends(s, n)
      PROVE  Abstractly!Next
  <2>1. PICK k : k = req[s].key
    OBVIOUS
  <2>2. PICK q : q = streams[k] \o [i \in 1..n |-> s]
    OBVIOUS
  <2>3. /\ streams \in [Keys -> Seq(Sessions)]
        /\ req[s] \in Request \cup {NoReq} /\ req[s].n \in Nat
    BY <1>1, RedisFacts
  <2>4. n \in Nat /\ k \in Keys
    BY <1>5, <2>1, <2>3 DEF Request, NoReq
  <2>5. streams' = [streams EXCEPT ![k] = q] /\ streams'[k] = q
    BY <1>5, <2>1, <2>2, <2>3, <2>4 DEF Appends
  <2>6. /\ [i \in 1..n |-> s] \in Seq(Sessions)
        /\ Len([i \in 1..n |-> s]) = n
        /\ \A i \in 1..n : [j \in 1..n |-> s][i] = s
        /\ streams[k] \in Seq(Sessions) /\ Len(streams[k]) \in Nat
    BY <2>3, <2>4
  <2>7. /\ q \in Seq(Sessions)
        /\ Len(q) = Len(streams[k]) + n
        /\ \A i \in 1..Len(q) : q[i] = IF i <= Len(streams[k]) THEN streams[k][i]
                                      ELSE [j \in 1..n |-> s][i - Len(streams[k])]
    BY <2>2, <2>6, ConcatFacts
  <2>8. \A i \in 1..Len(q) : q[i] = IF i <= Len(streams[k]) THEN streams[k][i] ELSE s
    <3> SUFFICES ASSUME NEW i \in 1..Len(q), ~(i <= Len(streams[k]))
                 PROVE  q[i] = s
      BY <2>7
    <3>1. i - Len(streams[k]) \in 1..n
      BY <2>4, <2>6, <2>7
    <3> QED BY <2>6, <2>7, <3>1
  <2>9. Len(q) > Len(streams[k])
    BY <1>5, <2>4, <2>6, <2>7
  <2>10. Abstractly!Post(k, s)
    BY <1>2, <1>3, <2>5, <2>7, <2>8, <2>9 DEF Abstractly!Post
  <2> QED BY <2>4, <2>10 DEF Abstractly!Next
<1>6. CASE RedisExecutes
  <2>1. PICK s \in Sessions : s = Head(redisQ)
    BY <1>1, <1>6, RedisFacts DEF RedisExecutes
  <2>2. PICK n \in 0..req[s].n : Appends(s, n)
    BY <1>6, <2>1 DEF RedisExecutes
  <2> QED BY <1>4, <1>5, <2>2 DEF Appends
<1>7. CASE RedisExecutesOrphan
  <2>1. PICK s \in Sessions : s = Head(orphans)
    BY <1>1, <1>7, RedisFacts DEF RedisExecutesOrphan
  <2>2. PICK n \in 0..req[s].n : Appends(s, n)
    BY <1>7, <2>1 DEF RedisExecutesOrphan
  <2> QED BY <1>4, <1>5, <2>2 DEF Appends
<1> QED BY <1>4, <1>6, <1>7 DEF RedisConnectionLost

\* The process is replaced: everyone who is here leaves at once.
LEMMA RestartRooms ==
  ASSUME IInv, ServerRestarts
  PROVE  Abstractly!Next
<1>1. SessionsInv /\ MutexTypes /\ RestType /\ \A t \in Sessions : SessionInv(t)
  BY SessionsParts DEF IInv
<1>2. PICK C \in SUBSET Sessions : C = {t \in Sessions : pc[t] # "auth"}
  OBVIOUS
<1>3. /\ \A t \in Sessions : pc'[t] = IF pc[t] = "auth" THEN "auth" ELSE "ended"
      /\ \A t \in Sessions : \A p \in Broadcasts : co'[t][p] \in {"done", "none"}
      /\ UNCHANGED <<streams, published, snap, sent>>
  BY CoroutineFacts DEF ServerRestarts
<1>4. \A t \in Sessions : StatusOf(t)' = IF t \in C THEN "left" ELSE StatusOf(t)
  BY <1>2, <1>3 DEF StatusOf
<1>5. RoomStatus' = [t \in Sessions |-> IF t \in C THEN "left" ELSE RoomStatus[t]]
  BY <1>4 DEF RoomStatus
<1>6. \A t \in Sessions : IF t \in C THEN RoomOwed'[t] \subseteq RoomOwed[t]
                                     ELSE RoomOwed'[t] = RoomOwed[t]
  <2>1. \A t \in Sessions, p \in Broadcasts : ~Live(t, p)'
    BY <1>3 DEF Live
  <2>2. \A t \in Sessions : RoomOwed'[t] = {}
    BY <2>1 DEF RoomOwed
  <2>3. ASSUME NEW t \in Sessions, t \notin C PROVE RoomOwed[t] = {}
    <3>1. \A p \in Broadcasts : co[t][p] = "none"
      BY <1>1, <1>2, <2>3 DEF SessionInv
    <3> QED BY <3>1 DEF RoomOwed, Live
  <2> QED BY <2>2, <2>3
<1>7. DOMAIN RoomOwed' = Sessions
  BY DEF RoomOwed
<1>8. Abstractly!Leave(C)
  BY <1>3, <1>5, <1>6, <1>7, SameBase DEF Abstractly!Leave
<1> QED BY <1>8 DEF Abstractly!Next

\* Every step of the sessions is a step of the abstract chat, or none.
LEMMA StepRooms ==
  IInv /\ [Next]_vars => [Abstractly!Next]_(Abstractly!vars)
<1> SUFFICES ASSUME IInv, [Next]_vars
             PROVE  Abstractly!Next \/ UNCHANGED Abstractly!vars
  OBVIOUS
<1>1. ASSUME NEW s \in Sessions, RunStep(s)
      PROVE  Abstractly!Next \/ UNCHANGED Abstractly!vars
  BY <1>1, RunRooms, HelloRooms, RoomHistoryRooms, StoreReplyRooms DEF RunStep
<1>2. CASE UNCHANGED vars
  BY <1>2 DEF vars, Abstractly!vars, RoomStatus, RoomBase, RoomOwed, StatusOf,
              Greeted, Live
<1> QED BY <1>1, <1>2, RunRooms, OnMessageRooms, RedisRooms, RestartRooms
        DEF Next, AllGone

\* At first nobody is there and nothing has been said.
LEMMA InitRooms == Init => Abstractly!Init
<1> SUFFICES ASSUME Init PROVE Abstractly!Init
  OBVIOUS
<1>1. RoomStatus = [s \in Sessions |-> "away"]
  BY DEF Init, RoomStatus, StatusOf
<1>2. RoomBase = [s \in Sessions |-> [k \in Keys |-> 0]]
  BY DEF Init, RoomBase, Greeted, Nothing
<1>3. RoomOwed = [s \in Sessions |-> {}]
  <2>1. \A s \in Sessions, p \in Broadcasts : co[s][p] = "none"
    BY CoroutineFacts DEF Init
  <2> QED BY <2>1 DEF RoomOwed, Live
<1> QED BY <1>1, <1>2, <1>3 DEF Init, Abstractly!Init

\* The sessions, the streams and the broadcasts implement the abstract chat.
THEOREM SessionsImplementRooms == Spec => ImplementsRooms
<1>1. Init => Abstractly!Init
  BY InitRooms
<1>2. IInv /\ [Next]_vars => [Abstractly!Next]_(Abstractly!vars)
  BY StepRooms
<1> QED BY <1>1, <1>2, ServerInvariant, PTL DEF Spec, ImplementsRooms, Abstractly!Spec
=============================================================================
