-------------------------- MODULE AsyncMutexProofs --------------------------
(***************************************************************************)
(* Proofs about AsyncMutex, for any set of coroutines: the inductive       *)
(* invariant IInv (mutual exclusion, no lost wakeup, exact receivers), and *)
(* that the mutex implements the safety part of the lock of module Mutex.  *)
(***************************************************************************)
EXTENDS AsyncMutex, MutexLemmas

\* In the initial state nobody uses the mutex.
LEMMA InitIInv == Init => IInv
<1> SUFFICES ASSUME Init PROVE IInv
  OBVIOUS
<1>1. pc \in [Tasks -> States]
  BY DEF Init, States
<1>2. DOMAIN pc = Tasks /\ \A t \in Tasks : pc[t] = "idle"
  BY DEF Init
<1>3. FreeMutex \in MutexType(Tasks) /\ Sound(FreeMutex, pc)
  BY <1>2, FreeMutexSound
<1> QED BY <1>1, <1>3 DEF Init, IInv, TypeOK

\* The loop of lock(), by a coroutine that calls it or was notified.
LEMMA LockLoopIInv ==
  ASSUME IInv, NEW t \in Tasks, pc[t] \in {"idle", "woken"}, LockLoop(t)
  PROVE  IInv'
<1>1. /\ mtx \in MutexType(Tasks)
      /\ DOMAIN pc = Tasks /\ DOMAIN pc' = Tasks
      /\ Sound(mtx, pc)
      /\ mtx' = LockStep(mtx, t)
      /\ \A u \in Tasks :
           pc'[u] = IF u = t
                    THEN IF mtx.locked THEN "waiting" ELSE "holding"
                    ELSE pc[u]
  BY DEF IInv, TypeOK, LockLoop
<1>2. TypeOK'
  BY <1>1, LockStepType DEF LockLoop, IInv, TypeOK, States
<1>3. CASE mtx.locked
  BY <1>1, <1>2, <1>3, SuspendSound DEF IInv
<1>4. CASE ~mtx.locked
  BY <1>1, <1>2, <1>4, TakeSound DEF IInv
<1> QED BY <1>3, <1>4

\* try_lock() that succeeds.
LEMMA TryLockIInv ==
  ASSUME IInv, NEW t \in Tasks, TryLock(t)
  PROVE  IInv'
<1>1. pc[t] \in {"idle", "woken"} /\ LockLoop(t)
  BY DEF TryLock, LockLoop
<1> QED BY <1>1, LockLoopIInv

\* unlock(), by the coroutine that holds the mutex.
LEMMA UnlockIInv ==
  ASSUME IInv, NEW t \in Tasks, Unlock(t)
  PROVE  IInv'
<1>1. /\ mtx \in MutexType(Tasks)
      /\ DOMAIN pc = Tasks /\ DOMAIN pc' = Tasks
      /\ Sound(mtx, pc)
      /\ mtx' = Unlocked(mtx)
      /\ pc[t] = "holding" /\ pc'[t] = "idle"
      /\ \A u \in Tasks : u # t =>
           pc'[u] = IF u \in Notified(mtx) THEN "woken" ELSE pc[u]
  BY DEF IInv, TypeOK, Unlock
<1>2. TypeOK'
  BY UnlockedType DEF Unlock, IInv, TypeOK, States
<1>3. Sound(mtx', pc')
  BY <1>1, ReleaseSound
<1> QED BY <1>2, <1>3 DEF IInv

\* Every step keeps the invariant.
LEMMA StepIInv == IInv /\ [Next]_vars => IInv'
<1> SUFFICES ASSUME IInv, [Next]_vars PROVE IInv'
  OBVIOUS
<1>1. ASSUME NEW t \in Tasks, Lock(t) PROVE IInv'
  BY <1>1, LockLoopIInv DEF Lock
<1>2. ASSUME NEW t \in Tasks, Resume(t) PROVE IInv'
  BY <1>2, LockLoopIInv DEF Resume
<1>3. ASSUME NEW t \in Tasks, TryLock(t) PROVE IInv'
  BY <1>3, TryLockIInv
<1>4. ASSUME NEW t \in Tasks, Unlock(t) PROVE IInv'
  BY <1>4, UnlockIInv
<1>5. CASE UNCHANGED vars
  BY <1>5 DEF vars, IInv, TypeOK
<1> QED BY <1>1, <1>2, <1>3, <1>4, <1>5 DEF Next

\* The critical sections exclude each other, a free mutex with suspended
\* coroutines has woken one of them, and the pending receives are exactly the
\* suspended coroutines, whatever the number of coroutines.
THEOREM MutexInvariant == Spec => []IInv
<1>1. Init => IInv
  BY InitIInv
<1>2. IInv /\ [Next]_vars => IInv'
  BY StepIInv
<1> QED BY <1>1, <1>2, PTL DEF Spec

\* Mutual exclusion on its own: two write_locked() never overlap.
THEOREM MutexExcludes == Spec => []MutualExclusion
<1>1. IInv => MutualExclusion
  BY DEF IInv, Sound, MutualExclusion
<1> QED BY <1>1, MutexInvariant, PTL

\* No notification of the channel without buffer is lost.
THEOREM MutexWakes == Spec => []NoLostWakeup
<1>1. IInv => NoLostWakeup
  BY DEF IInv, Sound, NoLostWakeup
<1> QED BY <1>1, MutexInvariant, PTL
-----------------------------------------------------------------------------
\* Every step of the mutex is a step of the abstract lock, or none.
LEMMA StepSimulates ==
  IInv /\ [Next]_vars => [AbstractLock!Next]_(AbstractLock!vars)
<1> SUFFICES ASSUME IInv, [Next]_vars
             PROVE  [AbstractLock!Next]_(AbstractLock!vars)
  OBVIOUS
<1> DEFINE own == {t \in Tasks : pc[t] = "holding"}
           ask == {t \in Tasks : pc[t] \in {"waiting", "woken"}}
<1> USE DEF IInv
<1>0. own = {} <=> ~mtx.locked
  BY DEF Sound, Exclusive, TypeOK
<1>1. ASSUME NEW t \in Tasks, pc[t] \in {"idle", "woken"}, mtx.locked,
             LockLoop(t)
      PROVE  [AbstractLock!Next]_(AbstractLock!vars)
  <2>1. pc' = [pc EXCEPT ![t] = "waiting"]
    BY <1>1 DEF LockLoop
  <2>2. own' = own /\ ask' = ask \cup {t}
    BY <1>1, <2>1 DEF TypeOK
  <2>3. CASE pc[t] = "idle"
    <3>1. AbstractLock!Request(t)
      BY <1>0, <1>1, <2>2, <2>3 DEF AbstractLock!Request
    <3> QED BY <3>1 DEF AbstractLock!Next
  <2>4. CASE pc[t] = "woken"
    BY <2>2, <2>4 DEF AbstractLock!vars
  <2> QED BY <1>1, <2>3, <2>4
<1>2. ASSUME NEW t \in Tasks, pc[t] \in {"idle", "woken"}, ~mtx.locked,
             pc' = [pc EXCEPT ![t] = "holding"]
      PROVE  [AbstractLock!Next]_(AbstractLock!vars)
  <2>1. own' = {t} /\ ask' = ask \ {t}
    BY <1>0, <1>2 DEF TypeOK
  <2>2. AbstractLock!Acquire(t)
    BY <1>0, <1>2, <2>1 DEF AbstractLock!Acquire
  <2> QED BY <2>2 DEF AbstractLock!Next
<1>3. ASSUME NEW t \in Tasks, Lock(t) \/ Resume(t)
      PROVE  [AbstractLock!Next]_(AbstractLock!vars)
  <2>1. pc[t] \in {"idle", "woken"} /\ LockLoop(t)
    BY <1>3 DEF Lock, Resume
  <2>2. CASE mtx.locked
    BY <1>1, <2>1, <2>2
  <2>3. CASE ~mtx.locked
    BY <1>2, <2>1, <2>3 DEF LockLoop
  <2> QED BY <2>2, <2>3
<1>4. ASSUME NEW t \in Tasks, TryLock(t)
      PROVE  [AbstractLock!Next]_(AbstractLock!vars)
  BY <1>2, <1>4 DEF TryLock
<1>5. ASSUME NEW t \in Tasks, Unlock(t)
      PROVE  [AbstractLock!Next]_(AbstractLock!vars)
  <2>1. pc[t] = "holding" /\ pc' = [u \in Tasks |->
               IF u = t THEN "idle"
               ELSE IF u \in Notified(mtx) THEN "woken" ELSE pc[u]]
    BY <1>5 DEF Unlock
  <2>2. \A u \in Notified(mtx) : pc[u] = "waiting"
    <3>1. mtx \in MutexType(DOMAIN pc) /\ Sound(mtx, pc)
      BY DEF TypeOK
    <3> QED BY <3>1, NotifiedWaits
  <2>3. own' = own \ {t} /\ ask' = ask
    BY <2>1, <2>2
  <2>4. AbstractLock!Release(t)
    BY <2>1, <2>3 DEF AbstractLock!Release
  <2> QED BY <2>4 DEF AbstractLock!Next
<1>6. CASE UNCHANGED vars
  BY <1>6 DEF vars, AbstractLock!vars
<1> QED BY <1>3, <1>4, <1>5, <1>6 DEF Next

\* The mutex implements the abstract lock: it is granted to one coroutine at a
\* time, to a caller or to a waiter, and released by its holder only.
THEOREM MutexImplementsLock == Spec => AbstractLock!Spec
<1>1. Init => AbstractLock!Init
  BY DEF Init, AbstractLock!Init
<1>2. IInv /\ [Next]_vars => [AbstractLock!Next]_(AbstractLock!vars)
  BY StepSimulates
<1> QED BY <1>1, <1>2, MutexInvariant, PTL DEF Spec, AbstractLock!Spec
=============================================================================
