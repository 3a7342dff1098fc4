----------------------------- MODULE MutexLemmas ----------------------------
(***************************************************************************)
(* What the steps of an async_mutex do to Sound(m, p), for any states p   *)
(* of any set DOMAIN p of coroutines. The proofs about AsyncMutex and of   *)
(* the sessions of ChatServer rest on these lemmas.                        *)
(***************************************************************************)
EXTENDS MutexOps, TLAPS

\* A round of the loop of lock() yields a mutex again.
LEMMA LockStepType ==
  ASSUME NEW T, NEW m \in MutexType(T), NEW t \in T
  PROVE  LockStep(m, t) \in MutexType(T)
BY DEF MutexType, LockStep

\* unlock() yields a mutex again, whether or not somebody is notified.
LEMMA UnlockedType ==
  ASSUME NEW T, NEW m \in MutexType(T)
  PROVE  Unlocked(m) \in MutexType(T)
BY DEF MutexType, Unlocked

\* A mutex nobody uses is sound.
LEMMA FreeMutexSound ==
  ASSUME NEW p, \A t \in DOMAIN p : p[t] \notin {"waiting", "holding"}
  PROVE  FreeMutex \in MutexType(DOMAIN p) /\ Sound(FreeMutex, p)
BY DEF FreeMutex, MutexType, Sound, Exclusive, NothingLost, ReceiversExact

\* A coroutine that is none of the mutex's business stays so.
LEMMA OutsideSound ==
  ASSUME NEW m, NEW p, NEW q, Sound(m, p), DOMAIN q = DOMAIN p,
         \A u \in DOMAIN p :
           \/ q[u] = p[u]
           \/ /\ p[u] \notin {"waiting", "woken", "holding"}
              /\ q[u] \notin {"waiting", "woken", "holding"}
  PROVE  Sound(m, q)
<1>1. \A u \in DOMAIN p : /\ q[u] = "holding" <=> p[u] = "holding"
                          /\ q[u] = "waiting" <=> p[u] = "waiting"
                          /\ q[u] = "woken" <=> p[u] = "woken"
  OBVIOUS
<1> QED BY <1>1 DEF Sound, Exclusive, NothingLost, ReceiversExact

\* A coroutine that finds the mutex taken becomes its last receiver.
LEMMA SuspendSound ==
  ASSUME NEW m, NEW p, NEW q, m \in MutexType(DOMAIN p), Sound(m, p),
         m.locked,
         NEW t \in DOMAIN p, p[t] \notin {"waiting", "holding"},
         DOMAIN q = DOMAIN p,
         \A u \in DOMAIN p : q[u] = IF u = t THEN "waiting" ELSE p[u]
  PROVE  Sound(LockStep(m, t), q)
<1> DEFINE T == DOMAIN p
           n == Len(m.waiters)
           r == LockStep(m, t)
<1> USE DEF Sound
<1>1. DOMAIN p = T /\ DOMAIN q = T /\ m.waiters \in Seq(T)
  BY DEF MutexType
<1>2. r.locked /\ r.waiters = Append(m.waiters, t)
  BY DEF LockStep
<1>3. \A u \in T : q[u] = IF u = t THEN "waiting" ELSE p[u]
  OBVIOUS
<1>4. Exclusive(r, q)
  BY <1>1, <1>2, <1>3 DEF Exclusive
<1>5. NothingLost(r, q)
  BY <1>2 DEF NothingLost
<1>6. /\ n \in Nat
      /\ DOMAIN m.waiters = 1..n
      /\ DOMAIN r.waiters = 1..(n + 1)
      /\ r.waiters[n + 1] = t
      /\ \A i \in 1..n : r.waiters[i] = m.waiters[i]
  BY <1>1, <1>2
<1>7. \A i \in 1..n : m.waiters[i] # t
  BY <1>1, <1>6 DEF ReceiversExact
<1>8. \A i \in 1..(n + 1) : i \in 1..n \/ i = n + 1
  BY <1>6
<1>9. ASSUME NEW u \in T
      PROVE  q[u] = "waiting" <=> \E i \in DOMAIN r.waiters : r.waiters[i] = u
  <2>1. CASE u = t
    BY <2>1, <1>3, <1>6
  <2>2. CASE u # t
    BY <2>2, <1>1, <1>3, <1>6, <1>8 DEF ReceiversExact
  <2> QED BY <2>1, <2>2
<1>10. ASSUME NEW i \in DOMAIN r.waiters, NEW j \in DOMAIN r.waiters,
              r.waiters[i] = r.waiters[j]
       PROVE  i = j
  BY <1>10, <1>6, <1>7, <1>8 DEF ReceiversExact
<1> HIDE DEF r
<1>11. ReceiversExact(r, q)
  BY <1>1, <1>9, <1>10 DEF ReceiversExact
<1> QED BY <1>4, <1>5, <1>11 DEF r

\* A coroutine that takes the free mutex becomes its only holder.
LEMMA TakeSound ==
  ASSUME NEW m, NEW p, NEW q, m \in MutexType(DOMAIN p), Sound(m, p),
         ~m.locked,
         NEW t \in DOMAIN p, p[t] \notin {"waiting", "holding"},
         DOMAIN q = DOMAIN p,
         \A u \in DOMAIN p : q[u] = IF u = t THEN "holding" ELSE p[u]
  PROVE  Sound(LockStep(m, t), q)
<1> DEFINE T == DOMAIN p
           r == LockStep(m, t)
<1> USE DEF Sound
<1>1. DOMAIN p = T /\ DOMAIN q = T
  OBVIOUS
<1>2. r.locked /\ r.waiters = m.waiters
  BY DEF LockStep
<1>3. \A u \in T : q[u] = IF u = t THEN "holding" ELSE p[u]
  OBVIOUS
<1>4. Exclusive(r, q)
  BY <1>1, <1>2, <1>3 DEF Exclusive
<1>5. NothingLost(r, q)
  BY <1>2 DEF NothingLost
<1>6. ReceiversExact(r, q)
  BY <1>1, <1>2, <1>3 DEF ReceiversExact
<1> QED BY <1>4, <1>5, <1>6

\* unlock() leaves no holder and wakes the first receiver, if there is one.
LEMMA ReleaseSound ==
  ASSUME NEW m, NEW p, NEW q, m \in MutexType(DOMAIN p), Sound(m, p),
         NEW t \in DOMAIN p, p[t] = "holding",
         DOMAIN q = DOMAIN p,
         q[t] \notin {"waiting", "holding"},
         \A u \in DOMAIN p : u # t =>
           q[u] = IF u \in Notified(m) THEN "woken" ELSE p[u]
  PROVE  Sound(Unlocked(m), q)
<1> DEFINE T == DOMAIN p
           w == m.waiters
           r == Unlocked(m)
<1> USE DEF Sound
<1>1. DOMAIN p = T /\ DOMAIN q = T /\ w \in Seq(T)
  BY DEF MutexType
<1>2. ~r.locked /\ r.waiters = IF w = << >> THEN << >> ELSE Tail(w)
  BY DEF Unlocked
<1>3. \A u \in T : p[u] = "holding" => u = t
  BY <1>1 DEF Exclusive
<1>4. \A u \in T : q[u] # "holding"
  BY <1>3
<1>5. Exclusive(r, q)
  BY <1>1, <1>2, <1>4 DEF Exclusive
<1>6. CASE w = << >>
  <2>1. NothingLost(r, q)
    BY <1>2, <1>6 DEF NothingLost
  <2>2. \A u \in T : q[u] # "waiting"
    BY <1>1, <1>6 DEF ReceiversExact, Notified
  <2>3. DOMAIN r.waiters = {}
    BY <1>2, <1>6
  <2>4. ReceiversExact(r, q)
    BY <1>1, <2>2, <2>3 DEF ReceiversExact
  <2> QED BY <1>5, <2>1, <2>4
<1>7. CASE w # << >>
  <2> DEFINE h == Head(w)
  <2>1. /\ Len(w) \in Nat
        /\ Len(w) >= 1
        /\ DOMAIN w = 1..Len(w)
        /\ h = w[1]
        /\ DOMAIN r.waiters = 1..(Len(w) - 1)
        /\ \A i \in 1..(Len(w) - 1) : r.waiters[i] = w[i + 1]
    BY <1>1, <1>2, <1>7
  <2>2. h \in T /\ p[h] = "waiting" /\ h # t
    BY <1>1, <2>1 DEF ReceiversExact
  <2>3. \A u \in T : q[u] = IF u = t THEN q[t]
                            ELSE IF u = h THEN "woken" ELSE p[u]
    BY <1>7 DEF Notified
  <2>4. NothingLost(r, q)
    BY <1>1, <2>2, <2>3 DEF NothingLost
  <2>5. ASSUME NEW u \in T
        PROVE  q[u] = "waiting" <=>
                 \E i \in DOMAIN r.waiters : r.waiters[i] = u
    <3>1. q[u] = "waiting" <=> u # h /\ p[u] = "waiting"
      BY <2>2, <2>3
    <3>2. ASSUME NEW i \in 1..(Len(w) - 1), r.waiters[i] = u
          PROVE  u # h /\ p[u] = "waiting"
      <4>1. i + 1 \in DOMAIN w /\ 1 \in DOMAIN w /\ i + 1 # 1 /\ w[i + 1] = u
        BY <2>1, <3>2
      <4> QED BY <4>1, <1>1, <2>1 DEF ReceiversExact
    <3>3. ASSUME u # h, p[u] = "waiting"
          PROVE  \E i \in 1..(Len(w) - 1) : r.waiters[i] = u
      <4>1. PICK j \in DOMAIN w : w[j] = u
        BY <1>1, <3>3 DEF ReceiversExact
      <4>2. j - 1 \in 1..(Len(w) - 1) /\ r.waiters[j - 1] = w[j]
        BY <4>1, <3>3, <2>1
      <4> QED BY <4>1, <4>2
    <3> QED BY <3>1, <3>2, <3>3, <2>1
  <2>6. ASSUME NEW i \in DOMAIN r.waiters, NEW j \in DOMAIN r.waiters,
               r.waiters[i] = r.waiters[j]
        PROVE  i = j
    <3>0. i \in 1..(Len(w) - 1) /\ j \in 1..(Len(w) - 1)
      BY <2>1
    <3>1. i + 1 \in DOMAIN w /\ j + 1 \in DOMAIN w /\ w[i + 1] = w[j + 1]
      BY <2>6, <2>1, <3>0
    <3>2. i + 1 = j + 1
      BY <3>1 DEF ReceiversExact
    <3> QED BY <3>0, <3>2, <2>1
  <2> HIDE DEF r
  <2>7. ReceiversExact(r, q)
    BY <1>1, <2>5, <2>6 DEF ReceiversExact
  <2> QED BY <1>5, <2>4, <2>7 DEF r
<1> QED BY <1>6, <1>7

\* The coroutine a free-running unlock() wakes was suspended in lock().
LEMMA NotifiedWaits ==
  ASSUME NEW m, NEW p, m \in MutexType(DOMAIN p), Sound(m, p)
  PROVE  \A u \in Notified(m) : u \in DOMAIN p /\ p[u] = "waiting"
<1> SUFFICES ASSUME NEW u \in Notified(m)
             PROVE  u \in DOMAIN p /\ p[u] = "waiting"
  OBVIOUS
<1>1. m.waiters \in Seq(DOMAIN p)
  BY DEF MutexType
<1>2. m.waiters # << >> /\ u = Head(m.waiters)
  BY DEF Notified
<1>3. 1 \in DOMAIN m.waiters /\ u = m.waiters[1] /\ u \in DOMAIN p
  BY <1>1, <1>2
<1> QED BY <1>1, <1>3 DEF ReceiversExact, Sound
=============================================================================
