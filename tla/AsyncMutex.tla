----------------------------- MODULE AsyncMutex -----------------------------
(***************************************************************************)
(* chat::async_mutex on its own: any number of coroutines of one           *)
(* single-threaded executor lock, try_lock and unlock it.  A step is what  *)
(* runs between two suspension points, so it is atomic.  A notified        *)
(* coroutine is only posted to the executor: other coroutines may run, and *)
(* take the mutex, before it does.                                         *)
(***************************************************************************)
EXTENDS MutexOps

CONSTANT Tasks             \* the coroutines that use the mutex

VARIABLES mtx,             \* locked_ and the receivers pending on chan_
          pc               \* where each coroutine is

vars == <<mtx, pc>>

States == {"idle", "waiting", "woken", "holding"}

TypeOK ==
  /\ mtx \in MutexType(Tasks)
  /\ pc \in [Tasks -> States]

Init ==
  /\ mtx = FreeMutex
  /\ pc = [t \in Tasks |-> "idle"]

\* Mutant: "if" for "while"; a notified coroutine does not look at the flag.
LockLoopOnce(t) ==
  LET free == pc[t] = "woken" \/ ~mtx.locked
  IN  /\ mtx' = LockStep([mtx EXCEPT !.locked = ~free], t)
      /\ pc' = [pc EXCEPT ![t] = IF free THEN "holding" ELSE "waiting"]

\* The loop of lock(), entered by a call or re-entered after a notification.
LockLoop(t) ==
  /\ mtx' = LockStep(mtx, t)
  /\ pc' = [pc EXCEPT ![t] = IF mtx.locked THEN "waiting" ELSE "holding"]

Lock(t) == pc[t] = "idle" /\ LockLoop(t)

Resume(t) == pc[t] = "woken" /\ LockLoop(t)

\* try_lock() that succeeds; when it fails it changes nothing.
TryLock(t) ==
  /\ pc[t] = "idle"
  /\ ~mtx.locked
  /\ mtx' = LockStep(mtx, t)
  /\ pc' = [pc EXCEPT ![t] = "holding"]

\* Mutants: nobody is notified; the receiver that came last is; the receiver
\* that was notified stays in the channel.
UnlockSilently(t) ==
  /\ pc[t] = "holding"
  /\ mtx' = [mtx EXCEPT !.locked = FALSE]
  /\ pc' = [pc EXCEPT ![t] = "idle"]

UnlockLast(t) ==
  /\ pc[t] = "holding"
  /\ LET w == mtx.waiters
         n == Len(w)
     IN  /\ mtx' = [locked |-> FALSE,
                    waiters |-> IF n = 0 THEN w ELSE SubSeq(w, 1, n - 1)]
         /\ pc' = [u \in Tasks |->
                     IF u = t THEN "idle"
                     ELSE IF n > 0 /\ u = w[n] THEN "woken" ELSE pc[u]]

UnlockKeepsReceiver(t) ==
  /\ pc[t] = "holding"
  /\ mtx' = [mtx EXCEPT !.locked = FALSE]
  /\ pc' = [u \in Tasks |->
              IF u = t THEN "idle"
              ELSE IF u \in Notified(mtx) THEN "woken" ELSE pc[u]]

Unlock(t) ==
  /\ pc[t] = "holding"
  /\ mtx' = Unlocked(mtx)
  /\ pc' = [u \in Tasks |->
              IF u = t THEN "idle"
              ELSE IF u \in Notified(mtx) THEN "woken" ELSE pc[u]]

Next == \E t \in Tasks : Lock(t) \/ Resume(t) \/ TryLock(t) \/ Unlock(t)

Spec == Init /\ [][Next]_vars

\* The executor runs every posted completion, and a holder ends its critical
\* section; nobody is obliged to call lock().
Fairness == \A t \in Tasks : WF_vars(Resume(t)) /\ WF_vars(Unlock(t))

FairSpec == Spec /\ Fairness
-----------------------------------------------------------------------------
\* Two coroutines are never in the critical section, and locked_ says exactly
\* whether one is.
MutualExclusion == Exclusive(mtx, pc)

\* No suspended coroutine misses the notification it needs, although the
\* channel forgets those that find no receiver.
NoLostWakeup == NothingLost(mtx, pc)

\* The invariant that every step keeps: the two above hold only together with
\* the exact correspondence of pending receives and suspended coroutines.
IInv == TypeOK /\ Sound(mtx, pc)

\* Every coroutine suspended in lock() is eventually notified, however many
\* others keep taking the mutex ahead of the notified ones.
EveryWaiterNotified ==
  \A t \in Tasks : pc[t] = "waiting" ~> pc[t] = "woken"
-----------------------------------------------------------------------------
\* The lock the callers rely on, and the state of it this one stands for.
AbstractLock ==
  INSTANCE Mutex WITH
    owners     <- {t \in Tasks : pc[t] = "holding"},
    requesting <- {t \in Tasks : pc[t] \in {"waiting", "woken"}}

ImplementsMutex == AbstractLock!FairSpec
=============================================================================
