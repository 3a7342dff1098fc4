-------------------------------- MODULE Mutex -------------------------------
(***************************************************************************)
(* What the users of async_mutex are promised (the comments of             *)
(* server/include/util/async_mutex.hpp): mutual exclusion between          *)
(* coroutines, and that a free mutex somebody waits for does not stay      *)
(* free.  Nothing is promised about the order in which waiters get it.     *)
(***************************************************************************)
CONSTANT Tasks

VARIABLES owners,          \* the coroutines inside the critical section
          requesting       \* the coroutines suspended in lock()

vars == <<owners, requesting>>

Init == owners = {} /\ requesting = {}

\* lock() on a mutex that is taken suspends the caller.
Request(t) ==
  /\ owners # {}
  /\ t \notin owners \cup requesting
  /\ requesting' = requesting \cup {t}
  /\ UNCHANGED owners

\* The mutex is granted, at once or after a wait, only when nobody owns it.
Acquire(t) ==
  /\ owners = {}
  /\ owners' = {t}
  /\ requesting' = requesting \ {t}

Release(t) ==
  /\ t \in owners
  /\ owners' = owners \ {t}
  /\ UNCHANGED requesting

Next == \E t \in Tasks : Request(t) \/ Acquire(t) \/ Release(t)

Spec == Init /\ [][Next]_vars

\* A holder releases, and a free mutex with waiters is taken by somebody.
Fairness ==
  /\ \A t \in Tasks : WF_vars(Release(t))
  /\ WF_vars(requesting # {} /\ \E t \in Tasks : Acquire(t))

FairSpec == Spec /\ Fairness
=============================================================================
