\* Safety, liveness and refinement with five coroutines that lock, try_lock
\* and unlock for ever.
CONSTANTS
  t1 = t1
  t2 = t2
  t3 = t3
  t4 = t4
  t5 = t5
  Tasks = {t1, t2, t3, t4, t5}
SPECIFICATION FairSpec
INVARIANTS NoLostWakeup IInv
PROPERTIES EveryWaiterNotified ImplementsMutex
