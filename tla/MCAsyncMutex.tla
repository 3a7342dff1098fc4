---------------------------- MODULE MCAsyncMutex ----------------------------
(* Bounded instances of AsyncMutex: up to five coroutines, which may lock    *)
(* and unlock any number of times.                                           *)
EXTENDS AsyncMutex, TLC

CONSTANTS t1, t2, t3, t4, t5
=============================================================================
