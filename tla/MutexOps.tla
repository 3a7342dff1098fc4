------------------------------ MODULE MutexOps ------------------------------
(***************************************************************************)
(* The value of an async_mutex (server/include/util/async_mutex.hpp) and   *)
(* the effect its member functions have on it.  The mutex is a flag plus   *)
(* a Boost.Asio channel without buffer; coroutines that find the flag set  *)
(* suspend in chan_.async_receive(), and the channel keeps its pending     *)
(* receivers in arrival order.  Both the mutex on its own (AsyncMutex) and *)
(* the websocket sessions (ChatServer) are built from these operators.     *)
(***************************************************************************)
EXTENDS Naturals, Sequences

MutexType(T) == [locked : BOOLEAN, waiters : Seq(T)]

FreeMutex == [locked |-> FALSE, waiters |-> << >>]

\* One evaluation of the loop of lock() by coroutine t: take the flag, or
\* suspend as the last receiver of the channel.
LockStep(m, t) ==
  [locked  |-> TRUE,
   waiters |-> IF m.locked THEN Append(m.waiters, t) ELSE m.waiters]

\* unlock(): clear the flag; try_send on a channel without buffer hands the
\* notification to the first pending receiver and is lost if there is none.
Unlocked(m) ==
  [locked  |-> FALSE,
   waiters |-> IF m.waiters = << >> THEN << >> ELSE Tail(m.waiters)]

\* The coroutines whose receive is completed by that unlock().
Notified(m) == IF m.waiters = << >> THEN {} ELSE {Head(m.waiters)}
-----------------------------------------------------------------------------
(* What relates a mutex m to the states p of the coroutines that use it.   *)
(* p is a function from coroutines; of its values, "holding", "waiting"    *)
(* and "woken" say that the coroutine is in the critical section, is       *)
(* suspended in lock(), has been notified there and not run yet.           *)

\* The critical sections exclude each other, and the flag says exactly
\* whether one is entered (locked_ in lock(), try_lock() and unlock()).
Exclusive(m, p) ==
  /\ \A t, u \in DOMAIN p : p[t] = "holding" /\ p[u] = "holding" => t = u
  /\ m.locked <=> \E t \in DOMAIN p : p[t] = "holding"

\* The channel has no buffer, so a notification that finds no receiver is
\* lost: whenever the mutex is free and a coroutine is suspended on it, some
\* notified coroutine has still to run (and will pass the mutex on).
NothingLost(m, p) ==
  ~m.locked /\ m.waiters # << >> => \E t \in DOMAIN p : p[t] = "woken"

\* A coroutine is suspended in lock() exactly when it has one pending
\* receive: no receiver is left behind by a coroutine that moved on.
ReceiversExact(m, p) ==
  /\ \A t \in DOMAIN p :
        p[t] = "waiting" <=> \E i \in DOMAIN m.waiters : m.waiters[i] = t
  /\ \A i, j \in DOMAIN m.waiters : m.waiters[i] = m.waiters[j] => i = j

Sound(m, p) == Exclusive(m, p) /\ NothingLost(m, p) /\ ReceiversExact(m, p)
=============================================================================
