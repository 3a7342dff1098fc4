------------------------------- MODULE Rooms --------------------------------
(***************************************************************************)
(* What the chat promises: each room is a log that only grows, parts of it *)
(* are announced, and a client that has joined is given by announcements   *)
(* everything that was ever announced and is not older than its greeting.  *)
(* There is no server here, no database and no lock.  ChatServer           *)
(* implements it.                                                          *)
(***************************************************************************)
EXTENDS Integers, Sequences

CONSTANTS
  Clients,
  RoomIds,  \* the rooms a client joins, all of them at once
  Keys      \* whatever messages are posted to; the rooms among them

VARIABLES
  log,        \* the authors of the messages of each key, in their order
  announced,  \* the announcements: parts of the logs
  status,     \* where each client is
  base,       \* how much of each room there was for the greeting of a client
  owed,       \* the announcements that each client has still to be given
  given       \* what each client was given, in this order

vars == <<log, announced, status, base, owed, given>>

Announcement == [key : Keys, from : Clients, first : Nat, last : Nat]

Init ==
  /\ log = [k \in Keys |-> << >>]
  /\ announced = << >>
  /\ status = [c \in Clients |-> "away"]
  /\ base = [c \in Clients |-> [k \in Keys |-> 0]]
  /\ owed = [c \in Clients |-> {}]
  /\ given = [c \in Clients |-> << >>]

IsGiven(c, kind, id) ==
  given' = [given EXCEPT ![c] = Append(@, [kind |-> kind, id |-> id])]

\* An author's messages become the new end of a log; the author may have left
\* in the meantime.
Post(k, a) ==
  /\ log'[k] \in Seq(Clients)
  /\ log' = [log EXCEPT ![k] = log'[k]]
  /\ Len(log'[k]) > Len(log[k])
  /\ \A i \in 1..Len(log'[k]) :
       log'[k][i] = IF i <= Len(log[k]) THEN log[k][i] ELSE a
  /\ UNCHANGED <<announced, status, base, owed, given>>

\* Some messages of one author are announced, behind those of the same log
\* that were announced before.  Whoever is here is owed the announcement; to
\* those who left, it may still be sent.
Announce(m) ==
  /\ m \in Announcement
  /\ m.last <= Len(log[m.key])
  /\ \A i \in m.first..m.last : log[m.key][i] = m.from
  /\ \A q \in DOMAIN announced :
       announced[q].key = m.key => announced[q].last < m.first
  /\ announced' = Append(announced, m)
  /\ \A c \in Clients :
       \/ /\ m.key \in RoomIds
          /\ status[c] # "away"
          /\ owed'[c] = owed[c] \cup {Len(announced) + 1}
       \/ /\ m.key \in RoomIds => status[c] \in {"away", "left"}
          /\ owed'[c] = owed[c]
  /\ DOMAIN owed' = Clients
  /\ UNCHANGED <<log, status, base, given>>

Join(c) ==
  /\ status[c] = "away"
  /\ status' = [status EXCEPT ![c] = "joining"]
  /\ UNCHANGED <<log, announced, base, owed, given>>

\* A client is greeted when upto[k] messages of each room are known, with the
\* latest of them.  What was announced and is not among them is owed.
Greet(c, upto) ==
  /\ status[c] = "joining"
  /\ upto \in [Keys -> Nat]
  /\ \A k \in Keys : upto[k] <= Len(log[k])
  /\ \A p \in DOMAIN announced :
       LET m == announced[p]
       IN  m.key \in RoomIds => m.last <= upto[m.key] \/ p \in owed[c]
  /\ status' = [status EXCEPT ![c] = "served"]
  /\ base' = [base EXCEPT ![c] = upto]
  /\ IsGiven(c, "hello", 0)
  /\ UNCHANGED <<log, announced, owed>>

\* A client that is here may be given a history at any time.
GiveHistory(c) ==
  /\ status[c] = "served"
  /\ IsGiven(c, "roomHistory", 0)
  /\ UNCHANGED <<log, announced, status, base, owed>>

\* An announcement is given to a client once, and before its greeting only if
\* it has left without one.
Give(c, p) ==
  /\ status[c] \in {"served", "left"}
  /\ p \in owed[c]
  /\ owed' = [owed EXCEPT ![c] = @ \ {p}]
  /\ IsGiven(c, "serverMessages", p)
  /\ UNCHANGED <<log, announced, status, base>>

\* Clients leave: by themselves, because their connection fails, or all that
\* are here at once.  What they are still owed they may not get.
Leave(C) ==
  /\ status' = [c \in Clients |-> IF c \in C THEN "left" ELSE status[c]]
  /\ \A c \in Clients : IF c \in C THEN owed'[c] \subseteq owed[c]
                                   ELSE owed'[c] = owed[c]
  /\ DOMAIN owed' = Clients
  /\ UNCHANGED <<log, announced, base, given>>

Next ==
  \/ \E k \in Keys, a \in Clients : Post(k, a)
  \/ \E p \in DOMAIN announced' \ DOMAIN announced : Announce(announced'[p])
  \/ \E c \in Clients : Join(c) \/ Greet(c, base'[c]) \/ GiveHistory(c)
  \/ \E c \in Clients : \E p \in owed[c] : Give(c, p)
  \/ \E C \in SUBSET Clients : Leave(C)

Spec == Init /\ [][Next]_vars
=============================================================================
