---------------------------- MODULE MCChatServer ----------------------------
(* Bounded instances of ChatServer. *)
EXTENDS ChatServer, TLC

CONSTANTS alice, bob, carol

\* One room, which every session subscribes to.
OneRoom == {"beast"}
Clients == {alice, bob, carol}
\* The clients are interchangeable (used without liveness).
ClientSymmetry == Permutations(Clients)
=============================================================================
