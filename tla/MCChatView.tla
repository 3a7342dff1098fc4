----------------------------- MODULE MCChatView -----------------------------
(* Bounded instances of ChatView: two clients in one room. *)
EXTENDS ChatView

CONSTANTS alice, bob

OneRoom == {"beast"}
=============================================================================
