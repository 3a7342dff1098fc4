---------------------------- MODULE MCRoomHistory ----------------------------
(* Bounded instances of RoomHistory: batches of two messages. *)
EXTENDS RoomHistory

\* The rooms of the hello.
OneRoom == {"beast"}
TwoRooms == {"beast", "async"}
=============================================================================
