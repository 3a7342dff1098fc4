------------------------------ MODULE ChatView ------------------------------
(***************************************************************************)
(* What a client shows: the reducer of client/pages/chat.tsx applied to    *)
(* the frames its session was sent (ChatServer), in their order.  A view   *)
(* maps each room the client knows to the ids of its messages, as they are *)
(* listed: the newest is expected first.                                   *)
(***************************************************************************)
EXTENDS ChatServer, SequencesExt

CONSTANT MessageBatchSize  \* redis_client::message_batch_size

ASSUME ChatViewAssumption == MessageBatchSize \in Nat \ {0}

\* Before the hello the client knows no room.
NoRooms == << >>

\* Mutant: the new messages take the place of the ones that were there.
AddNewMessagesInPlace(messages, newMessages) == Reverse(newMessages)

\* addNewMessages(): the new messages are reversed and put in front.
AddNewMessages(messages, newMessages) == Reverse(newMessages) \o messages

\* get_room_history() takes a batch from the end of a room's stream: the id from
\* which on the hello of s carries room k.
FirstInHello(s, k) ==
  IF snap[s][k] > MessageBatchSize THEN snap[s][k] + 1 - MessageBatchSize ELSE 1

\* doSetInitialState(): the rooms as the hello lists them, newest first.
SetInitialState(s) ==
  [k \in RoomIds |->
     [i \in 1..(snap[s][k] + 1 - FirstInHello(s, k)) |-> snap[s][k] + 1 - i]]

\* doAddMessages(): the messages of a room the client does not know are dropped.
AddMessages(view, m) ==
  IF m.key \in DOMAIN view
  THEN [view EXCEPT ![m.key] =
          AddNewMessages(@, [i \in 1..(m.last + 1 - m.first) |-> m.first + i - 1])]
  ELSE view

\* onWebsocketMessage(): an event of another type is ignored.
OnWebsocketMessage(s, view, frame) ==
  CASE frame.kind = "hello" -> SetInitialState(s)
    [] frame.kind = "serverMessages" -> AddMessages(view, published[frame.id])
    [] OTHER -> view

\* After all the frames that were sent, one after the other.
View(s) ==
  LET view[n \in 0..Len(sent[s])] ==
        IF n = 0 THEN NoRooms
        ELSE OnWebsocketMessage(s, view[n - 1], sent[s][n])
  IN  view[Len(sent[s])]
-----------------------------------------------------------------------------
\* The session is past its hello, and nothing is on its way to the client.
Settled(s) ==
  /\ pc[s] \in {"reading", "storing", "histRedis", "histNames", "histLock",
                "histWrite"}
  /\ sock[s] = "open"
  /\ \A p \in Broadcasts : ~Live(s, p)

\* A settled client shows every message that has been published in its rooms,
\* whether it came with the hello or later, and whoever wrote it, but for those
\* that were already older than a batch when its hello was made.
SettledViewsComplete ==
  \A s \in Sessions, p \in DOMAIN published :
    LET m == published[p]
    IN  Settled(s) /\ m.key \in RoomIds =>
          {i \in m.first..m.last : i >= FirstInHello(s, m.key)}
            \subseteq ToSet(View(s)[m.key])

\* The id of a message is the key of its element in the list (chat.tsx), and
\* ids are unique in a room (the architecture document): no id is listed twice.
ShownOnce ==
  \A s \in Sessions : LET view == View(s) IN
    \A k \in DOMAIN view : IsInjective(view[k])

\* The first message of a list is the latest one: it is what the room entry
\* shows, and rooms are sorted by it.
LatestIsFirst ==
  \A s \in Sessions : LET view == View(s) IN
    \A k \in DOMAIN view : \A i \in DOMAIN view[k] : view[k][i] <= view[k][1]
=============================================================================
