-------------------------- MODULE HistoryReference --------------------------
(***************************************************************************)
(* The answer of Redis to a pipeline of XREVRANGE commands, as a function  *)
(* of the messages in it, and what HistoryParser makes of it.              *)
(***************************************************************************)
EXTENDS HistoryParser, SequencesExt

CONSTANT Answers           \* batches of messages that Redis may return

\* They are lists of messages.
ASSUME AnswersAssumption == Answers \subseteq Seq(Seq(Message))

\* An element of a stream: its id and its attributes, one name and one value.
EncodeMessage(m) ==
  <<Array(2, 1), Blob(2, m.id), Array(2, 2), Blob(3, "payload"),
    Blob(3, m.payload)>>

\* A response: the list of its messages.
EncodeBatch(b) ==
  <<Array(Len(b), 0)>> \o FlattenSeq([i \in DOMAIN b |-> EncodeMessage(b[i])])

Encode(bs) == FlattenSeq([i \in DOMAIN bs |-> EncodeBatch(bs[i])])

Encodings == {Encode(bs) : bs \in Answers}

\* The same nodes, whatever number of messages the responses announce.
Unsized(nodes) ==
  [i \in DOMAIN nodes |->
     IF nodes[i].depth = 0 THEN [nodes[i] EXCEPT !.size = 0] ELSE nodes[i]]
-----------------------------------------------------------------------------
\* The nodes read of the message that has been begun, by the state.
Begun(i) ==
  [wants_level0_list |-> << >>,
   wants_level0_or_entry_list |-> << >>,
   wants_id |-> <<Array(2, 1)>>,
   wants_attr_list |-> <<Array(2, 1), Blob(2, i)>>,
   wants_key |-> <<Array(2, 1), Blob(2, i), Array(2, 2)>>,
   wants_value |-> <<Array(2, 1), Blob(2, i), Array(2, 2), Blob(3, "payload")>>]

\* Until a node is refused, what has been read is the encoding of the batches
\* built so far, then the nodes of the message that has been begun.
Accounted ==
  /\ result # "rejected" =>
       Unsized(fed) = Unsized(Encode(res) \o Begun(id)[state])
  /\ result = "ok" => state \in {"wants_level0_list", "wants_level0_or_entry_list"}

\* The parser's memory is safe and accounts for its input: the inductive
\* invariant behind ParsedIsSent.
ReferenceIInv == IInv /\ Accounted

\* What is parsed is what was sent: an accepted input is the encoding of the
\* result, message for message and batch for batch.
ParsedIsSent == result = "ok" => Unsized(fed) = Unsized(Encode(res))

\* No answer that Redis may give is refused, at its end or on the way.
AnswersAreAccepted ==
  /\ result = "rejected" => \A nodes \in Encodings : ~IsPrefix(fed, nodes)
  /\ result = "incomplete" => fed \notin Encodings
=============================================================================
