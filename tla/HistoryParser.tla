---------------------------- MODULE HistoryParser ----------------------------
(***************************************************************************)
(* parse_room_history_batch(): a one-pass parser of the RESP3 nodes that   *)
(* answer a pipeline of XREVRANGE commands.  The nodes arrive one by one,  *)
(* any of them: the parser has to refuse what is no such answer, and may   *)
(* neither use an id it has not read nor add to a batch it has not begun.  *)
(*                                                                         *)
(* A value is an id, a JSON payload that converts to a message, or the     *)
(* attribute name "payload"; anything else is refused like an id would be. *)
(***************************************************************************)
EXTENDS Naturals, Sequences

CONSTANTS
  Ids,           \* stream ids
  Payloads,      \* JSON texts of messages
  MaxSize,       \* bound: size of an aggregate
  MaxDepth,      \* bound: depth of a node
  MaxNodes,      \* bound: nodes in the input
  MaxResponses   \* bound: responses in the input

\* "null" stands for the null pointer only.
ASSUME ParserAssumption == "null" \notin Ids \cup Payloads

VARIABLES
  fed,     \* the nodes read so far
  state,   \* data.state
  id,      \* data.id: what it points to, or "null"
  res,     \* the batches: sequences of messages
  result   \* "parsing", or how the function returned

vars == <<fed, state, id, res, result>>
-----------------------------------------------------------------------------
Values == Ids \cup Payloads \cup {"payload"}
Array(size, depth) == [type |-> "array", depth |-> depth, size |-> size, value |-> ""]
Blob(depth, value) == [type |-> "blob", depth |-> depth, size |-> 0, value |-> value]
Other == [type |-> "other", depth |-> 0, size |-> 0, value |-> ""]

Nodes == {Array(size, depth) : size \in 0..MaxSize, depth \in 0..MaxDepth}
         \cup {Blob(depth, value) : depth \in 0..MaxDepth, value \in Values}
         \cup {Other}

States == {"wants_level0_list", "wants_level0_or_entry_list", "wants_id",
           "wants_attr_list", "wants_key", "wants_value"}
Results == {"parsing", "ok", "rejected", "incomplete"}
Message == [id : Values, payload : Payloads]

TypeOK ==
  /\ fed \in Seq(Nodes)
  /\ state \in States
  /\ id \in Values \cup {"null"}
  /\ res \in Seq(Seq(Message))
  /\ result \in Results

Init ==
  /\ fed = << >>
  /\ state = "wants_level0_list"
  /\ id = "null"
  /\ res = << >>
  /\ result = "parsing"
-----------------------------------------------------------------------------
\* The node is what the state wants: go on.
Accept(to, newId, newRes) ==
  /\ state' = to
  /\ id' = newId
  /\ res' = newRes
  /\ UNCHANGED result

\* CHAT_RETURN_ERROR(errc::redis_parse_error).
Reject ==
  /\ result' = "rejected"
  /\ UNCHANGED <<state, id, res>>

Level0List(node) ==
  /\ state = "wants_level0_list"
  /\ IF node.type = "array" /\ node.depth = 0
     THEN Accept("wants_level0_or_entry_list", id, Append(res, << >>))
     ELSE Reject

\* Mutant: an entry may begin with its attribute list.
EntryWithoutId(node) ==
  /\ state = "wants_level0_or_entry_list"
  /\ IF node.type = "array" /\ node.depth = 0
     THEN Accept(state, id, Append(res, << >>))
     ELSE IF node.type = "array" /\ node.depth = 1 /\ node.size = 2
          THEN Accept("wants_attr_list", id, res)
          ELSE Reject

\* Mutant: a new response is taken for another entry of the one before.
EntryInSameBatch(node) ==
  /\ state = "wants_level0_or_entry_list"
  /\ IF node.type = "array" /\ node.depth = 0
     THEN Accept(state, id, res)
     ELSE IF node.type = "array" /\ node.depth = 1 /\ node.size = 2
          THEN Accept("wants_id", id, res)
          ELSE Reject

\* A new response, or a new message of the current one.
Level0OrEntryList(node) ==
  /\ state = "wants_level0_or_entry_list"
  /\ IF node.type = "array" /\ node.depth = 0
     THEN Accept(state, id, Append(res, << >>))
     ELSE IF node.type = "array" /\ node.depth = 1 /\ node.size = 2
          THEN Accept("wants_id", id, res)
          ELSE Reject

Id(node) ==
  /\ state = "wants_id"
  /\ IF node.type = "blob" /\ node.depth = 2
     THEN Accept("wants_attr_list", node.value, res)
     ELSE Reject

AttrList(node) ==
  /\ state = "wants_attr_list"
  /\ IF node.type = "array" /\ node.depth = 2 /\ node.size = 2
     THEN Accept("wants_key", id, res)
     ELSE Reject

Key(node) ==
  /\ state = "wants_key"
  /\ IF node.type = "blob" /\ node.depth = 3 /\ node.value = "payload"
     THEN Accept("wants_value", id, res)
     ELSE Reject

\* Mutant: a message goes on wanting values.
ValueWithoutReset(node) ==
  /\ state = "wants_value"
  /\ IF node.type = "blob" /\ node.depth = 3 /\ node.value \in Payloads
     THEN Accept("wants_key", id,
                 [res EXCEPT ![Len(res)] =
                    Append(@, [id |-> id, payload |-> node.value])])
     ELSE Reject

\* The message is complete: res.back() takes it, with the id read before.
Value(node) ==
  /\ state = "wants_value"
  /\ IF node.type = "blob" /\ node.depth = 3 /\ node.value \in Payloads
     THEN Accept("wants_level0_or_entry_list", "null",
                 [res EXCEPT ![Len(res)] =
                    Append(@, [id |-> id, payload |-> node.value])])
     ELSE Reject

\* One round of the loop over the nodes.
Feed(node) ==
  /\ result = "parsing"
  /\ Len(fed) < MaxNodes
  /\ node.type = "array" /\ node.depth = 0 => Len(res) < MaxResponses
  /\ fed' = Append(fed, node)
  /\ \/ Level0List(node) \/ Level0OrEntryList(node)
     \/ Id(node) \/ AttrList(node) \/ Key(node) \/ Value(node)

\* The nodes are used up: a message that has been begun is an error.
End ==
  /\ result = "parsing"
  /\ result' = IF state \in {"wants_level0_list", "wants_level0_or_entry_list"}
               THEN "ok" ELSE "incomplete"
  /\ UNCHANGED <<fed, state, id, res>>

\* The function has returned.
Returned == result # "parsing" /\ UNCHANGED vars

Next == (\E node \in Nodes : Feed(node)) \/ End \/ Returned

Spec == Init /\ [][Next]_vars
-----------------------------------------------------------------------------
\* The two dereferences of the parser are safe on every input: when a message
\* is complete its id has been read, and there is a batch to add it to; the
\* pointer is null again between two messages.
DereferencesSafe ==
  /\ state \in {"wants_attr_list", "wants_key", "wants_value"} <=> id # "null"
  /\ state = "wants_level0_list" <=> res = << >>

IInv == TypeOK /\ DereferencesSafe
=============================================================================
