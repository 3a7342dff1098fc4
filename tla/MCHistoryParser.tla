--------------------------- MODULE MCHistoryParser ---------------------------
(* Bounded instances of HistoryParser: all inputs of up to a dozen nodes. *)
EXTENDS HistoryReference, SequencesExt

Messages == [id : Ids, payload : Payloads]
Batches == BoundedSeq(Messages, 2)
SmallAnswers == BoundedSeq(Batches, 2)
=============================================================================
