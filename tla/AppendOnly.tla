----------------------------- MODULE AppendOnly -----------------------------
(* What an audit log promises: records are added at its end, one at a time,  *)
(* and never change.                                                         *)
EXTENDS Sequences

CONSTANT Record
VARIABLE history

AddInit == history = <<>>

Add == \E r \in Record : history' = Append(history, r)

AppendOnlySpec == AddInit /\ [][Add]_history
=============================================================================
