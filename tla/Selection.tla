------------------------------ MODULE Selection ------------------------------
(***************************************************************************)
(* A list comprehension with a condition, as pandas and Python filter rows *)
(* throughout this code: SelectSeq by a fold, which can be reasoned about. *)
(***************************************************************************)
EXTENDS Sequences, SequencesExt

\* The elements of q that are in S, in their order.
Kept(q, S) == FoldLeft(LAMBDA kept, x : IF x \in S THEN Append(kept, x) ELSE kept, <<>>, q)
=============================================================================
