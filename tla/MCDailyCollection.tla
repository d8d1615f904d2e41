-------------------------- MODULE MCDailyCollection --------------------------
(***************************************************************************)
(* Small instances of DailyCollection for TLC.                             *)
(***************************************************************************)
EXTENDS DailyCollection

\* Both symbols listed from the first day; or one, and one later.
OldListings == [s \in Symbols |-> 1]
NewListing  == [s \in Symbols |-> IF s = CHOOSE x \in Symbols : TRUE THEN 1 ELSE 2]
=============================================================================
