---------------------------- MODULE MCLiveTrader ----------------------------
(***************************************************************************)
(* Small instances of LiveTrader for TLC.                                  *)
(***************************************************************************)
EXTENDS LiveTrader

\* Every symbol in the sector "tech"; with a cap on it, or without.
OneSector   == [s \in Symbols |-> "tech"]
NoSectorCap == <<>>
TechCap     == [x \in {"tech"} |-> 1]
=============================================================================
