---------------------------- MODULE MCLiveHistory ----------------------------
(***************************************************************************)
(* The small instances of LiveTrader, with the record of its trades.       *)
(***************************************************************************)
EXTENDS LiveTraderHistory, MCLiveTrader
=============================================================================
