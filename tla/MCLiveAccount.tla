---------------------------- MODULE MCLiveAccount ----------------------------
(***************************************************************************)
(* The small instances of LiveTrader, seen as an account.                  *)
(***************************************************************************)
EXTENDS LiveAccount, MCLiveTrader
=============================================================================
