---------------------------- MODULE LiveAccount ----------------------------
(***************************************************************************)
(* The trader as an account.  While no process runs, the account is what   *)
(* the state files say it is.                                              *)
(***************************************************************************)
EXTENDS LiveTrader

Offline == phase = "down" /\ Exists(disk.snapshot) /\ Exists(disk.positions)

AccountMoney == IF Offline THEN disk.snapshot.val.cash ELSE cash

AccountShares ==
  [s \in Symbols |-> IF Offline THEN disk.positions.val[s].qty ELSE held[s]]

Account == INSTANCE TradingAccount
             WITH Money <- InitialCash, Limit <- MaxPositions,
                  money <- AccountMoney, shares <- AccountShares

\* A trader whose orders are filled at once is an account, through every
\* event and every orderly restart (live_trader.run, restore_state,
\* mock_broker.submit_order).
ImplementsAccount == Account!ASpec
=============================================================================
