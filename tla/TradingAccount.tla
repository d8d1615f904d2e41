--------------------------- MODULE TradingAccount ---------------------------
(***************************************************************************)
(* What the trader promises its owner, whatever happens inside it: an      *)
(* account whose shares are bought out of money that is there, for symbols *)
(* not yet held and within the limit of positions, and sold as a whole;    *)
(* money changes by exactly what is traded.                                *)
(***************************************************************************)
EXTENDS Integers, FiniteSets

CONSTANTS Symbols, Prices, Money, Limit

VARIABLES money, shares

accountVars == <<money, shares>>

Holdings == {s \in Symbols : shares[s] > 0}

AInit == money = Money /\ shares = [s \in Symbols |-> 0]

Buy(s, px) ==
  /\ shares[s] = 0 /\ shares'[s] > 0
  /\ Cardinality(Holdings) < Limit
  /\ px * shares'[s] <= money
  /\ money' = money - px * shares'[s]
  /\ shares' = [shares EXCEPT ![s] = shares'[s]]

Sell(s, px) ==
  /\ shares[s] > 0
  /\ money' = money + px * shares[s]
  /\ shares' = [shares EXCEPT ![s] = 0]

ANext == \E s \in Symbols, px \in Prices : Buy(s, px) \/ Sell(s, px)

ASpec == AInit /\ [][ANext]_accountVars
=============================================================================
