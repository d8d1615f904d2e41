-------------------------- MODULE LiveTraderHistory --------------------------
(***************************************************************************)
(* LiveTrader with a record of what was traded, which no restart forgets:  *)
(* the yardstick for the limits whose counters the trader keeps in         *)
(* daily_stats and has to carry over a restart.                            *)
(***************************************************************************)
EXTENDS LiveTrader

VARIABLES
  soldAt,     \* the time of the latest sale of each symbol sold
  bought,     \* <<day, number of buys on that day>>
  lossDay     \* the latest day on which the loss guard blocked entries; -1

histVars == <<soldAt, bought, lossDay>>

Running == phase \in HandlerPhases

BoughtNow == {s \in Symbols : Running /\ held'[s] > held[s]}
SoldNow   == {s \in Symbols : Running /\ held'[s] < held[s] /\ phase' # "down"}

HInit == Init /\ soldAt = <<>> /\ bought = <<0, 0>> /\ lossDay = -1

Observe ==
  /\ soldAt' = [s \in DOMAIN soldAt \cup SoldNow |->
                  IF s \in SoldNow THEN now ELSE soldAt[s]]
  /\ bought' = LET before == IF bought[1] = Day(now') THEN bought[2] ELSE 0
               IN <<Day(now'), before + Cardinality(BoughtNow)>>
  /\ lossDay' = IF phase = "guard" /\ phase' # "down" /\ stats'.blocked
                THEN Day(now) ELSE lossDay

HSpec == HInit /\ [][Next /\ Observe]_<<vars, histVars>>

\* No symbol is bought again before the cooldown since its latest sale has
\* passed, whether or not the trader was restarted in between.
CooldownHolds ==
  [][\A s \in BoughtNow : s \in DOMAIN soldAt => now - soldAt[s] >= Cooldown]_vars

\* On no day are there more buys than max_daily_new_entries, whether or not
\* the trader was restarted during the day.
DailyEntryLimit == bought[2] <= MaxDailyNewEntries

\* After the daily loss limit was hit nothing more is bought on that day,
\* whether or not the trader was restarted in between.
LossBlockHolds == [][BoughtNow # {} => lossDay # Day(now)]_vars
=============================================================================
