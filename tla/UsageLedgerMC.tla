---------------------------- MODULE UsageLedgerMC ----------------------------
(* UsageLedger for TLC: three calls of two agents under a day's token cap  *)
(* for everybody and a month's cost cap for one agent, over three days of  *)
(* one month, with a price from the second day.                            *)
EXTENDS UsageLedger

CONSTANTS c1, c2, c3, a1, a2

CallsMC    == {c1, c2, c3}
AgentsMC   == {a1, a2}
AgentOfMC  == [c \in CallsMC |-> IF c = c3 THEN a2 ELSE a1]
PoliciesMC == {[unit |-> "tokens", max |-> 4, window |-> "day",   agents |-> AgentsMC],
               [unit |-> "cost",   max |-> 5, window |-> "month", agents |-> {a1}]}
EstimatesMC == {2, 3}
UsagesMC    == {[total |-> 1, input |-> 1, output |-> 0],
                [total |-> 5, input |-> 3, output |-> 2]}
=============================================================================
