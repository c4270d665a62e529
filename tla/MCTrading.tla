------------------------------ MODULE MCTrading ------------------------------
(* Instances for TLC of the modules about placing and recording trades that *)
(* share no state.  A behaviour is one of a single module, named by part;   *)
(* the others stay in their initial states.                                 *)
EXTENDS RiskCounters, MCRiskGate, BotSupervisor, ForexRfq, BarAggregator, TLC

CONSTANTS a1, a2, d1, d2, schwab, alpaca

VARIABLE part

\* Two buys of two thirds of the buying power.
Costs == (a1 :> 2) @@ (a2 :> 2)

\* 10 s, 30 s and 60 s in polls of 8 s.
Delays == <<1, 3, 7>>

\* Equal feeds, and equal placements (which cost the same).
Feeds == Permutations({schwab, alpaca}) \cup Permutations({a1, a2})

tradingVars == <<part, riskVars, gateVars, botVars, rfqVars, barVars>>

Rests(p, v) == part # p => UNCHANGED v

TradingInit ==
    /\ part \in {"risk", "gate", "bot", "rfq", "bars"}
    /\ RiskInit /\ BotInit /\ RfqInit /\ BarInit
    /\ RiskGateInit
    /\ part # "gate" => given = Benign

TradingNext ==
    /\ UNCHANGED part
    /\ \/ part = "risk" /\ RiskNext
       \/ part = "gate" /\ RiskGateNext
       \/ part = "bot" /\ BotNext
       \/ part = "rfq" /\ RfqNext
       \/ part = "bars" /\ BarNext
    /\ Rests("risk", riskVars) /\ Rests("gate", gateVars) /\ Rests("bot", botVars)
    /\ Rests("rfq", rfqVars) /\ Rests("bars", barVars)

TradingSpec == TradingInit /\ [][TradingNext]_tradingVars

=============================================================================
