------------------------------ MODULE MCServices ------------------------------
(* Instances for TLC of the modules about services that run on their own and  *)
(* share no state: the bar aggregator, the discoverer and the alerts.  A      *)
(* behaviour is one of a single module, named by part; the others stay in     *)
(* their initial states.                                                      *)
EXTENDS MCBarAggregator, Discoverer, Alerts

VARIABLE part

TwoFleets ==
    {("first" :> "ibkr") @@ ("second" :> "futu"), ("first" :> "schwab") @@ ("second" :> "alpaca")}

\* The symbols are alike: the rules begin with one of them.
AnySymbol == CHOOSE s \in Symbols : TRUE

servicesVars == <<part, barVars, broker, discovererVars, alertVars>>

Rests(p, v) == part # p => UNCHANGED v

ServicesInit ==
    /\ part \in {"bars", "discoverer", "alerts"}
    /\ BarInit /\ DiscovererInit /\ AlertsInit
    /\ part # "discoverer" => broker["first"] = "ibkr" /\ (\A l \in Labels : serves[l] = {})
    /\ \A r \in Rules : rule[r].symbol = AnySymbol
    /\ part # "alerts" => \A r \in Rules : ~Stored(r)

ServicesNext ==
    /\ UNCHANGED part
    /\ \/ part = "bars" /\ BarNext
       \/ part = "discoverer" /\ DiscovererNext
       \/ part = "alerts" /\ AlertsNext
    /\ Rests("bars", barVars) /\ Rests("discoverer", <<broker, discovererVars>>) /\ Rests("alerts", alertVars)

\* The fairness of each module, BarFairness, DiscovererFairness and
\* AlertsFairness, while the behaviour is one of it: a module at rest has no
\* step to be fair to.
Bars(A) == part = "bars" /\ A
Finds(A) == part = "discoverer" /\ A

ServicesSpec ==
    /\ ServicesInit /\ [][ServicesNext]_servicesVars
    /\ WF_barVars(Bars(Tick)) /\ WF_barVars(Bars(Restart)) /\ WF_barVars(Bars(Apply))
    /\ WF_barVars(Bars(FlushCollect))
    /\ WF_barVars(Bars(FlushInsert \/ FlushFail)) /\ SF_barVars(Bars(FlushInsert))
    /\ WF_barVars(Bars(FlushMark \/ FlushMarkError))
    /\ WF_barVars(Bars(\E c \in todo : FlushAck(c) \/ FlushAckError(c)))
    /\ \A l \in Labels : WF_discovererVars(Finds(Probes(l))) /\ WF_discovererVars(Finds(Lists(l)))
    /\ WF_discovererVars(Finds(PassBegins)) /\ WF_discovererVars(Finds(WriteAccounts))
    /\ WF_discovererVars(Finds(WriteValues)) /\ WF_discovererVars(Finds(WritePositions))
    /\ AlertsFairness

\* Every variable has its type.
ServicesTypeOK == BarTypeOK /\ DiscovererTypeOK /\ AlertsTypeOK
===============================================================================
