------------------------------ MODULE MCFillsOco ------------------------------
(* Instances for TLC of FillLedger and OcoOrders, which share no state: a   *)
(* behaviour is one of the module named by part, while the other stays in   *)
(* its initial state.                                                       *)
EXTENDS MCFillLedger, OcoOrders

CONSTANTS i1, i2

VARIABLE part

partVars == <<part, ledgerVars, ocoVars>>

FillsOcoInit ==
    /\ part \in {"fills", "oco"}
    /\ FillInit /\ OcoInit
    /\ part # "oco" => ids = "broker" /\ ~cashB

FillsOcoNext ==
    /\ UNCHANGED part
    /\ \/ part = "fills" /\ FillNext /\ UNCHANGED ocoVars
       \/ part = "oco"   /\ OcoNext  /\ UNCHANGED ledgerVars

\* The fairness of both modules: see FillFairSpec and OcoFairness.
FillsOcoSpec ==
    /\ FillsOcoInit /\ [][FillsOcoNext]_partVars
    /\ WF_ledgerVars(part = "fills" /\ Sweep)
    /\ OcoFairness

\* Every variable has its type.
FillsOcoTypeOK == FillTypeOK /\ OcoTypeOK
=============================================================================
