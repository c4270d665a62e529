---------------------------- MODULE MCFillLedger ----------------------------
(* Instances of FillLedger for TLC.                                         *)
EXTENDS FillLedger, TLC

CONSTANTS e1, e2, o1

\* Two executions of one order.
SameOrder == (e1 :> o1) @@ (e2 :> o1)
=============================================================================
