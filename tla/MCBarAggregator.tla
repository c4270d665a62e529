---------------------------- MODULE MCBarAggregator --------------------------
(* Instances of BarAggregator for TLC.                                      *)
EXTENDS BarAggregator, TLC

CONSTANTS schwab, alpaca
==============================================================================
