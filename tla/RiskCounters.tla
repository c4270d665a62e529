----------------------------- MODULE RiskCounters -----------------------------
(***************************************************************************)
(* The in-flight risk counters of one account: the day trades that remain  *)
(* and the buying power committed, both in Redis, moved by place_order     *)
(* around its dispatch, read by the risk gate of other placements, and     *)
(* swept and reset by the discoverer.                                      *)
(*                                                                         *)
(* Every Redis command is one action.  The Redis client repeats a command  *)
(* whose reply was lost, so DECR and INCRBYFLOAT may be executed twice.  A *)
(* hang-up or a crash is a placement that takes no further step: nothing   *)
(* obliges any to.                                                         *)
(***************************************************************************)
EXTENDS Integers, FiniteSets, FiniteSetsExt

CONSTANTS
    Buys,       \* POST /orders calls, all of them buys with a limit price
    Notional,     \* what each of them costs
    BuyingPower,  \* the account's buying power at the broker
    DayTrades,    \* day trades the broker reports as remaining
    PdtLimits,    \* may pdt_warn_remaining be configured, may it not?
    Unset,        \* a key that does not exist
    MaxResets,    \* bound: sweeps, and expiries of the committed counter
    MaxRepeats    \* bound: commands executed twice

\* Quantity and limit price are positive; a key that does not exist is no number.
ASSUME RiskAssumption ==
    /\ IsFiniteSet(Buys) /\ Notional \in [Buys -> Nat]
    /\ BuyingPower \in Int /\ Unset \notin Int

VARIABLES
    at,         \* where each placement is
    base,       \* the buying power its gate read from the broker
    pdt,        \* risk:pdt:{account}
    bp,         \* risk:bp_committed:{account}; absent is 0
    bpExpires,  \* does that key have a time to live?
    pdtTokens,  \* orders whose risk:pdt:tok:... key exists
    bpTokens,   \* orders whose risk:bp:tok:... key exists
    holds,      \* tokens place_order got back: <<order, "pdt" or "bp">>
    held,       \* orders the broker withholds buying power for
    sweep,      \* where the discoverer is with the account
    resets, repeats,
    counted,    \* history: orders whose notional bp should contain
    overdrawn,  \* history: orders given back by bp after a reset had done so
    seen        \* history: the orders counted when each gate read bp

progress == <<at, base, holds>>
counters == <<pdt, bp, bpExpires, pdtTokens, bpTokens>>
history == <<counted, overdrawn, seen>>
riskVars == <<progress, counters, held, sweep, resets, repeats, history>>

Total(S) == MapThenSumSet(LAMBDA o : Notional[o], S)
PdtCount == IF pdt = Unset THEN 0 ELSE pdt
Times    == {1} \cup (IF repeats < MaxRepeats THEN {2} ELSE {})
-----------------------------------------------------------------------------
(* The gate: _check_buying_power and _check_pdt.                           *)

GateReadsBroker(o) ==
    /\ at[o] = "idle"
    /\ at' = [at EXCEPT ![o] = "gating"]
    /\ base' = [base EXCEPT ![o] = BuyingPower - Total(held)]
    /\ UNCHANGED <<holds, counters, held, sweep, resets, repeats, history>>

FitsBuyingPower(o) == Notional[o] <= base[o] - bp

\* A day-trade count that is absent is asked of the broker.
DayTradesLeft == IF pdt = Unset THEN DayTrades ELSE pdt

GateReadsCounters(o) ==
    /\ at[o] = "gating"
    /\ \E limited \in PdtLimits :
          at' = [at EXCEPT ![o] = IF FitsBuyingPower(o) /\ (limited => DayTradesLeft > 0)
                                    THEN "cleared" ELSE "blocked"]
    /\ seen' = [seen EXCEPT ![o] = counted]
    /\ UNCHANGED <<base, holds, counters, held, sweep, resets, repeats, counted, overdrawn>>
-----------------------------------------------------------------------------
(* place_order: take before the dispatch.                                  *)

\* decrement_pdt: SET of the token, then DECR, with nothing to seed it.
SetPdtToken(o) ==
    /\ at[o] = "cleared"
    /\ at' = [at EXCEPT ![o] = "pdt_token"]
    /\ pdtTokens' = pdtTokens \cup {o}
    /\ UNCHANGED <<base, holds, pdt, bp, bpExpires, bpTokens, held, sweep, resets, repeats, history>>

DecrementPdt(o) ==
    /\ at[o] = "pdt_token"
    /\ at' = [at EXCEPT ![o] = "pdt_taken"]
    /\ \E n \in Times : /\ pdt' = PdtCount - n
                        /\ repeats' = repeats + n - 1
    /\ holds' = holds \cup {<<o, "pdt">>}
    /\ UNCHANGED <<base, bp, bpExpires, pdtTokens, bpTokens, held, sweep, resets, history>>

\* An exception in either command, executed or not: logged, and no token to
\* give back.
PdtFails(o) ==
    /\ at[o] \in {"cleared", "pdt_token"}
    /\ at' = [at EXCEPT ![o] = "pdt_taken"]
    /\ \/ UNCHANGED pdt
       \/ at[o] = "pdt_token" /\ pdt' = PdtCount - 1
    /\ UNCHANGED <<base, holds, bp, bpExpires, pdtTokens, bpTokens, held, sweep, resets, repeats, history>>

\* commit_bp: SET of the token, then INCRBYFLOAT.
SetBpToken(o) ==
    /\ at[o] = "pdt_taken"
    /\ at' = [at EXCEPT ![o] = "bp_token"]
    /\ bpTokens' = bpTokens \cup {o}
    /\ UNCHANGED <<base, holds, pdt, bp, bpExpires, pdtTokens, held, sweep, resets, repeats, history>>

CommitBp(o) ==
    /\ at[o] = "bp_token"
    /\ at' = [at EXCEPT ![o] = "calling"]
    /\ \E n \in Times : /\ bp' = bp + n * Notional[o]
                        /\ repeats' = repeats + n - 1
    /\ holds' = holds \cup {<<o, "bp">>}
    /\ counted' = counted \cup {o}
    /\ UNCHANGED <<base, pdt, bpExpires, pdtTokens, bpTokens, held, sweep, resets, overdrawn, seen>>

BpFails(o) ==
    /\ at[o] \in {"pdt_taken", "bp_token"}
    /\ at' = [at EXCEPT ![o] = "calling"]
    /\ \/ UNCHANGED <<bp, counted>>
       \/ at[o] = "bp_token" /\ bp' = bp + Notional[o] /\ counted' = counted \cup {o}
    /\ UNCHANGED <<base, holds, pdt, bpExpires, pdtTokens, bpTokens, held, sweep, resets, repeats, overdrawn, seen>>
-----------------------------------------------------------------------------
(* The dispatch and what follows it.                                       *)

Accepted(o) ==
    /\ at[o] = "calling"
    /\ at' = [at EXCEPT ![o] = "finalize_pdt"]
    /\ held' = held \cup {o}
    /\ UNCHANGED <<base, holds, counters, sweep, resets, repeats, history>>

\* BrokerSidecarTimeout or Unavailable, which every gRPC error becomes, a
\* rejection too: the counters stay.
Unanswered(o) ==
    /\ at[o] = "calling"
    /\ at' = [at EXCEPT ![o] = "pending_unknown"]
    /\ held' \in {held, held \cup {o}}
    /\ UNCHANGED <<base, holds, counters, sweep, resets, repeats, history>>

\* Any other exception.
Raised(o) ==
    /\ at[o] = "calling"
    /\ at' = [at EXCEPT ![o] = "revert_pdt"]
    /\ UNCHANGED <<base, holds, counters, held, sweep, resets, repeats, history>>

\* The Lua script: only while the token exists, so a repetition does nothing.
PdtGivenBack(o) == <<o, "pdt">> \in holds /\ o \in pdtTokens

\* revert_pdt; it may fail, which is logged.
RevertPdt(o) ==
    /\ at[o] = "revert_pdt"
    /\ at' = [at EXCEPT ![o] = "revert_bp"]
    /\ \/ PdtGivenBack(o) /\ pdt' = PdtCount + 1 /\ pdtTokens' = pdtTokens \ {o}
       \/ UNCHANGED <<pdt, pdtTokens>>
    /\ UNCHANGED <<base, holds, bp, bpExpires, bpTokens, held, sweep, resets, repeats, history>>

\* Mutant: INCRBYFLOAT of -notional whether or not the token is still there.
BpGivenBackBlindly(o) == TRUE

BpGivenBack(o) == <<o, "bp">> \in holds /\ o \in bpTokens

\* revert_bp, and the row set to 'rejected'.
RevertBp(o) ==
    /\ at[o] = "revert_bp"
    /\ at' = [at EXCEPT ![o] = "rejected"]
    /\ \/ /\ BpGivenBack(o)
          /\ bp' = bp - Notional[o]
          /\ bpTokens' = bpTokens \ {o}
          /\ counted' = counted \ {o}
          /\ overdrawn' = IF o \in counted \/ o \notin bpTokens THEN overdrawn
                          ELSE overdrawn \cup {o}
       \/ UNCHANGED <<bp, bpTokens, counted, overdrawn>>
    /\ UNCHANGED <<base, holds, pdt, bpExpires, pdtTokens, held, sweep, resets, repeats, seen>>

\* commit_pdt and commit_bp_finalize: the tokens go, the counters stay.
FinalizePdt(o) ==
    /\ at[o] = "finalize_pdt"
    /\ at' = [at EXCEPT ![o] = "finalize_bp"]
    /\ pdtTokens' \in {pdtTokens} \cup (IF <<o, "pdt">> \in holds THEN {pdtTokens \ {o}} ELSE {})
    /\ UNCHANGED <<base, holds, pdt, bp, bpExpires, bpTokens, held, sweep, resets, repeats, history>>

FinalizeBp(o) ==
    /\ at[o] = "finalize_bp"
    /\ at' = [at EXCEPT ![o] = "submitted"]
    /\ bpTokens' \in {bpTokens} \cup (IF <<o, "bp">> \in holds THEN {bpTokens \ {o}} ELSE {})
    /\ UNCHANGED <<base, holds, pdt, bp, bpExpires, pdtTokens, held, sweep, resets, repeats, history>>

Over == {"blocked", "pending_unknown", "rejected", "submitted"}
-----------------------------------------------------------------------------
(* The discoverer, and time.                                               *)

\* _unlink_risk_counter_orphans, the day-trade tokens; an error or the cap on
\* the iterations leaves some.
SweepPdtTokens ==
    /\ sweep = "idle" /\ resets < MaxResets
    /\ sweep' = "pdt_swept"
    /\ resets' = resets + 1
    /\ pdtTokens' \in SUBSET pdtTokens
    /\ UNCHANGED <<progress, pdt, bp, bpExpires, bpTokens, held, repeats, history>>

\* The same of the buying-power tokens.
SweepBpTokens ==
    /\ sweep = "pdt_swept"
    /\ sweep' = "swept"
    /\ bpTokens' \in SUBSET bpTokens
    /\ UNCHANGED <<progress, pdt, bp, bpExpires, pdtTokens, held, resets, repeats, history>>

\* SET 0 EX 120, whatever was committed since the scan.
ResetBp == bp' = 0 /\ bpExpires' = TRUE

\* reconcile_bp_committed.  reconcile_pdt has no caller.
ReconcileBp ==
    /\ sweep = "swept"
    /\ sweep' = "idle"
    /\ ResetBp
    /\ counted' = {}
    /\ UNCHANGED <<progress, pdt, pdtTokens, bpTokens, held, resets, repeats, overdrawn, seen>>

\* The discoverer was away for 120 s: INCRBYFLOAT does not renew the time.
BpExpires ==
    /\ bpExpires /\ resets < MaxResets
    /\ resets' = resets + 1
    /\ bp' = 0 /\ bpExpires' = FALSE
    /\ counted' = {}
    /\ UNCHANGED <<progress, pdt, pdtTokens, bpTokens, held, sweep, repeats, overdrawn, seen>>
-----------------------------------------------------------------------------
RiskInit ==
    /\ at = [o \in Buys |-> "idle"]
    /\ base = [o \in Buys |-> 0]
    /\ pdt = Unset /\ bp = 0 /\ bpExpires = FALSE
    /\ pdtTokens = {} /\ bpTokens = {} /\ holds = {} /\ held = {}
    /\ sweep = "idle" /\ resets = 0 /\ repeats = 0
    /\ counted = {} /\ overdrawn = {}
    /\ seen = [o \in Buys |-> {}]

RiskNext ==
    \/ \E o \in Buys :
          \/ GateReadsBroker(o) \/ GateReadsCounters(o)
          \/ SetPdtToken(o) \/ DecrementPdt(o) \/ PdtFails(o)
          \/ SetBpToken(o) \/ CommitBp(o) \/ BpFails(o)
          \/ Accepted(o) \/ Unanswered(o) \/ Raised(o)
          \/ RevertPdt(o) \/ RevertBp(o) \/ FinalizePdt(o) \/ FinalizeBp(o)
    \/ SweepPdtTokens \/ SweepBpTokens \/ ReconcileBp \/ BpExpires

RiskSpec == RiskInit /\ [][RiskNext]_riskVars
-----------------------------------------------------------------------------
RiskTypeOK ==
    /\ at \in [Buys -> Over \cup {"idle", "gating", "cleared", "pdt_token", "pdt_taken",
                 "bp_token", "calling", "finalize_pdt", "finalize_bp", "revert_pdt", "revert_bp"}]
    /\ base \in [Buys -> Int]
    /\ pdt = Unset \/ pdt \in Int
    /\ bp \in Int /\ bpExpires \in BOOLEAN
    /\ pdtTokens \in SUBSET Buys /\ bpTokens \in SUBSET Buys
    /\ holds \in SUBSET (Buys \X {"pdt", "bp"}) /\ held \in SUBSET Buys
    /\ sweep \in {"idle", "pdt_swept", "swept"}
    /\ resets \in Nat /\ repeats \in Nat
    /\ counted \in SUBSET Buys /\ overdrawn \in SUBSET Buys
    /\ seen \in [Buys -> SUBSET Buys]

\* The committed counter covers every order counted since its last reset; it
\* falls short only by orders a reset had already forgotten when revert_bp
\* took them out again (their token was written after the sweep had passed).
\* And a placement that may live at the broker keeps the day trade it took:
\* sweep, reverts of other orders and repeated commands never give it back.
CountersCover ==
    /\ bp >= Total(counted) - Total(overdrawn)
    /\ PdtCount <= -Cardinality({o \in Buys : /\ <<o, "pdt">> \in holds
                                              /\ at[o] \in {"calling", "finalize_pdt", "finalize_bp",
                                                            "pending_unknown", "submitted"}})

Cleared == {"cleared", "pdt_token", "pdt_taken", "bp_token", "calling", "finalize_pdt",
            "finalize_bp", "revert_pdt", "revert_bp", "pending_unknown", "rejected", "submitted"}

\* H3, as far as it goes: an order that cleared _check_buying_power fits beside
\* every order whose commit_bp came before its read of the counter.
EarlierCommitsSeen ==
    \A o \in Buys : at[o] \in Cleared /\ overdrawn = {}
                       => Notional[o] + Total(seen[o]) <= base[o]

\* What the counters and the gate's reads of them keep, whatever placements,
\* reverts, sweeps and resets run at once (risk_inflight_counters.py).
RiskHolds == RiskTypeOK /\ CountersCover /\ EarlierCommitsSeen
=============================================================================
