------------------------------ MODULE OcoOrders ------------------------------
(***************************************************************************)
(* One OCO order: POST /orders/oco places leg "A", then leg "B", and then  *)
(* records both; the orchestrator of whichever backend leads cancels the   *)
(* survivor once a leg is filled.  The instances are backend processes:    *)
(* one is replaced by another, and for a while both run.                   *)
(*                                                                         *)
(* The subscription that would call process_fill_event is a hook of the    *)
(* class which nothing implements: FillEvent calls it as the tests do.     *)
(***************************************************************************)
EXTENDS Integers, FiniteSets

CONSTANTS
    Instances,   \* backend processes
    LockTicks,   \* LOCK_TTL_SECONDS / RENEW_SECONDS
    MaxTicks,    \* bound: times RENEW_SECONDS pass
    MaxErrors,   \* bound: renewals that fail with a Redis error
    MaxStarts,   \* bound: starts of instances
    MaxEvents    \* bound: fill events

\* The lock outlives the sleep between two renewals: 60 s against 20 s.
ASSUME OcoAssumption == LockTicks \in Nat /\ LockTicks > 1

VARIABLES
    cashB,      \* does leg B come with cash_amount in place of qty?
    placing,    \* where place_oco_order is
    leg,        \* the legs at the broker
    excused,    \* history: legs whose placing or cancelling failed or was not answered
    ids,        \* does the link name the orders as the broker does ("broker",
                \* in the tests) or by the ids of the orders table ("local")?
    link,       \* oco_links.status
    lockLeft,   \* ticks oco:advisory_lock has to live, 0: no such key
    life,       \* of each instance: "down", "acquired" the lock, "up"
    leads,      \* OcoOrchestrator._leader
    renew,      \* is its renewal "off", "asleep" or "due"?
    known,      \* the status of the link in _active, "none" if it is not there
    waiting,    \* legs whose fill waits for the link's lock
    handling,   \* the fill that holds it: the leg, and the step it is at
    ticks, lockErrors, starts, events,
    updateLost   \* history: the UPDATE of a transition raised

placement == <<cashB, placing>>
market == <<leg, excused>>
lockVars == <<lockLeft, life, leads, renew>>
fillVars == <<known, waiting, handling>>
ocoBounds == <<ticks, lockErrors, starts, events, updateLost>>
ocoVars == <<placement, market, ids, link, lockVars, fillVars, ocoBounds>>

Legs     == {"A", "B"}
Other(l) == IF l = "A" THEN "B" ELSE "A"
Filled(l) == IF l = "A" THEN "LEG_A_FILLED" ELSE "LEG_B_FILLED"
Settled  == {"COMPLETED", "CANCEL_FAILED"}
NoneHandled   == [leg |-> "none", step |-> "none"]
-----------------------------------------------------------------------------
(* place_oco_order.                                                        *)

\* Leg A: any exception ends the request, also when the broker has the order.
PlaceA ==
    /\ placing = "idle"
    /\ \/ /\ placing' = "placed_a"
          /\ leg' = [leg EXCEPT !["A"] = "live"]
          /\ UNCHANGED excused
       \/ /\ placing' = "failed"
          /\ leg' \in {leg, [leg EXCEPT !["A"] = "live"]}
          /\ excused' = excused \cup {"A"}
    /\ UNCHANGED <<cashB, ids, link, lockVars, fillVars, ocoBounds>>

\* canonicalize_qty of leg B raises: 422, outside the try that cancels leg A.
RefuseCash ==
    /\ placing = "placed_a" /\ cashB
    /\ placing' = "failed"
    /\ UNCHANGED <<cashB, market, ids, link, lockVars, fillVars, ocoBounds>>

PlaceB ==
    /\ placing = "placed_a" /\ ~cashB
    /\ \/ /\ placing' = "recording"
          /\ leg' = [leg EXCEPT !["B"] = "live"]
          /\ UNCHANGED excused
       \/ /\ placing' = "undo_a"
          /\ leg' \in {leg, [leg EXCEPT !["B"] = "live"]}
          /\ excused' = excused \cup {"B"}
    /\ UNCHANGED <<cashB, ids, link, lockVars, fillVars, ocoBounds>>

\* Both orders and the link, in one transaction.
RecordLink ==
    /\ placing = "recording"
    /\ placing' = "done"
    /\ link' = "PENDING_BOTH"
    /\ UNCHANGED <<cashB, market, ids, lockVars, fillVars, ocoBounds>>

\* It fails: both legs are to be cancelled.
RecordLinkFails ==
    /\ placing = "recording"
    /\ placing' = "undo_both"
    /\ UNCHANGED <<cashB, market, ids, link, lockVars, fillVars, ocoBounds>>

AfterUndo(at) == IF at = "undo_both" THEN "undo_b" ELSE "failed"

\* The broker cancels what is live; an exception is logged, and that is all.
Cancelled(l) ==
    \/ /\ leg[l] = "live"
       /\ leg' = [leg EXCEPT ![l] = "cancelled"]
       /\ UNCHANGED excused
    \/ /\ excused' = excused \cup {l}
       /\ UNCHANGED leg

UndoA ==
    /\ placing \in {"undo_a", "undo_both"}
    /\ placing' = AfterUndo(placing)
    /\ Cancelled("A")
    /\ UNCHANGED <<cashB, ids, link, lockVars, fillVars, ocoBounds>>

UndoB ==
    /\ placing = "undo_b"
    /\ placing' = "failed"
    /\ Cancelled("B")
    /\ UNCHANGED <<cashB, ids, link, lockVars, fillVars, ocoBounds>>

\* The broker fills a leg.
LegFills(l) ==
    /\ leg[l] = "live"
    /\ leg' = [leg EXCEPT ![l] = "filled"]
    /\ UNCHANGED <<placement, excused, ids, link, lockVars, fillVars, ocoBounds>>
-----------------------------------------------------------------------------
(* The advisory lock.                                                      *)

\* SET NX EX 60.
MayAcquire == lockLeft = 0

Start(i) ==
    /\ life[i] = "down" /\ starts < MaxStarts
    /\ starts' = starts + 1
    /\ IF MayAcquire
         THEN /\ life' = [life EXCEPT ![i] = "acquired"]
              /\ lockLeft' = LockTicks
              /\ leads' = [leads EXCEPT ![i] = TRUE]
              /\ renew' = [renew EXCEPT ![i] = "asleep"]
         ELSE /\ life' = [life EXCEPT ![i] = "up"]
              /\ UNCHANGED <<lockLeft, leads, renew>>
    /\ UNCHANGED <<placement, market, ids, link, fillVars, ticks, lockErrors, events, updateLost>>

\* hydrate: a link that is recorded later is never added.
Hydrate(i) ==
    /\ life[i] = "acquired"
    /\ life' = [life EXCEPT ![i] = "up"]
    /\ known' = [known EXCEPT ![i] = IF link \in Settled THEN "none" ELSE link]
    /\ UNCHANGED <<placement, market, ids, link, lockLeft, leads, renew, waiting, handling, ocoBounds>>

\* The stored bytes are compared with a string: they never are the token.
ReadsAsToken == FALSE

\* _renew_lock, RENEW_SECONDS later.
Renew(i) ==
    /\ renew[i] = "due"
    /\ IF lockLeft > 0 /\ ReadsAsToken
         THEN /\ lockLeft' = LockTicks
              /\ renew' = [renew EXCEPT ![i] = "asleep"]
              /\ UNCHANGED leads
         ELSE /\ leads' = [leads EXCEPT ![i] = FALSE]
              /\ renew' = [renew EXCEPT ![i] = "off"]
              /\ UNCHANGED lockLeft
    /\ UNCHANGED <<placement, market, ids, link, life, fillVars, ocoBounds>>

\* A Redis error: logged, the instance goes on leading.
RenewFails(i) ==
    /\ renew[i] = "due" /\ lockErrors < MaxErrors
    /\ lockErrors' = lockErrors + 1
    /\ renew' = [renew EXCEPT ![i] = "asleep"]
    /\ UNCHANGED <<placement, market, ids, link, lockLeft, life, leads, fillVars, ticks, starts, events, updateLost>>

\* RENEW_SECONDS pass; a renewal that is due is not late by that much.
Tick ==
    /\ ticks < MaxTicks
    /\ \A i \in Instances : renew[i] # "due"
    /\ ticks' = ticks + 1
    /\ lockLeft' = IF lockLeft = 0 THEN 0 ELSE lockLeft - 1
    /\ renew' = [i \in Instances |-> IF renew[i] = "asleep" THEN "due" ELSE renew[i]]
    /\ UNCHANGED <<placement, market, ids, link, life, leads, fillVars, lockErrors, starts, events, updateLost>>

Ends(i) ==
    /\ life[i] # "down"
    /\ life' = [life EXCEPT ![i] = "down"]
    /\ leads' = [leads EXCEPT ![i] = FALSE]
    /\ renew' = [renew EXCEPT ![i] = "off"]
    /\ known' = [known EXCEPT ![i] = "none"]
    /\ waiting' = [waiting EXCEPT ![i] = {}]
    /\ handling' = [handling EXCEPT ![i] = NoneHandled]
    /\ UNCHANGED <<placement, market, ids, link, ocoBounds>>

\* stop: DEL of the lock by one who leads, whoever holds it.
Stop(i) == Ends(i) /\ lockLeft' = IF leads[i] THEN 0 ELSE lockLeft

Crash(i) == Ends(i) /\ UNCHANGED lockLeft
-----------------------------------------------------------------------------
(* process_fill_event.                                                     *)

\* Up to the wait for the link's lock.
FillEvent(i, l) ==
    /\ life[i] # "down" /\ events < MaxEvents
    /\ leg[l] = "filled"
    /\ leads[i]
    /\ known[i] \notin Settled \cup {"none"}
    /\ l \notin waiting[i]
    /\ events' = events + 1
    /\ waiting' = [waiting EXCEPT ![i] = @ \cup {l}]
    /\ UNCHANGED <<placement, market, ids, link, lockVars, known, handling, ticks, lockErrors, starts, updateLost>>

\* The status is looked at again, and changed in memory before the UPDATE.
TakeLock(i, l) ==
    /\ handling[i] = NoneHandled
    /\ l \in waiting[i]
    /\ waiting' = [waiting EXCEPT ![i] = @ \ {l}]
    /\ IF known[i] \in Settled
         THEN UNCHANGED <<known, handling>>
         ELSE /\ known' = [known EXCEPT ![i] = Filled(l)]
              /\ handling' = [handling EXCEPT ![i] = [leg |-> l, step |-> "marking"]]
    /\ UNCHANGED <<placement, market, ids, link, lockVars, ocoBounds>>

\* _transition: UPDATE ... AND status NOT IN the terminal ones.
Transition(old, new) == IF old \in Settled THEN old ELSE new

MarkFilled(i) ==
    /\ handling[i].step = "marking"
    /\ link' = Transition(link, known[i])
    /\ handling' = [handling EXCEPT ![i].step = "cancelling"]
    /\ UNCHANGED <<placement, market, ids, lockVars, known, waiting, ocoBounds>>

\* Mutant: the answer of the broker is not looked at.
VerdictIgnored(accepted) == "COMPLETED"

\* Mutant: a cancellation that fails leaves the link for a later fill.
VerdictOpen(accepted) == IF accepted THEN "COMPLETED" ELSE "LEG_A_FILLED"

Verdict(accepted) == IF accepted THEN "COMPLETED" ELSE "CANCEL_FAILED"

\* _cancel of the survivor.  The broker finds a live order by its own id.
CancelSurvivor(i) ==
    LET s == Other(handling[i].leg) IN
    /\ handling[i].step = "cancelling"
    /\ \E accepted \in BOOLEAN :
          /\ accepted => ids = "broker" /\ leg[s] = "live"
          /\ leg' = IF accepted THEN [leg EXCEPT ![s] = "cancelled"] ELSE leg
          /\ known' = [known EXCEPT ![i] = Verdict(accepted)]
    /\ handling' = [handling EXCEPT ![i].step = "settling"]
    /\ UNCHANGED <<placement, excused, ids, link, lockVars, waiting, ocoBounds>>

Settle(i) ==
    /\ handling[i].step = "settling"
    /\ link' = Transition(link, known[i])
    /\ handling' = [handling EXCEPT ![i] = NoneHandled]
    /\ UNCHANGED <<placement, market, ids, lockVars, known, waiting, ocoBounds>>

\* Postgres raises in a transition: the event ends there, and what was changed
\* in memory stays.
TransitionFails(i) ==
    /\ handling[i].step \in {"marking", "settling"} /\ ~updateLost
    /\ handling' = [handling EXCEPT ![i] = NoneHandled]
    /\ updateLost' = TRUE
    /\ UNCHANGED <<placement, market, ids, link, lockVars, known, waiting, ticks, lockErrors, starts, events>>
-----------------------------------------------------------------------------
OcoInit ==
    /\ cashB \in BOOLEAN /\ placing = "idle"
    /\ leg = [l \in Legs |-> "none"] /\ excused = {}
    /\ ids \in {"broker", "local"} /\ link = "none"
    /\ lockLeft = 0
    /\ life = [i \in Instances |-> "down"]
    /\ leads = [i \in Instances |-> FALSE]
    /\ renew = [i \in Instances |-> "off"]
    /\ known = [i \in Instances |-> "none"]
    /\ waiting = [i \in Instances |-> {}]
    /\ handling = [i \in Instances |-> NoneHandled]
    /\ ticks = 0 /\ lockErrors = 0 /\ starts = 0 /\ events = 0 /\ updateLost = FALSE

HandleFill(i) ==
    \/ \E l \in Legs : TakeLock(i, l)
    \/ MarkFilled(i) \/ CancelSurvivor(i) \/ Settle(i)

OcoNext ==
    \/ PlaceA \/ RefuseCash \/ PlaceB \/ RecordLink \/ RecordLinkFails \/ UndoA \/ UndoB
    \/ Tick
    \/ \E l \in Legs : LegFills(l)
    \/ \E i \in Instances :
          \/ Start(i) \/ Hydrate(i) \/ Renew(i) \/ RenewFails(i) \/ Stop(i) \/ Crash(i)
          \/ \E l \in Legs : FillEvent(i, l)
          \/ HandleFill(i) \/ TransitionFails(i)

\* The steps of a fill are awaits of an event loop that runs while it lives.
OcoFairness == \A i \in Instances : WF_ocoVars(HandleFill(i))

OcoSpec == OcoInit /\ [][OcoNext]_ocoVars /\ OcoFairness
-----------------------------------------------------------------------------
OcoTypeOK ==
    /\ cashB \in BOOLEAN
    /\ placing \in {"idle", "placed_a", "recording", "undo_a", "undo_both", "undo_b",
                    "done", "failed"}
    /\ leg \in [Legs -> {"none", "live", "filled", "cancelled"}]
    /\ excused \in SUBSET Legs
    /\ ids \in {"broker", "local"}
    /\ link \in Settled \cup {"none", "PENDING_BOTH", "LEG_A_FILLED", "LEG_B_FILLED"}
    /\ lockLeft \in 0..LockTicks
    /\ life \in [Instances -> {"down", "acquired", "up"}]
    /\ leads \in [Instances -> BOOLEAN]
    /\ renew \in [Instances -> {"off", "asleep", "due"}]
    /\ known \in [Instances -> Settled \cup {"none", "PENDING_BOTH", "LEG_A_FILLED", "LEG_B_FILLED"}]
    /\ waiting \in [Instances -> SUBSET Legs]
    /\ handling \in [Instances -> [leg : Legs \cup {"none"},
                                   step : {"none", "marking", "cancelling", "settling"}]]
    /\ updateLost \in BOOLEAN

\* A request that failed leaves no leg live that nothing names, unless the
\* broker did not confirm that leg's placing or cancelling; place_oco_order
\* has that gap for a leg B given in cash.
FailureLeavesNoLeg ==
    placing = "failed" /\ ~cashB => \A l \in Legs : leg[l] = "live" => l \in excused

\* A completed link has exactly one leg left that could trade: however many
\* instances led, and whichever fills raced, the other is cancelled.
CompletedMeansCancelled ==
    link = "COMPLETED" => \E l \in Legs : leg[l] = "filled" /\ leg[Other(l)] = "cancelled"

\* Two instances lead only after a renewal failed with a Redis error.
OneLeader == lockErrors = 0 => Cardinality({i \in Instances : leads[i]}) <= 1

\* The legs are accounted for: by a request that failed, by a link that is
\* completed, under one leader (api/orders.py: place_oco_order,
\* oco_orchestrator.py: process_fill_event).
OcoHolds == FailureLeavesNoLeg /\ CompletedMeansCancelled /\ OneLeader

\* A fill an instance has begun to handle gets its outcome, unless the process
\* ends or Postgres fails it.
FillGetsOutcome ==
    \A i \in Instances : handling[i] # NoneHandled ~> link \in Settled \/ life[i] = "down" \/ updateLost
=============================================================================
