--------------------------- MODULE OrderLifecycle ---------------------------
(***************************************************************************)
(* The life of an order of one broker account: POST /orders (place_order), *)
(* DELETE /orders/{id} (cancel_order), the consumer of the sidecar's event *)
(* stream, and the pending_submit watchdog, all of them writing the same   *)
(* row of the orders table, while the broker works the order.              *)
(*                                                                         *)
(* One SQL statement, or one transaction that nothing can interleave with  *)
(* because it starts by locking the row, is one action.  A handler that    *)
(* awaits Redis, the sidecar or a second transaction is several actions,   *)
(* joined by a program counter.                                            *)
(***************************************************************************)
EXTENDS Integers, Sequences, FiniteSets

CONSTANTS
    Orders,         \* client_order_ids
    Requests,       \* POST /orders calls, retries included
    OrderOf,        \* the client_order_id a request carries
    Cancels,        \* DELETE /orders/{id} calls
    CancelOf,       \* the order a DELETE names
    NoCancel,       \* cancel_requested_at IS NULL
    Qty,            \* the quantity of every order
    QueueSize,      \* capacity of the sidecar's event queue (10_000 there)
    MaxDisconnects, \* bound: how often the event stream breaks
    PartialReports, \* the statuses brokers report for a part-filled order
    SnapshotKeyedByClientId
                    \* does Order.order_id of a GetOrders answer hold the
                    \* client_order_id?  Every sidecar puts the broker's own
                    \* id there; the backend reads it as the client_order_id

ASSUME OrdersAssumption  == Orders # {} /\ OrderOf \in [Requests -> Orders]
ASSUME CancelsAssumption == CancelOf \in [Cancels -> Orders] /\ NoCancel \notin Cancels
ASSUME QtyAssumption     == Qty \in Nat \ {0}
ASSUME BoundsAssumption  == QueueSize \in Nat /\ MaxDisconnects \in Nat
ASSUME ReportsAssumption == /\ PartialReports # {}
                            /\ PartialReports \subseteq {"submitted", "partial"}
ASSUME KeyingAssumption  == SnapshotKeyedByClientId \in BOOLEAN

VARIABLES
    row,        \* orders table, by client_order_id
    pc,         \* where each place_order call is
    rpc,        \* what became of each PlaceOrder RPC at the sidecar
    cancel,     \* where each cancel_order call is, and whether its 5 s are up
    broker,     \* the order as the broker holds it
    link,       \* the consumer's stream to the sidecar
    stream,     \* events between the sidecar and the consumer
    lost,       \* history: orders of which an event never reached the consumer
    synth,      \* messages synthesised from a snapshot, not yet processed
    scan,       \* rows the watchdog read as stale, not yet reconciled
    lookup,     \* the row it reconciles and what GetOrders answered
    age,        \* how long ago each row was created
    breaks,     \* stream disconnects so far
    kill,       \* broker/kill_switch_enabled
    caught,     \* history: calls that were on their way when it was engaged
    swept       \* orders the post-dispatch kill-switch check tried to cancel

killVars == <<kill, caught, swept>>
consumerVars == <<link, stream, lost, synth, breaks>>
watchdogVars == <<scan, lookup>>
vars == <<row, pc, rpc, cancel, broker, link, stream, lost, synth, scan, lookup,
          age, breaks, killVars>>
-----------------------------------------------------------------------------
(* Statuses.  'expired' is treated everywhere as 'cancelled' is.           *)

Ended  == {"cancelled", "rejected", "inactive"}
Status == {"none", "pending_submit", "submitted", "partial", "filled"} \cup Ended

\* TERMINAL_STATUSES, and the statuses _update_order never leaves.
Terminal == {"filled"} \cup Ended

\* order_status_rank() of migration 0032; an absent row ranks below them all.
Rank(s) == CASE s = "none"                      -> -1
             [] s = "pending_submit"            -> 0
             [] s \in {"submitted", "inactive"} -> 1
             [] s = "partial"                   -> 3
             [] s = "filled"                    -> 4
             [] OTHER                           -> 5

\* `known` is: has the row its broker_order_id?
NoRow   == [st |-> "none", known |-> FALSE, filled |-> 0, last |-> 0, mark |-> NoCancel]
NewRow  == [NoRow EXCEPT !.st = "pending_submit"]
NoOrder == [st |-> "none", filled |-> 0, ver |-> 0]

\* Time stamps: the n-th change of an order at the broker happens at 2n, so
\* that a time between two changes can be named too.
At(b)    == 2 * b.ver
After(b) == 2 * b.ver + 1

ActivePc == {"admitted", "inserted", "calling", "answered", "marked"}
Pc == ActivePc \cup {"idle", "submitted", "pending_unknown", "retry", "error", "gone"}

Reports == {"submitted", "presubmitted", "partial", "filled"} \cup Ended
Events  == [o : Orders, st : Reports, filled : 0..Qty, exec : BOOLEAN, at : Nat]
-----------------------------------------------------------------------------
(* The broker and the sidecar's event queue (external to src/backend).     *)

\* put_nowait on the queue of the subscribed stream; full or no stream: lost.
Emit(o, b, st, exec) ==
    IF link # "down" /\ Len(stream) < QueueSize
      THEN /\ stream' = Append(stream, [o |-> o, st |-> st, filled |-> b.filled,
                                        exec |-> exec, at |-> At(b)])
           /\ UNCHANGED lost
      ELSE /\ lost' = lost \cup {o}
           /\ UNCHANGED stream

Moved(b, st, filled) == [st |-> st, filled |-> filled, ver |-> b.ver + 1]

\* A fill; the report is a status event or carries the execution's id.
BrokerFill(o) ==
    /\ broker[o].st = "working"
    /\ LET n == broker[o].filled + 1
           b == Moved(broker[o], IF n = Qty THEN "filled" ELSE "working", n)
       IN  \E exec \in BOOLEAN,
              st \in IF n = Qty THEN {"filled"} ELSE PartialReports :
             /\ broker' = [broker EXCEPT ![o] = b]
             /\ Emit(o, b, st, exec)
    /\ UNCHANGED <<row, pc, rpc, cancel, link, synth, scan, lookup, age, breaks, killVars>>

\* The order ends short of its quantity: cancelled, refused by the exchange...
BrokerEnd(o) ==
    /\ broker[o].st = "working"
    /\ \E st \in Ended :
         LET b == Moved(broker[o], st, broker[o].filled)
         IN  /\ broker' = [broker EXCEPT ![o] = b]
             /\ Emit(o, b, st, FALSE)
    /\ UNCHANGED <<row, pc, rpc, cancel, link, synth, scan, lookup, age, breaks, killVars>>
-----------------------------------------------------------------------------
(* place_order.                                                            *)

\* Kill switch, maintenance, gate, caps and nonce let the call through.
PlaceAdmit(r) ==
    /\ pc[r] = "idle"
    /\ ~kill
    /\ pc' = [pc EXCEPT ![r] = "admitted"]
    /\ UNCHANGED <<row, rpc, cancel, broker, age, killVars, consumerVars, watchdogVars>>

\* Mutant: an existing row does not stop the dispatch.
PlaceInsertAlways(r) ==
    /\ pc[r] = "admitted"
    /\ row' = [row EXCEPT ![OrderOf[r]] = IF @.st = "none" THEN NewRow ELSE @]
    /\ pc' = [pc EXCEPT ![r] = "inserted"]
    /\ UNCHANGED <<rpc, cancel, broker, age, killVars, consumerVars, watchdogVars>>

\* INSERT ... ON CONFLICT (account_id, client_order_id) DO NOTHING, committed.
PlaceInsert(r) ==
    LET o == OrderOf[r] IN
    /\ pc[r] = "admitted"
    /\ \/ /\ row[o].st = "none"
          /\ row' = [row EXCEPT ![o] = NewRow]
          /\ pc' = [pc EXCEPT ![r] = "inserted"]
       \/ /\ row[o].st # "none"
          /\ pc' = [pc EXCEPT ![r] = "retry"]
          /\ UNCHANGED row
    /\ UNCHANGED <<rpc, cancel, broker, age, killVars, consumerVars, watchdogVars>>

PlaceSend(r) ==
    /\ pc[r] = "inserted"
    /\ pc' = [pc EXCEPT ![r] = "calling"]
    /\ rpc' = [rpc EXCEPT ![r] = "sent"]
    /\ UNCHANGED <<row, cancel, broker, age, killVars, consumerVars, watchdogVars>>

\* An exception that is neither Timeout nor Unavailable.  Every gRPC error is
\* turned into one of those two, so it was raised before anything was sent.
PlaceError(r) ==
    /\ pc[r] = "inserted"
    /\ row' = [row EXCEPT ![OrderOf[r]].st = "rejected"]
    /\ pc' = [pc EXCEPT ![r] = "error"]
    /\ UNCHANGED <<rpc, cancel, broker, age, killVars, consumerVars, watchdogVars>>

\* The sidecar's PlaceOrder: it answers with the order it already has for this
\* orderRef, places a new one, or aborts.  It may run after the caller gave up.
SidecarPlace(r) ==
    LET o == OrderOf[r]
        b == Moved(broker[o], "working", 0)
    IN
    /\ rpc[r] = "sent"
    /\ \/ /\ broker[o].st # "none"
          /\ rpc' = [rpc EXCEPT ![r] = "placed"]
          /\ UNCHANGED <<broker, stream, lost>>
       \/ /\ broker[o].st = "none"
          /\ rpc' = [rpc EXCEPT ![r] = "placed"]
          /\ broker' = [broker EXCEPT ![o] = b]
          /\ \E st \in {"submitted", "presubmitted"} : Emit(o, b, st, FALSE)
       \/ /\ rpc' = [rpc EXCEPT ![r] = "aborted"]
          /\ UNCHANGED <<broker, stream, lost>>
    /\ UNCHANGED <<row, pc, cancel, link, synth, scan, lookup, age, breaks, killVars>>

PlaceReply(r) ==
    /\ pc[r] = "calling"
    /\ rpc[r] = "placed"
    /\ pc' = [pc EXCEPT ![r] = "answered"]
    /\ UNCHANGED <<row, rpc, cancel, broker, age, killVars, consumerVars, watchdogVars>>

\* Mutant: a timeout is taken for an acceptance.
PlaceNoReplyOptimistic(r) ==
    /\ pc[r] = "calling"
    /\ row' = [row EXCEPT ![OrderOf[r]].st = "submitted"]
    /\ pc' = [pc EXCEPT ![r] = "pending_unknown"]
    /\ UNCHANGED <<rpc, cancel, broker, age, killVars, consumerVars, watchdogVars>>

\* BrokerSidecarTimeout or BrokerSidecarUnavailable: the row is left alone.
PlaceNoReply(r) ==
    /\ pc[r] = "calling"
    /\ pc' = [pc EXCEPT ![r] = "pending_unknown"]
    /\ UNCHANGED <<row, rpc, cancel, broker, age, killVars, consumerVars, watchdogVars>>

\* _mark_order_submitted, whatever the row's status is by now.
MarkSubmitted(r) ==
    /\ pc[r] = "answered"
    /\ row' = [row EXCEPT ![OrderOf[r]].st = "submitted", ![OrderOf[r]].known = TRUE]
    /\ pc' = [pc EXCEPT ![r] = "marked"]
    /\ UNCHANGED <<rpc, cancel, broker, age, killVars, consumerVars, watchdogVars>>

\* Mutant: the kill switch is not read again.
PlaceRecheckSkipped(r) ==
    /\ pc[r] = "marked"
    /\ pc' = [pc EXCEPT ![r] = "submitted"]
    /\ UNCHANGED <<row, rpc, cancel, broker, age, killVars, consumerVars, watchdogVars>>

\* The kill switch once more, after the dispatch: cancel, best effort.
PlaceRecheck(r) ==
    /\ pc[r] = "marked"
    /\ pc' = [pc EXCEPT ![r] = "submitted"]
    /\ swept' = IF kill THEN swept \cup {OrderOf[r]} ELSE swept
    /\ UNCHANGED <<row, rpc, cancel, broker, age, kill, caught, consumerVars, watchdogVars>>

\* The client hangs up, or the process dies: CancelledError is no Exception.
PlaceGone(r) ==
    /\ pc[r] \in ActivePc
    /\ pc' = [pc EXCEPT ![r] = "gone"]
    /\ UNCHANGED <<row, rpc, cancel, broker, age, killVars, consumerVars, watchdogVars>>

EngageKillSwitch ==
    /\ ~kill
    /\ kill' = TRUE
    /\ caught' = {r \in Requests : pc[r] \in ActivePc \ {"marked"}}
    /\ UNCHANGED <<row, pc, rpc, cancel, broker, age, swept, consumerVars, watchdogVars>>
-----------------------------------------------------------------------------
(* cancel_order.  row.mark names the DELETE that wrote cancel_requested_at; *)
(* cancel[c].fresh: less than 5 s have passed since that DELETE began.      *)

\* Mutant: the cooldown is not looked at.
InFlightIgnored(m) == FALSE

InFlight(m) == m # NoCancel /\ cancel[m].fresh

\* SELECT ... FOR UPDATE NOWAIT, the checks, the mark and the commit.
CancelBegin(c) ==
    LET o == CancelOf[c]
        forwarded == /\ row[o].st \notin Terminal
                     /\ ~InFlight(row[o].mark)
                     /\ row[o].known
    IN
    /\ cancel[c].pc = "idle"
    /\ row[o].st # "none"
    /\ IF forwarded
         THEN /\ row' = [row EXCEPT ![o].mark = c]
              /\ cancel' = [cancel EXCEPT ![c] = [pc |-> "forwarding", fresh |-> TRUE]]
         ELSE /\ cancel' = [cancel EXCEPT ![c].pc = "turned_away"]
              /\ UNCHANGED row
    /\ UNCHANGED <<pc, rpc, broker, age, killVars, consumerVars, watchdogVars>>

\* The sidecar finds the order among the open ones and forwards the cancel.
CancelAccepted(c) ==
    /\ cancel[c].pc = "forwarding"
    /\ broker[CancelOf[c]].st = "working"
    /\ cancel' = [cancel EXCEPT ![c].pc = "accepted"]
    /\ UNCHANGED <<row, pc, rpc, broker, age, killVars, consumerVars, watchdogVars>>

\* accepted=False, Timeout or Unavailable: cancel_requested_at = NULL.
CancelFailed(c) ==
    /\ cancel[c].pc = "forwarding"
    /\ row' = [row EXCEPT ![CancelOf[c]].mark = NoCancel]
    /\ cancel' = [cancel EXCEPT ![c].pc = "failed"]
    /\ UNCHANGED <<pc, rpc, broker, age, killVars, consumerVars, watchdogVars>>

\* Any other exception, a hang-up or a crash leaves the mark behind.
CancelGone(c) ==
    /\ cancel[c].pc = "forwarding"
    /\ cancel' = [cancel EXCEPT ![c].pc = "gone"]
    /\ UNCHANGED <<row, pc, rpc, broker, age, killVars, consumerVars, watchdogVars>>

FiveSecondsPass(c) ==
    /\ cancel[c].fresh
    /\ cancel' = [cancel EXCEPT ![c].fresh = FALSE]
    /\ UNCHANGED <<row, pc, rpc, broker, age, killVars, consumerVars, watchdogVars>>
-----------------------------------------------------------------------------
(* The order event consumer.                                               *)

\* Mutant: the last event wins.
SettleLastWins(old, new) == IF old \in Terminal THEN old ELSE new

\* _update_order's CASE.
Settle(old, new) ==
    IF old \in Terminal \/ Rank(old) > Rank(new) THEN old ELSE new

\* Mutant: reported quantities are added up, as if they were not cumulative.
UpdateOrderAddsUp(r, e) ==
    IF e.at < r.last THEN r
    ELSE [r EXCEPT !.st     = Settle(r.st, e.st),
                   !.known  = TRUE,
                   !.filled = @ + e.filled,
                   !.last   = e.at]

\* _update_order: the whole UPDATE, its WHERE on last_event_at included.
UpdateOrder(r, e) ==
    IF e.at < r.last THEN r
    ELSE [r EXCEPT !.st     = Settle(r.st, e.st),
                   !.known  = TRUE,
                   !.filled = IF e.filled > @ THEN e.filled ELSE @,
                   !.last   = e.at]

\* Mutant: events find their row by broker_order_id only.
ProcessedByBrokerId(r, e) ==
    IF ~r.known \/ e.st = "presubmitted" \/ (r.st = e.st /\ ~e.exec)
      THEN r
      ELSE UpdateOrder(r, e)

\* _process_event: a status _normalize_status does not know raises, an echo
\* of the row's status without an execution is skipped, an order without a
\* row gets none.
Processed(r, e) ==
    IF \/ e.st = "presubmitted"
       \/ r.known /\ r.st = e.st /\ ~e.exec
       \/ r.st = "none"
      THEN r
      ELSE UpdateOrder(r, e)

\* Open the stream: from here on the sidecar queues events for us.
StreamOpen ==
    /\ link = "down"
    /\ link' = "opened"
    /\ UNCHANGED <<row, pc, rpc, cancel, broker, stream, lost, synth, scan, lookup, age,
                   breaks, killVars>>

\* The orders GetOrders answers with: the open ones, and from today's fills
\* the filled ones and those that ended after a part fill, as 'filled'.
Listed(o) == broker[o].st = "working" \/ broker[o].filled > 0

SnapshotStatus(b) == IF b.st = "working" THEN {"submitted"} \cup
                            (IF b.filled > 0 THEN PartialReports ELSE {"pending_submit"})
                     ELSE {"filled"}

\* get_orders, then the comparison with the statuses of the table.  A message
\* under the broker's id fails to parse or finds no row: it changes nothing.
StreamResync ==
    /\ link = "opened"
    /\ link' = "synced"
    /\ IF SnapshotKeyedByClientId
         THEN \E st \in [Orders -> Status] :
                /\ \A o \in Orders : IF Listed(o) THEN st[o] \in SnapshotStatus(broker[o])
                                                  ELSE st[o] = "none"
                /\ synth' = {[o |-> o, st |-> st[o], filled |-> broker[o].filled,
                              exec |-> FALSE, at |-> At(broker[o])] :
                              o \in {p \in Orders : Listed(p) /\ row[p].st # st[p]}}
         ELSE synth' = {}
    /\ UNCHANGED <<row, pc, rpc, cancel, broker, stream, lost, scan, lookup, age, breaks, killVars>>

ConsumeSynthetic(e) ==
    /\ link = "synced"
    /\ e \in synth
    /\ row' = [row EXCEPT ![e.o] = Processed(@, e)]
    /\ synth' = synth \ {e}
    /\ UNCHANGED <<pc, rpc, cancel, broker, link, stream, lost, scan, lookup, age, breaks, killVars>>

\* Drain the buffer, then tail: one queue, in the order the sidecar filled it.
Consume ==
    /\ link = "synced"
    /\ synth = {}
    /\ stream # <<>>
    /\ LET e == Head(stream) IN row' = [row EXCEPT ![e.o] = Processed(@, e)]
    /\ stream' = Tail(stream)
    /\ UNCHANGED <<pc, rpc, cancel, broker, link, lost, synth, scan, lookup, age, breaks, killVars>>

\* The stream ends or the backend restarts; what was queued is lost.
StreamBreak ==
    /\ link # "down"
    /\ breaks < MaxDisconnects
    /\ breaks' = breaks + 1
    /\ link' = "down"
    /\ stream' = <<>>
    /\ lost' = lost \cup {stream[i].o : i \in DOMAIN stream}
    /\ synth' = {}
    /\ UNCHANGED <<row, pc, rpc, cancel, broker, scan, lookup, age, killVars>>
-----------------------------------------------------------------------------
(* The pending_submit watchdog: at startup and every scan interval.        *)

\* 60 s make a row stale, 5 min an orphan.  deadline_seconds = 5 has ended
\* every RPC by then; the other steps of a call have no deadline.
Grow(o) ==
    /\ row[o].st # "none"
    /\ \A r \in Requests : OrderOf[r] = o => pc[r] # "calling"
    /\ \/ age[o] = "fresh" /\ age' = [age EXCEPT ![o] = "stale"]
       \/ age[o] = "stale" /\ age' = [age EXCEPT ![o] = "orphan"]
    /\ UNCHANGED <<row, pc, rpc, cancel, broker, killVars, consumerVars, watchdogVars>>

NoLookup == [o |-> "nobody", st |-> "none", filled |-> 0, at |-> 0, orphan |-> FALSE]

\* Mutant: the scan looks for rows of an age between the two thresholds.
WatchdogScanWindow ==
    LET stale == {o \in Orders : row[o].st = "pending_submit" /\ age[o] = "stale"} IN
    /\ scan = {}
    /\ lookup = NoLookup
    /\ stale # {}
    /\ scan' = {[o |-> o, orphan |-> age[o] = "orphan"] : o \in stale}
    /\ UNCHANGED <<row, pc, rpc, cancel, broker, lookup, age, killVars, consumerVars>>

\* _fetch_stale_orders; the age a row has now decides later on.
WatchdogScan ==
    LET stale == {o \in Orders : row[o].st = "pending_submit" /\ age[o] # "fresh"} IN
    /\ scan = {}
    /\ lookup = NoLookup
    /\ stale # {}
    /\ scan' = {[o |-> o, orphan |-> age[o] = "orphan"] : o \in stale}
    /\ UNCHANGED <<row, pc, rpc, cancel, broker, lookup, age, killVars, consumerVars>>

\* _reconcile_row: GetOrders answers, and the row's order is looked for.
WatchdogLookup(s) ==
    LET b == broker[s.o]
        found == SnapshotKeyedByClientId /\ Listed(s.o)
    IN
    /\ s \in scan
    /\ lookup = NoLookup
    /\ scan' = scan \ {s}
    /\ \E st \in IF found THEN SnapshotStatus(b) ELSE {"none"} :
         lookup' = [o |-> s.o, st |-> st, filled |-> b.filled, at |-> At(b),
                    orphan |-> s.orphan]
    /\ UNCHANGED <<row, pc, rpc, cancel, broker, age, killVars, consumerVars>>

\* GetOrders fails: the row waits for the next scan.
WatchdogBrokerError(s) ==
    /\ s \in scan
    /\ lookup = NoLookup
    /\ scan' = scan \ {s}
    /\ UNCHANGED <<row, pc, rpc, cancel, broker, lookup, age, killVars, consumerVars>>

\* _recover_via_synthetic_event, or, too old and not found, _escalate_to_rejected.
WatchdogResolve ==
    LET o == lookup.o IN
    /\ lookup # NoLookup
    /\ lookup' = NoLookup
    /\ \/ /\ lookup.st # "none"
          /\ row' = [row EXCEPT ![o] = Processed(@, [o |-> o, st |-> lookup.st,
                       filled |-> lookup.filled, exec |-> FALSE, at |-> lookup.at])]
       \/ /\ lookup.st = "none" /\ lookup.orphan /\ row[o].st = "pending_submit"
          /\ row' = [row EXCEPT ![o].st = "rejected", ![o].last = After(broker[o])]
       \/ /\ lookup.st = "none" /\ ~(lookup.orphan /\ row[o].st = "pending_submit")
          /\ UNCHANGED row
    /\ UNCHANGED <<pc, rpc, cancel, broker, scan, age, killVars, consumerVars>>

\* A restart forgets the scan.
WatchdogRestart ==
    /\ scan # {} \/ lookup # NoLookup
    /\ breaks < MaxDisconnects
    /\ breaks' = breaks + 1
    /\ scan' = {}
    /\ lookup' = NoLookup
    /\ UNCHANGED <<row, pc, rpc, cancel, broker, link, stream, lost, synth, age, killVars>>
-----------------------------------------------------------------------------
Init ==
    /\ row = [o \in Orders |-> NoRow]
    /\ pc = [r \in Requests |-> "idle"]
    /\ rpc = [r \in Requests |-> "none"]
    /\ cancel = [c \in Cancels |-> [pc |-> "idle", fresh |-> FALSE]]
    /\ broker = [o \in Orders |-> NoOrder]
    /\ link = "down"
    /\ stream = <<>>
    /\ lost = {}
    /\ synth = {}
    /\ scan = {}
    /\ lookup = NoLookup
    /\ age = [o \in Orders |-> "fresh"]
    /\ breaks = 0
    /\ kill = FALSE
    /\ caught = {}
    /\ swept = {}

PlaceStep(r) ==
    \/ PlaceAdmit(r) \/ PlaceInsert(r) \/ PlaceSend(r) \/ PlaceError(r)
    \/ SidecarPlace(r) \/ PlaceReply(r) \/ PlaceNoReply(r)
    \/ MarkSubmitted(r) \/ PlaceRecheck(r) \/ PlaceGone(r)

CancelStep(c) ==
    \/ CancelBegin(c) \/ CancelAccepted(c) \/ CancelFailed(c)
    \/ CancelGone(c) \/ FiveSecondsPass(c)

WatchdogStep ==
    \/ WatchdogScan \/ WatchdogResolve \/ WatchdogRestart
    \/ \E s \in scan : WatchdogLookup(s) \/ WatchdogBrokerError(s)

ConsumerStep ==
    \/ StreamOpen \/ StreamResync \/ Consume \/ StreamBreak
    \/ \E e \in synth : ConsumeSynthetic(e)

Next ==
    \/ \E r \in Requests : PlaceStep(r)
    \/ \E c \in Cancels : CancelStep(c)
    \/ \E o \in Orders : BrokerFill(o) \/ BrokerEnd(o) \/ Grow(o)
    \/ ConsumerStep
    \/ WatchdogStep
    \/ EngageKillSwitch

Spec == Init /\ [][Next]_vars

(***************************************************************************)
(* Fairness.  The tasks of the backend keep running (WF).  A GetOrders     *)
(* that is tried again and again is answered in the end (SF): the watchdog *)
(* gives a row up for this scan when it fails, and the next scan retries.  *)
(***************************************************************************)
WatchdogFairness ==
    /\ \A r \in Requests : WF_vars(PlaceReply(r) \/ PlaceNoReply(r))
    /\ \A o \in Orders : WF_vars(Grow(o))
    /\ WF_vars(WatchdogScan)
    /\ WF_vars(WatchdogResolve)
    /\ \A o \in Orders : WF_vars(\E s \in scan : s.o = o /\ (WatchdogLookup(s) \/ WatchdogBrokerError(s)))
    /\ \A o \in Orders : SF_vars(\E s \in scan : s.o = o /\ WatchdogLookup(s))

FairSpec == Spec /\ WatchdogFairness
-----------------------------------------------------------------------------
(* Properties.                                                             *)

Rows    == [st : Status, known : BOOLEAN, filled : 0..Qty, last : Nat,
            mark : Cancels \cup {NoCancel}]
Calls   == [pc : {"idle", "forwarding", "accepted", "failed", "gone", "turned_away"},
            fresh : BOOLEAN]
Held    == [st : {"none", "working", "filled"} \cup Ended, filled : 0..Qty, ver : Nat]
Synths  == [o : Orders, st : Status \ {"none"}, filled : 0..Qty, exec : BOOLEAN, at : Nat]
Lookups == [o : Orders, st : Status, filled : 0..Qty, at : Nat, orphan : BOOLEAN]

\* Every variable has its type.
TypeOK ==
    /\ row \in [Orders -> Rows]
    /\ pc \in [Requests -> Pc]
    /\ rpc \in [Requests -> {"none", "sent", "placed", "aborted"}]
    /\ cancel \in [Cancels -> Calls]
    /\ broker \in [Orders -> Held]
    /\ link \in {"down", "opened", "synced"}
    /\ stream \in Seq(Events)
    /\ lost \subseteq Orders
    /\ synth \subseteq Synths
    /\ scan \subseteq [o : Orders, orphan : BOOLEAN]
    /\ lookup \in {NoLookup} \cup Lookups
    /\ age \in [Orders -> {"fresh", "stale", "orphan"}]
    /\ breaks \in 0..MaxDisconnects
    /\ kill \in BOOLEAN
    /\ caught \subseteq Requests
    /\ swept \subseteq Orders

\* However often a client retries POST /orders with one client_order_id, and
\* wherever its calls are cut short, at most one of them reaches the sidecar.
AtMostOneDispatch ==
    \A r1, r2 \in Requests :
       OrderOf[r1] = OrderOf[r2] /\ rpc[r1] # "none" /\ rpc[r2] # "none" => r1 = r2

\* place_order implements PlaceOnce: the orders table is the record.
Once == INSTANCE PlaceOnce
          WITH recorded <- {o \in Orders : row[o].st # "none"},
               sent     <- {r \in Requests : rpc[r] # "none"}
RecordedThenSentOnce == Once!Spec

\* No order is sent, and none lives at the broker, without a committed row
\* that a restarted backend can find it by.
PersistedBeforeDispatch ==
    /\ \A r \in Requests : rpc[r] # "none" => row[OrderOf[r]].st # "none"
    /\ \A o \in Orders : broker[o].st # "none" => row[o].st # "none"

\* The row never says more than the broker does: what it claims was filled
\* was filled, and the end it shows ('rejected' apart, which the backend also
\* writes by itself) is how the order ended.
RowNeverAhead ==
    \A o \in Orders :
       /\ row[o].filled <= broker[o].filled
       /\ row[o].known => broker[o].st # "none"
       /\ row[o].st \in {"submitted", "partial"} => broker[o].st # "none"
       /\ row[o].st \in {"filled", "cancelled", "inactive"} => broker[o].st = row[o].st

\* When every event of an order has arrived, the row of a filled order has
\* its whole quantity: neither an echo, a duplicate, a stale time stamp nor a
\* resync hides an execution.  Unless the watchdog wrote the row off after the
\* last report: that stamps it with a time no report has.
WrittenOff(o) == row[o].last % 2 = 1
QuietRowHasFills ==
    \A o \in Orders :
       /\ link = "synced" /\ synth = {} /\ stream = <<>> /\ o \notin lost
       /\ broker[o].st = "filled" /\ ~WrittenOff(o)
       => row[o].filled = Qty

\* Only the place_order call that owns a row may lower its status's rank: no
\* order of stream, resync and watchdog messages does.  And a quantity once
\* recorded as executed is never taken back.
RankKept(o) ==
    \/ Rank(row'[o].st) >= Rank(row[o].st)
    \/ \E r \in Requests : OrderOf[r] = o /\ pc[r] = "answered" /\ pc'[r] = "marked"
RowNeverRegresses ==
    [][\A o \in Orders : RankKept(o) /\ row'[o].filled >= row[o].filled]_vars

\* Engaging the kill switch while place_order calls are under way leaves none
\* of them reported 'submitted' without a cancel having been tried.
KillSwitchSweeps ==
    \A r \in caught : pc[r] = "submitted" => OrderOf[r] \in swept

\* As long as no DELETE of an order failed, two DELETEs less than 5 s old
\* have not both been forwarded.
Forwarded(c) == cancel[c].pc \in {"forwarding", "accepted", "gone"}
CooldownAbsentFailures ==
    \A c1, c2 \in Cancels :
       /\ CancelOf[c1] = CancelOf[c2]
       /\ Forwarded(c1) /\ cancel[c1].fresh
       /\ Forwarded(c2) /\ cancel[c2].fresh
       /\ \A c \in Cancels : CancelOf[c] = CancelOf[c1] => cancel[c].pc # "failed"
       => c1 = c2

\* No row stays pending_submit for ever.
PendingSubmitResolves ==
    \A o \in Orders : row[o].st = "pending_submit" ~> row[o].st # "pending_submit"
-----------------------------------------------------------------------------
(* What docs and comments say of the program, and the program does not do. *)

\* The watchdog rejects a row only when the broker does not hold the order
\* (pending_submit_watchdog.py, phase5b design: recover it if found).
RejectedIsNotWorking ==
    \A o \in Orders : row[o].st = "rejected" => broker[o].st # "working"

\* Out-of-order delivery does not revert a terminal status (phase5b design).
TerminalIsFinal ==
    [][\A o \in Orders : row[o].st \in Terminal => row'[o].st = row[o].st]_vars
=============================================================================
