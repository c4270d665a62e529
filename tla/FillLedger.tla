----------------------------- MODULE FillLedger -----------------------------
(***************************************************************************)
(* How executions become rows of the fills table.  An execution at the     *)
(* broker is announced by three messages of the sidecar: a status, the     *)
(* execution's details and its commission.  The consumer writes fills,     *)
(* pending_fills while it does not know the order, and a commission buffer *)
(* in Redis; a sweeper moves rows from pending_fills to fills.             *)
(*                                                                         *)
(* Every execution is of one share, so the filled quantity of an order is  *)
(* the number of its executions.  One database transaction is one action:  *)
(* the consumer's and the sweeper's transactions on the same execution     *)
(* are serialised by the row lock of its DELETE FROM pending_fills and by  *)
(* ON CONFLICT (exec_id) DO NOTHING.                                       *)
(***************************************************************************)
EXTENDS Integers, Sequences, FiniteSets

CONSTANTS
    Execs,      \* execution ids
    Orders,     \* orders of one account at the broker
    OrderOf,    \* the order an execution belongs to
    MaxFaults   \* bound: failures, stream breaks, expiries and repetitions

ASSUME ExecsAssumption  == OrderOf \in [Execs -> Orders] /\ IsFiniteSet(Execs)
ASSUME FaultsAssumption == MaxFaults \in Nat

VARIABLES
    done,       \* executions that happened
    told,       \* trade.orderStatus.filled in the sidecar, by order
    owed,       \* messages about executions the broker has still to send
    feed,       \* the event stream from the sidecar to the consumer
    up,         \* does the sidecar have a subscriber?
    row,        \* rows of the orders table: none, sent (no broker_order_id), acked
    fills,      \* the fills table
    pending,    \* the pending_fills table: its qty, 0 when there is no row
    buffer,     \* commission-buffer:{exec_id} keys in Redis
    got,        \* history: messages whose effect the backend holds
    faults      \* faults so far

backend == <<row, fills, pending, buffer, got>>
ledgerVars == <<done, told, owed, feed, up, backend, faults>>
-----------------------------------------------------------------------------
NoFill == [qty |-> 0, paid |-> FALSE, by |-> "nobody"]
Fill == [qty : Nat \ {0}, paid : BOOLEAN, by : {"event", "drain", "sweep"}]

\* Messages of an execution; events as the consumer receives them.
Message == {"exec", "commission"} \X Execs
Event   == [kind : {"exec"}, e : Execs, qty : Nat]
             \cup [kind : {"commission"}, e : Execs]
             \cup [kind : {"status"}, o : Orders]

DoneOf(o) == {e \in done : OrderOf[e] = o}

\* _matching_order_id: the row with the event's client_order_id.
Known(o) == row[o] # "none"

\* Mutant: ON CONFLICT (exec_id) DO UPDATE SET qty.
RecordedAgain(f, e, qty, by) ==
    [f EXCEPT ![e] = IF @ = NoFill THEN [qty |-> qty, paid |-> FALSE, by |-> by]
                                   ELSE [@ EXCEPT !.qty = qty]]

\* A new row of fills; ON CONFLICT (exec_id) DO NOTHING keeps an old one.
Recorded(f, e, qty, by) ==
    IF f[e] = NoFill THEN [f EXCEPT ![e] = [qty |-> qty, paid |-> FALSE, by |-> by]]
                     ELSE f

\* The commission of a fill that exists.
Paid(f, e) == [f EXCEPT ![e].paid = TRUE]

\* Rows of pending_fills moved to fills.
Moved(f, S, by) == [e \in Execs |-> IF e \in S THEN Recorded(f, e, pending[e], by)[e]
                                              ELSE f[e]]
\* Mutant: The row of pending_fills stays after it was copied.
WithoutNothing(p, S) == p

Without(p, S) == [e \in Execs |-> IF e \in S THEN 0 ELSE p[e]]

\* Mutant: every execution of the order, parked or not.
ParkedOrNot(o) == {e \in Execs : OrderOf[e] = o}

\* What _drain_pending_fills takes.
Parked(o) == {e \in Execs : OrderOf[e] = o /\ pending[e] > 0}
-----------------------------------------------------------------------------
(* The broker and the sidecar.                                             *)

\* With or without a row: see InsertOrder.
Execute(e) ==
    /\ e \notin done
    /\ done' = done \cup {e}
    /\ owed' = owed \cup {<<"exec", e>>, <<"commission", e>>}
    /\ UNCHANGED <<told, feed, up, backend, faults>>

\* No queue exists while nobody is subscribed: the event is gone.
Announce(ev) == feed' = IF up THEN Append(feed, ev) ELSE feed

SendStatus(o) ==
    /\ told[o] # Cardinality(DoneOf(o))
    /\ told' = [told EXCEPT ![o] = Cardinality(DoneOf(o))]
    /\ Announce([kind |-> "status", o |-> o])
    /\ UNCHANGED <<done, owed, up, backend, faults>>

\* The quantity of the event is the one of the order's status so far.
SendExec(e) ==
    /\ <<"exec", e>> \in owed
    /\ owed' = owed \ {<<"exec", e>>}
    /\ Announce([kind |-> "exec", e |-> e, qty |-> told[OrderOf[e]]])
    /\ UNCHANGED <<done, told, up, backend, faults>>

SendCommission(e) ==
    /\ <<"commission", e>> \in owed
    /\ owed' = owed \ {<<"commission", e>>}
    /\ Announce([kind |-> "commission", e |-> e])
    /\ UNCHANGED <<done, told, up, backend, faults>>

\* The broker repeats an execution, after a reconnect for instance.
Repeat(e) ==
    /\ e \in done
    /\ faults < MaxFaults
    /\ faults' = faults + 1
    /\ owed' = owed \cup {<<"exec", e>>}
    /\ UNCHANGED <<done, told, feed, up, backend>>
-----------------------------------------------------------------------------
(* Rows of orders, as far as fills depend on them.                         *)

\* place_order commits the row before it sends the order and learns the
\* broker's id later; place_oco_order inserts it, with that id, once the broker
\* has the order; an order entered at the broker's own terminal never gets one.
InsertOrder(o) ==
    /\ ~Known(o)
    /\ \/ DoneOf(o) = {} /\ row' = [row EXCEPT ![o] = "sent"]
       \/ row' = [row EXCEPT ![o] = "acked"]
    /\ UNCHANGED <<done, told, owed, feed, up, fills, pending, buffer, got, faults>>

\* _mark_order_submitted, or the COALESCE of _update_order.
Acked(o) == [row EXCEPT ![o] = "acked"]

MarkSubmitted(o) ==
    /\ row[o] = "sent"
    /\ row' = Acked(o)
    /\ UNCHANGED <<done, told, owed, feed, up, fills, pending, buffer, got, faults>>
-----------------------------------------------------------------------------
(* The consumer.                                                           *)

Consuming(kind) == up /\ feed # << >> /\ Head(feed).kind = kind /\ feed' = Tail(feed)

\* The order is not known: the execution waits in pending_fills.
Park(e, qty) ==
    /\ pending' = [pending EXCEPT ![e] = IF @ = 0 THEN qty ELSE @]
    /\ UNCHANGED <<row, fills, buffer>>

\* Mutant: The buffer is not read when the execution arrives.
RecordUnpaid(e, qty) ==
    LET o == OrderOf[e]
    IN  /\ row' = Acked(o)
        /\ fills' = Moved(Recorded(fills, e, qty, "event"), Parked(o), "drain")
        /\ pending' = Without(pending, Parked(o))
        /\ UNCHANGED buffer

\* The order is known: the execution is recorded with the commission the
\* buffer may hold, and the order's parked executions with it.
Record(e, qty) ==
    LET o == OrderOf[e]
        f == Recorded(fills, e, qty, "event")
    IN  /\ row' = Acked(o)
        /\ fills' = Moved(IF e \in buffer THEN Paid(f, e) ELSE f, Parked(o), "drain")
        /\ pending' = Without(pending, Parked(o))
        /\ buffer' = buffer \ {e}

\* Both tables demand qty > 0: an event that overtook its status fails.
ConsumeExec ==
    /\ Consuming("exec")
    /\ LET e   == Head(feed).e
           qty == Head(feed).qty
       IN  IF qty = 0
             THEN UNCHANGED backend
             ELSE /\ IF Known(OrderOf[e]) THEN Record(e, qty) ELSE Park(e, qty)
                  /\ got' = got \cup {<<"exec", e>>}
    /\ UNCHANGED <<done, told, owed, up, faults>>

\* The transaction fails and the event is dropped.  When it fails after the
\* buffer was emptied the commission does not come back with the rollback.
ConsumeExecFails ==
    /\ Consuming("exec")
    /\ faults < MaxFaults
    /\ faults' = faults + 1
    /\ LET e == Head(feed).e
       IN  \/ UNCHANGED <<buffer, got>>
           \/ /\ Known(OrderOf[e])
              /\ e \in buffer
              /\ buffer' = buffer \ {e}
              /\ got' = got \ {<<"commission", e>>}
    /\ UNCHANGED <<done, told, owed, up, row, fills, pending>>

ConsumeCommission ==
    /\ Consuming("commission")
    /\ LET e == Head(feed).e
       IN  /\ IF fills[e] # NoFill
                THEN fills' = Paid(fills, e) /\ UNCHANGED buffer
                ELSE buffer' = buffer \cup {e} /\ UNCHANGED fills
           /\ got' = got \cup {<<"commission", e>>}
    /\ UNCHANGED <<done, told, owed, up, row, pending, faults>>

\* A database error: the commission is dropped.
ConsumeCommissionFails ==
    /\ Consuming("commission")
    /\ faults < MaxFaults
    /\ faults' = faults + 1
    /\ UNCHANGED <<done, told, owed, up, backend>>

\* Of an unknown order only the event is logged.  The early return for an
\* event that repeats the row's status skips the drain.
ConsumeStatus ==
    /\ Consuming("status")
    /\ LET o == Head(feed).o
       IN  \/ ~Known(o) /\ UNCHANGED <<row, fills, pending>>
           \/ row[o] = "acked" /\ UNCHANGED <<row, fills, pending>>
           \/ /\ Known(o)
              /\ row' = Acked(o)
              /\ fills' = Moved(fills, Parked(o), "drain")
              /\ pending' = Without(pending, Parked(o))
    /\ UNCHANGED <<done, told, owed, up, buffer, got, faults>>

\* The stream breaks: so it does when Redis refuses a commission.
StreamBreak ==
    /\ up
    /\ faults < MaxFaults
    /\ faults' = faults + 1
    /\ up' = FALSE
    /\ feed' = << >>
    /\ UNCHANGED <<done, told, owed, backend>>

\* The resync that follows has no execution ids.
StreamOpen ==
    /\ ~up
    /\ up' = TRUE
    /\ UNCHANGED <<done, told, owed, feed, backend, faults>>

Consume == \/ ConsumeExec \/ ConsumeExecFails
           \/ ConsumeCommission \/ ConsumeCommissionFails \/ ConsumeStatus
-----------------------------------------------------------------------------
(* PendingFillsSweeper._tick, and the buffer's time to live.               *)

Resolvable == {e \in Execs : pending[e] > 0 /\ row[OrderOf[e]] = "acked"}

\* Mutant: No sweeper: only an order's next event drains.
SweepNothing == FALSE /\ UNCHANGED ledgerVars

Sweep ==
    /\ Resolvable # {}
    /\ fills' = Moved(fills, Resolvable, "sweep")
    /\ pending' = Without(pending, Resolvable)
    /\ UNCHANGED <<done, told, owed, feed, up, row, buffer, got, faults>>

\* A day passed.
BufferExpires(e) ==
    /\ e \in buffer
    /\ faults < MaxFaults
    /\ faults' = faults + 1
    /\ buffer' = buffer \ {e}
    /\ got' = got \ {<<"commission", e>>}
    /\ UNCHANGED <<done, told, owed, feed, up, row, fills, pending>>
-----------------------------------------------------------------------------
FillInit ==
    /\ done = {}
    /\ told = [o \in Orders |-> 0]
    /\ owed = {}
    /\ feed = << >>
    /\ up = TRUE
    /\ row = [o \in Orders |-> "none"]
    /\ fills = [e \in Execs |-> NoFill]
    /\ pending = [e \in Execs |-> 0]
    /\ buffer = {}
    /\ got = {}
    /\ faults = 0

FillNext ==
    \/ \E e \in Execs : \/ Execute(e) \/ SendExec(e) \/ SendCommission(e)
                        \/ Repeat(e) \/ BufferExpires(e)
    \/ \E o \in Orders : SendStatus(o) \/ InsertOrder(o) \/ MarkSubmitted(o)
    \/ Consume \/ StreamBreak \/ StreamOpen \/ Sweep

FillSpec == FillInit /\ [][FillNext]_ledgerVars

\* The 30 s tick of the sweeper keeps running, whatever else happens.
FillFairSpec == FillSpec /\ WF_ledgerVars(Sweep)
-----------------------------------------------------------------------------
(* Properties.                                                             *)

\* Every variable has its type; what is recorded or parked has a quantity.
FillTypeOK ==
    /\ done \subseteq Execs
    /\ told \in [Orders -> Nat]
    /\ owed \subseteq Message
    /\ feed \in Seq(Event)
    /\ up \in BOOLEAN
    /\ row \in [Orders -> {"none", "sent", "acked"}]
    /\ fills \in [Execs -> Fill \cup {NoFill}]
    /\ pending \in [Execs -> Nat]
    /\ buffer \subseteq Execs
    /\ got \subseteq Message
    /\ faults \in 0..MaxFaults

\* Whatever the order of the messages and of the row, an execution whose
\* details were processed is in fills or in pending_fills, never in both:
\* a parked execution is moved, not copied, and a repeated one is not parked
\* again (_record_fill, _drain_pending_fills, _tick).
ExecutionInOneTable ==
    \A e \in Execs :
        /\ <<"exec", e>> \in got => fills[e] # NoFill \/ pending[e] > 0
        /\ pending[e] > 0 => fills[e] = NoFill

\* A commission that was processed before or after the execution's details
\* is on the fill when _record_fill wrote the fill, and in the buffer until
\* then: the two events may come in either order.
CommissionKept ==
    \A e \in Execs :
        <<"commission", e>> \in got =>
            \/ fills[e] = NoFill /\ e \in buffer
            \/ fills[e] # NoFill /\ (fills[e].by = "event" => fills[e].paid)

\* A recorded execution is not rewritten by a repetition or a late drain,
\* and its commission is not taken back.
FillsAreFinal ==
    [][\A e \in Execs : fills[e] # NoFill =>
           /\ fills'[e] # NoFill
           /\ fills'[e].qty = fills[e].qty
           /\ fills[e].paid => fills'[e].paid]_ledgerVars

\* A parked execution whose order's row knows its broker id becomes a fill,
\* though no further event of the order may ever come.
ParkedBecomesFill ==
    \A e \in Execs :
        (pending[e] > 0 /\ row[OrderOf[e]] = "acked") ~> (fills[e] # NoFill)
=============================================================================
