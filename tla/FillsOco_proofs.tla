---------------------------- MODULE FillsOco_proofs ---------------------------
(***************************************************************************)
(* Proofs about FillLedger, for every set of executions and orders, and    *)
(* about one-cancels-other orders, for every number of backend processes,  *)
(* fills and failures.                                                     *)
(***************************************************************************)
EXTENDS MCFillsOco, FiniteSetTheorems, TLAPS

-----------------------------------------------------------------------------
(* The ledger of fills.                                                    *)

Table == [Execs -> Fill \cup {NoFill}]

\* A fill has its order's row (fills.order_id REFERENCES orders).  Without it
\* a repeated execution of an unknown order could be parked beside its fill.
FillHasOrder == \A e \in Execs : fills[e] # NoFill => Known(OrderOf[e])

IInv == FillTypeOK /\ ExecutionInOneTable /\ CommissionKept /\ FillHasOrder
-----------------------------------------------------------------------------
(* The operators.                                                          *)

\* A row of fills is never the absent one.
LEMMA FillIsSomething == \A f \in Fill : f # NoFill
  BY DEF Fill, NoFill

\* What recording an execution does to fills.
LEMMA RecordedFacts ==
    ASSUME NEW f \in Table, NEW e \in Execs, NEW qty \in Nat \ {0},
           NEW by \in {"event", "drain", "sweep"}
    PROVE  /\ Recorded(f, e, qty, by) \in Table
           /\ Recorded(f, e, qty, by)[e] # NoFill
           /\ f[e] # NoFill => Recorded(f, e, qty, by) = f
           /\ \A x \in Execs : x # e => Recorded(f, e, qty, by)[x] = f[x]
           /\ f[e] = NoFill => /\ Recorded(f, e, qty, by)[e].by = by
                               /\ ~Recorded(f, e, qty, by)[e].paid
<1> DEFINE r == [qty |-> qty, paid |-> FALSE, by |-> by]
<1>1. r \in Fill /\ r # NoFill /\ r.by = by /\ ~r.paid
  BY FillIsSomething DEF Fill
<1>2. CASE f[e] = NoFill
  <2>1. Recorded(f, e, qty, by) = [f EXCEPT ![e] = r]
    BY <1>2 DEF Recorded
  <2> QED
    BY <1>1, <1>2, <2>1 DEF Table
<1>3. CASE f[e] # NoFill
  BY <1>3 DEF Recorded
<1> QED
  BY <1>2, <1>3

\* What paying a fill does.
LEMMA PaidFacts ==
    ASSUME NEW f \in Table, NEW e \in Execs, f[e] # NoFill
    PROVE  /\ Paid(f, e) \in Table
           /\ Paid(f, e)[e] # NoFill
           /\ Paid(f, e)[e].paid
           /\ Paid(f, e)[e].qty = f[e].qty
           /\ \A x \in Execs : x # e => Paid(f, e)[x] = f[x]
<1>1. f[e] \in Fill
  BY DEF Table
<1>2. [f[e] EXCEPT !.paid = TRUE] \in Fill
  BY <1>1 DEF Fill
<1> QED
  BY <1>1, <1>2, FillIsSomething DEF Paid, Table, Fill

\* What moving parked executions does: they become fills, and what was a fill
\* or is not moved is left alone.
LEMMA MovedFacts ==
    ASSUME FillTypeOK, NEW f \in Table, NEW S \in SUBSET Execs,
           \A e \in S : pending[e] > 0, NEW by \in {"drain", "sweep"}
    PROVE  /\ Moved(f, S, by) \in Table
           /\ Without(pending, S) \in [Execs -> Nat]
           /\ \A e \in S : Moved(f, S, by)[e] # NoFill /\ Without(pending, S)[e] = 0
           /\ \A e \in Execs \ S : /\ Moved(f, S, by)[e] = f[e]
                                   /\ Without(pending, S)[e] = pending[e]
           /\ \A e \in Execs : f[e] # NoFill => Moved(f, S, by)[e] = f[e]
           /\ \A e \in Execs : f[e] = NoFill /\ e \in S => Moved(f, S, by)[e].by = by
<1>1. ASSUME NEW e \in Execs
      PROVE  /\ Moved(f, S, by)[e] \in Fill \cup {NoFill}
             /\ e \in S => Moved(f, S, by)[e] # NoFill
             /\ e \notin S => Moved(f, S, by)[e] = f[e]
             /\ f[e] # NoFill => Moved(f, S, by)[e] = f[e]
             /\ f[e] = NoFill /\ e \in S => Moved(f, S, by)[e].by = by
  <2>1. Moved(f, S, by)[e] = IF e \in S THEN Recorded(f, e, pending[e], by)[e] ELSE f[e]
    BY DEF Moved
  <2>2. f[e] \in Fill \cup {NoFill}
    BY DEF Table
  <2>3. CASE e \in S
    <3>1. pending[e] \in Nat \ {0}
      BY <2>3 DEF FillTypeOK
    <3>2. /\ Recorded(f, e, pending[e], by) \in Table
          /\ Recorded(f, e, pending[e], by)[e] # NoFill
          /\ f[e] # NoFill => Recorded(f, e, pending[e], by) = f
          /\ f[e] = NoFill => Recorded(f, e, pending[e], by)[e].by = by
      BY <3>1, RecordedFacts
    <3> QED
      BY <2>1, <2>3, <3>2 DEF Table
  <2>4. CASE e \notin S
    BY <2>1, <2>2, <2>4
  <2> QED
    BY <2>3, <2>4
<1>2. Moved(f, S, by) \in Table
  BY <1>1 DEF Moved, Table
<1>3. Without(pending, S) \in [Execs -> Nat]
  BY DEF Without, FillTypeOK
<1>4. \A e \in Execs : Without(pending, S)[e] = IF e \in S THEN 0 ELSE pending[e]
  BY DEF Without
<1> QED
  BY <1>1, <1>2, <1>3, <1>4

\* The head of the feed is an event of the kind it says, and the rest is a feed.
LEMMA ConsumingFacts ==
    ASSUME FillTypeOK, NEW kind, Consuming(kind)
    PROVE  /\ feed' \in Seq(Event)
           /\ kind = "exec" => Head(feed).e \in Execs /\ Head(feed).qty \in Nat
           /\ kind = "commission" => Head(feed).e \in Execs
           /\ kind = "status" => Head(feed).o \in Orders
<1>1. feed \in Seq(Event) /\ feed # << >>
  BY DEF FillTypeOK, Consuming
<1>2. Head(feed) \in Event /\ Tail(feed) \in Seq(Event)
  BY <1>1
<1>3. Head(feed).kind = kind /\ feed' = Tail(feed)
  BY DEF Consuming
<1> QED
  BY <1>2, <1>3 DEF Event
\* What Record does: the execution becomes a fill that has the commission the
\* buffer held, and the parked executions of its order become fills.
LEMMA RecordFacts ==
    ASSUME IInv, NEW e \in Execs, NEW qty \in Nat \ {0}, Record(e, qty)
    PROVE  /\ row' \in [Orders -> {"none", "sent", "acked"}]
           /\ fills' \in Table
           /\ pending' \in [Execs -> Nat]
           /\ buffer' = buffer \ {e}
           /\ fills'[e] # NoFill /\ pending'[e] = 0
           /\ e \in buffer => fills'[e].paid
           /\ fills[e] # NoFill => fills'[e].qty = fills[e].qty /\ fills'[e].by = fills[e].by
           /\ fills[e] # NoFill /\ fills[e].paid => fills'[e].paid
           /\ \A x \in Execs : x # e /\ fills[x] # NoFill => fills'[x] = fills[x]
           /\ \A x \in Execs : x # e /\ fills[x] = NoFill /\ fills'[x] # NoFill =>
                                fills'[x].by = "drain"
           /\ \A x \in Execs : pending'[x] > 0 => pending'[x] = pending[x] /\ fills'[x] = fills[x]
           /\ \A x \in Execs : pending'[x] # pending[x] => fills'[x] # NoFill
<1> DEFINE o == OrderOf[e]
           S == Parked(o)
           f == Recorded(fills, e, qty, "event")
           g == IF e \in buffer THEN Paid(f, e) ELSE f
<1>1. FillTypeOK /\ fills \in Table /\ o \in Orders
  BY ExecsAssumption DEF IInv, FillTypeOK, Table
<1>2. /\ f \in Table /\ f[e] # NoFill
      /\ fills[e] # NoFill => f = fills
      /\ \A x \in Execs : x # e => f[x] = fills[x]
  BY <1>1, RecordedFacts
<1>3. /\ g \in Table /\ g[e] # NoFill
      /\ e \in buffer => g[e].paid
      /\ g[e].qty = f[e].qty
      /\ f[e].paid => g[e].paid
      /\ \A x \in Execs : x # e => g[x] = fills[x]
  BY <1>2, PaidFacts
<1>4. g[e].by = f[e].by
  <2>1. f[e] \in Fill
    BY <1>2 DEF Table
  <2> QED
    BY <1>2, <2>1 DEF Paid, Table, Fill
<1>5. S \in SUBSET Execs /\ \A x \in S : pending[x] > 0
  BY DEF Parked
<1>6. /\ Moved(g, S, "drain") \in Table
      /\ Without(pending, S) \in [Execs -> Nat]
      /\ \A x \in S : Moved(g, S, "drain")[x] # NoFill /\ Without(pending, S)[x] = 0
      /\ \A x \in Execs \ S : /\ Moved(g, S, "drain")[x] = g[x]
                              /\ Without(pending, S)[x] = pending[x]
      /\ \A x \in Execs : g[x] # NoFill => Moved(g, S, "drain")[x] = g[x]
      /\ \A x \in Execs : g[x] = NoFill /\ x \in S => Moved(g, S, "drain")[x].by = "drain"
  BY <1>1, <1>3, <1>5, MovedFacts
<1>7. /\ row' = [row EXCEPT ![o] = "acked"]
      /\ fills' = Moved(g, S, "drain")
      /\ pending' = Without(pending, S)
      /\ buffer' = buffer \ {e}
  BY DEF Record, Acked
<1>8. row' \in [Orders -> {"none", "sent", "acked"}]
  BY <1>1, <1>7 DEF FillTypeOK
<1>9. fills'[e] = g[e]
  BY <1>3, <1>6, <1>7
<1>10. pending'[e] = 0
  <2>1. CASE e \in S
    BY <1>6, <1>7, <2>1
  <2>2. CASE e \notin S
    <3>1. ~(pending[e] > 0) /\ pending[e] \in Nat
      BY <1>1, <2>2 DEF Parked, FillTypeOK
    <3> QED
      BY <1>6, <1>7, <2>2, <3>1
  <2> QED
    BY <2>1, <2>2
<1>11. ASSUME NEW x \in Execs, x # e
       PROVE  /\ fills[x] # NoFill => fills'[x] = fills[x]
              /\ fills[x] = NoFill /\ fills'[x] # NoFill => fills'[x].by = "drain"
  BY <1>3, <1>6, <1>7, <1>11
<1>12. ASSUME NEW x \in Execs
       PROVE  /\ pending'[x] > 0 => pending'[x] = pending[x] /\ fills'[x] = fills[x]
              /\ pending'[x] # pending[x] => fills'[x] # NoFill
  <2>1. CASE x \in S
    BY <1>6, <1>7, <2>1
  <2>2. CASE x \notin S /\ x # e
    BY <1>3, <1>6, <1>7, <2>2
  <2>3. CASE x = e
    BY <1>3, <1>9, <1>10, <2>3
  <2> QED
    BY <2>1, <2>2, <2>3
<1> QED
  BY <1>2, <1>3, <1>4, <1>6, <1>7, <1>8, <1>9, <1>10, <1>11, <1>12

\* What a drain or a sweep does when it is all that happens to the tables.
LEMMA MoveFacts ==
    ASSUME IInv, NEW S \in SUBSET Execs, \A x \in S : pending[x] > 0,
           NEW by \in {"drain", "sweep"},
           fills' = Moved(fills, S, by), pending' = Without(pending, S)
    PROVE  /\ fills' \in Table
           /\ pending' \in [Execs -> Nat]
           /\ \A x \in Execs : fills[x] # NoFill => fills'[x] = fills[x]
           /\ \A x \in Execs : fills[x] = NoFill /\ fills'[x] # NoFill => fills'[x].by # "event"
           /\ \A x \in Execs : pending'[x] > 0 => pending'[x] = pending[x] /\ fills'[x] = fills[x]
           /\ \A x \in Execs : pending'[x] # pending[x] => fills'[x] # NoFill
<1>1. FillTypeOK /\ fills \in Table
  BY DEF IInv, FillTypeOK, Table
<1> QED
  BY <1>1, MovedFacts
-----------------------------------------------------------------------------
(* The invariant.                                                          *)

LEMMA InitIInv == FillInit => IInv
<1> SUFFICES ASSUME FillInit PROVE IInv
  OBVIOUS
<1>1. FillTypeOK
  BY FaultsAssumption DEF FillInit, FillTypeOK, Message, Event
<1>2. ExecutionInOneTable /\ CommissionKept /\ FillHasOrder
  BY DEF FillInit, ExecutionInOneTable, CommissionKept, FillHasOrder
<1> QED
  BY <1>1, <1>2 DEF IInv

\* The two properties survive a step that only moves parked executions.
LEMMA MoveKeeps ==
    ASSUME IInv, NEW S \in SUBSET Execs, \A x \in S : pending[x] > 0,
           NEW by \in {"drain", "sweep"},
           fills' = Moved(fills, S, by), pending' = Without(pending, S),
           UNCHANGED <<buffer, got>>
    PROVE  ExecutionInOneTable' /\ CommissionKept'
<1>1. ASSUME NEW x \in Execs
      PROVE  /\ <<"exec", x>> \in got => fills'[x] # NoFill \/ pending'[x] > 0
             /\ pending'[x] > 0 => fills'[x] = NoFill
  BY MoveFacts DEF IInv, ExecutionInOneTable
<1>2. ASSUME NEW x \in Execs, <<"commission", x>> \in got
      PROVE  \/ fills'[x] = NoFill /\ x \in buffer
             \/ fills'[x] # NoFill /\ (fills'[x].by = "event" => fills'[x].paid)
  BY <1>2, MoveFacts DEF IInv, CommissionKept
<1> QED
  BY <1>1, <1>2 DEF ExecutionInOneTable, CommissionKept

\* A message of the sidecar reaches the feed or is lost.
LEMMA AnnounceType ==
    ASSUME FillTypeOK, NEW ev \in Event, Announce(ev)
    PROVE  feed' \in Seq(Event)
  BY DEF FillTypeOK, Announce

\* Every step keeps the types.
LEMMA NextTypeOK == IInv /\ [FillNext]_ledgerVars => FillTypeOK'
<1> SUFFICES ASSUME IInv, [FillNext]_ledgerVars PROVE FillTypeOK'
  OBVIOUS
<1> USE DEF IInv, backend
<1>1. ASSUME NEW e \in Execs, Execute(e) PROVE FillTypeOK'
  BY <1>1 DEF FillTypeOK, Execute, Message
<1>2. ASSUME NEW e \in Execs, SendExec(e) PROVE FillTypeOK'
  <2>1. [kind |-> "exec", e |-> e, qty |-> told[OrderOf[e]]] \in Event
    BY ExecsAssumption DEF Event, FillTypeOK
  <2>2. feed' \in Seq(Event)
    BY <1>2, <2>1, AnnounceType DEF SendExec
  <2> QED
    BY <1>2, <2>2 DEF FillTypeOK, SendExec
<1>3. ASSUME NEW e \in Execs, SendCommission(e) PROVE FillTypeOK'
  <2>1. [kind |-> "commission", e |-> e] \in Event
    BY DEF Event
  <2>2. feed' \in Seq(Event)
    BY <1>3, <2>1, AnnounceType DEF SendCommission
  <2> QED
    BY <1>3, <2>2 DEF FillTypeOK, SendCommission
<1>4. ASSUME NEW e \in Execs, Repeat(e) PROVE FillTypeOK'
  BY <1>4, FaultsAssumption DEF FillTypeOK, Repeat, Message
<1>5. ASSUME NEW e \in Execs, BufferExpires(e) PROVE FillTypeOK'
  BY <1>5, FaultsAssumption DEF FillTypeOK, BufferExpires
<1>6. ASSUME NEW o \in Orders, SendStatus(o) PROVE FillTypeOK'
  <2>1. [kind |-> "status", o |-> o] \in Event
    BY DEF Event
  <2>2. feed' \in Seq(Event)
    BY <1>6, <2>1, AnnounceType DEF SendStatus
  <2>3. Cardinality(DoneOf(o)) \in Nat
    <3>1. IsFiniteSet(DoneOf(o))
      BY ExecsAssumption, FS_Subset DEF DoneOf, FillTypeOK
    <3> QED
      BY <3>1, FS_CardinalityType
  <2>4. told' \in [Orders -> Nat]
    BY <1>6, <2>3 DEF SendStatus, FillTypeOK
  <2> QED
    BY <1>6, <2>2, <2>4 DEF FillTypeOK, SendStatus
<1>7. ASSUME NEW o \in Orders, InsertOrder(o) PROVE FillTypeOK'
  BY <1>7 DEF FillTypeOK, InsertOrder
<1>8. ASSUME NEW o \in Orders, MarkSubmitted(o) PROVE FillTypeOK'
  BY <1>8 DEF FillTypeOK, MarkSubmitted, Acked
<1>9. CASE ConsumeExec
  <2> DEFINE e == Head(feed).e
             qty == Head(feed).qty
  <2>1. feed' \in Seq(Event) /\ e \in Execs /\ qty \in Nat
    BY <1>9, ConsumingFacts DEF ConsumeExec
  <2>2. CASE qty = 0
    BY <1>9, <2>1, <2>2 DEF ConsumeExec, FillTypeOK
  <2>3. CASE qty # 0 /\ Known(OrderOf[e])
    <3>1. Record(e, qty) /\ got' = got \cup {<<"exec", e>>}
      BY <1>9, <2>3 DEF ConsumeExec
    <3>2. /\ row' \in [Orders -> {"none", "sent", "acked"}]
          /\ fills' \in Table
          /\ pending' \in [Execs -> Nat]
          /\ buffer' = buffer \ {e}
      BY <2>1, <2>3, <3>1, RecordFacts
    <3> QED
      BY <1>9, <2>1, <3>1, <3>2 DEF ConsumeExec, FillTypeOK, Table, Message
  <2>4. CASE qty # 0 /\ ~Known(OrderOf[e])
    <3>1. Park(e, qty) /\ got' = got \cup {<<"exec", e>>}
      BY <1>9, <2>4 DEF ConsumeExec
    <3>2. pending' \in [Execs -> Nat] /\ UNCHANGED <<row, fills, buffer>>
      BY <2>1, <3>1 DEF Park, FillTypeOK
    <3> QED
      BY <1>9, <2>1, <3>1, <3>2 DEF ConsumeExec, FillTypeOK, Message
  <2> QED
    BY <2>2, <2>3, <2>4
<1>10. CASE ConsumeExecFails
  <2>1. feed' \in Seq(Event)
    BY <1>10, ConsumingFacts DEF ConsumeExecFails
  <2> QED
    BY <1>10, <2>1, FaultsAssumption DEF ConsumeExecFails, FillTypeOK
<1>11. CASE ConsumeCommission
  <2> DEFINE e == Head(feed).e
  <2>1. feed' \in Seq(Event) /\ e \in Execs
    BY <1>11, ConsumingFacts DEF ConsumeCommission
  <2>2. fills \in Table
    BY DEF FillTypeOK, Table
  <2>3. fills' \in Table /\ buffer' \subseteq Execs
    BY <1>11, <2>1, <2>2, PaidFacts DEF ConsumeCommission, FillTypeOK
  <2> QED
    BY <1>11, <2>1, <2>3 DEF ConsumeCommission, FillTypeOK, Table, Message
<1>12. CASE ConsumeCommissionFails
  <2>1. feed' \in Seq(Event)
    BY <1>12, ConsumingFacts DEF ConsumeCommissionFails
  <2> QED
    BY <1>12, <2>1, FaultsAssumption DEF ConsumeCommissionFails, FillTypeOK
<1>13. CASE ConsumeStatus
  <2> DEFINE o == Head(feed).o
  <2>1. feed' \in Seq(Event) /\ o \in Orders
    BY <1>13, ConsumingFacts DEF ConsumeStatus
  <2>2. CASE UNCHANGED <<row, fills, pending>>
    BY <1>13, <2>1, <2>2 DEF ConsumeStatus, FillTypeOK
  <2>3. CASE /\ row' = Acked(o)
             /\ fills' = Moved(fills, Parked(o), "drain")
             /\ pending' = Without(pending, Parked(o))
    <3>1. Parked(o) \in SUBSET Execs /\ \A x \in Parked(o) : pending[x] > 0
      BY DEF Parked
    <3>2. fills' \in Table /\ pending' \in [Execs -> Nat]
      BY <2>3, <3>1, MoveFacts
    <3> QED
      BY <1>13, <2>1, <2>3, <3>2 DEF ConsumeStatus, FillTypeOK, Acked, Table
  <2> QED
    BY <1>13, <2>2, <2>3 DEF ConsumeStatus
<1>14. CASE StreamBreak
  <2>1. feed' \in Seq(Event)
    BY <1>14 DEF StreamBreak
  <2>2. faults' \in 0..MaxFaults
    BY <1>14, FaultsAssumption DEF StreamBreak, FillTypeOK
  <2>3. up' \in BOOLEAN
    BY <1>14 DEF StreamBreak
  <2>4. UNCHANGED <<done, told, owed, row, fills, pending, buffer, got>>
    BY <1>14 DEF StreamBreak
  <2> QED
    BY <2>1, <2>2, <2>3, <2>4 DEF FillTypeOK
<1>15. CASE StreamOpen
  BY <1>15 DEF StreamOpen, FillTypeOK
<1>16. CASE Sweep
  <2>1. Resolvable \in SUBSET Execs /\ \A x \in Resolvable : pending[x] > 0
    BY DEF Resolvable
  <2>2. fills' \in Table /\ pending' \in [Execs -> Nat]
    BY <1>16, <2>1, MoveFacts DEF Sweep
  <2> QED
    BY <1>16, <2>2 DEF Sweep, FillTypeOK, Table
<1>17. CASE UNCHANGED ledgerVars
  BY <1>17 DEF ledgerVars, FillTypeOK
<1> QED
  BY <1>1, <1>2, <1>3, <1>4, <1>5, <1>6, <1>7, <1>8, <1>9, <1>10, <1>11, <1>12,
     <1>13, <1>14, <1>15, <1>16, <1>17 DEF FillNext, Consume

\* Every step keeps the two properties and rewrites no fill.
LEMMA NextKeeps ==
    IInv /\ [FillNext]_ledgerVars =>
        /\ ExecutionInOneTable' /\ CommissionKept'
        /\ \A e \in Execs : fills[e] # NoFill =>
              /\ fills'[e] # NoFill
              /\ fills'[e].qty = fills[e].qty
              /\ fills[e].paid => fills'[e].paid
<1> DEFINE Kept == \A e \in Execs : fills[e] # NoFill =>
                     /\ fills'[e] # NoFill
                     /\ fills'[e].qty = fills[e].qty
                     /\ fills[e].paid => fills'[e].paid
           Goal == ExecutionInOneTable' /\ CommissionKept' /\ Kept
<1> SUFFICES ASSUME IInv, [FillNext]_ledgerVars PROVE Goal
  OBVIOUS
<1>1. ASSUME UNCHANGED <<fills, pending, buffer, got>> PROVE Goal
  BY <1>1 DEF IInv, ExecutionInOneTable, CommissionKept
<1>2. CASE /\ UNCHANGED <<fills, pending>>
           /\ \E e \in Execs : buffer' = buffer \ {e} /\ got' = got \ {<<"commission", e>>}
  BY <1>2 DEF IInv, ExecutionInOneTable, CommissionKept
<1>3. CASE ConsumeExec
  <2> DEFINE e == Head(feed).e
             qty == Head(feed).qty
  <2>1. e \in Execs /\ qty \in Nat
    BY <1>3, ConsumingFacts DEF ConsumeExec, IInv
  <2>2. CASE qty = 0
    BY <1>1, <1>3, <2>2 DEF ConsumeExec, backend
  <2>3. CASE qty # 0 /\ Known(OrderOf[e])
    <3>1. Record(e, qty) /\ got' = got \cup {<<"exec", e>>}
      BY <1>3, <2>3 DEF ConsumeExec
    <3>2. qty \in Nat \ {0}
      BY <2>1, <2>3
    <3>3. ASSUME NEW x \in Execs
          PROVE  /\ <<"exec", x>> \in got' => fills'[x] # NoFill \/ pending'[x] > 0
                 /\ pending'[x] > 0 => fills'[x] = NoFill
      <4>1. CASE x = e
        BY <2>1, <3>1, <3>2, <4>1, RecordFacts
      <4>2. CASE x # e
        <5>1. <<"exec", x>> \in got' => <<"exec", x>> \in got
          BY <3>1, <4>2
        <5> QED
          BY <2>1, <3>1, <3>2, <4>2, <5>1, RecordFacts DEF IInv, ExecutionInOneTable
      <4> QED
        BY <4>1, <4>2
    <3>4. ASSUME NEW x \in Execs, <<"commission", x>> \in got'
          PROVE  \/ fills'[x] = NoFill /\ x \in buffer'
                 \/ fills'[x] # NoFill /\ (fills'[x].by = "event" => fills'[x].paid)
      <4>1. <<"commission", x>> \in got
        BY <3>1, <3>4
      <4>2. \/ fills[x] = NoFill /\ x \in buffer
            \/ fills[x] # NoFill /\ (fills[x].by = "event" => fills[x].paid)
        BY <4>1 DEF IInv, CommissionKept
      <4>3. CASE x = e
        BY <2>1, <3>1, <3>2, <4>2, <4>3, RecordFacts
      <4>4. CASE x # e /\ fills'[x] = NoFill
        BY <2>1, <3>1, <3>2, <4>2, <4>4, RecordFacts
      <4>5. CASE x # e /\ fills'[x] # NoFill
        BY <2>1, <3>1, <3>2, <4>2, <4>5, RecordFacts
      <4> QED
        BY <4>3, <4>4, <4>5
    <3>5. Kept
      BY <2>1, <3>1, <3>2, RecordFacts
    <3> QED
      BY <3>3, <3>4, <3>5 DEF ExecutionInOneTable, CommissionKept
  <2>4. CASE qty # 0 /\ ~Known(OrderOf[e])
    <3>1. Park(e, qty) /\ got' = got \cup {<<"exec", e>>}
      BY <1>3, <2>4 DEF ConsumeExec
    <3>2. UNCHANGED <<fills, buffer>> /\ fills[e] = NoFill
      BY <2>1, <2>4, <3>1 DEF Park, IInv, FillHasOrder
    <3>3. /\ pending'[e] > 0
          /\ \A x \in Execs : x # e => pending'[x] = pending[x]
      <4>1. pending' = [pending EXCEPT ![e] = IF @ = 0 THEN qty ELSE @]
        BY <3>1 DEF Park
      <4>2. pending \in [Execs -> Nat]
        BY DEF IInv, FillTypeOK
      <4> QED
        BY <2>1, <2>4, <4>1, <4>2
    <3>4. ASSUME NEW x \in Execs
          PROVE  /\ <<"exec", x>> \in got' => fills'[x] # NoFill \/ pending'[x] > 0
                 /\ pending'[x] > 0 => fills'[x] = NoFill
      BY <3>1, <3>2, <3>3 DEF IInv, ExecutionInOneTable
    <3>5. CommissionKept'
      BY <3>1, <3>2 DEF IInv, CommissionKept
    <3> QED
      BY <3>2, <3>4, <3>5 DEF ExecutionInOneTable
  <2> QED
    BY <2>2, <2>3, <2>4
<1>4. CASE ConsumeExecFails
  <2> DEFINE e == Head(feed).e
  <2>1. e \in Execs
    BY <1>4, ConsumingFacts DEF ConsumeExecFails, IInv
  <2> QED
    BY <1>1, <1>2, <1>4, <2>1 DEF ConsumeExecFails
<1>5. CASE ConsumeCommission
  <2> DEFINE e == Head(feed).e
  <2>1. e \in Execs /\ fills \in Table
    BY <1>5, ConsumingFacts DEF ConsumeCommission, IInv, FillTypeOK, Table
  <2>2. got' = got \cup {<<"commission", e>>} /\ pending' = pending
    BY <1>5 DEF ConsumeCommission
  <2>3. CASE fills[e] # NoFill
    <3>1. fills' = Paid(fills, e) /\ buffer' = buffer
      BY <1>5, <2>3 DEF ConsumeCommission
    <3>2. /\ fills'[e] # NoFill /\ fills'[e].paid /\ fills'[e].qty = fills[e].qty
          /\ \A x \in Execs : x # e => fills'[x] = fills[x]
      BY <2>1, <2>3, <3>1, PaidFacts
    <3>3. ExecutionInOneTable'
      BY <2>1, <2>2, <2>3, <3>2 DEF IInv, ExecutionInOneTable
    <3>4. ASSUME NEW x \in Execs, <<"commission", x>> \in got'
          PROVE  \/ fills'[x] = NoFill /\ x \in buffer'
                 \/ fills'[x] # NoFill /\ (fills'[x].by = "event" => fills'[x].paid)
      <4>1. CASE x = e
        BY <3>2, <4>1
      <4>2. CASE x # e
        BY <2>2, <3>1, <3>2, <3>4, <4>2 DEF IInv, CommissionKept
      <4> QED
        BY <4>1, <4>2
    <3>5. Kept
      BY <3>2
    <3> QED
      BY <3>3, <3>4, <3>5 DEF CommissionKept
  <2>4. CASE fills[e] = NoFill
    <3>1. fills' = fills /\ buffer' = buffer \cup {e}
      BY <1>5, <2>4 DEF ConsumeCommission
    <3>2. ExecutionInOneTable'
      BY <2>2, <3>1 DEF IInv, ExecutionInOneTable
    <3>3. CommissionKept'
      BY <2>1, <2>2, <2>4, <3>1 DEF IInv, CommissionKept
    <3> QED
      BY <3>1, <3>2, <3>3
  <2> QED
    BY <2>3, <2>4
<1>6. CASE ConsumeStatus
  <2> DEFINE o == Head(feed).o
  <2>1. CASE UNCHANGED <<row, fills, pending>>
    BY <1>1, <1>6, <2>1 DEF ConsumeStatus
  <2>2. CASE /\ fills' = Moved(fills, Parked(o), "drain")
             /\ pending' = Without(pending, Parked(o))
    <3>1. Parked(o) \in SUBSET Execs /\ \A x \in Parked(o) : pending[x] > 0
      BY DEF Parked
    <3>2. UNCHANGED <<buffer, got>>
      BY <1>6 DEF ConsumeStatus
    <3> QED
      BY <2>2, <3>1, <3>2, MoveKeeps, MoveFacts
  <2> QED
    BY <1>6, <2>1, <2>2 DEF ConsumeStatus
<1>7. CASE Sweep
  <2>1. Resolvable \in SUBSET Execs /\ \A x \in Resolvable : pending[x] > 0
    BY DEF Resolvable
  <2> QED
    BY <1>7, <2>1, MoveKeeps, MoveFacts DEF Sweep
<1>8. ASSUME NEW e \in Execs, BufferExpires(e) PROVE Goal
  BY <1>2, <1>8 DEF BufferExpires
<1>9. ASSUME NEW e \in Execs,
             Execute(e) \/ SendExec(e) \/ SendCommission(e) \/ Repeat(e)
      PROVE  Goal
  BY <1>1, <1>9 DEF Execute, SendExec, SendCommission, Repeat, backend
<1>10. ASSUME NEW o \in Orders, SendStatus(o) \/ InsertOrder(o) \/ MarkSubmitted(o)
       PROVE  Goal
  BY <1>1, <1>10 DEF SendStatus, InsertOrder, MarkSubmitted, backend
<1>11. CASE ConsumeCommissionFails \/ StreamBreak \/ StreamOpen \/ UNCHANGED ledgerVars
  BY <1>1, <1>11 DEF ConsumeCommissionFails, StreamBreak, StreamOpen, backend, ledgerVars
<1> QED
  BY <1>3, <1>4, <1>5, <1>6, <1>7, <1>8, <1>9, <1>10, <1>11 DEF FillNext, Consume

\* A row of orders never goes, and only executions of known orders become
\* fills.
LEMMA NextFillHasOrder == IInv /\ [FillNext]_ledgerVars => FillHasOrder'
<1> SUFFICES ASSUME IInv, [FillNext]_ledgerVars PROVE FillHasOrder'
  OBVIOUS
<1>1. ASSUME NEW o \in Orders, row' = Acked(o)
      PROVE  row'[o] # "none" /\ \A x \in Orders : Known(x) => row'[x] # "none"
  BY <1>1 DEF IInv, FillTypeOK, Acked, Known
<1>2. ASSUME NEW S \in SUBSET Execs, \A x \in S : pending[x] > 0 /\ row'[OrderOf[x]] # "none",
             NEW by \in {"drain", "sweep"}, fills' = Moved(fills, S, by),
             \A x \in Orders : Known(x) => row'[x] # "none"
      PROVE  FillHasOrder'
  <2>1. FillTypeOK /\ fills \in Table
    BY DEF IInv, FillTypeOK, Table
  <2>2. \A x \in Execs \ S : fills'[x] = fills[x]
    BY <1>2, <2>1, MovedFacts
  <2> QED
    BY <1>2, <2>2, ExecsAssumption DEF IInv, FillHasOrder, Known
<1>3. ASSUME UNCHANGED <<row, fills>> PROVE FillHasOrder'
  BY <1>3 DEF IInv, FillHasOrder, Known
<1>4. CASE ConsumeExec
  <2> DEFINE e == Head(feed).e
             qty == Head(feed).qty
             o == OrderOf[e]
  <2>1. e \in Execs /\ qty \in Nat /\ o \in Orders
    BY <1>4, ConsumingFacts, ExecsAssumption DEF ConsumeExec, IInv
  <2>2. CASE qty = 0 \/ ~Known(o)
    BY <1>3, <1>4, <2>2 DEF ConsumeExec, Park, backend
  <2>3. CASE qty # 0 /\ Known(o)
    <3>1. Record(e, qty)
      BY <1>4, <2>3 DEF ConsumeExec
    <3>2. row'[o] # "none" /\ \A x \in Orders : Known(x) => row'[x] # "none"
      BY <1>1, <2>1, <3>1 DEF Record
    <3>3. ASSUME NEW x \in Execs, fills'[x] # NoFill, OrderOf[x] # o
          PROVE  fills[x] # NoFill
      <4> DEFINE f == Recorded(fills, e, qty, "event")
                 g == IF e \in buffer THEN Paid(f, e) ELSE f
      <4>1. FillTypeOK /\ fills \in Table
        BY DEF IInv, FillTypeOK, Table
      <4>2. f \in Table /\ f[e] # NoFill /\ f[x] = fills[x]
        <5>1. e \in Execs /\ qty \in Nat \ {0} /\ x \in Execs /\ x # e
          BY <2>1, <2>3, <3>3
        <5> HIDE DEF e, qty
        <5> QED
          BY <4>1, <5>1, RecordedFacts
      <4>3. g \in Table /\ g[x] = fills[x]
        BY <2>1, <3>3, <4>2, PaidFacts
      <4>4. x \notin Parked(o) /\ \A y \in Parked(o) : y \in Execs /\ pending[y] > 0
        BY <3>3 DEF Parked
      <4>5. fills' = Moved(g, Parked(o), "drain")
        BY <3>1 DEF Record
      <4>6. fills'[x] = g[x]
        <5>1. Parked(o) \in SUBSET Execs
          BY DEF Parked
        <5> QED
          BY <4>1, <4>3, <4>4, <4>5, <5>1, MovedFacts
      <4> QED
        BY <3>3, <4>3, <4>6
    <3> QED
      BY <3>2, <3>3, ExecsAssumption DEF IInv, FillHasOrder, Known
  <2> QED
    BY <2>2, <2>3
<1>5. CASE ConsumeCommission
  <2> DEFINE e == Head(feed).e
  <2>1. e \in Execs /\ fills \in Table
    BY <1>5, ConsumingFacts DEF ConsumeCommission, IInv, FillTypeOK, Table
  <2>2. \A x \in Execs : fills'[x] # NoFill => fills[x] # NoFill
    BY <1>5, <2>1, PaidFacts DEF ConsumeCommission
  <2>3. row' = row
    BY <1>5 DEF ConsumeCommission
  <2> QED
    BY <2>2, <2>3 DEF IInv, FillHasOrder, Known
<1>6. CASE ConsumeStatus
  <2> DEFINE o == Head(feed).o
  <2>1. o \in Orders
    BY <1>6, ConsumingFacts DEF ConsumeStatus, IInv
  <2>2. CASE UNCHANGED <<row, fills, pending>>
    BY <1>3, <2>2
  <2>3. CASE row' = Acked(o) /\ fills' = Moved(fills, Parked(o), "drain")
    <3>1. /\ Parked(o) \in SUBSET Execs
          /\ \A x \in Parked(o) : pending[x] > 0 /\ OrderOf[x] = o
      BY DEF Parked
    <3>2. row'[o] # "none" /\ \A x \in Orders : Known(x) => row'[x] # "none"
      BY <1>1, <2>1, <2>3
    <3> QED
      BY <1>2, <2>3, <3>1, <3>2
  <2> QED
    BY <1>6, <2>2, <2>3 DEF ConsumeStatus
<1>7. CASE Sweep
  <2>1. /\ Resolvable \in SUBSET Execs
        /\ \A x \in Resolvable : pending[x] > 0 /\ row'[OrderOf[x]] # "none"
        /\ \A x \in Orders : Known(x) => row'[x] # "none"
    BY <1>7 DEF Resolvable, Sweep, Known
  <2> QED
    BY <1>2, <1>7, <2>1 DEF Sweep
<1>8. ASSUME NEW e \in Execs,
             \/ Execute(e) \/ SendExec(e) \/ SendCommission(e) \/ Repeat(e)
             \/ BufferExpires(e)
      PROVE  FillHasOrder'
  BY <1>3, <1>8 DEF Execute, SendExec, SendCommission, Repeat, BufferExpires, backend
<1>9. ASSUME NEW o \in Orders, SendStatus(o) PROVE FillHasOrder'
  BY <1>3, <1>9 DEF SendStatus, backend
<1>10. ASSUME NEW o \in Orders, InsertOrder(o) \/ MarkSubmitted(o) PROVE FillHasOrder'
  BY <1>10, ExecsAssumption
     DEF InsertOrder, MarkSubmitted, Acked, IInv, FillTypeOK, FillHasOrder, Known
<1>11. CASE \/ ConsumeExecFails \/ ConsumeCommissionFails \/ StreamBreak
            \/ StreamOpen \/ UNCHANGED ledgerVars
  BY <1>3, <1>11
     DEF ConsumeExecFails, ConsumeCommissionFails, StreamBreak, StreamOpen, backend, ledgerVars
<1> QED
  BY <1>4, <1>5, <1>6, <1>7, <1>8, <1>9, <1>10, <1>11 DEF FillNext, Consume
-----------------------------------------------------------------------------
(* The theorems.                                                           *)

LEMMA IInvStep == IInv /\ [FillNext]_ledgerVars => IInv'
  BY NextTypeOK, NextKeeps, NextFillHasOrder DEF IInv

LEMMA Invariant == FillSpec => []IInv
  BY InitIInv, IInvStep, PTL DEF FillSpec

\* Type correctness.
THEOREM TypeCorrect == FillSpec => []FillTypeOK
<1>1. IInv => FillTypeOK
  BY DEF IInv
<1> QED
  BY <1>1, Invariant, PTL

\* An execution whose details were processed is in fills or in pending_fills
\* and not in both, whatever repeats, fails, breaks or comes late.
THEOREM NoExecutionLost == FillSpec => []ExecutionInOneTable
<1>1. IInv => ExecutionInOneTable
  BY DEF IInv
<1> QED
  BY <1>1, Invariant, PTL

\* A processed commission is on the fill its execution's event wrote, and in
\* the buffer until there is one.
THEOREM CommissionNotLost == FillSpec => []CommissionKept
<1>1. IInv => CommissionKept
  BY DEF IInv
<1> QED
  BY <1>1, Invariant, PTL

\* fills is append-only but for the commission, which is never taken back.
THEOREM FillsFinal == FillSpec => FillsAreFinal
<1>1. IInv /\ [FillNext]_ledgerVars => [\A e \in Execs : fills[e] # NoFill =>
                                /\ fills'[e] # NoFill
                                /\ fills'[e].qty = fills[e].qty
                                /\ fills[e].paid => fills'[e].paid]_ledgerVars
  BY NextKeeps
<1> QED
  BY <1>1, Invariant, PTL DEF FillSpec, FillsAreFinal

-----------------------------------------------------------------------------
(* One-cancels-other orders.                                               *)

-----------------------------------------------------------------------------
(* What a request has left at the broker at each of its awaits.            *)

Accounted(l) == leg[l] = "live" => l \in excused

PlacedByNow ==
    /\ placing = "idle" => \A l \in Legs : leg[l] = "none"
    /\ placing = "placed_a" => leg["B"] = "none"
    /\ placing = "undo_a" => Accounted("B")
    /\ placing = "undo_b" => Accounted("A")
    /\ placing = "failed" /\ ~cashB => \A l \in Legs : Accounted(l)

\* The trade that a completed link stands for; neither order can change again.
OneTraded == \E l \in Legs : leg[l] = "filled" /\ leg[Other(l)] = "cancelled"

\* What an instance handles, or is to handle, has filled; one that takes the
\* link for completed is right.
HandlesFills ==
    \A i \in Instances :
        /\ \A l \in waiting[i] : leg[l] = "filled"
        /\ handling[i].step # "none" => handling[i].leg \in Legs /\ leg[handling[i].leg] = "filled"
        /\ known[i] = "COMPLETED" => OneTraded

\* A leader's key is in Redis still when its renewal is due.
LeaderHoldsKey ==
    \A i \in Instances :
        /\ leads[i] <=> renew[i] # "off"
        /\ lockErrors = 0 /\ renew[i] = "asleep" => lockLeft = LockTicks
        /\ lockErrors = 0 /\ renew[i] = "due" => lockLeft >= LockTicks - 1
LeadsAlone == lockErrors = 0 => \A i, j \in Instances : leads[i] /\ leads[j] => i = j

OcoInv ==
    /\ OcoTypeOK /\ lockErrors \in Nat
    /\ PlacedByNow
    /\ HandlesFills /\ CompletedMeansCancelled
    /\ LeaderHoldsKey /\ LeadsAlone

LEMMA OcoInitially == OcoInit => OcoInv
<1> SUFFICES ASSUME OcoInit PROVE OcoInv
  OBVIOUS
<1> USE DEF OcoInit, NoneHandled
<1>1. OcoTypeOK /\ lockErrors \in Nat
  <2>1. 0 \in 0..LockTicks
    BY OcoAssumption
  <2>2. handling \in [Instances -> [leg : Legs \cup {"none"},
                                    step : {"none", "marking", "cancelling", "settling"}]]
    OBVIOUS
  <2> QED
    BY <2>1, <2>2 DEF OcoTypeOK
<1>2. PlacedByNow
  BY DEF PlacedByNow
<1>3. HandlesFills /\ CompletedMeansCancelled
  BY DEF HandlesFills, CompletedMeansCancelled
<1>4. LeaderHoldsKey /\ LeadsAlone
  BY DEF LeaderHoldsKey, LeadsAlone
<1> QED
  BY <1>1, <1>2, <1>3, <1>4 DEF OcoInv

LEMMA OcoHeld == OcoInv => OcoHolds
<1> SUFFICES ASSUME OcoInv PROVE OcoHolds
  OBVIOUS
<1>1. OneLeader
  <2> SUFFICES ASSUME lockErrors = 0 PROVE Cardinality({i \in Instances : leads[i]}) <= 1
    BY DEF OneLeader
  <2> DEFINE L == {i \in Instances : leads[i]}
  <2>1. CASE L = {}
    BY <2>1, FS_EmptySet
  <2>2. CASE L # {}
    <3>1. PICK i : L = {i}
      BY <2>2 DEF OcoInv, LeadsAlone
    <3>2. Cardinality({i}) = 1
      BY FS_Singleton
    <3> HIDE DEF L
    <3>3. Cardinality(L) <= 1
      BY <3>1, <3>2
    <3> QED
      BY <3>3 DEF L
  <2> QED
    BY <2>1, <2>2
<1> QED
  BY <1>1 DEF OcoInv, OcoHolds, FailureLeavesNoLeg, PlacedByNow, Accounted

-----------------------------------------------------------------------------
(* A step of the request, or of the broker, that takes no leg back which   *)
(* is filled or cancelled.                                                 *)

LEMMA LegsMoveOn ==
    ASSUME OcoInv, UNCHANGED <<ids, link, lockVars, fillVars, ocoBounds, cashB>>,
           leg' \in [Legs -> {"none", "live", "filled", "cancelled"}],
           \A l \in Legs : leg[l] \in {"filled", "cancelled"} => leg'[l] = leg[l]
    PROVE  /\ HandlesFills' /\ CompletedMeansCancelled'
           /\ LeaderHoldsKey' /\ LeadsAlone'
<1>1. OneTraded => OneTraded'
  BY DEF OneTraded, Other, Legs
<1>2. CompletedMeansCancelled'
  BY <1>1 DEF OcoInv, CompletedMeansCancelled, OneTraded
<1>3. HandlesFills'
  BY <1>1 DEF OcoInv, HandlesFills, OcoTypeOK, fillVars
<1>4. LeaderHoldsKey' /\ LeadsAlone'
  BY DEF OcoInv, LeaderHoldsKey, LeadsAlone, lockVars, ocoBounds
<1> QED
  BY <1>2, <1>3, <1>4

LEMMA RequestStep ==
    ASSUME OcoInv,
           \/ PlaceA \/ RefuseCash \/ PlaceB \/ RecordLinkFails \/ UndoA \/ UndoB
           \/ \E l \in Legs : LegFills(l)
    PROVE  OcoInv'
<1> USE DEF Legs
<1>0. /\ OcoTypeOK /\ PlacedByNow /\ lockErrors \in Nat
      /\ UNCHANGED <<ids, link, lockVars, fillVars, ocoBounds, cashB>>
  BY DEF OcoInv, PlaceA, RefuseCash, PlaceB, RecordLinkFails, UndoA, UndoB, LegFills, placement, market
<1>a. /\ leg["A"] \in {"none", "live", "filled", "cancelled"}
      /\ leg["B"] \in {"none", "live", "filled", "cancelled"}
      /\ leg = [l \in {"A", "B"} |-> leg[l]]
      /\ excused \subseteq {"A", "B"}
  BY <1>0 DEF OcoTypeOK
<1> DEFINE LegMoves(l, v) == leg' = [leg EXCEPT ![l] = v] /\ leg[l] \in {"none", "live"} /\ leg[l] # v
           LegMoved ==
               leg' = leg \/ \E l \in {"A", "B"}, v \in {"live", "filled", "cancelled"} : LegMoves(l, v)
<1>b. ASSUME LegMoved
      PROVE  /\ leg' \in [Legs -> {"none", "live", "filled", "cancelled"}]
             /\ \A l \in Legs : leg[l] \in {"filled", "cancelled"} => leg'[l] = leg[l]
  BY <1>a, <1>b
<1>1. /\ LegMoved
      /\ PlacedByNow'
      /\ excused' \subseteq {"A", "B"}
      /\ placing' \in {"idle", "placed_a", "recording", "undo_a", "undo_both", "undo_b",
                       "done", "failed"}
  <2>1. CASE PlaceA
    <3>1. leg["A"] = "none" /\ leg["B"] = "none" /\ placing' \in {"placed_a", "failed"}
      BY <1>0, <2>1 DEF PlaceA, PlacedByNow
    <3>2. leg' = leg \/ leg' = [leg EXCEPT !["A"] = "live"]
      BY <2>1 DEF PlaceA
    <3>3. LegMoved
      BY <3>1, <3>2
    <3>4. leg'["B"] = "none" /\ leg'["A"] \in {"none", "live"}
      BY <1>a, <3>1, <3>2
    <3>5. excused' \subseteq {"A", "B"} /\ (placing' = "failed" => "A" \in excused')
      BY <1>a, <2>1 DEF PlaceA
    <3> QED
      BY <3>1, <3>3, <3>4, <3>5 DEF PlacedByNow, Accounted
  <2>2. CASE RefuseCash \/ RecordLinkFails
    <3>1. leg' = leg /\ excused' = excused /\ cashB' = cashB
      BY <1>0, <2>2 DEF RefuseCash, RecordLinkFails, market
    <3> QED
      BY <1>a, <2>2, <3>1 DEF RefuseCash, RecordLinkFails, PlacedByNow, Accounted
  <2>3. CASE PlaceB
    <3>1. leg["B"] = "none" /\ placing' \in {"recording", "undo_a"}
      BY <1>0, <2>3 DEF PlaceB, PlacedByNow
    <3>2. leg' = leg \/ leg' = [leg EXCEPT !["B"] = "live"]
      BY <2>3 DEF PlaceB
    <3>3. LegMoved
      BY <3>1, <3>2
    <3>4. excused' \subseteq {"A", "B"} /\ (placing' = "undo_a" => "B" \in excused')
      BY <1>a, <2>3 DEF PlaceB
    <3> QED
      BY <3>1, <3>3, <3>4 DEF PlacedByNow, Accounted
  <2>4. ASSUME NEW l \in {"A", "B"}, Cancelled(l)
        PROVE  /\ LegMoved /\ excused' \subseteq {"A", "B"} /\ Accounted(l)'
               /\ \A k \in {"A", "B"} : Accounted(k) => Accounted(k)'
    <3>1. CASE leg[l] = "live" /\ leg' = [leg EXCEPT ![l] = "cancelled"] /\ excused' = excused
      BY <1>a, <3>1 DEF Accounted
    <3>2. CASE excused' = excused \cup {l} /\ leg' = leg
      BY <1>a, <3>2 DEF Accounted
    <3> QED
      BY <2>4, <3>1, <3>2 DEF Cancelled
  <2>5. CASE UndoA
    <3>1. Cancelled("A") /\ placing' = AfterUndo(placing) /\ placing \in {"undo_a", "undo_both"}
      BY <2>5 DEF UndoA
    <3> HIDE DEF LegMoved
    <3> QED
      BY <1>0, <2>4, <3>1 DEF AfterUndo, PlacedByNow
  <2>6. CASE UndoB
    <3>1. Cancelled("B") /\ placing' = "failed" /\ placing = "undo_b"
      BY <2>6 DEF UndoB
    <3> HIDE DEF LegMoved
    <3> QED
      BY <1>0, <2>4, <3>1 DEF PlacedByNow
  <2>7. ASSUME NEW l \in {"A", "B"}, LegFills(l)
        PROVE  LegMoved /\ PlacedByNow' /\ excused' = excused /\ placing' = placing
    <3>1. /\ leg[l] = "live" /\ leg' = [leg EXCEPT ![l] = "filled"]
          /\ excused' = excused /\ placing' = placing /\ cashB' = cashB
      BY <2>7 DEF LegFills, placement
    <3>2. \A k \in {"A", "B"} : /\ leg'[k] = "live" => leg[k] = "live"
                                /\ leg'[k] = "none" <=> leg[k] = "none"
      BY <1>a, <3>1
    <3>3. LegMoved
      BY <3>1
    <3> QED
      BY <1>0, <3>1, <3>2, <3>3 DEF PlacedByNow, Accounted
  <2> HIDE DEF LegMoved
  <2>8. placing \in {"idle", "placed_a", "recording", "undo_a", "undo_both", "undo_b", "done", "failed"}
    BY <1>0 DEF OcoTypeOK
  <2> QED
    BY <1>a, <2>1, <2>2, <2>3, <2>5, <2>6, <2>7, <2>8
<1>2. OcoTypeOK'
  BY <1>0, <1>1, <1>b DEF OcoTypeOK, lockVars, fillVars, ocoBounds
<1>3. HandlesFills' /\ CompletedMeansCancelled' /\ LeaderHoldsKey' /\ LeadsAlone'
  BY <1>0, <1>1, <1>b, LegsMoveOn
<1>4. lockErrors' \in Nat
  BY <1>0 DEF ocoBounds
<1> QED
  BY <1>1, <1>2, <1>3, <1>4 DEF OcoInv

LEMMA RecordStep == OcoInv /\ RecordLink => OcoInv'
<1> SUFFICES ASSUME OcoInv, RecordLink PROVE OcoInv'
  OBVIOUS
<1>1. OcoTypeOK' /\ lockErrors' \in Nat
  BY DEF OcoInv, RecordLink, OcoTypeOK, market, lockVars, fillVars, ocoBounds
<1>2. PlacedByNow'
  BY DEF OcoInv, RecordLink, PlacedByNow, market
<1>3. HandlesFills' /\ CompletedMeansCancelled'
  BY DEF OcoInv, RecordLink, HandlesFills, OneTraded, CompletedMeansCancelled, market, fillVars
<1>4. LeaderHoldsKey' /\ LeadsAlone'
  BY DEF OcoInv, RecordLink, LeaderHoldsKey, LeadsAlone, lockVars, ocoBounds
<1> QED
  BY <1>1, <1>2, <1>3, <1>4 DEF OcoInv

-----------------------------------------------------------------------------
(* Steps of the lock leave the legs alone.                                 *)

LEMMA LockStep ==
    ASSUME OcoInv, Tick \/ \E i \in Instances : Start(i) \/ Renew(i) \/ RenewFails(i)
    PROVE  OcoInv'
<1>0. /\ UNCHANGED <<placement, market, ids, link, fillVars, updateLost>>
      /\ OcoTypeOK /\ lockErrors \in Nat /\ LeaderHoldsKey /\ LeadsAlone
  BY DEF Tick, Start, Renew, RenewFails, fillVars, OcoInv, ocoBounds
<1>1. PlacedByNow' /\ HandlesFills' /\ CompletedMeansCancelled'
  BY <1>0 DEF OcoInv, placement, market, fillVars, PlacedByNow, Accounted, HandlesFills, OneTraded,
              CompletedMeansCancelled
<1> DEFINE LockTyped == /\ lockLeft' \in 0..LockTicks
                        /\ life' \in [Instances -> {"down", "acquired", "up"}]
                        /\ leads' \in [Instances -> BOOLEAN]
                        /\ renew' \in [Instances -> {"off", "asleep", "due"}]
                        /\ lockErrors' \in Nat
<1>2. LockTyped /\ LeaderHoldsKey' /\ LeadsAlone'
  <2>1. CASE Tick
    <3>1. LockTyped
      BY <2>1, <1>0, OcoAssumption DEF Tick, OcoTypeOK
    <3>2. \A i \in Instances : /\ leads'[i] = leads[i] /\ renew[i] # "due"
                               /\ renew'[i] = IF renew[i] = "asleep" THEN "due" ELSE renew[i]
      BY <2>1, <1>0 DEF Tick
    <3>3. /\ lockErrors' = lockErrors /\ lockLeft' = IF lockLeft = 0 THEN 0 ELSE lockLeft - 1
          /\ lockLeft \in Nat
      BY <2>1, <1>0 DEF Tick, OcoTypeOK
    <3>4. LeaderHoldsKey'
      BY <3>2, <3>3, <1>0, OcoAssumption DEF LeaderHoldsKey
    <3> QED
      BY <3>1, <3>2, <3>3, <3>4, <1>0 DEF LeadsAlone
  <2>2. ASSUME NEW i \in Instances, Start(i) PROVE LockTyped /\ LeaderHoldsKey' /\ LeadsAlone'
    <3>1. CASE ~MayAcquire
      BY <2>2, <3>1, <1>0 DEF Start, OcoTypeOK, LeaderHoldsKey, LeadsAlone
    <3>2. CASE MayAcquire
      <4>1. /\ lockLeft = 0 /\ lockLeft' = LockTicks /\ lockErrors' = lockErrors
            /\ leads' = [leads EXCEPT ![i] = TRUE]
            /\ renew' = [renew EXCEPT ![i] = "asleep"]
            /\ life' = [life EXCEPT ![i] = "acquired"]
        BY <2>2, <3>2 DEF Start, MayAcquire
      <4>2. LockTyped
        BY <4>1, <1>0, OcoAssumption DEF OcoTypeOK
      <4>3. \A j \in Instances : lockErrors = 0 => ~leads[j] /\ renew[j] = "off"
        BY <4>1, <1>0, OcoAssumption DEF LeaderHoldsKey, OcoTypeOK
      <4>4. /\ leads'[i] = TRUE /\ renew'[i] = "asleep"
            /\ \A j \in Instances \ {i} : leads'[j] = leads[j] /\ renew'[j] = renew[j]
        BY <4>1, <1>0 DEF OcoTypeOK
      <4>5. LeaderHoldsKey'
        BY <4>1, <4>3, <4>4, <1>0 DEF LeaderHoldsKey
      <4>6. LeadsAlone'
        BY <4>1, <4>3, <4>4, <1>0 DEF LeadsAlone
      <4> QED
        BY <4>2, <4>5, <4>6
    <3> QED
      BY <3>1, <3>2
  <2>3. ASSUME NEW i \in Instances, Renew(i) PROVE LockTyped /\ LeaderHoldsKey' /\ LeadsAlone'
    <3>1. /\ leads' = [leads EXCEPT ![i] = FALSE] /\ renew' = [renew EXCEPT ![i] = "off"]
          /\ UNCHANGED <<lockLeft, life, lockErrors>>
      BY <2>3 DEF Renew, ReadsAsToken, ocoBounds
    <3>2. LockTyped
      BY <3>1, <1>0 DEF OcoTypeOK
    <3>3. /\ ~leads'[i] /\ renew'[i] = "off"
          /\ \A j \in Instances \ {i} : leads'[j] = leads[j] /\ renew'[j] = renew[j]
      BY <3>1, <1>0 DEF OcoTypeOK
    <3> QED
      BY <3>1, <3>2, <3>3, <1>0 DEF LeaderHoldsKey, LeadsAlone
  <2>4. ASSUME NEW i \in Instances, RenewFails(i) PROVE LockTyped /\ LeaderHoldsKey' /\ LeadsAlone'
    <3>1. lockErrors' # 0 /\ lockErrors' \in Nat
      BY <2>4, <1>0 DEF RenewFails
    <3> QED
      BY <2>4, <1>0, <3>1 DEF RenewFails, OcoTypeOK, LeaderHoldsKey, LeadsAlone
  <2> QED
    BY <2>1, <2>2, <2>3, <2>4
<1>3. OcoTypeOK'
  BY <1>0, <1>2 DEF OcoTypeOK, placement, market, fillVars
<1> QED
  BY <1>1, <1>2, <1>3 DEF OcoInv

LEMMA EndStep == OcoInv /\ (\E i \in Instances : Stop(i) \/ Crash(i)) => OcoInv'
<1> SUFFICES ASSUME OcoInv, NEW i \in Instances, Stop(i) \/ Crash(i) PROVE OcoInv'
  OBVIOUS
<1>0. /\ Ends(i) /\ OcoTypeOK /\ LeaderHoldsKey /\ LeadsAlone /\ lockErrors \in Nat
      /\ lockLeft' = lockLeft \/ (leads[i] /\ lockLeft' = 0)
  BY DEF Stop, Crash, OcoInv
<1>1. PlacedByNow'
  BY <1>0 DEF OcoInv, PlacedByNow, Accounted, Ends, placement, market
<1>2. HandlesFills' /\ CompletedMeansCancelled'
  BY <1>0 DEF OcoInv, HandlesFills, OneTraded, CompletedMeansCancelled, Ends, market, NoneHandled, OcoTypeOK
<1>3. /\ ~leads'[i] /\ renew'[i] = "off" /\ lockErrors' = lockErrors
      /\ \A j \in Instances \ {i} : leads'[j] = leads[j] /\ renew'[j] = renew[j]
  BY <1>0 DEF Ends, OcoTypeOK, ocoBounds
<1>4. LeaderHoldsKey' /\ LeadsAlone'
  BY <1>0, <1>3 DEF LeaderHoldsKey, LeadsAlone
<1>5. OcoTypeOK' /\ lockErrors' \in Nat
  <2>1. 0 \in 0..LockTicks
    BY OcoAssumption
  <2> QED
    BY <1>0, <2>1 DEF Ends, OcoTypeOK, placement, market, NoneHandled, ocoBounds
<1> QED
  BY <1>1, <1>2, <1>4, <1>5 DEF OcoInv

-----------------------------------------------------------------------------
(* Steps of a fill.                                                        *)

LEMMA HydrateStep == OcoInv /\ (\E i \in Instances : Hydrate(i)) => OcoInv'
<1> SUFFICES ASSUME OcoInv, NEW i \in Instances, Hydrate(i) PROVE OcoInv'
  OBVIOUS
<1>1. OcoTypeOK' /\ lockErrors' \in Nat
  BY DEF OcoInv, Hydrate, OcoTypeOK, placement, market, ocoBounds, Settled
<1>2. PlacedByNow' /\ CompletedMeansCancelled'
  BY DEF OcoInv, Hydrate, PlacedByNow, Accounted, OneTraded, CompletedMeansCancelled, placement, market
<1>3. HandlesFills'
  BY DEF OcoInv, OcoTypeOK, Hydrate, HandlesFills, OneTraded, CompletedMeansCancelled, market, Settled
<1>4. LeaderHoldsKey' /\ LeadsAlone'
  BY DEF OcoInv, Hydrate, LeaderHoldsKey, LeadsAlone, ocoBounds
<1> QED
  BY <1>1, <1>2, <1>3, <1>4 DEF OcoInv

LEMMA FillStep ==
    ASSUME OcoInv, NEW i \in Instances,
           (\E l \in Legs : FillEvent(i, l)) \/ HandleFill(i) \/ TransitionFails(i)
    PROVE  OcoInv'
<1>0. /\ OcoTypeOK /\ HandlesFills /\ CompletedMeansCancelled /\ lockErrors \in Nat
      /\ UNCHANGED <<lockVars, lockErrors, placement, ids, excused>>
  BY DEF OcoInv, FillEvent, HandleFill, TakeLock, MarkFilled, CancelSurvivor, Settle,
         TransitionFails, ocoBounds, market
<1>1. LeaderHoldsKey' /\ LeadsAlone'
  BY <1>0 DEF OcoInv, LeaderHoldsKey, LeadsAlone, lockVars
<1> DEFINE
      Marks == Settled \cup {"none", "PENDING_BOTH", "LEG_A_FILLED", "LEG_B_FILLED"}
      FillTyped == /\ leg' \in [Legs -> {"none", "live", "filled", "cancelled"}]
                   /\ link' \in Marks
                   /\ known' \in [Instances -> Marks]
                   /\ waiting' \in [Instances -> SUBSET Legs]
                   /\ handling' \in [Instances -> [leg : Legs \cup {"none"},
                                                   step : {"none", "marking", "cancelling", "settling"}]]
                   /\ updateLost' \in BOOLEAN
      LegsStand == \A l \in Legs : leg'[l] = leg[l] \/ (leg[l] = "live" /\ leg'[l] = "cancelled")
      Goal == FillTyped /\ LegsStand /\ HandlesFills' /\ CompletedMeansCancelled'
<1>a. leg' = leg => LegsStand /\ (OneTraded' <=> OneTraded)
  BY DEF OneTraded
<1>b. CompletedMeansCancelled' <=> (link' = "COMPLETED" => OneTraded')
  BY DEF CompletedMeansCancelled, OneTraded
<1>c. CompletedMeansCancelled <=> (link = "COMPLETED" => OneTraded)
  BY DEF CompletedMeansCancelled, OneTraded
<1>2. ASSUME NEW l \in Legs, FillEvent(i, l) PROVE Goal
  BY <1>0, <1>2 DEF FillEvent, market, OcoTypeOK, HandlesFills, OneTraded, CompletedMeansCancelled
<1>3. ASSUME NEW l \in Legs, TakeLock(i, l) PROVE Goal
  <2>1. leg[l] = "filled" /\ Filled(l) \in {"LEG_A_FILLED", "LEG_B_FILLED"}
    BY <1>0, <1>3 DEF TakeLock, HandlesFills, Filled
  <2>2. leg' = leg /\ link' = link /\ updateLost' = updateLost
    BY <1>3 DEF TakeLock, market, ocoBounds
  <2>3. \/ UNCHANGED <<known, handling>>
        \/ /\ known' = [known EXCEPT ![i] = Filled(l)]
           /\ handling' = [handling EXCEPT ![i] = [leg |-> l, step |-> "marking"]]
    BY <1>3 DEF TakeLock
  <2>4. waiting' = [waiting EXCEPT ![i] = @ \ {l}]
    BY <1>3 DEF TakeLock
  <2>5. FillTyped
    <3>1. \A j \in Instances : waiting[j] \subseteq Legs
      BY <1>0 DEF OcoTypeOK
    <3>2. waiting' \in [Instances -> SUBSET Legs]
      BY <1>0, <2>4, <3>1 DEF OcoTypeOK
    <3>3. known' \in [Instances -> Marks]
      BY <1>0, <2>1, <2>3 DEF OcoTypeOK
    <3>4. handling' \in [Instances -> [leg : Legs \cup {"none"},
                                       step : {"none", "marking", "cancelling", "settling"}]]
      BY <1>0, <2>3 DEF OcoTypeOK
    <3> QED
      BY <1>0, <2>2, <3>2, <3>3, <3>4 DEF OcoTypeOK
  <2>6. HandlesFills'
    BY <1>0, <1>a, <2>1, <2>2, <2>3, <2>4 DEF OcoTypeOK, HandlesFills
  <2> QED
    BY <1>0, <1>a, <1>b, <1>c, <2>2, <2>5, <2>6
<1>4. ASSUME MarkFilled(i) PROVE Goal
  <2>1. /\ leg' = leg /\ link' \in {link, known[i]}
        /\ UNCHANGED <<known, waiting, updateLost>>
        /\ handling' = [handling EXCEPT ![i].step = "cancelling"] /\ handling[i].step # "none"
    BY <1>4 DEF MarkFilled, Transition, market, ocoBounds
  <2>2. FillTyped
    BY <1>0, <2>1 DEF OcoTypeOK
  <2>3. HandlesFills'
    BY <1>0, <1>a, <2>1 DEF OcoTypeOK, HandlesFills
  <2>4. known[i] = "COMPLETED" => OneTraded
    BY <1>0 DEF HandlesFills
  <2> HIDE DEF FillTyped, LegsStand
  <2> QED
    BY <1>0, <1>a, <1>b, <1>c, <2>1, <2>2, <2>3, <2>4
<1>5. ASSUME Settle(i) PROVE Goal
  <2>1. /\ leg' = leg /\ link' \in {link, known[i]}
        /\ UNCHANGED <<known, waiting, updateLost>>
        /\ handling' = [handling EXCEPT ![i] = [leg |-> "none", step |-> "none"]]
    BY <1>5 DEF Settle, Transition, market, ocoBounds, NoneHandled
  <2>2. FillTyped
    BY <1>0, <2>1 DEF OcoTypeOK
  <2>3. HandlesFills'
    BY <1>0, <1>a, <2>1 DEF OcoTypeOK, HandlesFills
  <2>4. known[i] = "COMPLETED" => OneTraded
    BY <1>0 DEF HandlesFills
  <2> HIDE DEF FillTyped, LegsStand
  <2> QED
    BY <1>0, <1>a, <1>b, <1>c, <2>1, <2>2, <2>3, <2>4
<1>6. ASSUME TransitionFails(i) PROVE Goal
  <2>1. /\ UNCHANGED <<leg, link, known, waiting>> /\ updateLost' = TRUE
        /\ handling' = [handling EXCEPT ![i] = [leg |-> "none", step |-> "none"]]
    BY <1>6 DEF TransitionFails, market, NoneHandled
  <2>2. FillTyped
    BY <1>0, <2>1 DEF OcoTypeOK
  <2>3. HandlesFills'
    BY <1>0, <1>a, <2>1 DEF OcoTypeOK, HandlesFills
  <2> HIDE DEF FillTyped, LegsStand
  <2> QED
    BY <1>0, <1>a, <1>b, <1>c, <2>1, <2>2, <2>3
<1>7. ASSUME CancelSurvivor(i) PROVE Goal
  <2> DEFINE f == handling[i].leg
             s == Other(f)
  <2>1. f \in Legs /\ leg[f] = "filled" /\ s \in Legs /\ s # f /\ Other(f) = s
    BY <1>0, <1>7 DEF CancelSurvivor, HandlesFills, Other, Legs
  <2>2. PICK accepted \in BOOLEAN :
          /\ accepted => leg[s] = "live"
          /\ leg' = IF accepted THEN [leg EXCEPT ![s] = "cancelled"] ELSE leg
          /\ known' = [known EXCEPT ![i] = Verdict(accepted)]
    BY <1>7 DEF CancelSurvivor
  <2>3. /\ handling' = [handling EXCEPT ![i].step = "settling"]
        /\ UNCHANGED <<link, waiting, updateLost>>
    BY <1>7 DEF CancelSurvivor, ocoBounds
  <2> HIDE DEF f, s
  <2>4. FillTyped
    BY <1>0, <2>1, <2>2, <2>3 DEF OcoTypeOK, Verdict, Settled
  <2>5. LegsStand
    BY <1>0, <2>1, <2>2 DEF OcoTypeOK
  <2>6. OneTraded => OneTraded'
    BY <1>0, <2>5 DEF OneTraded, Other, Legs
  <2>7. known'[i] = "COMPLETED" => OneTraded'
    BY <1>0, <2>1, <2>2 DEF Verdict, OneTraded, OcoTypeOK
  <2>8. /\ \A j \in Instances : /\ j # i => known'[j] = known[j]
                                /\ waiting'[j] = waiting[j]
                                /\ handling'[j].leg = handling[j].leg
                                /\ j # i => handling'[j].step = handling[j].step
        /\ handling[i].step # "none"
    BY <1>0, <1>7, <2>2, <2>3 DEF OcoTypeOK, CancelSurvivor
  <2>9. \A k \in Legs : leg[k] = "filled" => leg'[k] = "filled"
    BY <2>5
  <2>10. HandlesFills'
    BY <1>0, <2>6, <2>7, <2>8, <2>9 DEF HandlesFills, OcoTypeOK
  <2> HIDE DEF FillTyped, LegsStand
  <2> QED
    BY <1>0, <1>b, <1>c, <2>3, <2>4, <2>5, <2>6, <2>10
<1>8. Goal
  <2> HIDE DEF Goal
  <2> QED
    BY <1>2, <1>3, <1>4, <1>5, <1>6, <1>7 DEF HandleFill
<1>9. PlacedByNow'
  BY <1>0, <1>8 DEF OcoInv, PlacedByNow, Accounted, placement, Legs
<1>10. OcoTypeOK' /\ lockErrors' \in Nat
  BY <1>0, <1>8 DEF OcoTypeOK, placement, lockVars
<1> QED
  BY <1>1, <1>8, <1>9, <1>10 DEF OcoInv

-----------------------------------------------------------------------------
LEMMA OcoStep == OcoInv /\ [OcoNext]_ocoVars => OcoInv'
<1> SUFFICES ASSUME OcoInv, [OcoNext]_ocoVars PROVE OcoInv'
  OBVIOUS
<1>1. CASE UNCHANGED ocoVars
  <2> USE <1>1 DEF ocoVars, placement, market, lockVars, fillVars, ocoBounds
  <2>1. OcoTypeOK' /\ lockErrors' \in Nat
    BY DEF OcoInv, OcoTypeOK
  <2>2. PlacedByNow' /\ CompletedMeansCancelled'
    BY DEF OcoInv, PlacedByNow, Accounted, CompletedMeansCancelled
  <2>3. HandlesFills' /\ LeaderHoldsKey' /\ LeadsAlone'
    BY DEF OcoInv, HandlesFills, OneTraded, LeaderHoldsKey, LeadsAlone
  <2> QED
    BY <2>1, <2>2, <2>3 DEF OcoInv
<1> QED
  BY <1>1, RequestStep, RecordStep, LockStep, EndStep, HydrateStep, FillStep DEF OcoNext

\* The legs are accounted for: by a request that failed, by a link that is
\* completed, under one leader (api/orders.py: place_oco_order,
\* oco_orchestrator.py: process_fill_event).
THEOREM LegsAccountedFor == OcoSpec => []OcoHolds
  BY OcoInitially, OcoStep, OcoHeld, PTL DEF OcoSpec

-----------------------------------------------------------------------------
(* Both together: a step of one leaves the other as it was.                *)

\* Every variable has its type; what is recorded or parked has a quantity, the
\* lock's time to live is within its bound, and each process handles one fill
\* of a leg at a time (_record_fill, _drain_pending_fills; process_fill_event).
THEOREM FillsAndOcoAreTyped == FillsOcoSpec => []FillsOcoTypeOK
<1> DEFINE Inv == IInv /\ OcoInv
<1>1. FillsOcoInit => Inv
  BY InitIInv, OcoInitially DEF FillsOcoInit
<1>2. Inv /\ [FillsOcoNext]_partVars => Inv'
  <2> SUFFICES ASSUME Inv, [FillsOcoNext]_partVars PROVE Inv'
    OBVIOUS
  <2>1. [FillNext]_ledgerVars /\ [OcoNext]_ocoVars
    BY DEF FillsOcoNext, partVars
  <2>2. IInv'
    BY <2>1, IInvStep
  <2>3. OcoInv'
    BY <2>1, OcoStep
  <2> QED
    BY <2>2, <2>3
<1>3. Inv => FillsOcoTypeOK
  BY DEF IInv, OcoInv, FillsOcoTypeOK
<1> QED
  BY <1>1, <1>2, <1>3, PTL DEF FillsOcoSpec
===============================================================================
