------------------------ MODULE OrderLifecycle_proofs ------------------------
(***************************************************************************)
(* Proofs about OrderLifecycle, for every set of orders, requests and      *)
(* cancels, every quantity and every queue size.                           *)
(***************************************************************************)
EXTENDS OrderLifecycle, TLAPS

\* What a broker works is not filled yet.
WorkingIsOpen == \A o \in Orders : broker[o].st = "working" => broker[o].filled < Qty

Typing == TypeOK /\ WorkingIsOpen
-----------------------------------------------------------------------------
(* What the consumer's operators return.                                   *)

\* A row that exists and takes an event remains a row that exists.
LEMMA ProcessedType ==
    ASSUME NEW r \in Rows, NEW e, e.filled \in 0..Qty, e.at \in Nat,
           e.st \in Reports \cup Status, e.st # "none"
    PROVE  /\ Processed(r, e) \in Rows
           /\ r.st # "none" => Processed(r, e).st # "none"
           /\ r.st = "none" => Processed(r, e) = r
<1>1. CASE Processed(r, e) = r
  BY <1>1
<1>2. CASE Processed(r, e) # r
  <2>1. /\ e.st # "presubmitted"
        /\ r.st # "none"
        /\ Processed(r, e) = UpdateOrder(r, e)
    BY <1>2 DEF Processed
  <2>2. Settle(r.st, e.st) \in Status \ {"none"}
    BY <2>1 DEF Settle, Status, Reports, Rows
  <2>3. UpdateOrder(r, e) \in Rows /\ UpdateOrder(r, e).st # "none"
    BY <2>1, <2>2, QtyAssumption DEF UpdateOrder, Rows
  <2> QED
    BY <2>1, <2>3
<1> QED
  BY <1>1, <1>2

-----------------------------------------------------------------------------
(* Types.                                                                  *)

LEMMA NoRowType == NoRow \in Rows /\ NewRow \in Rows /\ NewRow.st = "pending_submit"
<1>1. NoRow \in Rows
  BY QtyAssumption DEF NoRow, Rows, Status
<1>2. NewRow \in Rows /\ NewRow.st = "pending_submit"
  BY <1>1 DEF NewRow, Rows, Status
<1> QED
  BY <1>1, <1>2

LEMMA InitTyping == Init => Typing
<1> SUFFICES ASSUME Init PROVE Typing
  OBVIOUS
<1> USE DEF Init
<1>1. row \in [Orders -> Rows]
  BY NoRowType
<1>2. pc \in [Requests -> Pc]
  BY DEF Pc
<1>3. cancel \in [Cancels -> Calls]
  BY DEF Calls
<1>4. broker \in [Orders -> Held] /\ WorkingIsOpen
  BY QtyAssumption DEF Held, NoOrder, WorkingIsOpen
<1>5. breaks \in 0..MaxDisconnects
  BY BoundsAssumption
<1>6. rpc \in [Requests -> {"none", "sent", "placed", "aborted"}]
      /\ age \in [Orders -> {"fresh", "stale", "orphan"}]
  OBVIOUS
<1>7. stream \in Seq(Events)
  OBVIOUS
<1>8. lookup \in {NoLookup} \cup Lookups
  OBVIOUS
<1>9. /\ link \in {"down", "opened", "synced"}
      /\ lost \subseteq Orders /\ synth \subseteq Synths
      /\ scan \subseteq [o : Orders, orphan : BOOLEAN]
      /\ kill \in BOOLEAN /\ caught \subseteq Requests /\ swept \subseteq Orders
  OBVIOUS
<1> QED
  BY <1>1, <1>2, <1>3, <1>4, <1>5, <1>6, <1>7, <1>8, <1>9 DEF Typing, TypeOK

\* What a report puts on the queue.
LEMMA EmitType ==
    ASSUME Typing, NEW o \in Orders, NEW b \in Held, NEW st \in Reports, NEW exec \in BOOLEAN,
           Emit(o, b, st, exec)
    PROVE  stream' \in Seq(Events) /\ lost' \subseteq Orders
<1> DEFINE e == [o |-> o, st |-> st, filled |-> b.filled, exec |-> exec, at |-> At(b)]
<1>1. e \in Events
  BY DEF Events, At, Held
<1>2. CASE link # "down" /\ Len(stream) < QueueSize
  <2>1. stream' = Append(stream, e) /\ lost' = lost
    BY <1>2 DEF Emit
  <2> QED
    BY <1>1, <2>1 DEF Typing, TypeOK
<1>3. CASE ~(link # "down" /\ Len(stream) < QueueSize)
  BY <1>3 DEF Emit, Typing, TypeOK
<1> QED
  BY <1>2, <1>3

LEMMA MovedType ==
    ASSUME NEW b \in Held, NEW st \in {"none", "working", "filled"} \cup Ended,
           NEW n \in 0..Qty
    PROVE  Moved(b, st, n) \in Held /\ Moved(b, st, n).st = st /\ Moved(b, st, n).filled = n
  BY DEF Moved, Held

LEMMA PlaceTyping ==
    ASSUME Typing, NEW r \in Requests, PlaceStep(r)
    PROVE  Typing'
<1> USE DEF Typing, TypeOK, WorkingIsOpen, consumerVars, watchdogVars, killVars, Pc, ActivePc
<1>o. OrderOf[r] \in Orders
  BY OrdersAssumption
<1>1. CASE PlaceAdmit(r)
  BY <1>1 DEF PlaceAdmit
<1>2. CASE PlaceInsert(r)
  BY <1>2, <1>o, NoRowType DEF PlaceInsert
<1>3. CASE PlaceSend(r)
  BY <1>3 DEF PlaceSend
<1>4. CASE PlaceError(r)
  <2> DEFINE refused == [row[OrderOf[r]] EXCEPT !.st = "rejected"]
  <2>0. refused \in Rows
    <3>1. row[OrderOf[r]] \in Rows
      BY <1>o
    <3> HIDE DEF Typing, TypeOK
    <3> QED
      BY <3>1 DEF Rows, Status, Ended
  <2>1. row' \in [Orders -> Rows]
    BY <1>4, <1>o, <2>0 DEF PlaceError
  <2> QED
    BY <1>4, <2>1 DEF PlaceError
<1>5. CASE SidecarPlace(r)
  <2> DEFINE o == OrderOf[r]
             b == Moved(broker[o], "working", 0)
  <2>1. b \in Held /\ b.st = "working" /\ b.filled = 0
    BY <1>o, QtyAssumption, MovedType
  <2>2. stream' \in Seq(Events) /\ lost' \subseteq Orders
    <3>1. CASE \E st \in {"submitted", "presubmitted"} : Emit(o, b, st, FALSE)
      BY <3>1, <2>1, <1>o, EmitType DEF Reports
    <3>2. CASE UNCHANGED <<stream, lost>>
      BY <3>2
    <3> QED
      BY <1>5, <3>1, <3>2 DEF SidecarPlace
  <2>3. broker' \in [Orders -> Held] /\ WorkingIsOpen'
    <3>1. broker' = [broker EXCEPT ![o] = b] \/ broker' = broker
      BY <1>5 DEF SidecarPlace
    <3> HIDE DEF o, b
    <3> QED
      BY <1>o, <2>1, <3>1, QtyAssumption DEF o
  <2> QED
    BY <1>5, <2>2, <2>3 DEF SidecarPlace
<1>6. CASE PlaceReply(r)
  BY <1>6 DEF PlaceReply
<1>7. CASE PlaceNoReply(r)
  BY <1>7 DEF PlaceNoReply
<1>8. CASE MarkSubmitted(r)
  <2> DEFINE old == row[OrderOf[r]]
  <2>0. old \in Rows
    BY <1>o
  <2>1. [old EXCEPT !.st = "submitted", !.known = TRUE] \in Rows
    <3> HIDE DEF old, Typing, TypeOK
    <3> QED
      BY <2>0 DEF Rows, Status
  <2>2. row' = [row EXCEPT ![OrderOf[r]] = [old EXCEPT !.st = "submitted", !.known = TRUE]]
    BY <1>8, <1>o DEF MarkSubmitted
  <2>3. row' \in [Orders -> Rows]
    BY <2>1, <2>2
  <2> QED
    BY <1>8, <2>3 DEF MarkSubmitted
<1>9. CASE PlaceRecheck(r)
  BY <1>9, <1>o DEF PlaceRecheck
<1>10. CASE PlaceGone(r)
  BY <1>10 DEF PlaceGone
<1> QED
  BY <1>1, <1>2, <1>3, <1>4, <1>5, <1>6, <1>7, <1>8, <1>9, <1>10 DEF PlaceStep

LEMMA CancelTyping ==
    ASSUME Typing, NEW c \in Cancels, CancelStep(c)
    PROVE  Typing'
<1> USE DEF Typing, TypeOK, WorkingIsOpen, consumerVars, watchdogVars, killVars
<1>o. CancelOf[c] \in Orders
  BY CancelsAssumption
<1>1. CASE CancelBegin(c)
  <2>1. row' \in [Orders -> Rows]
    <3> DEFINE old == row[CancelOf[c]]
    <3>1. old \in Rows
      BY <1>o
    <3>2. [old EXCEPT !.mark = c] \in Rows
      BY <3>1 DEF Rows
    <3> QED
      BY <1>1, <1>o, <3>2 DEF CancelBegin
  <2>2. cancel' \in [Cancels -> Calls]
    <3>1. /\ [pc |-> "forwarding", fresh |-> TRUE] \in Calls
          /\ [cancel[c] EXCEPT !.pc = "turned_away"] \in Calls
      BY DEF Calls
    <3> QED
      BY <1>1, <3>1 DEF CancelBegin
  <2> QED
    BY <1>1, <2>1, <2>2 DEF CancelBegin
<1>2. CASE CancelAccepted(c)
  BY <1>2 DEF CancelAccepted, Calls
<1>3. CASE CancelFailed(c)
  <2> DEFINE unmarked == [row[CancelOf[c]] EXCEPT !.mark = NoCancel]
             failed   == [cancel[c] EXCEPT !.pc = "failed"]
  <2>1. row[CancelOf[c]] \in Rows /\ cancel[c] \in Calls
    BY <1>o
  <2>2. unmarked \in Rows
    BY <2>1 DEF Rows
  <2>3. failed \in Calls
    BY <2>1 DEF Calls
  <2>4. row' = [row EXCEPT ![CancelOf[c]] = unmarked] /\ cancel' = [cancel EXCEPT ![c] = failed]
    BY <1>3 DEF CancelFailed
  <2>5. row' \in [Orders -> Rows] /\ cancel' \in [Cancels -> Calls]
    BY <2>2, <2>3, <2>4
  <2> QED
    BY <1>3, <2>5 DEF CancelFailed
<1>4. CASE CancelGone(c)
  BY <1>4 DEF CancelGone, Calls
<1>5. CASE FiveSecondsPass(c)
  BY <1>5 DEF FiveSecondsPass, Calls
<1> QED
  BY <1>1, <1>2, <1>3, <1>4, <1>5 DEF CancelStep

LEMMA BrokerTyping ==
    ASSUME Typing, NEW o \in Orders, BrokerFill(o) \/ BrokerEnd(o) \/ Grow(o)
    PROVE  Typing'
<1> USE DEF Typing, TypeOK, WorkingIsOpen, killVars
<1>1. CASE BrokerFill(o)
  <2> DEFINE n == broker[o].filled + 1
             b == Moved(broker[o], IF n = Qty THEN "filled" ELSE "working", n)
  <2>0. broker[o].filled \in 0..Qty /\ broker[o].filled < Qty
    BY <1>1 DEF BrokerFill, Held
  <2>1. n \in 0..Qty
    BY <2>0, QtyAssumption
  <2>2. b \in Held /\ b.filled = n /\ (b.st = "working" => n < Qty)
    <3>1. CASE n = Qty
      BY <2>1, <3>1, MovedType
    <3>2. CASE n # Qty
      <4>1. b = Moved(broker[o], "working", n)
        BY <3>2
      <4>2. b \in Held /\ b.filled = n
        BY <2>1, <4>1, MovedType
      <4> QED
        BY <2>1, <3>2, <4>2, QtyAssumption
    <3> QED
      BY <3>1, <3>2
  <2>3. PICK exec \in BOOLEAN, st \in IF n = Qty THEN {"filled"} ELSE PartialReports :
           broker' = [broker EXCEPT ![o] = b] /\ Emit(o, b, st, exec)
    BY <1>1 DEF BrokerFill
  <2>4. st \in Reports
    BY <2>3, ReportsAssumption DEF Reports
  <2>5. stream' \in Seq(Events) /\ lost' \subseteq Orders
    BY <2>2, <2>3, <2>4, EmitType
  <2>6. broker' \in [Orders -> Held] /\ WorkingIsOpen'
    BY <2>2, <2>3
  <2> QED
    BY <1>1, <2>5, <2>6 DEF BrokerFill
<1>2. CASE BrokerEnd(o)
  <2>1. PICK st \in Ended :
           /\ broker' = [broker EXCEPT ![o] = Moved(broker[o], st, broker[o].filled)]
           /\ Emit(o, Moved(broker[o], st, broker[o].filled), st, FALSE)
    BY <1>2 DEF BrokerEnd
  <2> DEFINE b == Moved(broker[o], st, broker[o].filled)
  <2>2. b \in Held /\ b.st # "working"
    <3>1. broker[o].filled \in 0..Qty
      BY DEF Held
    <3> HIDE DEF Typing, TypeOK, WorkingIsOpen
    <3>0. broker[o] \in Held /\ st \in Ended
      BY <2>1 DEF Typing, TypeOK
    <3>2. st \in {"none", "working", "filled"} \cup Ended
      BY <3>0
    <3>3. b \in Held /\ b.st = st
      BY <3>0, <3>1, <3>2, MovedType
    <3> QED
      BY <3>3 DEF Ended
  <2>3. stream' \in Seq(Events) /\ lost' \subseteq Orders
    BY <2>1, <2>2, EmitType DEF Reports
  <2>4. broker' \in [Orders -> Held] /\ WorkingIsOpen'
    BY <2>1, <2>2
  <2> QED
    BY <1>2, <2>3, <2>4 DEF BrokerEnd
<1>3. CASE Grow(o)
  BY <1>3 DEF Grow, consumerVars, watchdogVars
<1> QED
  BY <1>1, <1>2, <1>3

LEMMA ConsumerTyping ==
    ASSUME Typing, ConsumerStep
    PROVE  Typing'
<1> USE DEF Typing, TypeOK, WorkingIsOpen, killVars
<1>1. CASE StreamOpen
  BY <1>1 DEF StreamOpen
<1>2. CASE StreamResync
  <2>1. synth' \subseteq Synths
    <3>1. CASE SnapshotKeyedByClientId
      <4>1. PICK st \in [Orders -> Status] :
               /\ \A o \in Orders : IF Listed(o) THEN st[o] \in SnapshotStatus(broker[o])
                                                 ELSE st[o] = "none"
               /\ synth' = {[o |-> o, st |-> st[o], filled |-> broker[o].filled,
                             exec |-> FALSE, at |-> At(broker[o])] :
                             o \in {p \in Orders : Listed(p) /\ row[p].st # st[p]}}
        BY <1>2, <3>1 DEF StreamResync
      <4>2. \A o \in Orders : Listed(o) =>
               [o |-> o, st |-> st[o], filled |-> broker[o].filled,
                exec |-> FALSE, at |-> At(broker[o])] \in Synths
        BY <4>1, ReportsAssumption DEF Synths, SnapshotStatus, Status, At, Held
      <4> QED
        BY <4>1, <4>2
    <3>2. CASE ~SnapshotKeyedByClientId
      BY <1>2, <3>2 DEF StreamResync
    <3> QED
      BY <3>1, <3>2
  <2> QED
    BY <1>2, <2>1 DEF StreamResync
<1>3. CASE Consume
  <2> DEFINE e == Head(stream)
  <2>1. e \in Events
    BY <1>3 DEF Consume
  <2>2. Processed(row[e.o], e) \in Rows
    BY <2>1, ProcessedType DEF Events, Reports, Ended
  <2>3. row' \in [Orders -> Rows] /\ stream' \in Seq(Events)
    BY <1>3, <2>1, <2>2 DEF Consume, Events
  <2> QED
    BY <1>3, <2>3 DEF Consume
<1>4. CASE StreamBreak
  <2>1. \A i \in DOMAIN stream : stream[i] \in Events
    OBVIOUS
  <2>2. {stream[i].o : i \in DOMAIN stream} \subseteq Orders
    BY <2>1 DEF Events
  <2> QED
    BY <1>4, <2>2, BoundsAssumption DEF StreamBreak
<1>5. ASSUME NEW e \in synth, ConsumeSynthetic(e)
      PROVE  Typing'
  <2>1. e \in Synths
    OBVIOUS
  <2>2. Processed(row[e.o], e) \in Rows
    BY <2>1, ProcessedType DEF Synths
  <2>3. row' \in [Orders -> Rows]
    BY <1>5, <2>1, <2>2 DEF ConsumeSynthetic, Synths
  <2> QED
    BY <1>5, <2>3 DEF ConsumeSynthetic
<1> QED
  BY <1>1, <1>2, <1>3, <1>4, <1>5 DEF ConsumerStep

LEMMA WatchdogTyping ==
    ASSUME Typing, WatchdogStep
    PROVE  Typing'
<1> USE DEF Typing, TypeOK, WorkingIsOpen, killVars, consumerVars
<1>1. CASE WatchdogScan
  <2>1. scan' \subseteq [o : Orders, orphan : BOOLEAN]
    <3> DEFINE stale == {o \in Orders : row[o].st = "pending_submit" /\ age[o] # "fresh"}
               entry(o) == [o |-> o, orphan |-> age[o] = "orphan"]
    <3>1. scan' = {entry(o) : o \in stale}
      BY <1>1 DEF WatchdogScan
    <3>2. \A o \in stale : entry(o) \in [o : Orders, orphan : BOOLEAN]
      OBVIOUS
    <3> HIDE DEF stale, entry
    <3> QED
      BY <3>1, <3>2
  <2> QED
    BY <1>1, <2>1 DEF WatchdogScan
<1>2. CASE WatchdogResolve
  <2>1. lookup \in Lookups
    BY <1>2 DEF WatchdogResolve
  <2> DEFINE o == lookup.o
             e == [o |-> o, st |-> lookup.st, filled |-> lookup.filled,
                   exec |-> FALSE, at |-> lookup.at]
  <2>2. o \in Orders
    BY <2>1 DEF Lookups
  <2>3. lookup.st # "none" => Processed(row[o], e) \in Rows
    BY <2>1, <2>2, ProcessedType DEF Lookups
  <2>4. After(broker[o]) \in Nat
    BY <2>2 DEF After, Held
  <2>5. row' \in [Orders -> Rows]
    <3>1. CASE lookup.st # "none"
      BY <1>2, <2>2, <2>3, <3>1 DEF WatchdogResolve
    <3>2. CASE lookup.st = "none"
      <4> DEFINE new == [row[o] EXCEPT !.st = "rejected", !.last = After(broker[o])]
      <4>1. new \in Rows
        <5>1. row[o] \in Rows
          BY <2>2
        <5> QED
          BY <2>4, <5>1 DEF Rows, Status, Ended
      <4>2. row' = [row EXCEPT ![o] = new] \/ row' = row
        BY <1>2, <2>2, <3>2 DEF WatchdogResolve
      <4> QED
        BY <2>2, <4>1, <4>2
    <3> QED
      BY <3>1, <3>2
  <2> QED
    BY <1>2, <2>5 DEF WatchdogResolve
<1>3. CASE WatchdogRestart
  BY <1>3, BoundsAssumption DEF WatchdogRestart
<1>4. ASSUME NEW s \in scan, WatchdogLookup(s)
      PROVE  Typing'
  <2>1. s.o \in Orders /\ s.orphan \in BOOLEAN
    OBVIOUS
  <2>2. \A st \in SnapshotStatus(broker[s.o]) \cup {"none"} : st \in Status
    BY ReportsAssumption DEF SnapshotStatus, Status
  <2>3. At(broker[s.o]) \in Nat /\ broker[s.o].filled \in 0..Qty
    BY <2>1 DEF At, Held
  <2>4. lookup' \in Lookups
    BY <1>4, <2>1, <2>2, <2>3 DEF WatchdogLookup, Lookups
  <2> QED
    BY <1>4, <2>4 DEF WatchdogLookup
<1>5. ASSUME NEW s \in scan, WatchdogBrokerError(s)
      PROVE  Typing'
  BY <1>5 DEF WatchdogBrokerError
<1> QED
  BY <1>1, <1>2, <1>3, <1>4, <1>5 DEF WatchdogStep

LEMMA TypingStep == Typing /\ [Next]_vars => Typing'
<1> SUFFICES ASSUME Typing, [Next]_vars PROVE Typing'
  OBVIOUS
<1>1. CASE EngageKillSwitch
  BY <1>1 DEF EngageKillSwitch, Typing, TypeOK, WorkingIsOpen, consumerVars, watchdogVars
<1>2. CASE UNCHANGED vars
  BY <1>2 DEF vars, killVars, Typing, TypeOK, WorkingIsOpen
<1> QED
  BY <1>1, <1>2, PlaceTyping, CancelTyping, BrokerTyping, ConsumerTyping, WatchdogTyping
  DEF Next

\* Every variable keeps its type, and what is worked is not filled.
THEOREM TypeCorrect == Spec => []TypeOK
<1>1. Init => Typing
  BY InitTyping
<1>2. Typing /\ [Next]_vars => Typing'
  BY TypingStep
<1>3. Typing => TypeOK
  BY DEF Typing
<1> QED
  BY <1>1, <1>2, <1>3, PTL DEF Spec

-----------------------------------------------------------------------------
(* One dispatch per order, and none without a row.                         *)

\* The call that inserted a row, unless it was cut short before it sent.
Owns(r) == \/ pc[r] \in {"inserted", "calling", "answered", "marked", "submitted",
                         "pending_unknown", "error"}
           \/ rpc[r] # "none"

OneOwner  == \A r1, r2 \in Requests :
                OrderOf[r1] = OrderOf[r2] /\ Owns(r1) /\ Owns(r2) => r1 = r2
OwnerHasRow == \A r \in Requests : Owns(r) => row[OrderOf[r]].st # "none"
SentAfterInsert == \A r \in Requests :
                      pc[r] \in {"idle", "admitted", "inserted"} => rpc[r] = "none"
HeldHasRow == \A o \in Orders : broker[o].st # "none" => row[o].st # "none"

DispatchInv == Typing /\ OneOwner /\ OwnerHasRow /\ SentAfterInsert /\ HeldHasRow

recorded == {o \in Orders : row[o].st # "none"}
sent     == {r \in Requests : rpc[r] # "none"}

\* Rows appear by an insert and never go.
LEMMA RowsStay ==
    ASSUME DispatchInv, [Next]_vars, \A r \in Requests : ~PlaceInsert(r)
    PROVE  \A o \in Orders : row'[o].st = "none" <=> row[o].st = "none"
<1> USE DEF DispatchInv, Typing, TypeOK, consumerVars, watchdogVars, killVars
<1>1. ASSUME NEW r \in Requests, PlaceStep(r)
      PROVE  \A o \in Orders : row'[o].st = "none" <=> row[o].st = "none"
  <2>o. OrderOf[r] \in Orders
    BY OrdersAssumption
  <2>1. CASE PlaceError(r)
    <3>1. row[OrderOf[r]].st # "none"
      BY <2>1 DEF PlaceError, OwnerHasRow, Owns
    <3> QED
      BY <2>1, <2>o, <3>1 DEF PlaceError, Rows
  <2>2. CASE MarkSubmitted(r)
    <3>1. row[OrderOf[r]].st # "none"
      BY <2>2 DEF MarkSubmitted, OwnerHasRow, Owns
    <3> DEFINE old == row[OrderOf[r]]
    <3>2. [old EXCEPT !.st = "submitted", !.known = TRUE].st = "submitted"
      BY <2>o DEF Rows
    <3>3. row' = [row EXCEPT ![OrderOf[r]] = [old EXCEPT !.st = "submitted", !.known = TRUE]]
      BY <2>2, <2>o DEF MarkSubmitted
    <3> QED
      BY <2>o, <3>1, <3>2, <3>3
  <2>3. CASE UNCHANGED row
    BY <2>3
  <2> QED
    BY <1>1, <2>1, <2>2, <2>3 DEF PlaceStep, PlaceAdmit, PlaceSend, SidecarPlace, PlaceReply,
       PlaceNoReply, PlaceRecheck, PlaceGone
<1>2. ASSUME NEW c \in Cancels, CancelStep(c)
      PROVE  \A o \in Orders : row'[o].st = "none" <=> row[o].st = "none"
  <2>o. CancelOf[c] \in Orders
    BY CancelsAssumption
  <2> DEFINE o == CancelOf[c]
  <2> DEFINE marked(m) == [row[o] EXCEPT !.mark = m]
  <2>1. \/ UNCHANGED row
        \/ \E m : row' = [row EXCEPT ![o] = marked(m)]
    BY <1>2, <2>o DEF CancelStep, CancelBegin, CancelAccepted, CancelFailed, CancelGone,
       FiveSecondsPass
  <2>2. row[o] \in Rows
    BY <2>o
  <2>3. ASSUME NEW m, row' = [row EXCEPT ![o] = marked(m)]
        PROVE  \A p \in Orders : row'[p].st = "none" <=> row[p].st = "none"
    <3>1. marked(m).st = row[o].st
      BY <2>2 DEF Rows
    <3> HIDE DEF marked
    <3> QED
      BY <2>o, <2>3, <3>1
  <2> QED
    BY <2>1, <2>3
<1>3. ASSUME NEW o \in Orders, NEW e, row' = [row EXCEPT ![o] = Processed(row[o], e)],
             e.filled \in 0..Qty, e.at \in Nat, e.st \in Reports \cup Status, e.st # "none"
      PROVE  \A p \in Orders : row'[p].st = "none" <=> row[p].st = "none"
  BY <1>3, ProcessedType
<1>4. ASSUME ConsumerStep
      PROVE  \A o \in Orders : row'[o].st = "none" <=> row[o].st = "none"
  <2>1. CASE Consume
    <3>1. Head(stream) \in Events
      BY <2>1 DEF Consume
    <3> QED
      BY <1>3, <2>1, <3>1 DEF Consume, Events, Reports, Ended
  <2>2. ASSUME NEW e \in synth, ConsumeSynthetic(e)
        PROVE  \A o \in Orders : row'[o].st = "none" <=> row[o].st = "none"
    BY <1>3, <2>2 DEF ConsumeSynthetic, Synths
  <2> QED
    BY <1>4, <2>1, <2>2 DEF ConsumerStep, StreamOpen, StreamResync, StreamBreak
<1>5. ASSUME WatchdogStep
      PROVE  \A o \in Orders : row'[o].st = "none" <=> row[o].st = "none"
  <2>1. CASE WatchdogResolve
    <3>1. lookup \in Lookups
      BY <2>1 DEF WatchdogResolve
    <3> DEFINE o == lookup.o
               e == [o |-> o, st |-> lookup.st, filled |-> lookup.filled,
                     exec |-> FALSE, at |-> lookup.at]
    <3>2. o \in Orders
      BY <3>1 DEF Lookups
    <3>3. CASE lookup.st # "none"
      <4>1. row' = [row EXCEPT ![o] = Processed(row[o], e)]
        BY <2>1, <3>2, <3>3 DEF WatchdogResolve
      <4>2. e.filled \in 0..Qty /\ e.at \in Nat /\ e.st \in Reports \cup Status
        BY <3>1 DEF Lookups
      <4>3. e.st # "none"
        BY <3>3
      <4> HIDE DEF e
      <4> QED
        BY <1>3, <3>2, <4>1, <4>2, <4>3
    <3>4. CASE lookup.st = "none"
      <4> DEFINE new == [row[o] EXCEPT !.st = "rejected", !.last = After(broker[o])]
      <4>1. \/ row' = row
            \/ row[o].st = "pending_submit" /\ row' = [row EXCEPT ![o] = new]
        BY <2>1, <3>2, <3>4 DEF WatchdogResolve
      <4>2. new.st = "rejected"
        BY <3>2 DEF Rows
      <4> QED
        BY <3>2, <4>1, <4>2
    <3> QED
      BY <3>3, <3>4
  <2> QED
    BY <1>5, <2>1 DEF WatchdogStep, WatchdogScan, WatchdogRestart, WatchdogLookup,
       WatchdogBrokerError
<1>6. CASE UNCHANGED vars
  BY <1>6 DEF vars
<1> QED
  BY <1>1, <1>2, <1>4, <1>5, <1>6 DEF Next, BrokerFill, BrokerEnd, Grow, EngageKillSwitch

LEMMA RowsKept ==
    ASSUME DispatchInv, [Next]_vars
    PROVE  \A o \in Orders : row[o].st # "none" => row'[o].st # "none"
<1>1. ASSUME NEW r \in Requests, PlaceInsert(r)
      PROVE  \A o \in Orders : row[o].st # "none" => row'[o].st # "none"
  <2>1. row \in [Orders -> Rows]
    BY DEF DispatchInv, Typing, TypeOK
  <2> QED
    BY <1>1, <2>1 DEF PlaceInsert
<1> QED
  BY <1>1, RowsStay

LEMMA DispatchInit == Init => DispatchInv
<1> SUFFICES ASSUME Init PROVE DispatchInv
  OBVIOUS
<1>1. Typing
  BY InitTyping
<1> QED
  BY <1>1, OrdersAssumption
  DEF Init, DispatchInv, OneOwner, Owns, OwnerHasRow, SentAfterInsert, HeldHasRow, NoOrder

\* What the broker holds was placed for a call whose RPC was sent.
LEMMA HeldStep ==
    ASSUME DispatchInv, [Next]_vars
    PROVE  HeldHasRow'
<1> USE DEF DispatchInv, Typing, TypeOK
<1> SUFFICES ASSUME NEW o \in Orders, broker'[o].st # "none"
             PROVE  row[o].st # "none"
  BY RowsKept DEF HeldHasRow
<1>1. CASE broker[o].st # "none"
  BY <1>1 DEF HeldHasRow
<1>2. ASSUME NEW r \in Requests, PlaceStep(r), broker[o].st = "none"
      PROVE  row[o].st # "none"
  <2>1. CASE SidecarPlace(r)
    <3>1. row[OrderOf[r]].st # "none"
      BY <2>1 DEF SidecarPlace, OwnerHasRow, Owns
    <3>2. OrderOf[r] \in Orders
      BY OrdersAssumption
    <3>3. o # OrderOf[r] => broker'[o] = broker[o]
      BY <2>1, <3>2 DEF SidecarPlace
    <3> QED
      BY <1>2, <3>1, <3>3
  <2>2. CASE UNCHANGED broker
    BY <1>2, <2>2
  <2> QED
    BY <1>2, <2>1, <2>2 DEF PlaceStep, PlaceAdmit, PlaceInsert, PlaceSend, PlaceError,
       PlaceReply, PlaceNoReply, MarkSubmitted, PlaceRecheck, PlaceGone
<1>3. ASSUME NEW p \in Orders, BrokerFill(p) \/ BrokerEnd(p), broker[o].st = "none"
      PROVE  row[o].st # "none"
  <2>1. o # p
    BY <1>3 DEF BrokerFill, BrokerEnd
  <2>2. broker'[o] = broker[o]
    BY <1>3, <2>1 DEF BrokerFill, BrokerEnd
  <2> QED
    BY <1>3, <2>2
<1>4. CASE UNCHANGED broker
  BY <1>1, <1>4
<1> QED
  BY <1>1, <1>2, <1>3, <1>4
  DEF Next, vars, CancelStep, CancelBegin, CancelAccepted, CancelFailed, CancelGone,
      FiveSecondsPass, Grow, ConsumerStep, StreamOpen, StreamResync, Consume, StreamBreak,
      ConsumeSynthetic, WatchdogStep, WatchdogScan, WatchdogResolve, WatchdogRestart,
      WatchdogLookup, WatchdogBrokerError, EngageKillSwitch

\* Steps that are not place_order's leave its program counter and RPC alone.
LEMMA OthersKeepCalls ==
    ASSUME [Next]_vars, \A r \in Requests : ~PlaceStep(r)
    PROVE  UNCHANGED <<pc, rpc>>
BY DEF Next, vars, BrokerFill, BrokerEnd, CancelStep, CancelBegin, CancelAccepted,
       CancelFailed, CancelGone, FiveSecondsPass, Grow, ConsumerStep, StreamOpen,
       StreamResync, Consume, StreamBreak, ConsumeSynthetic, WatchdogStep, WatchdogScan,
       WatchdogResolve, WatchdogRestart, WatchdogLookup, WatchdogBrokerError,
       EngageKillSwitch

\* A call comes to own its order by inserting the row: nobody owned it.
LEMMA OwnerStep ==
    ASSUME DispatchInv, [Next]_vars
    PROVE  OneOwner' /\ OwnerHasRow' /\ SentAfterInsert'
<1> USE DEF DispatchInv, Typing, TypeOK
<1>1. ASSUME NEW r \in Requests, PlaceInsert(r)
      PROVE  OneOwner' /\ OwnerHasRow' /\ SentAfterInsert'
  <2>o. OrderOf[r] \in Orders
    BY OrdersAssumption
  <2>1. UNCHANGED rpc /\ pc \in [Requests -> Pc] /\ rpc[r] = "none"
    BY <1>1 DEF PlaceInsert, SentAfterInsert
  <2>2. CASE row[OrderOf[r]].st = "none"
    <3>1. pc' = [pc EXCEPT ![r] = "inserted"]
      BY <1>1, <2>2 DEF PlaceInsert
    <3>2. row'[OrderOf[r]].st # "none"
      BY <1>1, <2>o, <2>2 DEF PlaceInsert, NewRow, NoRow
    <3>3. \A s \in Requests : OrderOf[s] = OrderOf[r] => ~Owns(s)
      BY <2>2 DEF OwnerHasRow
    <3>4. \A s \in Requests : s # r => Owns(s)' = Owns(s)
      BY <2>1, <3>1 DEF Owns
    <3>5. OneOwner'
      BY <3>3, <3>4 DEF OneOwner
    <3>6. OwnerHasRow'
      BY <3>2, <3>4, RowsKept, OrdersAssumption DEF OwnerHasRow
    <3>7. SentAfterInsert'
      BY <2>1, <3>1 DEF SentAfterInsert
    <3> QED
      BY <3>5, <3>6, <3>7
  <2>3. CASE row[OrderOf[r]].st # "none"
    <3>1. pc' = [pc EXCEPT ![r] = "retry"]
      BY <1>1, <2>3 DEF PlaceInsert
    <3>2. \A s \in Requests : Owns(s)' => Owns(s)
      BY <2>1, <3>1 DEF Owns
    <3> QED
      BY <2>1, <3>1, <3>2, RowsKept, OrdersAssumption DEF OneOwner, OwnerHasRow, SentAfterInsert
  <2> QED
    BY <2>2, <2>3
<1>2. ASSUME NEW r \in Requests, PlaceStep(r), ~PlaceInsert(r)
      PROVE  OneOwner' /\ OwnerHasRow' /\ SentAfterInsert'
  <2>1. \A s \in Requests : Owns(s)' => Owns(s)
    BY <1>2 DEF Owns, PlaceStep, PlaceAdmit, PlaceSend, PlaceError, SidecarPlace,
       PlaceReply, PlaceNoReply, MarkSubmitted, PlaceRecheck, PlaceGone, ActivePc, Pc
  <2>2. SentAfterInsert'
    BY <1>2 DEF SentAfterInsert, PlaceStep, PlaceAdmit, PlaceSend, PlaceError, SidecarPlace,
       PlaceReply, PlaceNoReply, MarkSubmitted, PlaceRecheck, PlaceGone
  <2> QED
    BY <2>1, <2>2, RowsKept, OrdersAssumption DEF OneOwner, OwnerHasRow
<1>3. CASE \A r \in Requests : ~PlaceStep(r)
  <2>1. UNCHANGED <<pc, rpc>>
    BY <1>3, OthersKeepCalls
  <2> QED
    BY <2>1, RowsKept, OrdersAssumption DEF OneOwner, Owns, OwnerHasRow, SentAfterInsert
<1> QED
  BY <1>1, <1>2, <1>3

LEMMA DispatchStep == DispatchInv /\ [Next]_vars => DispatchInv'
BY HeldStep, OwnerStep, TypingStep DEF DispatchInv

\* However often POST /orders is retried with one client_order_id, one call at
\* most reaches the sidecar (the INSERT ... ON CONFLICT of place_order).
THEOREM OneDispatch == Spec => []AtMostOneDispatch
<1>1. DispatchInv => AtMostOneDispatch
  BY DEF DispatchInv, OneOwner, Owns, AtMostOneDispatch
<1> QED
  BY <1>1, DispatchInit, DispatchStep, PTL DEF Spec

\* place_order commits the row before it calls the sidecar, and nothing takes
\* the row away again.
THEOREM PersistedFirst == Spec => []PersistedBeforeDispatch
<1>1. DispatchInv => PersistedBeforeDispatch
  BY DEF DispatchInv, OwnerHasRow, Owns, HeldHasRow, PersistedBeforeDispatch
<1> QED
  BY <1>1, DispatchInit, DispatchStep, PTL DEF Spec

-----------------------------------------------------------------------------
(* place_order implements PlaceOnce.                                       *)

\* PlaceInsert records a new order, PlaceSend sends, the rest is unseen.
LEMMA OnceStep ==
    ASSUME DispatchInv, [Next]_vars
    PROVE  [Once!Next]_<<recorded, sent>>
<1> USE DEF DispatchInv, Typing, TypeOK
<1>1. ASSUME NEW r \in Requests, PlaceInsert(r)
      PROVE  [Once!Next]_<<recorded, sent>>
  <2>o. OrderOf[r] \in Orders
    BY OrdersAssumption
  <2>1. UNCHANGED sent
    BY <1>1 DEF PlaceInsert, sent
  <2>2. CASE row[OrderOf[r]].st = "none"
    <3>1. row' = [row EXCEPT ![OrderOf[r]] = NewRow] /\ NewRow.st # "none"
      BY <1>1, <2>2 DEF PlaceInsert, NewRow, NoRow
    <3>2. OrderOf[r] \notin recorded /\ recorded' = recorded \cup {OrderOf[r]}
      BY <2>o, <2>2, <3>1 DEF recorded
    <3> QED
      BY <2>o, <2>1, <3>2 DEF Once!Next, Once!Record, recorded, sent
  <2>3. CASE row[OrderOf[r]].st # "none"
    <3>1. UNCHANGED recorded
      BY <1>1, <2>3 DEF PlaceInsert, recorded
    <3> QED
      BY <2>1, <3>1
  <2> QED
    BY <2>2, <2>3
<1>2. ASSUME \A r \in Requests : ~PlaceInsert(r)
      PROVE  UNCHANGED recorded
  BY <1>2, RowsStay DEF recorded
<1>3. ASSUME NEW r \in Requests, PlaceSend(r)
      PROVE  Once!Next
  <2>1. \A s \in Requests : ~PlaceInsert(s)
    <3>1. UNCHANGED row /\ pc'[r] = "calling" /\ pc[r] = "inserted"
      BY <1>3 DEF PlaceSend
    <3>2. ASSUME NEW s \in Requests, PlaceInsert(s) PROVE FALSE
      <4>1. pc[s] = "admitted" /\ s # r
        BY <3>1, <3>2 DEF PlaceInsert
      <4>2. pc'[r] = pc[r]
        BY <3>2, <4>1 DEF PlaceInsert
      <4> QED
        BY <3>1, <4>2
    <3> QED
      BY <3>2
  <2>2. UNCHANGED recorded
    BY <1>2, <2>1
  <2>3. sent' = sent \cup {r}
    BY <1>3 DEF PlaceSend, sent
  <2>4. OrderOf[r] \in recorded
    BY <1>3, OrdersAssumption DEF PlaceSend, OwnerHasRow, Owns, recorded
  <2>5. \A s \in sent : OrderOf[s] # OrderOf[r]
    <3>1. Owns(r) /\ rpc[r] = "none"
      BY <1>3 DEF PlaceSend, Owns, SentAfterInsert
    <3> QED
      BY <3>1 DEF OneOwner, Owns, sent
  <2> QED
    BY <2>2, <2>3, <2>4, <2>5 DEF Once!Next, Once!Send, recorded, sent
<1>4. ASSUME NEW r \in Requests, PlaceStep(r), ~PlaceSend(r)
      PROVE  UNCHANGED sent
  <2>1. \A s \in Requests : rpc'[s] # "none" <=> rpc[s] # "none"
    BY <1>4 DEF PlaceStep, PlaceAdmit, PlaceInsert, PlaceError, SidecarPlace,
       PlaceReply, PlaceNoReply, MarkSubmitted, PlaceRecheck, PlaceGone
  <2> QED
    BY <2>1 DEF sent
<1>5. CASE \A r \in Requests : ~PlaceStep(r)
  <2>1. UNCHANGED sent
    BY <1>5, OthersKeepCalls DEF sent
  <2>2. \A r \in Requests : ~PlaceInsert(r)
    BY <1>5 DEF PlaceStep
  <2> QED
    BY <1>2, <2>1, <2>2
<1> QED
  BY <1>1, <1>2, <1>3, <1>4, <1>5

\* POST /orders records, then sends, and sends once: every behaviour of the
\* orders, seen through the table and the RPCs sent, is one of PlaceOnce.
THEOREM PlaceRefinesOnce == Spec => RecordedThenSentOnce
<1>1. Init => Once!Init
  BY OrdersAssumption DEF Init, NoRow, Once!Init
<1>2. DispatchInv /\ [Next]_vars => [Once!Next]_<<recorded, sent>>
  BY OnceStep
<1> QED
  BY <1>1, <1>2, DispatchInit, DispatchStep, PTL
  DEF Spec, RecordedThenSentOnce, Once!Spec, recorded, sent
-----------------------------------------------------------------------------
(* The kill switch.                                                        *)

\* A call that was on its way when the switch was engaged still has its second
\* look at the switch before it: the switch stays engaged until then.
CaughtMeetsSwitch == caught # {} => kill

SweepInv == Typing /\ CaughtMeetsSwitch /\ KillSwitchSweeps

\* PlaceRecheck alone makes a call 'submitted', and sweeps under the switch.
LEMMA SweepStep ==
    ASSUME SweepInv, [Next]_vars
    PROVE  CaughtMeetsSwitch' /\ KillSwitchSweeps'
<1> USE DEF SweepInv, Typing, TypeOK, CaughtMeetsSwitch, KillSwitchSweeps
<1>1. ASSUME NEW r \in Requests, PlaceStep(r)
      PROVE  CaughtMeetsSwitch' /\ KillSwitchSweeps'
  <2>1. CASE PlaceRecheck(r)
    <3>1. /\ UNCHANGED <<kill, caught>>
          /\ pc' = [pc EXCEPT ![r] = "submitted"]
          /\ kill => swept' = swept \cup {OrderOf[r]}
          /\ ~kill => swept' = swept
      BY <2>1 DEF PlaceRecheck
    <3> QED
      BY <3>1
  <2>2. CASE ~PlaceRecheck(r)
    <3>1. UNCHANGED <<kill, caught, swept>>
      BY <1>1, <2>2 DEF PlaceStep, PlaceAdmit, PlaceInsert, PlaceSend, PlaceError,
         SidecarPlace, PlaceReply, PlaceNoReply, MarkSubmitted, PlaceGone, killVars
    <3>2. \A s \in Requests : pc'[s] = "submitted" => pc[s] = "submitted"
      BY <1>1, <2>2 DEF PlaceStep, PlaceAdmit, PlaceInsert, PlaceSend, PlaceError,
         SidecarPlace, PlaceReply, PlaceNoReply, MarkSubmitted, PlaceGone
    <3> QED
      BY <3>1, <3>2
  <2> QED
    BY <2>1, <2>2
<1>2. CASE EngageKillSwitch
  BY <1>2 DEF EngageKillSwitch, ActivePc
<1>3. CASE (\A r \in Requests : ~PlaceStep(r)) /\ ~EngageKillSwitch
  <2>1. UNCHANGED <<pc, rpc>>
    BY <1>3, OthersKeepCalls
  <2>2. UNCHANGED <<kill, caught, swept>>
    BY <1>3 DEF Next, vars, killVars, BrokerFill, BrokerEnd, CancelStep, CancelBegin,
       CancelAccepted, CancelFailed, CancelGone, FiveSecondsPass, Grow, ConsumerStep,
       StreamOpen, StreamResync, Consume, StreamBreak, ConsumeSynthetic, WatchdogStep,
       WatchdogScan, WatchdogResolve, WatchdogRestart, WatchdogLookup, WatchdogBrokerError
  <2> QED
    BY <2>1, <2>2
<1> QED
  BY <1>1, <1>2, <1>3

\* Whatever place_order call is between its two looks at the kill switch when
\* the switch is engaged, it is not reported submitted without a cancel tried.
THEOREM SwitchSweeps == Spec => []KillSwitchSweeps
<1>1. Init => SweepInv
  BY InitTyping DEF Init, SweepInv, CaughtMeetsSwitch, KillSwitchSweeps
<1>2. SweepInv /\ [Next]_vars => SweepInv'
  BY SweepStep, TypingStep DEF SweepInv
<1>3. SweepInv => KillSwitchSweeps
  BY DEF SweepInv
<1> QED
  BY <1>1, <1>2, <1>3, PTL DEF Spec
-----------------------------------------------------------------------------
(* A row only advances.                                                    *)

LEMMA RankType == /\ \A s \in Status : Rank(s) \in -1..5
                  /\ Rank("rejected") = 5 /\ Rank("none") = -1
<1>1. \A s \in Status : Rank(s) \in -1..5
  BY DEF Rank
<1>2. Rank("rejected") = 5 /\ Rank("none") = -1
  BY DEF Rank
<1> QED
  BY <1>1, <1>2

\* Of a row before and after a step: neither rank nor quantity went down, and
\* a row that is still absent is what it was.
Risen(old, new) ==
    /\ Rank(new.st) >= Rank(old.st)
    /\ new.filled >= old.filled
    /\ new.st = "none" => old.st = "none" /\ new.filled = old.filled

LEMMA RisenReflexive == \A r \in Rows : Risen(r, r)
<1> SUFFICES ASSUME NEW r \in Rows PROVE Risen(r, r)
  OBVIOUS
<1>1. Rank(r.st) \in Int /\ r.filled \in Int
  BY RankType, QtyAssumption DEF Rows
<1> QED
  BY <1>1 DEF Risen

\* Whatever event comes, in whatever order, it lowers neither.
LEMMA ProcessedRises ==
    ASSUME NEW r \in Rows, NEW e, e.filled \in 0..Qty, e.at \in Nat,
           e.st \in Reports \cup Status, e.st # "none"
    PROVE  Risen(r, Processed(r, e))
<1>1. CASE Processed(r, e) = r
  BY <1>1, RisenReflexive
<1>2. CASE Processed(r, e) # r
  <2>1. e.st \in Status /\ Processed(r, e) = UpdateOrder(r, e) /\ r.st # "none"
    BY <1>2 DEF Processed, Reports, Status
  <2>2. ~(e.at < r.last)
    BY <1>2, <2>1 DEF UpdateOrder
  <2> DEFINE new == UpdateOrder(r, e)
  <2>3. /\ new.st = Settle(r.st, e.st)
        /\ new.filled = IF e.filled > r.filled THEN e.filled ELSE r.filled
    BY <2>2 DEF UpdateOrder, Rows
  <2>4. Rank(r.st) \in Int /\ Rank(e.st) \in Int
    BY <2>1, RankType DEF Rows
  <2>5. Rank(Settle(r.st, e.st)) >= Rank(r.st) /\ Settle(r.st, e.st) # "none"
    BY <2>1, <2>4 DEF Settle
  <2>6. new.filled >= r.filled
    BY <2>3, QtyAssumption DEF Rows
  <2> HIDE DEF new
  <2> QED
    BY <2>1, <2>3, <2>5, <2>6 DEF Risen, new
<1> QED
  BY <1>1, <1>2

\* place_order is recording the broker's answer in the row of o.
Recording(o) == \E r \in Requests : OrderOf[r] = o /\ pc[r] = "answered" /\ pc'[r] = "marked"

\* Every row rises, but that place_order's own record may lower a rank.
RowsRise ==
    \A o \in Orders : \/ Risen(row[o], row'[o])
                      \/ /\ Recording(o)
                         /\ row'[o].st # "none" /\ row'[o].filled = row[o].filled

\* A step changes one row at most.
LEMMA OneRowRises ==
    ASSUME Typing, NEW p \in Orders, NEW new, row' = [row EXCEPT ![p] = new],
           Risen(row[p], new)
    PROVE  RowsRise
<1>1. row \in [Orders -> Rows]
  BY DEF Typing, TypeOK
<1>2. ASSUME NEW o \in Orders PROVE Risen(row[o], row'[o])
  BY <1>1, RisenReflexive
<1> QED
  BY <1>2 DEF RowsRise

\* An event, live or synthetic, is processed.
LEMMA EventRises ==
    ASSUME Typing, NEW p \in Orders, NEW e, row' = [row EXCEPT ![p] = Processed(row[p], e)],
           e.filled \in 0..Qty, e.at \in Nat, e.st \in Reports \cup Status, e.st # "none"
    PROVE  RowsRise
<1>1. row[p] \in Rows
  BY DEF Typing, TypeOK
<1> QED
  BY <1>1, ProcessedRises, OneRowRises

LEMMA SameRowsRise == Typing /\ UNCHANGED row => RowsRise
<1> SUFFICES ASSUME Typing, UNCHANGED row PROVE RowsRise
  OBVIOUS
<1>1. row \in [Orders -> Rows]
  BY DEF Typing, TypeOK
<1> QED
  BY <1>1, RisenReflexive DEF RowsRise

\* An absent row has no quantity: the row that is inserted takes none away.
AbsentIsEmpty == \A o \in Orders : row[o].st = "none" => row[o].filled = 0

LEMMA PlaceRises ==
    ASSUME Typing, AbsentIsEmpty, NEW r \in Requests, PlaceStep(r)
    PROVE  RowsRise
<1> DEFINE o == OrderOf[r]
<1>o. o \in Orders
  BY OrdersAssumption
<1>t. row \in [Orders -> Rows] /\ pc \in [Requests -> Pc] /\ row[o] \in Rows
  BY <1>o DEF Typing, TypeOK
<1>1. CASE PlaceInsert(r) /\ row[o].st = "none"
  <2>1. row' = [row EXCEPT ![o] = NewRow]
    BY <1>1 DEF PlaceInsert
  <2>2. NewRow.st = "pending_submit" /\ NewRow.filled = 0
    BY DEF NewRow, NoRow
  <2>3. row[o].filled = 0
    BY <1>1, <1>o DEF AbsentIsEmpty
  <2>4. Rank("pending_submit") = 0
    BY DEF Rank
  <2>5. Risen(row[o], NewRow)
    BY <1>1, <2>2, <2>3, <2>4, RankType DEF Risen
  <2> QED
    BY <1>o, <2>1, <2>5, OneRowRises
<1>2. CASE PlaceError(r)
  <2> DEFINE new == [row[o] EXCEPT !.st = "rejected"]
  <2>1. row' = [row EXCEPT ![o] = new]
    BY <1>2 DEF PlaceError
  <2>2. new.st = "rejected" /\ new.filled = row[o].filled
    BY <1>t DEF Rows
  <2>3. Rank(row[o].st) \in -1..5 /\ row[o].filled \in Int
    BY <1>t, RankType, QtyAssumption DEF Rows
  <2> HIDE DEF new
  <2>4. Risen(row[o], new)
    BY <2>2, <2>3, RankType DEF Risen
  <2> QED
    BY <1>o, <2>1, <2>4, OneRowRises
<1>3. CASE MarkSubmitted(r)
  <2> DEFINE new == [row[o] EXCEPT !.st = "submitted", !.known = TRUE]
  <2>1. row' = [row EXCEPT ![o] = new] /\ pc[r] = "answered" /\ pc'[r] = "marked"
    BY <1>3, <1>t DEF MarkSubmitted
  <2>2. new.st = "submitted" /\ new.filled = row[o].filled
    BY <1>t DEF Rows
  <2> HIDE DEF new
  <2>3. row'[o] = new /\ \A p \in Orders \ {o} : row'[p] = row[p]
    BY <1>o, <1>t, <2>1
  <2>4. Recording(o)
    BY <2>1 DEF Recording
  <2>5. \A p \in Orders \ {o} : Risen(row[p], row'[p])
    BY <1>t, <2>3, RisenReflexive
  <2> HIDE DEF o
  <2> QED
    BY <2>2, <2>3, <2>4, <2>5 DEF RowsRise
<1>4. CASE UNCHANGED row
  BY <1>4, SameRowsRise
<1> QED
  BY <1>1, <1>2, <1>3, <1>4 DEF PlaceStep, PlaceAdmit, PlaceInsert, PlaceSend, SidecarPlace,
     PlaceReply, PlaceNoReply, PlaceRecheck, PlaceGone

LEMMA CancelRises ==
    ASSUME Typing, NEW c \in Cancels, CancelStep(c)
    PROVE  RowsRise
<1> DEFINE o == CancelOf[c]
           marked(m) == [row[o] EXCEPT !.mark = m]
<1>o. o \in Orders
  BY CancelsAssumption
<1>t. row[o] \in Rows /\ row \in [Orders -> Rows]
  BY <1>o DEF Typing, TypeOK
<1>1. UNCHANGED row \/ \E m : row' = [row EXCEPT ![o] = marked(m)]
  BY <1>t DEF CancelStep, CancelBegin, CancelAccepted, CancelFailed, CancelGone, FiveSecondsPass
<1>2. ASSUME NEW m, row' = [row EXCEPT ![o] = marked(m)]
      PROVE  RowsRise
  <2>1. marked(m).st = row[o].st /\ marked(m).filled = row[o].filled
    BY <1>t DEF Rows
  <2> HIDE DEF marked
  <2>2. Risen(row[o], marked(m))
    BY <1>t, <2>1, RisenReflexive DEF Risen
  <2> QED
    BY <1>o, <1>2, <2>2, OneRowRises
<1> QED
  BY <1>1, <1>2, SameRowsRise

LEMMA ConsumerRises ==
    ASSUME Typing, ConsumerStep
    PROVE  RowsRise
<1> USE DEF consumerVars, watchdogVars, killVars
<1>1. CASE Consume
  <2>1. Head(stream) \in Events
    BY <1>1 DEF Consume, Typing, TypeOK
  <2> QED
    BY <1>1, <2>1, EventRises DEF Consume, Events, Reports, Ended
<1>2. ASSUME NEW e \in synth, ConsumeSynthetic(e)
      PROVE  RowsRise
  BY <1>2, EventRises DEF ConsumeSynthetic, Synths, Typing, TypeOK
<1>3. CASE UNCHANGED row
  BY <1>3, SameRowsRise
<1> QED
  BY <1>1, <1>2, <1>3 DEF ConsumerStep, StreamOpen, StreamResync, StreamBreak

LEMMA WatchdogRises ==
    ASSUME Typing, WatchdogStep
    PROVE  RowsRise
<1>1. CASE WatchdogResolve
  <2> DEFINE o == lookup.o
             e == [o |-> o, st |-> lookup.st, filled |-> lookup.filled,
                   exec |-> FALSE, at |-> lookup.at]
  <2>1. lookup \in Lookups
    BY <1>1 DEF WatchdogResolve, Typing, TypeOK
  <2>2. o \in Orders
    BY <2>1 DEF Lookups
  <2>t. row[o] \in Rows
    BY <2>2 DEF Typing, TypeOK
  <2>3. CASE lookup.st # "none"
    <3>1. row' = [row EXCEPT ![o] = Processed(row[o], e)]
      BY <1>1, <2>2, <2>3 DEF WatchdogResolve
    <3>2. e.filled \in 0..Qty /\ e.at \in Nat /\ e.st \in Reports \cup Status
      BY <2>1 DEF Lookups
    <3>3. e.st # "none"
      BY <2>3
    <3> HIDE DEF e
    <3> QED
      BY <2>2, <3>1, <3>2, <3>3, EventRises
  <2>4. CASE lookup.st = "none"
    <3> DEFINE new == [row[o] EXCEPT !.st = "rejected", !.last = After(broker[o])]
    <3>1. row' = row \/ row' = [row EXCEPT ![o] = new]
      BY <1>1, <2>2, <2>4 DEF WatchdogResolve
    <3>2. new.st = "rejected" /\ new.filled = row[o].filled
      BY <2>t DEF Rows
    <3>3. Rank(row[o].st) \in -1..5 /\ row[o].filled \in Int
      BY <2>t, RankType, QtyAssumption DEF Rows
    <3> HIDE DEF new
    <3>4. Risen(row[o], new)
      BY <3>2, <3>3, RankType DEF Risen
    <3> HIDE DEF o
    <3> QED
      BY <2>2, <3>1, <3>4, OneRowRises, SameRowsRise
  <2> QED
    BY <2>3, <2>4
<1>2. CASE UNCHANGED row
  BY <1>2, SameRowsRise
<1> QED
  BY <1>1, <1>2 DEF WatchdogStep, WatchdogScan, WatchdogRestart, WatchdogLookup,
     WatchdogBrokerError

LEMMA StepRises == Typing /\ AbsentIsEmpty /\ [Next]_vars => RowsRise
<1> SUFFICES ASSUME Typing, AbsentIsEmpty, [Next]_vars PROVE RowsRise
  OBVIOUS
<1>1. ASSUME NEW o \in Orders, BrokerFill(o) \/ BrokerEnd(o) \/ Grow(o)
      PROVE  RowsRise
  BY <1>1, SameRowsRise DEF BrokerFill, BrokerEnd, Grow
<1>2. CASE EngageKillSwitch
  BY <1>2, SameRowsRise DEF EngageKillSwitch
<1>3. CASE UNCHANGED vars
  BY <1>3, SameRowsRise DEF vars
<1> QED
  BY <1>1, <1>2, <1>3, PlaceRises, CancelRises, ConsumerRises, WatchdogRises DEF Next

RowInv == Typing /\ AbsentIsEmpty

LEMMA RowInvariant == Spec => []RowInv
<1>1. Init => RowInv
  BY InitTyping DEF Init, RowInv, AbsentIsEmpty, NoRow
<1>2. RowInv /\ [Next]_vars => RowInv'
  <2> SUFFICES ASSUME RowInv, [Next]_vars PROVE RowInv'
    OBVIOUS
  <2>1. Typing' /\ RowsRise
    BY TypingStep, StepRises DEF RowInv
  <2>2. AbsentIsEmpty'
    BY <2>1 DEF RowInv, AbsentIsEmpty, RowsRise, Risen
  <2> QED
    BY <2>1, <2>2 DEF RowInv
<1> QED
  BY <1>1, <1>2, PTL DEF Spec

\* No mixture of live, synthetic and repeated messages lowers a row's status;
\* only place_order does, when it records the broker's answer.  And a quantity
\* once recorded as executed is never taken back, by any step.
THEOREM RowsNeverRegress == Spec => RowNeverRegresses
<1>1. RowInv /\ RowInv' /\ [Next]_vars =>
        [\A o \in Orders : RankKept(o) /\ row'[o].filled >= row[o].filled]_vars
  <2> SUFFICES ASSUME RowInv, RowInv', [Next]_vars
               PROVE  \A o \in Orders : RankKept(o) /\ row'[o].filled >= row[o].filled
    OBVIOUS
  <2>1. \A o \in Orders : RankKept(o)
    BY StepRises DEF RowInv, RowsRise, Risen, Recording, RankKept
  <2>2. row \in [Orders -> Rows]
    BY DEF RowInv, Typing, TypeOK
  <2>3. \A o \in Orders : row[o].filled \in Int
    BY <2>2, QtyAssumption DEF Rows
  <2> QED
    BY <2>1, <2>3, StepRises DEF RowInv, RowsRise, Risen
<1> QED
  BY <1>1, RowInvariant, PTL DEF Spec, RowNeverRegresses

-----------------------------------------------------------------------------
(* What the orders table says of the broker: that a row is never ahead of  *)
(* its order, that none of its executions is hidden, and that one DELETE   *)
(* at a time is forwarded.  The argument runs over the messages under way: *)
(* whatever was true of the broker when a message left it stays true, as   *)
(* the broker only moves on.                                               *)

Done == {"filled"} \cup Ended

\* How an order at the broker may change: it stays one that exists, its fills
\* and its version grow, and one that is done stays as it is.
MovedOn(old, new) ==
    /\ old.st # "none" => new.st # "none"
    /\ new.filled >= old.filled
    /\ new.ver >= old.ver
    /\ old.st \in Done => new = old

\* What a message from or about the broker says, the broker bears out.
Borne(e) ==
    /\ broker[e.o].st # "none"
    /\ e.filled <= broker[e.o].filled
    /\ e.at <= At(broker[e.o])
    /\ e.st = "filled" => broker[e.o].st \in Done /\ e.filled = broker[e.o].filled
    /\ e.st \in {"cancelled", "inactive"} => broker[e.o].st = e.st

\* A live event says 'filled' of a filled order; a snapshot says it of any
\* order that ended with a fill, too.
Live(e) == Borne(e) /\ (e.st = "filled" => broker[e.o].st = "filled")

EventsLive  == \A i \in DOMAIN stream : Live(stream[i])
SynthsBorne == \A e \in synth : Borne(e)
LookupBorne == lookup.st # "none" => lookup \in Lookups /\ Borne(lookup)
NoSnapshot  == SnapshotKeyedByClientId = FALSE => synth = {} /\ lookup.st = "none"
Messages    == EventsLive /\ SynthsBorne /\ LookupBorne /\ NoSnapshot

\* What a row r says, the order b at the broker bears out.
Says(r, b) ==
    /\ r.filled <= b.filled
    /\ r.known => b.st # "none"
    /\ r.st \in {"submitted", "partial"} => b.st # "none"
    /\ r.st = "filled" => b.st \in Done /\ r.filled = b.filled
    /\ r.st = "filled" /\ SnapshotKeyedByClientId = FALSE => b.st = "filled"
    /\ r.st \in {"cancelled", "inactive"} => b.st = r.st
    /\ r.last <= After(b)
RowsBorne == \A o \in Orders : Says(row[o], broker[o])

AnsweredHeld ==
    \A r \in Requests : /\ pc[r] = "answered" => rpc[r] = "placed"
                        /\ rpc[r] = "placed" => broker[OrderOf[r]].st # "none"
FilledWhole  ==
    \A o \in Orders : /\ broker[o].st = "filled" => broker[o].filled = Qty
                      /\ broker[o].st = "none" => broker[o].filled = 0

TruthInv == DispatchInv /\ Messages /\ RowsBorne /\ AnsweredHeld /\ FilledWhole
-----------------------------------------------------------------------------
(* The broker moves on.                                                    *)

LEMMA MovedOnReflexive == \A b \in Held : MovedOn(b, b)
BY QtyAssumption DEF MovedOn, Held

LEMMA OneMovesOn ==
    ASSUME Typing, NEW o \in Orders, NEW b, broker' = [broker EXCEPT ![o] = b],
           MovedOn(broker[o], b)
    PROVE  \A p \in Orders : MovedOn(broker[p], broker'[p])
<1>1. broker \in [Orders -> Held]
  BY DEF Typing, TypeOK
<1> QED
  BY <1>1, MovedOnReflexive

\* Three steps change the broker; two of them are its own.
LEMMA OthersKeepBroker ==
    ASSUME [Next]_vars, \A r \in Requests : ~SidecarPlace(r),
           \A o \in Orders : ~BrokerFill(o) /\ ~BrokerEnd(o)
    PROVE  UNCHANGED broker
<1>1. ASSUME NEW r \in Requests, PlaceStep(r) PROVE UNCHANGED broker
  BY <1>1 DEF PlaceStep, PlaceAdmit, PlaceInsert, PlaceSend, PlaceError,
     PlaceReply, PlaceNoReply, MarkSubmitted, PlaceRecheck, PlaceGone
<1>2. ASSUME NEW c \in Cancels, CancelStep(c) PROVE UNCHANGED broker
  BY <1>2 DEF CancelStep, CancelBegin, CancelAccepted, CancelFailed, CancelGone, FiveSecondsPass
<1>3. ASSUME ConsumerStep PROVE UNCHANGED broker
  BY <1>3 DEF ConsumerStep, StreamOpen, StreamResync, Consume, StreamBreak, ConsumeSynthetic
<1>4. ASSUME WatchdogStep PROVE UNCHANGED broker
  BY <1>4 DEF WatchdogStep, WatchdogScan, WatchdogResolve, WatchdogRestart, WatchdogLookup,
     WatchdogBrokerError
<1> QED
  BY <1>1, <1>2, <1>3, <1>4 DEF Next, Grow, EngageKillSwitch, vars

\* What a fill makes of an order.
LEMMA FillMoves ==
    ASSUME Typing, NEW o \in Orders, BrokerFill(o)
    PROVE  \E b \in Held, exec \in BOOLEAN, st \in {"filled", "submitted", "partial"} :
              /\ broker' = [broker EXCEPT ![o] = b]
              /\ Emit(o, b, st, exec)
              /\ MovedOn(broker[o], b)
              /\ \/ b.st = "working" /\ st # "filled"
                 \/ b.st = "filled" /\ st = "filled" /\ b.filled = Qty
<1> DEFINE n == broker[o].filled + 1
           st1 == IF n = Qty THEN "filled" ELSE "working"
           b == Moved(broker[o], st1, n)
<1>0. broker[o] \in Held /\ broker[o].st = "working" /\ broker[o].filled < Qty
  BY DEF BrokerFill, Typing, TypeOK, WorkingIsOpen
<1>1. n \in 0..Qty
  BY <1>0, QtyAssumption DEF Held
<1>2. b = [st |-> st1, filled |-> n, ver |-> broker[o].ver + 1] /\ b \in Held
  BY <1>0, <1>1 DEF Moved, Held
<1>3. PICK exec \in BOOLEAN, st \in IF n = Qty THEN {"filled"} ELSE PartialReports :
         broker' = [broker EXCEPT ![o] = b] /\ Emit(o, b, st, exec)
  BY DEF BrokerFill
<1>4. MovedOn(broker[o], b)
  BY <1>0, <1>2, QtyAssumption DEF MovedOn, Done, Ended, Held
<1>5. \/ b.st = "working" /\ st # "filled"
      \/ b.st = "filled" /\ st = "filled" /\ b.filled = Qty
  <2>1. b.st = st1 /\ b.filled = n
    BY <1>2
  <2> HIDE DEF b, n
  <2>2. CASE n = Qty
    BY <1>3, <2>1, <2>2
  <2>3. CASE n # Qty
    BY <1>3, <2>1, <2>3, ReportsAssumption
  <2> QED
    BY <2>2, <2>3
<1>6. st \in {"filled", "submitted", "partial"}
  BY <1>3, ReportsAssumption
<1> HIDE DEF b
<1> QED
  BY <1>2, <1>3, <1>4, <1>5, <1>6

LEMMA EndMoves ==
    ASSUME Typing, NEW o \in Orders, BrokerEnd(o)
    PROVE  \E b \in Held, st \in Ended :
              /\ broker' = [broker EXCEPT ![o] = b]
              /\ Emit(o, b, st, FALSE)
              /\ MovedOn(broker[o], b)
              /\ b.st = st
<1>1. PICK st \in Ended :
         /\ broker' = [broker EXCEPT ![o] = Moved(broker[o], st, broker[o].filled)]
         /\ Emit(o, Moved(broker[o], st, broker[o].filled), st, FALSE)
  BY DEF BrokerEnd
<1> DEFINE b == Moved(broker[o], st, broker[o].filled)
<1>2. broker[o] \in Held /\ broker[o].st = "working"
  BY DEF BrokerEnd, Typing, TypeOK
<1>3. b = [st |-> st, filled |-> broker[o].filled, ver |-> broker[o].ver + 1] /\ b \in Held
  BY <1>2 DEF Moved, Held
<1>4. MovedOn(broker[o], b)
  BY <1>2, <1>3, QtyAssumption DEF MovedOn, Done, Ended, Held
<1> HIDE DEF b
<1> QED
  BY <1>1, <1>3, <1>4 DEF b

LEMMA PlacedMoves ==
    ASSUME Typing, FilledWhole, NEW r \in Requests, SidecarPlace(r),
           ~UNCHANGED <<broker, stream>>
    PROVE  \E b \in Held, st \in {"submitted", "presubmitted"} :
              /\ broker' = [broker EXCEPT ![OrderOf[r]] = b]
              /\ Emit(OrderOf[r], b, st, FALSE)
              /\ MovedOn(broker[OrderOf[r]], b)
              /\ b.st = "working"
              /\ broker[OrderOf[r]].st = "none"
<1> DEFINE o == OrderOf[r]
           b == Moved(broker[o], "working", 0)
<1>1. o \in Orders /\ broker[o] \in Held
  BY OrdersAssumption DEF Typing, TypeOK
<1>2. b = [st |-> "working", filled |-> 0, ver |-> broker[o].ver + 1] /\ b \in Held
  BY <1>1, QtyAssumption DEF Moved, Held
<1>3. /\ broker[o].st = "none"
      /\ broker' = [broker EXCEPT ![o] = b]
      /\ \E st \in {"submitted", "presubmitted"} : Emit(o, b, st, FALSE)
  BY DEF SidecarPlace
<1>4. MovedOn(broker[o], b)
  BY <1>1, <1>2, <1>3 DEF MovedOn, FilledWhole, Done, Ended, Held
<1>5. PICK st \in {"submitted", "presubmitted"} : Emit(o, b, st, FALSE)
  BY <1>3
<1> HIDE DEF b
<1> QED
  BY <1>2, <1>3, <1>4, <1>5
-----------------------------------------------------------------------------
(* What messages say stays true.                                           *)

LEMMA BorneStays ==
    ASSUME Typing, Typing', NEW e, e.o \in Orders, e.filled \in Nat, e.at \in Nat,
           MovedOn(broker[e.o], broker'[e.o])
    PROVE  (Borne(e) => Borne(e)') /\ (Live(e) => Live(e)')
<1> DEFINE old == broker[e.o]
           new == broker'[e.o]
<1>1. old \in Held /\ new \in Held
  BY DEF Typing, TypeOK
<1>2. /\ old.filled \in Int /\ new.filled \in Int
      /\ At(old) \in Int /\ At(new) \in Int /\ At(old) <= At(new)
  BY <1>1, QtyAssumption DEF Held, At, MovedOn
<1>3. Borne(e) => Borne(e)'
  BY <1>2 DEF Borne, MovedOn, Done, Ended
<1>4. old.st = "filled" => new.st = "filled"
  BY DEF MovedOn, Done
<1> QED
  BY <1>3, <1>4 DEF Live

\* Any message there can be.
Mail == Events \cup Synths \cup Lookups

LEMMA MailStays ==
    ASSUME Typing, Typing', \A o \in Orders : MovedOn(broker[o], broker'[o])
    PROVE  \A e \in Mail : (Borne(e) => Borne(e)') /\ (Live(e) => Live(e)')
<1> SUFFICES ASSUME NEW e \in Mail
             PROVE  (Borne(e) => Borne(e)') /\ (Live(e) => Live(e)')
  OBVIOUS
<1>1. e.o \in Orders /\ e.filled \in Nat /\ e.at \in Nat
  BY QtyAssumption DEF Mail, Events, Synths, Lookups
<1> QED
  BY <1>1, BorneStays

\* A report put on the queue is true of the order as it now is.
LEMMA EmitLive ==
    ASSUME Typing, Typing', EventsLive, NEW o \in Orders, NEW b \in Held, NEW st \in Reports,
           NEW exec \in BOOLEAN, Emit(o, b, st, exec),
           broker' = [broker EXCEPT ![o] = b], MovedOn(broker[o], b), b.st # "none",
           st \in Done => b.st = st
    PROVE  EventsLive'
<1> DEFINE e == [o |-> o, st |-> st, filled |-> b.filled, exec |-> exec, at |-> At(b)]
<1>1. broker \in [Orders -> Held] /\ stream \in Seq(Events)
  BY DEF Typing, TypeOK
<1>e. e \in Events
  BY DEF Events, Held, At
<1>2. \A p \in Orders : MovedOn(broker[p], broker'[p])
  BY OneMovesOn
<1>3. Live(e)'
  <2>1. broker'[o] = b
    BY <1>1
  <2>2. b.filled \in Int /\ At(b) \in Int
    BY QtyAssumption DEF Held, At
  <2>3. Borne(e)'
    BY <2>1, <2>2 DEF Borne, Done, Ended
  <2> QED
    BY <2>1, <2>3 DEF Live, Done
<1>4. \A i \in DOMAIN stream : Live(stream[i]) /\ stream[i] \in Mail
  BY <1>1 DEF EventsLive, Mail
<1>5. \A m \in Mail : Live(m) => Live(m)'
  BY <1>2, MailStays
<1>6. CASE stream' = stream
  BY <1>4, <1>5, <1>6 DEF EventsLive
<1>7. CASE stream' = Append(stream, e)
  <2> HIDE DEF e
  <2>1. ASSUME NEW i \in DOMAIN stream'
        PROVE  stream'[i] = e \/ (i \in DOMAIN stream /\ stream'[i] = stream[i])
    <3>1. /\ Len(stream') = Len(stream) + 1 /\ i \in 1..Len(stream')
          /\ stream'[i] = IF i = Len(stream) + 1 THEN e ELSE stream[i]
      BY <1>1, <1>e, <1>7
    <3> QED
      BY <1>1, <3>1
  <2>2. ASSUME NEW i \in DOMAIN stream' PROVE Live(stream[i])'
    <3>1. CASE stream'[i] = e
      BY <1>3, <3>1
    <3>2. CASE i \in DOMAIN stream /\ stream'[i] = stream[i]
      <4>1. PICK m \in Mail : m = stream[i] /\ Live(m)
        BY <1>4, <3>2
      <4>2. Live(m)'
        BY <1>5, <4>1
      <4> QED
        BY <3>2, <4>1, <4>2
    <3> QED
      BY <2>1, <2>2, <3>1, <3>2
  <2> QED
    BY <2>2 DEF EventsLive
<1> QED
  BY <1>6, <1>7 DEF Emit

\* What is left on the queue is as true as it was.
Shrunk == \/ UNCHANGED stream
          \/ stream' = <<>>
          \/ stream # <<>> /\ stream' = Tail(stream)

LEMMA QueueShrinks ==
    ASSUME Typing, EventsLive, UNCHANGED broker, Shrunk
    PROVE  EventsLive'
<1>0. stream \in Seq(Events)
  BY DEF Typing, TypeOK
<1>k. \A i \in DOMAIN stream : Live(stream[i])
  BY DEF EventsLive
<1>1. CASE stream' = stream
  BY <1>1 DEF EventsLive, Live, Borne
<1>2. CASE stream' = Tail(stream) /\ stream # <<>>
  <2>2. \A i \in DOMAIN stream' : i + 1 \in DOMAIN stream /\ stream'[i] = stream[i + 1]
    BY <1>0, <1>2
  <2>3. \A i \in DOMAIN stream' : Live(stream[i])'
    BY <1>k, <2>2 DEF Live, Borne
  <2> QED
    BY <2>3 DEF EventsLive
<1>3. CASE stream' = <<>>
  BY <1>3 DEF EventsLive
<1> QED
  BY <1>1, <1>2, <1>3 DEF Shrunk

LEMMA EventsStep ==
    ASSUME Typing, Typing', EventsLive, FilledWhole, [Next]_vars
    PROVE  EventsLive'
<1>1. ASSUME NEW r \in Requests, SidecarPlace(r)
      PROVE  EventsLive'
  <2>1. CASE UNCHANGED <<broker, stream>>
    BY <2>1, QueueShrinks DEF Shrunk
  <2>2. CASE ~UNCHANGED <<broker, stream>>
    <3>1. OrderOf[r] \in Orders
      BY OrdersAssumption
    <3>2. PICK b \in Held, st \in {"submitted", "presubmitted"} :
              /\ broker' = [broker EXCEPT ![OrderOf[r]] = b]
              /\ Emit(OrderOf[r], b, st, FALSE)
              /\ MovedOn(broker[OrderOf[r]], b)
              /\ b.st = "working"
      BY <1>1, <2>2, PlacedMoves
    <3>3. st \in Reports /\ st \notin Done
      BY DEF Reports, Done, Ended
    <3> QED
      BY <3>1, <3>2, <3>3, EmitLive
  <2> QED
    BY <2>1, <2>2
<1>2. ASSUME NEW o \in Orders, BrokerFill(o)
      PROVE  EventsLive'
  <2>1. PICK b \in Held, exec \in BOOLEAN, st \in {"filled", "submitted", "partial"} :
              /\ broker' = [broker EXCEPT ![o] = b]
              /\ Emit(o, b, st, exec)
              /\ MovedOn(broker[o], b)
              /\ \/ b.st = "working" /\ st # "filled"
                 \/ b.st = "filled" /\ st = "filled" /\ b.filled = Qty
    BY <1>2, FillMoves
  <2>2. st \in Reports /\ b.st # "none" /\ (st \in Done => b.st = st)
    BY <2>1 DEF Reports, Done, Ended
  <2> QED
    BY <2>1, <2>2, EmitLive
<1>3. ASSUME NEW o \in Orders, BrokerEnd(o)
      PROVE  EventsLive'
  <2>1. PICK b \in Held, st \in Ended :
              /\ broker' = [broker EXCEPT ![o] = b]
              /\ Emit(o, b, st, FALSE)
              /\ MovedOn(broker[o], b)
              /\ b.st = st
    BY <1>3, EndMoves
  <2>2. st \in Reports /\ b.st # "none"
    BY <2>1 DEF Reports, Ended
  <2> QED
    BY <2>1, <2>2, EmitLive
<1>4. ASSUME \A r \in Requests : ~SidecarPlace(r),
             \A o \in Orders : ~BrokerFill(o) /\ ~BrokerEnd(o)
      PROVE  EventsLive'
  <2>1. UNCHANGED broker
    BY <1>4, OthersKeepBroker
  <2>2. Shrunk
    <3>1. ASSUME NEW r \in Requests, PlaceStep(r) PROVE UNCHANGED stream
      BY <1>4, <3>1 DEF PlaceStep, PlaceAdmit, PlaceInsert, PlaceSend, PlaceError, consumerVars,
         PlaceReply, PlaceNoReply, MarkSubmitted, PlaceRecheck, PlaceGone
    <3>2. ASSUME NEW c \in Cancels, CancelStep(c) PROVE UNCHANGED stream
      BY <3>2 DEF CancelStep, CancelBegin, CancelAccepted, CancelFailed, CancelGone,
         FiveSecondsPass, consumerVars
    <3>3. ASSUME ConsumerStep PROVE Shrunk
      BY <3>3 DEF Shrunk, ConsumerStep, StreamOpen, StreamResync, Consume, StreamBreak, ConsumeSynthetic
    <3>4. ASSUME WatchdogStep PROVE UNCHANGED stream
      BY <3>4 DEF WatchdogStep, WatchdogScan, WatchdogResolve, WatchdogRestart, WatchdogLookup,
         WatchdogBrokerError, consumerVars
    <3> QED
      BY <1>4, <3>1, <3>2, <3>3, <3>4 DEF Shrunk, Next, Grow, EngageKillSwitch, vars, consumerVars
  <2> QED
    BY <2>1, <2>2, QueueShrinks
<1> QED
  BY <1>1, <1>2, <1>3, <1>4
-----------------------------------------------------------------------------
(* Snapshots.                                                              *)

LEMMA SnapshotBorne ==
    ASSUME Typing, FilledWhole, NEW o \in Orders, Listed(o), NEW st \in SnapshotStatus(broker[o]),
           NEW e \in Mail, e.o = o, e.st = st, e.filled = broker[o].filled,
           e.at = At(broker[o])
    PROVE  Borne(e)
<1>1. broker[o] \in Held
  BY DEF Typing, TypeOK
<1>2. broker[o].filled \in Int /\ At(broker[o]) \in Int
  BY <1>1, QtyAssumption DEF Held, At
<1> QED
  BY <1>1, <1>2, ReportsAssumption
  DEF Borne, SnapshotStatus, Held, Done, Ended, Listed, FilledWhole

LEMMA ResyncBorne ==
    ASSUME Typing, FilledWhole, StreamResync
    PROVE  SynthsBorne' /\ (SnapshotKeyedByClientId = FALSE => synth' = {})
<1>1. CASE SnapshotKeyedByClientId = TRUE
  <2> DEFINE msg(o, st) == [o |-> o, st |-> st, filled |-> broker[o].filled,
                            exec |-> FALSE, at |-> At(broker[o])]
  <2>1. PICK st \in [Orders -> Status] :
           /\ \A o \in Orders : IF Listed(o) THEN st[o] \in SnapshotStatus(broker[o])
                                             ELSE st[o] = "none"
           /\ synth' = {msg(o, st[o]) : o \in {p \in Orders : Listed(p) /\ row[p].st # st[p]}}
    BY <1>1 DEF StreamResync
  <2>2. UNCHANGED broker
    BY DEF StreamResync
  <2>3. ASSUME NEW o \in Orders, Listed(o) PROVE Borne(msg(o, st[o]))
    <3>1. broker[o] \in Held /\ st[o] \in SnapshotStatus(broker[o])
      BY <2>1, <2>3 DEF Typing, TypeOK
    <3>2. msg(o, st[o]) \in Synths
      BY <2>3, <3>1, ReportsAssumption DEF Synths, SnapshotStatus, Status, At, Held
    <3> QED
      BY <2>3, <3>1, <3>2, SnapshotBorne DEF Mail
  <2>4. \A e \in synth' : Borne(e)
    BY <2>1, <2>3
  <2> QED
    BY <1>1, <2>2, <2>4 DEF SynthsBorne, Borne
<1>2. CASE SnapshotKeyedByClientId = FALSE
  BY <1>2 DEF StreamResync, SynthsBorne
<1> QED
  BY <1>1, <1>2, KeyingAssumption

LEMMA LookedUpBorne ==
    ASSUME Typing, FilledWhole, NEW s \in scan, WatchdogLookup(s)
    PROVE  LookupBorne' /\ (SnapshotKeyedByClientId = FALSE => lookup'.st = "none")
<1>1. s.o \in Orders /\ s.orphan \in BOOLEAN
  BY DEF Typing, TypeOK
<1> DEFINE b == broker[s.o]
           found == SnapshotKeyedByClientId /\ Listed(s.o)
<1>2. b \in Held /\ UNCHANGED broker
  BY <1>1 DEF WatchdogLookup, Typing, TypeOK
<1>3. PICK st \in IF found THEN SnapshotStatus(b) ELSE {"none"} :
         lookup' = [o |-> s.o, st |-> st, filled |-> b.filled, at |-> At(b), orphan |-> s.orphan]
  BY DEF WatchdogLookup
<1>4. CASE st = "none"
  BY <1>3, <1>4 DEF LookupBorne
<1>5. CASE st # "none"
  <2>1. SnapshotKeyedByClientId = TRUE /\ Listed(s.o) /\ st \in SnapshotStatus(b)
    BY <1>3, <1>5, KeyingAssumption
  <2>2. lookup' \in Lookups
    <3>1. st \in Status
      BY <2>1, ReportsAssumption DEF SnapshotStatus, Status
    <3>2. b.filled \in 0..Qty /\ At(b) \in Nat
      BY <1>2 DEF At, Held
    <3> HIDE DEF b, found
    <3> QED
      BY <1>1, <1>3, <3>1, <3>2 DEF Lookups
  <2>3. /\ lookup'.o = s.o /\ lookup'.st = st /\ lookup'.filled = b.filled
        /\ lookup'.at = At(b)
    BY <1>3
  <2>4. \A e \in Mail : e.o = s.o /\ e.st = st /\ e.filled = b.filled /\ e.at = At(b) => Borne(e)
    BY <1>1, <2>1, SnapshotBorne
  <2>5. PICK e \in Mail : e = lookup' /\ Borne(e)
    BY <2>2, <2>3, <2>4 DEF Mail
  <2>6. Borne(e)'
    BY <1>2, <2>5 DEF Borne
  <2> QED
    BY <2>1, <2>2, <2>5, <2>6 DEF LookupBorne
<1> QED
  BY <1>4, <1>5

\* Steps of no consumer and no watchdog leave what these hold alone.
LEMMA OthersKeepMail ==
    ASSUME [Next]_vars, ~ConsumerStep, ~WatchdogStep
    PROVE  UNCHANGED <<synth, lookup>>
<1>1. ASSUME NEW r \in Requests, PlaceStep(r) PROVE UNCHANGED <<synth, lookup>>
  BY <1>1 DEF PlaceStep, PlaceAdmit, PlaceInsert, PlaceSend, PlaceError, SidecarPlace,
     PlaceReply, PlaceNoReply, MarkSubmitted, PlaceRecheck, PlaceGone, consumerVars, watchdogVars
<1>2. ASSUME NEW c \in Cancels, CancelStep(c) PROVE UNCHANGED <<synth, lookup>>
  BY <1>2 DEF CancelStep, CancelBegin, CancelAccepted, CancelFailed, CancelGone,
     FiveSecondsPass, consumerVars, watchdogVars
<1>3. ASSUME NEW o \in Orders, BrokerFill(o) \/ BrokerEnd(o) \/ Grow(o)
      PROVE  UNCHANGED <<synth, lookup>>
  BY <1>3 DEF BrokerFill, BrokerEnd, Grow, consumerVars, watchdogVars
<1> QED
  BY <1>1, <1>2, <1>3 DEF Next, EngageKillSwitch, vars, consumerVars, watchdogVars

LEMMA BrokerMovesOn ==
    ASSUME Typing, FilledWhole, [Next]_vars
    PROVE  \A o \in Orders : MovedOn(broker[o], broker'[o])
<1>1. ASSUME UNCHANGED broker
      PROVE  \A o \in Orders : MovedOn(broker[o], broker'[o])
  BY <1>1, MovedOnReflexive DEF Typing, TypeOK
<1>2. ASSUME NEW r \in Requests, SidecarPlace(r)
      PROVE  \A o \in Orders : MovedOn(broker[o], broker'[o])
  <2>1. OrderOf[r] \in Orders
    BY OrdersAssumption
  <2> QED
    BY <1>1, <1>2, <2>1, PlacedMoves, OneMovesOn
<1>3. ASSUME NEW p \in Orders, BrokerFill(p) \/ BrokerEnd(p)
      PROVE  \A o \in Orders : MovedOn(broker[o], broker'[o])
  BY <1>3, FillMoves, EndMoves, OneMovesOn
<1> QED
  BY <1>1, <1>2, <1>3, OthersKeepBroker

LEMMA MessagesStep ==
    ASSUME Typing, Typing', Messages, FilledWhole, [Next]_vars
    PROVE  Messages'
<1>1. EventsLive'
  BY EventsStep DEF Messages
<1>2. \A e \in Mail : Borne(e) => Borne(e)'
  BY BrokerMovesOn, MailStays
<1>3. synth \subseteq Mail /\ Lookups \subseteq Mail
  BY DEF Mail, Typing, TypeOK
<1>4. ASSUME synth' \subseteq synth PROVE SynthsBorne'
  BY <1>2, <1>3, <1>4 DEF Messages, SynthsBorne
<1>5. ASSUME lookup' = lookup \/ lookup' = NoLookup PROVE LookupBorne'
  <2>1. CASE lookup' = lookup
    <3>1. CASE lookup.st = "none"
      BY <2>1, <3>1 DEF LookupBorne
    <3>2. CASE lookup.st # "none"
      <4>1. PICK e \in Mail : e = lookup /\ e \in Lookups /\ Borne(e)
        BY <1>3, <3>2 DEF Messages, LookupBorne
      <4>2. Borne(e)'
        BY <1>2, <4>1
      <4> QED
        BY <2>1, <4>1, <4>2 DEF LookupBorne
    <3> QED
      BY <3>1, <3>2
  <2>2. CASE lookup' = NoLookup
    BY <2>2 DEF LookupBorne, NoLookup
  <2> QED
    BY <1>5, <2>1, <2>2
<1>6. CASE ConsumerStep
  <2>1. UNCHANGED lookup
    BY <1>6 DEF ConsumerStep, StreamOpen, StreamResync, Consume, StreamBreak, ConsumeSynthetic
  <2>2. synth' \subseteq synth \/ StreamResync
    BY <1>6 DEF ConsumerStep, StreamOpen, Consume, StreamBreak, ConsumeSynthetic
  <2>3. SynthsBorne' /\ (SnapshotKeyedByClientId = FALSE => synth' = {})
    BY <1>4, <2>2, ResyncBorne DEF Messages, NoSnapshot
  <2> QED
    BY <1>1, <1>5, <2>1, <2>3 DEF Messages, NoSnapshot
<1>7. CASE WatchdogStep
  <2>1. UNCHANGED synth
    BY <1>7 DEF WatchdogStep, WatchdogScan, WatchdogResolve, WatchdogRestart, WatchdogLookup,
       WatchdogBrokerError, consumerVars
  <2>2. lookup' = lookup \/ lookup' = NoLookup \/ \E s \in scan : WatchdogLookup(s)
    BY <1>7 DEF WatchdogStep, WatchdogScan, WatchdogResolve, WatchdogRestart, WatchdogBrokerError
  <2>3. NoLookup.st = "none"
    BY DEF NoLookup
  <2>4. LookupBorne' /\ (SnapshotKeyedByClientId = FALSE => lookup'.st = "none")
    BY <1>5, <2>2, <2>3, LookedUpBorne DEF Messages, NoSnapshot
  <2> QED
    BY <1>1, <1>4, <2>1, <2>4 DEF Messages, NoSnapshot
<1>8. CASE ~ConsumerStep /\ ~WatchdogStep
  BY <1>1, <1>4, <1>5, <1>8, OthersKeepMail DEF Messages, NoSnapshot
<1> QED
  BY <1>6, <1>7, <1>8
-----------------------------------------------------------------------------
(* Rows.                                                                   *)

LEMMA SaysStays ==
    ASSUME NEW r \in Rows, NEW old \in Held, NEW new \in Held, Says(r, old), MovedOn(old, new)
    PROVE  Says(r, new)
<1>1. /\ old.filled \in Int /\ new.filled \in Int /\ r.filled \in Int /\ r.last \in Int
      /\ After(old) \in Int /\ After(new) \in Int /\ After(old) <= After(new)
  BY QtyAssumption DEF Held, Rows, After, MovedOn
<1> QED
  BY <1>1 DEF Says, MovedOn, Done, Ended

\* A row that takes a message the broker bears out says what the broker does.
LEMMA ProcessedSays ==
    ASSUME Typing, NEW e \in Mail, NEW r \in Rows, Says(r, broker[e.o]), Borne(e),
           SnapshotKeyedByClientId = FALSE => Live(e)
    PROVE  Says(Processed(r, e), broker[e.o])
<1> DEFINE b == broker[e.o]
<1>1. /\ e.o \in Orders /\ e.filled \in 0..Qty /\ e.at \in Nat
      /\ e.st \in Reports \cup Status
  BY DEF Mail, Events, Synths, Lookups
<1>2. b \in Held /\ b.filled \in Int /\ At(b) \in Int /\ After(b) = At(b) + 1
  BY <1>1, QtyAssumption DEF Typing, TypeOK, Held, At, After
<1>3. CASE Processed(r, e) = r
  BY <1>3
<1>4. CASE Processed(r, e) # r
  <2>1. Processed(r, e) = UpdateOrder(r, e) /\ ~(e.at < r.last) /\ e.st # "presubmitted"
    BY <1>4 DEF Processed, UpdateOrder
  <2> DEFINE new == UpdateOrder(r, e)
  <2>2. /\ new.st = Settle(r.st, e.st)
        /\ new.known = TRUE
        /\ new.filled = IF e.filled > r.filled THEN e.filled ELSE r.filled
        /\ new.last = e.at
    BY <2>1 DEF UpdateOrder, Rows
  <2>3. new.st = r.st \/ new.st = e.st
    BY <2>2 DEF Settle
  <2>4. r.filled \in Int
    BY QtyAssumption DEF Rows
  <2> HIDE DEF new
  <2>5. b.st # "none" /\ new.filled <= b.filled /\ new.last <= After(b)
    BY <1>1, <1>2, <2>2, <2>4 DEF Borne, Says
  <2>6. new.st = "filled" => b.st \in Done /\ new.filled = b.filled
    <3>1. r.st = "filled" => b.st \in Done /\ r.filled = b.filled
      BY DEF Says
    <3>2. e.st = "filled" => b.st \in Done /\ e.filled = b.filled
      BY DEF Borne
    <3>3. e.filled <= b.filled /\ r.filled <= b.filled
      BY DEF Borne, Says
    <3> QED
      BY <1>1, <1>2, <2>2, <2>3, <2>4, <3>1, <3>2, <3>3
  <2>7. /\ new.st = "filled" /\ SnapshotKeyedByClientId = FALSE => b.st = "filled"
        /\ new.st \in {"cancelled", "inactive"} => b.st = new.st
    BY <2>3 DEF Says, Borne, Live
  <2> QED
    BY <2>1, <2>2, <2>5, <2>6, <2>7 DEF new, Says
<1> QED
  BY <1>3, <1>4

\* A step changes one row at most.
LEMMA OneRowSays ==
    ASSUME Typing, RowsBorne, UNCHANGED broker, NEW o \in Orders, NEW r,
           row' = [row EXCEPT ![o] = r], Says(r, broker[o])
    PROVE  RowsBorne'
<1>1. row \in [Orders -> Rows]
  BY DEF Typing, TypeOK
<1> QED
  BY <1>1 DEF RowsBorne

LEMMA SameRowsSay ==
    ASSUME Typing, Typing', RowsBorne, FilledWhole, [Next]_vars, UNCHANGED row
    PROVE  RowsBorne'
<1>1. /\ broker \in [Orders -> Held] /\ broker' \in [Orders -> Held]
      /\ row \in [Orders -> Rows]
  BY DEF Typing, TypeOK
<1> QED
  BY <1>1, SaysStays, BrokerMovesOn DEF RowsBorne

LEMMA PlaceSays ==
    ASSUME TruthInv, Typing', [Next]_vars, NEW r \in Requests, PlaceStep(r)
    PROVE  RowsBorne'
<1> DEFINE o == OrderOf[r]
<1>0. /\ o \in Orders /\ row[o] \in Rows /\ broker[o] \in Held
      /\ row \in [Orders -> Rows] /\ Says(row[o], broker[o])
  BY OrdersAssumption DEF TruthInv, DispatchInv, Typing, TypeOK, RowsBorne
<1>t. Typing /\ RowsBorne /\ FilledWhole
  BY DEF TruthInv, DispatchInv
<1>1. CASE PlaceInsert(r) /\ row[o].st = "none"
  <2>1. row' = [row EXCEPT ![o] = NewRow] /\ UNCHANGED broker
    BY <1>1 DEF PlaceInsert
  <2>2. Says(NewRow, broker[o])
    BY <1>0, QtyAssumption DEF Says, NewRow, NoRow, Held, After
  <2> QED
    BY <1>0, <1>t, <2>1, <2>2, OneRowSays
<1>2. CASE PlaceError(r)
  <2> DEFINE new == [row[o] EXCEPT !.st = "rejected"]
  <2>1. row' = [row EXCEPT ![o] = new] /\ UNCHANGED broker
    BY <1>2 DEF PlaceError
  <2>2. /\ new.st = "rejected" /\ new.filled = row[o].filled
        /\ new.known = row[o].known /\ new.last = row[o].last
    BY <1>0 DEF Rows
  <2> HIDE DEF new
  <2>3. Says(new, broker[o])
    BY <1>0, <2>2 DEF Says
  <2> QED
    BY <1>0, <1>t, <2>1, <2>3, OneRowSays
<1>3. CASE MarkSubmitted(r)
  <2> DEFINE new == [row[o] EXCEPT !.st = "submitted", !.known = TRUE]
  <2>1. row' = [row EXCEPT ![o] = new] /\ UNCHANGED broker
    BY <1>0, <1>3 DEF MarkSubmitted
  <2>2. /\ new.st = "submitted" /\ new.filled = row[o].filled
        /\ new.last = row[o].last
    BY <1>0 DEF Rows
  <2>3. broker[o].st # "none"
    BY <1>3 DEF MarkSubmitted, TruthInv, AnsweredHeld
  <2> HIDE DEF new
  <2>4. Says(new, broker[o])
    BY <1>0, <2>2, <2>3 DEF Says
  <2> QED
    BY <1>0, <1>t, <2>1, <2>4, OneRowSays
<1>4. CASE UNCHANGED row
  BY <1>t, <1>4, SameRowsSay
<1> QED
  BY <1>1, <1>2, <1>3, <1>4 DEF PlaceStep, PlaceAdmit, PlaceInsert, PlaceSend, SidecarPlace,
     PlaceReply, PlaceNoReply, PlaceRecheck, PlaceGone

LEMMA CancelSays ==
    ASSUME Typing, Typing', RowsBorne, FilledWhole, [Next]_vars, NEW c \in Cancels, CancelStep(c)
    PROVE  RowsBorne'
<1> DEFINE o == CancelOf[c]
           marked(m) == [row[o] EXCEPT !.mark = m]
<1>0. o \in Orders /\ row \in [Orders -> Rows] /\ row[o] \in Rows
  BY CancelsAssumption DEF Typing, TypeOK
<1>1. /\ UNCHANGED broker
      /\ UNCHANGED row \/ \E m : row' = [row EXCEPT ![o] = marked(m)]
  BY <1>0 DEF CancelStep, CancelBegin, CancelAccepted, CancelFailed, CancelGone, FiveSecondsPass
<1>2. ASSUME NEW m, row' = [row EXCEPT ![o] = marked(m)]
      PROVE  RowsBorne'
  <2>1. /\ marked(m).st = row[o].st /\ marked(m).filled = row[o].filled
        /\ marked(m).known = row[o].known /\ marked(m).last = row[o].last
    BY <1>0 DEF Rows
  <2> HIDE DEF marked
  <2>2. Says(marked(m), broker[o])
    BY <1>0, <2>1 DEF RowsBorne, Says
  <2> QED
    BY <1>0, <1>1, <1>2, <2>2, OneRowSays
<1> QED
  BY <1>1, <1>2, SameRowsSay

LEMMA ConsumerSays ==
    ASSUME TruthInv, Typing', [Next]_vars, ConsumerStep
    PROVE  RowsBorne'
<1>t. Typing /\ RowsBorne /\ FilledWhole /\ Messages /\ row \in [Orders -> Rows]
  BY DEF TruthInv, DispatchInv, Typing, TypeOK
<1>1. ASSUME NEW e \in Mail, row' = [row EXCEPT ![e.o] = Processed(row[e.o], e)],
             UNCHANGED broker, Borne(e), SnapshotKeyedByClientId = FALSE => Live(e)
      PROVE  RowsBorne'
  <2>1. e.o \in Orders
    BY DEF Mail, Events, Synths, Lookups
  <2>2. Says(Processed(row[e.o], e), broker[e.o])
    BY <1>t, <1>1, <2>1, ProcessedSays DEF RowsBorne
  <2> QED
    BY <1>t, <1>1, <2>1, <2>2, OneRowSays
<1>2. CASE Consume
  <2> DEFINE e == Head(stream)
  <2>1. stream \in Seq(Events) /\ stream # <<>> /\ UNCHANGED broker
        /\ row' = [row EXCEPT ![e.o] = Processed(row[e.o], e)]
    BY <1>2, <1>t DEF Consume, Typing, TypeOK
  <2>2. e \in Mail /\ 1 \in DOMAIN stream /\ e = stream[1]
    BY <2>1 DEF Mail
  <2>3. Live(e)
    BY <1>t, <2>2 DEF Messages, EventsLive
  <2> HIDE DEF e
  <2> QED
    BY <1>1, <2>1, <2>2, <2>3 DEF Live
<1>3. ASSUME NEW e \in synth, ConsumeSynthetic(e)
      PROVE  RowsBorne'
  <2>1. /\ e \in Mail /\ Borne(e) /\ SnapshotKeyedByClientId # FALSE
        /\ row' = [row EXCEPT ![e.o] = Processed(row[e.o], e)] /\ UNCHANGED broker
    BY <1>3, <1>t DEF ConsumeSynthetic, Messages, SynthsBorne, NoSnapshot, Mail, Typing, TypeOK
  <2> QED
    BY <1>1, <2>1
<1>4. CASE UNCHANGED row
  BY <1>t, <1>4, SameRowsSay
<1> QED
  BY <1>2, <1>3, <1>4 DEF ConsumerStep, StreamOpen, StreamResync, StreamBreak

\* What the watchdog found is processed as one more message.
Finding == [o |-> lookup.o, st |-> lookup.st, filled |-> lookup.filled,
            exec |-> FALSE, at |-> lookup.at]

LEMMA FindingBorne ==
    ASSUME Typing, Messages, lookup # NoLookup, lookup.st # "none"
    PROVE  /\ Finding \in Mail /\ Borne(Finding) /\ lookup.o \in Orders /\ Finding.o = lookup.o
           /\ SnapshotKeyedByClientId # FALSE
           /\ Finding.filled \in 0..Qty /\ Finding.at \in Nat
           /\ Finding.st \in Status /\ Finding.st # "none"
<1>1. lookup \in Lookups /\ Borne(lookup) /\ SnapshotKeyedByClientId # FALSE
  BY DEF Messages, LookupBorne, NoSnapshot
<1>2. Finding \in Synths /\ lookup.o \in Orders
  BY <1>1 DEF Finding, Lookups, Synths
<1>3. /\ Finding.o = lookup.o /\ Finding.st = lookup.st
      /\ Finding.filled = lookup.filled /\ Finding.at = lookup.at
  BY DEF Finding
<1> QED
  BY <1>1, <1>2, <1>3 DEF Borne, Mail, Synths

LEMMA WatchdogSays ==
    ASSUME TruthInv, Typing', [Next]_vars, WatchdogStep
    PROVE  RowsBorne'
<1>t. Typing /\ RowsBorne /\ FilledWhole /\ Messages /\ row \in [Orders -> Rows]
  BY DEF TruthInv, DispatchInv, Typing, TypeOK
<1>1. CASE WatchdogResolve
  <2> DEFINE o == lookup.o
  <2>0. UNCHANGED broker /\ lookup # NoLookup
    BY <1>1 DEF WatchdogResolve
  <2>1. CASE lookup.st # "none"
    <3>1. o \in Orders /\ row' = [row EXCEPT ![o] = Processed(row[o], Finding)]
      BY <1>1, <1>t, <2>0, <2>1, FindingBorne DEF WatchdogResolve, Finding
    <3>2. Says(Processed(row[o], Finding), broker[o])
      BY <1>t, <2>0, <2>1, <3>1, FindingBorne, ProcessedSays DEF RowsBorne
    <3> QED
      BY <1>t, <2>0, <3>1, <3>2, OneRowSays
  <2>2. CASE lookup.st = "none"
    <3> DEFINE new == [row[o] EXCEPT !.st = "rejected", !.last = After(broker[o])]
    <3>1. o \in Orders /\ row[o] \in Rows /\ broker[o] \in Held
      BY <1>t, <2>0 DEF Typing, TypeOK, Lookups
    <3>2. row' = row \/ row' = [row EXCEPT ![o] = new]
      BY <1>1, <2>2, <3>1 DEF WatchdogResolve
    <3>3. /\ new.st = "rejected" /\ new.filled = row[o].filled
          /\ new.known = row[o].known /\ new.last = After(broker[o])
      BY <3>1 DEF Rows
    <3>4. After(broker[o]) \in Int
      BY <3>1 DEF Held, After
    <3> HIDE DEF new
    <3>5. Says(new, broker[o])
      BY <1>t, <3>1, <3>3, <3>4 DEF Says, RowsBorne
    <3> QED
      BY <1>t, <2>0, <3>1, <3>2, <3>5, OneRowSays, SameRowsSay
  <2> QED
    BY <2>1, <2>2
<1>2. CASE UNCHANGED row
  BY <1>t, <1>2, SameRowsSay
<1> QED
  BY <1>1, <1>2 DEF WatchdogStep, WatchdogScan, WatchdogRestart, WatchdogLookup,
     WatchdogBrokerError

LEMMA RowsSay ==
    ASSUME TruthInv, Typing', [Next]_vars
    PROVE  RowsBorne'
<1>t. Typing /\ RowsBorne /\ FilledWhole
  BY DEF TruthInv, DispatchInv
<1>1. ASSUME NEW o \in Orders, BrokerFill(o) \/ BrokerEnd(o) \/ Grow(o)
      PROVE  RowsBorne'
  BY <1>1, <1>t, SameRowsSay DEF BrokerFill, BrokerEnd, Grow
<1>2. CASE EngageKillSwitch \/ UNCHANGED vars
  BY <1>2, <1>t, SameRowsSay DEF EngageKillSwitch, vars
<1> QED
  BY <1>t, <1>1, <1>2, PlaceSays, CancelSays, ConsumerSays, WatchdogSays DEF Next

-----------------------------------------------------------------------------
(* The broker's side, and the theorem.                                     *)

LEMMA FilledWholeStep ==
    ASSUME Typing, FilledWhole, [Next]_vars
    PROVE  FilledWhole'
<1>0. broker \in [Orders -> Held]
  BY DEF Typing, TypeOK
<1>1. ASSUME NEW o \in Orders, NEW b, broker' = [broker EXCEPT ![o] = b],
             b.st # "none", b.st = "filled" => b.filled = Qty
      PROVE  FilledWhole'
  BY <1>0, <1>1 DEF FilledWhole
<1>2. ASSUME NEW r \in Requests, SidecarPlace(r) PROVE FilledWhole'
  <2>1. OrderOf[r] \in Orders
    BY OrdersAssumption
  <2>2. CASE UNCHANGED <<broker, stream>>
    BY <2>2 DEF FilledWhole
  <2>3. CASE ~UNCHANGED <<broker, stream>>
    <3>1. PICK b \in Held, st \in {"submitted", "presubmitted"} :
             broker' = [broker EXCEPT ![OrderOf[r]] = b] /\ b.st = "working"
      BY <1>2, <2>3, PlacedMoves
    <3> QED
      BY <1>1, <2>1, <3>1
  <2> QED
    BY <2>2, <2>3
<1>3. ASSUME NEW o \in Orders, BrokerFill(o) PROVE FilledWhole'
  <2>1. PICK b \in Held : /\ broker' = [broker EXCEPT ![o] = b]
                          /\ b.st = "working" \/ (b.st = "filled" /\ b.filled = Qty)
    BY <1>3, FillMoves
  <2> QED
    BY <1>1, <2>1
<1>4. ASSUME NEW o \in Orders, BrokerEnd(o) PROVE FilledWhole'
  <2>1. PICK b \in Held, st \in Ended : broker' = [broker EXCEPT ![o] = b] /\ b.st = st
    BY <1>4, EndMoves
  <2> QED
    BY <1>1, <2>1 DEF Ended
<1>5. CASE UNCHANGED broker
  BY <1>5 DEF FilledWhole
<1> QED
  BY <1>2, <1>3, <1>4, <1>5, OthersKeepBroker

\* An accepted RPC left an order at the broker, and there it stays.
LEMMA AnsweredHeldStep ==
    ASSUME Typing, FilledWhole, AnsweredHeld, [Next]_vars
    PROVE  AnsweredHeld'
<1>0. \A o \in Orders : broker[o].st # "none" => broker'[o].st # "none"
  BY BrokerMovesOn DEF MovedOn
<1>t. /\ pc \in [Requests -> Pc] /\ rpc \in [Requests -> {"none", "sent", "placed", "aborted"}]
      /\ broker \in [Orders -> Held] /\ OrderOf \in [Requests -> Orders]
  BY OrdersAssumption DEF Typing, TypeOK
<1>1. ASSUME UNCHANGED <<pc, rpc>> PROVE AnsweredHeld'
  BY <1>0, <1>1, <1>t DEF AnsweredHeld
<1>2. ASSUME NEW r \in Requests, PlaceStep(r) PROVE AnsweredHeld'
  <2>1. CASE SidecarPlace(r)
    <3>1. UNCHANGED pc /\ \E x \in {"placed", "aborted"} : rpc' = [rpc EXCEPT ![r] = x]
      BY <2>1 DEF SidecarPlace
    <3>2. rpc[r] = "sent"
      BY <2>1 DEF SidecarPlace
    <3>3. rpc'[r] = "placed" => broker'[OrderOf[r]].st # "none"
      <4>1. CASE UNCHANGED <<broker, stream>>
        <5>1. rpc'[r] = "placed" => broker[OrderOf[r]].st # "none"
          <6>1. Moved(broker[OrderOf[r]], "working", 0).st = "working"
            BY DEF Moved
          <6>2. broker[OrderOf[r]].st = "none" => rpc'[r] # "placed"
            BY <2>1, <1>t, <3>1, <4>1, <6>1 DEF SidecarPlace
          <6> QED
            BY <6>2
        <5> QED
          BY <4>1, <5>1
      <4>2. CASE ~UNCHANGED <<broker, stream>>
        <5>1. PICK b \in Held, st \in {"submitted", "presubmitted"} :
                 broker' = [broker EXCEPT ![OrderOf[r]] = b] /\ b.st = "working"
          BY <2>1, <4>2, PlacedMoves
        <5> QED
          BY <1>t, <5>1
      <4> QED
        BY <4>1, <4>2
    <3> QED
      BY <1>0, <1>t, <3>1, <3>2, <3>3 DEF AnsweredHeld
  <2>2. CASE PlaceReply(r)
    BY <2>2, <1>0, <1>t DEF PlaceReply, AnsweredHeld
  <2>3. CASE ~SidecarPlace(r) /\ ~PlaceReply(r)
    <3>1. \A s \in Requests :
             /\ rpc'[s] = "placed" => rpc[s] = "placed"
             /\ pc'[s] = "answered" => pc[s] = "answered" /\ rpc'[s] = rpc[s]
      BY <1>2, <1>t, <2>3 DEF PlaceStep, PlaceAdmit, PlaceInsert, PlaceSend, PlaceError,
         PlaceNoReply, MarkSubmitted, PlaceRecheck, PlaceGone
    <3> QED
      BY <1>0, <1>t, <3>1 DEF AnsweredHeld
  <2> QED
    BY <2>1, <2>2, <2>3
<1> QED
  BY <1>1, <1>2, OthersKeepCalls

LEMMA TruthInit == Init => TruthInv
<1> SUFFICES ASSUME Init PROVE TruthInv
  OBVIOUS
<1>1. DispatchInv
  BY DispatchInit
<1>2. Messages
  BY DEF Init, Messages, EventsLive, SynthsBorne, LookupBorne, NoSnapshot, NoLookup
<1>3. RowsBorne
  BY DEF Init, RowsBorne, Says, NoRow, NoOrder, After
<1>4. AnsweredHeld /\ FilledWhole
  BY OrdersAssumption DEF Init, AnsweredHeld, FilledWhole, NoOrder
<1> QED
  BY <1>1, <1>2, <1>3, <1>4 DEF TruthInv

LEMMA TruthStep == TruthInv /\ [Next]_vars => TruthInv'
<1> SUFFICES ASSUME TruthInv, [Next]_vars PROVE TruthInv'
  OBVIOUS
<1>1. DispatchInv' /\ Typing /\ Typing'
  BY DispatchStep DEF TruthInv, DispatchInv
<1> QED
  BY <1>1, MessagesStep, RowsSay, AnsweredHeldStep, FilledWholeStep DEF TruthInv

\* The row never says more than the broker does, as long as the snapshots of
\* the sidecars carry the broker's ids (they do; read under client_order_ids, a
\* snapshot calls an order filled that ended with a part of its quantity).
THEOREM RowsNeverAhead ==
    ASSUME SnapshotKeyedByClientId = FALSE
    PROVE  Spec => []RowNeverAhead
<1>1. TruthInv => RowNeverAhead
  BY DEF TruthInv, RowsBorne, Says, RowNeverAhead
<1> QED
  BY <1>1, TruthInit, TruthStep, PTL DEF Spec
-----------------------------------------------------------------------------
(* No execution is hidden.                                                 *)

\* The report that the order o is filled.
Final(e, o) == e.o = o /\ e.st = "filled" /\ e.filled = Qty /\ e.at = At(broker[o])

\* The row of o has the whole quantity, or was written off after its last report.
Settled(o) == row[o].filled = Qty \/ row[o].last = After(broker[o])

\* A filled order of which no event was lost has its final report on the queue,
\* unless the row took it.
FillSeen ==
    \A o \in Orders : broker[o].st = "filled" /\ o \notin lost =>
       Settled(o) \/ \E i \in DOMAIN stream : Final(stream[i], o)

QuietInv == TruthInv /\ FillSeen

\* What was on the queue stays there; the new report joins it or is lost.
LEMMA EmitJoins ==
    ASSUME Typing, NEW o \in Orders, NEW b \in Held, NEW st \in Reports, NEW exec \in BOOLEAN,
           Emit(o, b, st, exec)
    PROVE  /\ \A i \in DOMAIN stream : i \in DOMAIN stream' /\ stream'[i] = stream[i]
           /\ lost \subseteq lost'
           /\ \/ o \in lost'
              \/ \E i \in DOMAIN stream' :
                    stream'[i] = [o |-> o, st |-> st, filled |-> b.filled, exec |-> exec,
                                  at |-> At(b)]
<1> DEFINE e == [o |-> o, st |-> st, filled |-> b.filled, exec |-> exec, at |-> At(b)]
<1>1. e \in Events /\ stream \in Seq(Events)
  BY DEF Events, Held, At, Typing, TypeOK
<1>2. CASE stream' = Append(stream, e) /\ lost' = lost
  <2> HIDE DEF e
  <2>1. Len(stream) + 1 \in DOMAIN stream' /\ stream'[Len(stream) + 1] = e
    BY <1>1, <1>2
  <2>2. ASSUME NEW i \in DOMAIN stream
        PROVE  i \in DOMAIN stream' /\ stream'[i] = stream[i]
    <3>1. i \in 1..Len(stream) /\ Len(stream') = Len(stream) + 1
      BY <1>1, <1>2
    <3> QED
      BY <1>1, <1>2, <3>1
  <2> QED
    BY <1>2, <2>1, <2>2 DEF e
<1>3. CASE stream' = stream /\ lost' = lost \cup {o}
  BY <1>3
<1> QED
  BY <1>2, <1>3 DEF Emit

LEMMA QueueKeeps ==
    ASSUME Typing, FilledWhole, [Next]_vars
    PROVE  /\ lost \subseteq lost'
           /\ \/ Consume
              \/ StreamBreak
              \/ \A i \in DOMAIN stream : i \in DOMAIN stream' /\ stream'[i] = stream[i]
<1>1. ASSUME NEW r \in Requests, PlaceStep(r)
      PROVE  lost \subseteq lost' /\ \A i \in DOMAIN stream : i \in DOMAIN stream' /\ stream'[i] = stream[i]
  <2>1. CASE UNCHANGED <<stream, lost>>
    BY <2>1
  <2>2. ASSUME SidecarPlace(r), ~UNCHANGED <<stream, lost>>
        PROVE  \E st \in {"submitted", "presubmitted"} :
                  Emit(OrderOf[r], Moved(broker[OrderOf[r]], "working", 0), st, FALSE)
    BY <2>2 DEF SidecarPlace
  <2>3. OrderOf[r] \in Orders /\ Moved(broker[OrderOf[r]], "working", 0) \in Held
    BY OrdersAssumption, QtyAssumption DEF Typing, TypeOK, Held, Moved
  <2>4. {"submitted", "presubmitted"} \subseteq Reports /\ FALSE \in BOOLEAN
    BY DEF Reports
  <2>5. CASE SidecarPlace(r)
    BY <2>1, <2>2, <2>3, <2>4, <2>5, EmitJoins
  <2> QED
    BY <1>1, <2>1, <2>5 DEF PlaceStep, PlaceAdmit, PlaceInsert, PlaceSend, PlaceError,
       PlaceReply, PlaceNoReply, MarkSubmitted, PlaceRecheck, PlaceGone, consumerVars
<1>2. ASSUME NEW o \in Orders, BrokerFill(o)
      PROVE  lost \subseteq lost' /\ \A i \in DOMAIN stream : i \in DOMAIN stream' /\ stream'[i] = stream[i]
  <2>1. PICK b \in Held, exec \in BOOLEAN, st \in {"filled", "submitted", "partial"} :
           Emit(o, b, st, exec)
    BY <1>2, FillMoves
  <2>2. st \in Reports
    BY DEF Reports
  <2> QED
    BY <2>1, <2>2, EmitJoins
<1>3. ASSUME NEW o \in Orders, BrokerEnd(o)
      PROVE  lost \subseteq lost' /\ \A i \in DOMAIN stream : i \in DOMAIN stream' /\ stream'[i] = stream[i]
  <2>1. PICK b \in Held, st \in Ended : Emit(o, b, st, FALSE)
    BY <1>3, EndMoves
  <2>2. st \in Reports /\ FALSE \in BOOLEAN
    BY DEF Reports, Ended
  <2> QED
    BY <2>1, <2>2, EmitJoins
<1>4. ASSUME NEW c \in Cancels, CancelStep(c) PROVE UNCHANGED <<stream, lost>>
  BY <1>4 DEF CancelStep, CancelBegin, CancelAccepted, CancelFailed, CancelGone,
     FiveSecondsPass, consumerVars
<1>5. ASSUME ConsumerStep
      PROVE  /\ lost \subseteq lost'
             /\ Consume \/ StreamBreak \/ UNCHANGED stream
  BY <1>5 DEF ConsumerStep, StreamOpen, StreamResync, Consume, StreamBreak, ConsumeSynthetic
<1>6. ASSUME WatchdogStep PROVE UNCHANGED <<stream, lost>>
  BY <1>6 DEF WatchdogStep, WatchdogScan, WatchdogResolve, WatchdogRestart, WatchdogLookup,
     WatchdogBrokerError, consumerVars
<1> QED
  BY <1>1, <1>2, <1>3, <1>4, <1>5, <1>6 DEF Next, Grow, EngageKillSwitch, vars, consumerVars

\* The row of o is written off, and so no message changes it any more.
Stamped(o) == row[o].st # "none" /\ row[o].last = After(broker[o])

LEMMA TooLate ==
    ASSUME Typing, NEW e \in Mail, Borne(e), Stamped(e.o)
    PROVE  Processed(row[e.o], e) = row[e.o]
<1>1. e.o \in Orders /\ e.at \in Nat
  BY DEF Mail, Events, Synths, Lookups
<1>2. broker[e.o] \in Held
  BY <1>1 DEF Typing, TypeOK
<1>3. e.at < row[e.o].last
  BY <1>1, <1>2 DEF Borne, Stamped, At, After, Held
<1> QED
  BY <1>3 DEF Processed, UpdateOrder

LEMMA StampStays ==
    ASSUME TruthInv, [Next]_vars, NEW o \in Orders, Stamped(o)
    PROVE  row'[o].last = row[o].last
<1>t. /\ Typing /\ Messages /\ row \in [Orders -> Rows] /\ row[o] \in Rows
      /\ OrderOf \in [Requests -> Orders] /\ CancelOf \in [Cancels -> Orders]
  BY OrdersAssumption, CancelsAssumption DEF TruthInv, DispatchInv, Typing, TypeOK
<1>1. ASSUME NEW p \in Orders, NEW new, row' = [row EXCEPT ![p] = new],
             p = o => new.last = row[o].last
      PROVE  row'[o].last = row[o].last
  BY <1>1, <1>t
<1>2. ASSUME NEW e \in Mail, Borne(e), row' = [row EXCEPT ![e.o] = Processed(row[e.o], e)]
      PROVE  row'[o].last = row[o].last
  <2>1. e.o \in Orders
    BY DEF Mail, Events, Synths, Lookups
  <2>2. e.o = o => Processed(row[e.o], e) = row[o]
    BY <1>t, <1>2, TooLate
  <2> QED
    BY <1>1, <1>2, <2>1, <2>2
<1>3. ASSUME NEW r \in Requests, PlaceStep(r)
      PROVE  row'[o].last = row[o].last
  <2>1. CASE PlaceInsert(r)
    BY <1>t, <2>1 DEF PlaceInsert, Stamped
  <2>2. CASE PlaceError(r)
    <3> DEFINE new == [row[OrderOf[r]] EXCEPT !.st = "rejected"]
    <3>1. row' = [row EXCEPT ![OrderOf[r]] = new]
      BY <2>2 DEF PlaceError
    <3>2. OrderOf[r] = o => new.last = row[o].last
      BY <1>t DEF Rows
    <3> QED
      BY <1>1, <1>t, <3>1, <3>2
  <2>3. CASE MarkSubmitted(r)
    <3> DEFINE new == [row[OrderOf[r]] EXCEPT !.st = "submitted", !.known = TRUE]
    <3>1. row' = [row EXCEPT ![OrderOf[r]] = new]
      BY <1>t, <2>3 DEF MarkSubmitted
    <3>2. OrderOf[r] = o => new.last = row[o].last
      BY <1>t DEF Rows
    <3> QED
      BY <1>1, <1>t, <3>1, <3>2
  <2> QED
    BY <1>3, <2>1, <2>2, <2>3 DEF PlaceStep, PlaceAdmit, PlaceSend, SidecarPlace,
       PlaceReply, PlaceNoReply, PlaceRecheck, PlaceGone
<1>4. ASSUME NEW c \in Cancels, CancelStep(c)
      PROVE  row'[o].last = row[o].last
  <2> DEFINE marked(m) == [row[CancelOf[c]] EXCEPT !.mark = m]
  <2>1. UNCHANGED row \/ \E m : row' = [row EXCEPT ![CancelOf[c]] = marked(m)]
    BY <1>4, <1>t DEF CancelStep, CancelBegin, CancelAccepted, CancelFailed, CancelGone,
       FiveSecondsPass
  <2>2. \A m : CancelOf[c] = o => marked(m).last = row[o].last
    BY <1>t DEF Rows
  <2> HIDE DEF marked
  <2> QED
    BY <1>1, <1>t, <2>1, <2>2
<1>5. CASE Consume
  <2> DEFINE e == Head(stream)
  <2>1. /\ stream \in Seq(Events) /\ stream # <<>>
        /\ row' = [row EXCEPT ![e.o] = Processed(row[e.o], e)]
    BY <1>5, <1>t DEF Consume, Typing, TypeOK
  <2>2. e \in Mail /\ 1 \in DOMAIN stream /\ e = stream[1]
    BY <2>1 DEF Mail
  <2>3. Borne(e)
    BY <1>t, <2>2 DEF Messages, EventsLive, Live
  <2> HIDE DEF e
  <2> QED
    BY <1>2, <2>1, <2>2, <2>3
<1>6. ASSUME NEW e \in synth, ConsumeSynthetic(e)
      PROVE  row'[o].last = row[o].last
  BY <1>2, <1>6, <1>t DEF ConsumeSynthetic, Messages, SynthsBorne, Mail, Typing, TypeOK
<1>7. CASE WatchdogResolve
  <2>1. CASE lookup.st # "none"
    BY <1>2, <1>7, <1>t, <2>1, FindingBorne DEF WatchdogResolve, Finding
  <2>2. CASE lookup.st = "none"
    <3> DEFINE new == [row[lookup.o] EXCEPT !.st = "rejected", !.last = After(broker[lookup.o])]
    <3>1. lookup.o \in Orders
      BY <1>7, <1>t DEF WatchdogResolve, Typing, TypeOK, Lookups
    <3>2. row' = row \/ row' = [row EXCEPT ![lookup.o] = new]
      BY <1>7, <2>2, <3>1 DEF WatchdogResolve
    <3>3. lookup.o = o => new.last = row[o].last
      BY <1>t DEF Rows, Stamped
    <3> HIDE DEF new
    <3> QED
      BY <1>1, <3>1, <3>2, <3>3
  <2> QED
    BY <2>1, <2>2
<1>8. CASE UNCHANGED row
  BY <1>8
<1>9. CASE ConsumerStep
  BY <1>5, <1>6, <1>8, <1>9 DEF ConsumerStep, StreamOpen, StreamResync, StreamBreak
<1>10. CASE WatchdogStep
  BY <1>7, <1>8, <1>10 DEF WatchdogStep, WatchdogScan, WatchdogRestart, WatchdogLookup,
     WatchdogBrokerError
<1> QED
  BY <1>3, <1>4, <1>8, <1>9, <1>10
  DEF Next, BrokerFill, BrokerEnd, Grow, EngageKillSwitch, vars

LEMMA AbsentEmpty == TruthInv => AbsentIsEmpty
<1> SUFFICES ASSUME TruthInv, NEW o \in Orders, row[o].st = "none" PROVE row[o].filled = 0
  BY DEF AbsentIsEmpty
<1>1. row[o] \in Rows /\ Says(row[o], broker[o])
  BY DEF TruthInv, DispatchInv, Typing, TypeOK, RowsBorne
<1>2. broker[o].filled = 0
  BY DEF TruthInv, DispatchInv, HeldHasRow, FilledWhole
<1> QED
  BY <1>1, <1>2, QtyAssumption DEF Rows, Says

LEMMA SettledStays ==
    ASSUME TruthInv, Typing', [Next]_vars, NEW o \in Orders, broker[o].st = "filled", Settled(o)
    PROVE  Settled(o)'
<1>1. broker'[o] = broker[o] /\ row[o].st # "none"
  BY BrokerMovesOn DEF TruthInv, DispatchInv, HeldHasRow, MovedOn, Done
<1>2. CASE row[o].filled = Qty
  <2>1. row'[o].filled >= row[o].filled
    <3>1. row[o].filled \in Int
      BY QtyAssumption DEF TruthInv, DispatchInv, Typing, TypeOK, Rows
    <3>2. Typing /\ RowsRise
      BY AbsentEmpty, StepRises DEF TruthInv, DispatchInv
    <3> QED
      BY <3>1, <3>2 DEF RowsRise, Risen
  <2>2. row'[o].filled \in 0..Qty
    BY DEF Typing, TypeOK, Rows
  <2> QED
    BY <1>2, <2>1, <2>2, QtyAssumption DEF Settled
<1>3. CASE row[o].last = After(broker[o])
  BY <1>1, <1>3, StampStays DEF Settled, Stamped
<1> QED
  BY <1>2, <1>3 DEF Settled

\* The final report settles the row that takes it.
LEMMA FinalSettles ==
    ASSUME TruthInv, NEW o \in Orders, broker[o].st = "filled", NEW e \in Mail, Final(e, o)
    PROVE  Processed(row[o], e).filled = Qty \/ Processed(row[o], e).last = After(broker[o])
<1>1. /\ row[o] \in Rows /\ broker[o] \in Held /\ row[o].st # "none" /\ Says(row[o], broker[o])
      /\ broker[o].filled = Qty
  <2>1. row[o] \in Rows /\ broker[o] \in Held
    BY DEF TruthInv, DispatchInv, Typing, TypeOK
  <2>2. row[o].st # "none" /\ Says(row[o], broker[o]) /\ broker[o].filled = Qty
    <3>1. HeldHasRow /\ RowsBorne /\ FilledWhole
      BY DEF TruthInv, DispatchInv
    <3>2. row[o].st # "none"
      BY <3>1 DEF HeldHasRow
    <3>3. Says(row[o], broker[o])
      BY <3>1 DEF RowsBorne
    <3>4. broker[o].filled = Qty
      BY <3>1 DEF FilledWhole
    <3> QED
      BY <3>2, <3>3, <3>4
  <2> QED
    BY <2>1, <2>2
<1>2. CASE row[o].known /\ row[o].st = e.st /\ ~e.exec
  <2>1. row[o].filled = Qty /\ Processed(row[o], e) = row[o]
    BY <1>1, <1>2 DEF Final, Says, Processed
  <2> QED
    BY <2>1
<1>3. CASE ~(row[o].known /\ row[o].st = e.st /\ ~e.exec)
  <2>1. Processed(row[o], e) = UpdateOrder(row[o], e)
    BY <1>1, <1>3 DEF Final, Processed
  <2>2. CASE e.at < row[o].last
    <3>1. row[o].last = After(broker[o])
      BY <1>1, <2>2 DEF Final, Says, At, After, Rows, Held
    <3> QED
      BY <2>1, <2>2, <3>1 DEF UpdateOrder
  <2>3. CASE ~(e.at < row[o].last)
    <3>1. UpdateOrder(row[o], e).filled = IF Qty > row[o].filled THEN Qty ELSE row[o].filled
      BY <1>1, <2>3 DEF UpdateOrder, Final, Rows
    <3>2. row[o].filled \in 0..Qty
      BY <1>1 DEF Rows
    <3> QED
      BY <2>1, <3>1, <3>2, QtyAssumption
  <2> QED
    BY <2>2, <2>3
<1> QED
  BY <1>2, <1>3

LEMMA FillSeenStep ==
    ASSUME QuietInv, Typing', [Next]_vars
    PROVE  FillSeen'
<1>t. /\ Typing /\ FilledWhole /\ TruthInv /\ broker \in [Orders -> Held]
      /\ row \in [Orders -> Rows] /\ stream \in Seq(Events)
  BY DEF QuietInv, TruthInv, DispatchInv, Typing, TypeOK
<1> SUFFICES ASSUME NEW o \in Orders, broker'[o].st = "filled", o \notin lost'
             PROVE  Settled(o)' \/ \E i \in DOMAIN stream' : Final(stream[i], o)'
  BY DEF FillSeen
<1>l. o \notin lost
  BY <1>t, QueueKeeps
<1>1. CASE broker[o].st = "filled"
  <2>0. broker'[o] = broker[o]
    BY <1>1, <1>t, BrokerMovesOn DEF MovedOn, Done
  <2>1. CASE Settled(o)
    BY <1>1, <1>t, <2>1, SettledStays
  <2>2. ASSUME NEW i \in DOMAIN stream, Final(stream[i], o)
        PROVE  Settled(o)' \/ \E j \in DOMAIN stream' : Final(stream[j], o)'
    <3>1. CASE Consume
      <4>1. /\ stream # <<>> /\ stream' = Tail(stream)
            /\ row' = [row EXCEPT ![stream[1].o] = Processed(row[stream[1].o], stream[1])]
        <5>1. Head(stream) = stream[1]
          BY <1>t, <3>1 DEF Consume
        <5>2. /\ stream # <<>> /\ stream' = Tail(stream)
              /\ row' = [row EXCEPT ![Head(stream).o] = Processed(row[Head(stream).o], Head(stream))]
          BY <3>1 DEF Consume
        <5> QED
          BY <5>1, <5>2
      <4>2. CASE i = 1
        <5>1. PICK e \in Mail : e = stream[1] /\ Final(e, o)
          BY <1>t, <2>2, <4>2 DEF Mail
        <5>2. e.o = o /\ row'[o] = Processed(row[o], e)
          BY <1>t, <4>1, <5>1 DEF Final
        <5> QED
          BY <1>1, <1>t, <2>0, <5>1, <5>2, FinalSettles DEF Settled
      <4>3. CASE i # 1
        <5>1. i - 1 \in DOMAIN stream' /\ stream'[i - 1] = stream[i]
          BY <1>t, <4>1, <4>3
        <5> QED
          BY <2>0, <2>2, <5>1 DEF Final
      <4> QED
        BY <4>2, <4>3
    <3>2. CASE StreamBreak
      <4>1. stream[i].o \in lost'
        BY <3>2 DEF StreamBreak
      <4> QED
        BY <2>2, <4>1 DEF Final
    <3>3. CASE i \in DOMAIN stream' /\ stream'[i] = stream[i]
      BY <2>0, <2>2, <3>3 DEF Final
    <3> QED
      BY <1>t, <3>1, <3>2, <3>3, QueueKeeps
  <2> QED
    BY <1>1, <1>l, <2>1, <2>2 DEF QuietInv, FillSeen
<1>2. CASE broker[o].st # "filled"
  <2>1. ASSUME NEW r \in Requests, SidecarPlace(r) PROVE FALSE
    <3>1. CASE UNCHANGED <<broker, stream>>
      BY <1>2, <3>1
    <3>2. CASE ~UNCHANGED <<broker, stream>>
      <4>1. PICK b \in Held, st \in {"submitted", "presubmitted"} :
               broker' = [broker EXCEPT ![OrderOf[r]] = b] /\ b.st = "working"
        BY <1>t, <2>1, <3>2, PlacedMoves
      <4> QED
        BY <1>2, <1>t, <4>1
    <3> QED
      BY <3>1, <3>2
  <2>2. ASSUME NEW p \in Orders, BrokerEnd(p) PROVE FALSE
    <3>1. PICK b \in Held, st \in Ended : broker' = [broker EXCEPT ![p] = b] /\ b.st = st
      BY <1>t, <2>2, EndMoves
    <3> QED
      BY <1>2, <1>t, <3>1 DEF Ended
  <2>3. PICK p \in Orders : BrokerFill(p)
    BY <1>2, <2>1, <2>2, OthersKeepBroker
  <2>4. PICK b \in Held, exec \in BOOLEAN, st \in {"filled", "submitted", "partial"} :
              /\ broker' = [broker EXCEPT ![p] = b]
              /\ Emit(p, b, st, exec)
              /\ \/ b.st = "working" /\ st # "filled"
                 \/ b.st = "filled" /\ st = "filled" /\ b.filled = Qty
    BY <1>t, <2>3, FillMoves
  <2>5. p = o /\ broker'[o] = b /\ st = "filled" /\ b.filled = Qty
    BY <1>2, <1>t, <2>4
  <2>6. PICK i \in DOMAIN stream' :
           stream'[i] = [o |-> o, st |-> "filled", filled |-> Qty, exec |-> exec, at |-> At(b)]
    <3>1. st \in Reports
      BY DEF Reports
    <3> QED
      BY <1>t, <2>4, <2>5, <3>1, EmitJoins
  <2>7. Final(stream[i], o)'
    BY <2>5, <2>6 DEF Final
  <2> QED
    BY <2>7
<1> QED
  BY <1>1, <1>2

\* When all its events have arrived, the row of a filled order has its whole
\* quantity, unless the watchdog wrote it off after the last report: no echo,
\* duplicate, stale time stamp or resync hides an execution.
THEOREM QuietRowsHaveFills == Spec => []QuietRowHasFills
<1>1. Init => QuietInv
  BY TruthInit DEF Init, QuietInv, FillSeen, NoOrder
<1>2. QuietInv /\ [Next]_vars => QuietInv'
  BY FillSeenStep, TruthStep DEF QuietInv, TruthInv, DispatchInv
<1>3. QuietInv => QuietRowHasFills
  <2> SUFFICES ASSUME QuietInv, NEW o \in Orders, stream = <<>>, o \notin lost,
                      broker[o].st = "filled", ~WrittenOff(o)
               PROVE  row[o].filled = Qty
    BY DEF QuietRowHasFills
  <2>1. Settled(o)
    BY DEF QuietInv, FillSeen
  <2>2. broker[o].ver \in Nat
    BY DEF QuietInv, TruthInv, DispatchInv, Typing, TypeOK, Held
  <2>3. After(broker[o]) % 2 = 1
    BY <2>2 DEF After
  <2> QED
    BY <2>1, <2>3 DEF Settled, WrittenOff
<1> QED
  BY <1>1, <1>2, <1>3, PTL DEF Spec
-----------------------------------------------------------------------------
(* One DELETE at a time.                                                   *)

NoneFailed(o) == \A c \in Cancels : CancelOf[c] = o => cancel[c].pc # "failed"

\* A DELETE that was forwarded less than 5 s ago still has its mark on the row.
MarkHeld ==
    \A c \in Cancels : Forwarded(c) =>
       /\ row[CancelOf[c]].st # "none"
       /\ cancel[c].fresh /\ NoneFailed(CancelOf[c]) => row[CancelOf[c]].mark = c

CooldownInv == DispatchInv /\ MarkHeld

LEMMA ProcessedMark ==
    ASSUME NEW r \in Rows, NEW e
    PROVE  Processed(r, e).mark = r.mark
<1>1. UpdateOrder(r, e).mark = r.mark
  BY DEF UpdateOrder, Rows
<1> QED
  BY <1>1 DEF Processed

\* Only a DELETE changes the mark of a row that exists.
LEMMA MarkKept ==
    ASSUME Typing, [Next]_vars, \A c \in Cancels : ~CancelStep(c)
    PROVE  /\ UNCHANGED cancel
           /\ \A o \in Orders : row[o].st # "none" => row'[o].mark = row[o].mark
<1>t. /\ row \in [Orders -> Rows] /\ OrderOf \in [Requests -> Orders]
  BY OrdersAssumption DEF Typing, TypeOK
<1> DEFINE Kept == \A o \in Orders : row[o].st # "none" => row'[o].mark = row[o].mark
<1>1. ASSUME NEW p \in Orders, NEW new, row' = [row EXCEPT ![p] = new],
             row[p].st = "none" \/ new.mark = row[p].mark
      PROVE  Kept
  BY <1>1, <1>t
<1>2. ASSUME NEW p \in Orders, NEW e, row' = [row EXCEPT ![p] = Processed(row[p], e)]
      PROVE  Kept
  BY <1>1, <1>2, <1>t, ProcessedMark
<1>3. ASSUME UNCHANGED row PROVE Kept
  BY <1>3
<1>4. ASSUME NEW r \in Requests, PlaceStep(r)
      PROVE  UNCHANGED cancel /\ Kept
  <2>1. CASE PlaceInsert(r) /\ row[OrderOf[r]].st = "none"
    <3>1. row' = [row EXCEPT ![OrderOf[r]] = NewRow] /\ UNCHANGED cancel
      BY <2>1 DEF PlaceInsert
    <3> QED
      BY <1>1, <1>t, <2>1, <3>1
  <2>2. CASE PlaceError(r)
    <3> DEFINE new == [row[OrderOf[r]] EXCEPT !.st = "rejected"]
    <3>1. row' = [row EXCEPT ![OrderOf[r]] = new] /\ UNCHANGED cancel
      BY <2>2 DEF PlaceError
    <3>2. new.mark = row[OrderOf[r]].mark
      BY <1>t DEF Rows
    <3> HIDE DEF new
    <3> QED
      BY <1>1, <1>t, <3>1, <3>2
  <2>3. CASE MarkSubmitted(r)
    <3> DEFINE new == [row[OrderOf[r]] EXCEPT !.st = "submitted", !.known = TRUE]
    <3>1. row' = [row EXCEPT ![OrderOf[r]] = new] /\ UNCHANGED cancel
      BY <1>t, <2>3 DEF MarkSubmitted
    <3>2. new.mark = row[OrderOf[r]].mark
      BY <1>t DEF Rows
    <3> HIDE DEF new
    <3> QED
      BY <1>1, <1>t, <3>1, <3>2
  <2> HIDE DEF Kept
  <2>4. CASE UNCHANGED <<row, cancel>>
    BY <1>3, <2>4
  <2> QED
    BY <1>4, <2>1, <2>2, <2>3, <2>4 DEF PlaceStep, PlaceAdmit, PlaceInsert, PlaceSend,
       SidecarPlace, PlaceReply, PlaceNoReply, PlaceRecheck, PlaceGone
<1>5. ASSUME Consume PROVE UNCHANGED cancel /\ Kept
  <2>1. Head(stream).o \in Orders
    <3>1. Head(stream) \in Events
      BY <1>5 DEF Consume, Typing, TypeOK
    <3> QED
      BY <3>1 DEF Events
  <2>2. /\ row' = [row EXCEPT ![Head(stream).o] = Processed(row[Head(stream).o], Head(stream))]
        /\ UNCHANGED cancel
    BY <1>t, <1>5, <2>1 DEF Consume
  <2> QED
    BY <1>2, <2>1, <2>2
<1>6. ASSUME NEW e \in synth, ConsumeSynthetic(e)
      PROVE  UNCHANGED cancel /\ Kept
  BY <1>2, <1>6 DEF ConsumeSynthetic, Synths, Typing, TypeOK
<1>7. ASSUME WatchdogResolve PROVE UNCHANGED cancel /\ Kept
  <2> DEFINE new == [row[lookup.o] EXCEPT !.st = "rejected", !.last = After(broker[lookup.o])]
  <2>1. lookup.o \in Orders /\ UNCHANGED cancel
    BY <1>7 DEF WatchdogResolve, Typing, TypeOK, Lookups
  <2>2. \/ row' = row \/ row' = [row EXCEPT ![lookup.o] = new]
        \/ row' = [row EXCEPT ![lookup.o] = Processed(row[lookup.o], Finding)]
    BY <1>7, <1>t, <2>1 DEF WatchdogResolve, Finding
  <2>3. new.mark = row[lookup.o].mark
    BY <1>t, <2>1 DEF Rows
  <2> HIDE DEF new
  <2> QED
    BY <1>1, <1>2, <1>3, <2>1, <2>2, <2>3
<1> HIDE DEF Kept
<1>8. CASE ConsumerStep
  <2>1. UNCHANGED cancel
    BY <1>8 DEF ConsumerStep, StreamOpen, StreamResync, Consume, StreamBreak, ConsumeSynthetic
  <2>2. Consume \/ (\E e \in synth : ConsumeSynthetic(e)) \/ UNCHANGED row
    BY <1>8 DEF ConsumerStep, StreamOpen, StreamResync, StreamBreak
  <2> QED
    BY <1>3, <1>5, <1>6, <2>1, <2>2 DEF Kept
<1>9. CASE WatchdogStep
  <2>1. UNCHANGED cancel
    BY <1>9 DEF WatchdogStep, WatchdogScan, WatchdogResolve, WatchdogRestart, WatchdogLookup,
       WatchdogBrokerError
  <2>2. WatchdogResolve \/ UNCHANGED row
    BY <1>9 DEF WatchdogStep, WatchdogScan, WatchdogRestart, WatchdogLookup, WatchdogBrokerError
  <2> QED
    BY <1>3, <1>7, <2>1, <2>2 DEF Kept
<1> QED
  BY <1>3, <1>4, <1>8, <1>9 DEF Kept, Next, BrokerFill, BrokerEnd, Grow, EngageKillSwitch, vars

LEMMA MarkHeldStep ==
    ASSUME CooldownInv, Typing', [Next]_vars
    PROVE  MarkHeld'
<1>t. /\ DispatchInv /\ Typing /\ row \in [Orders -> Rows] /\ cancel \in [Cancels -> Calls]
      /\ CancelOf \in [Cancels -> Orders] /\ NoCancel \notin Cancels
  BY CancelsAssumption DEF CooldownInv, DispatchInv, Typing, TypeOK
<1>s. \A o \in Orders : row[o].st # "none" => row'[o].st # "none"
  BY <1>t, RowsKept
<1>1. ASSUME \A c \in Cancels : ~CancelStep(c) PROVE MarkHeld'
  BY <1>1, <1>s, <1>t, MarkKept DEF CooldownInv, MarkHeld, Forwarded, NoneFailed
<1>2. ASSUME NEW d \in Cancels, CancelBegin(d) PROVE MarkHeld'
  <2> DEFINE o == CancelOf[d]
  <2>0. o \in Orders /\ row[o].st # "none" /\ cancel[d].pc = "idle"
    BY <1>2, <1>t DEF CancelBegin
  <2>1. CASE UNCHANGED row /\ cancel' = [cancel EXCEPT ![d].pc = "turned_away"]
    <3>1. \A c \in Cancels : /\ cancel'[c].fresh = cancel[c].fresh
                             /\ c # d => cancel'[c] = cancel[c]
      BY <1>t, <2>1 DEF Calls
    <3>2. cancel'[d].pc = "turned_away"
      BY <1>t, <2>1 DEF Calls
    <3>3. \A p \in Orders : NoneFailed(p)' => NoneFailed(p)
      BY <2>0, <3>1 DEF NoneFailed
    <3> QED
      BY <1>t, <2>1, <3>1, <3>2, <3>3 DEF CooldownInv, MarkHeld, Forwarded
  <2>2. CASE /\ ~InFlight(row[o].mark)
             /\ row' = [row EXCEPT ![o].mark = d]
             /\ cancel' = [cancel EXCEPT ![d] = [pc |-> "forwarding", fresh |-> TRUE]]
    <3>1. row'[o].mark = d /\ \A p \in Orders \ {o} : row'[p] = row[p]
      BY <1>t, <2>0, <2>2 DEF Rows
    <3>2. \A c \in Cancels \ {d} : cancel'[c] = cancel[c]
      BY <1>t, <2>2
    <3>3. \A p \in Orders : NoneFailed(p)' => NoneFailed(p)
      BY <2>0, <3>2 DEF NoneFailed
    <3> SUFFICES ASSUME NEW c \in Cancels, Forwarded(c)', cancel'[c].fresh,
                        NoneFailed(CancelOf[c])'
                 PROVE  row'[CancelOf[c]].mark = c
      <4>1. ASSUME NEW c \in Cancels, Forwarded(c)'
            PROVE  row'[CancelOf[c]].st # "none"
        <5>1. c = d \/ Forwarded(c)
          BY <3>2, <4>1 DEF Forwarded
        <5> QED
          BY <1>s, <1>t, <2>0, <5>1 DEF CooldownInv, MarkHeld
      <4> QED
        BY <4>1 DEF MarkHeld
    <3>4. CASE c = d
      BY <3>1, <3>4
    <3>5. CASE c # d
      <4>1. Forwarded(c) /\ cancel[c].fresh /\ NoneFailed(CancelOf[c])
        BY <1>t, <3>2, <3>3, <3>5 DEF Forwarded
      <4>2. row[CancelOf[c]].mark = c
        BY <4>1 DEF CooldownInv, MarkHeld
      <4>3. CancelOf[c] # o
        BY <1>t, <2>2, <4>1, <4>2 DEF InFlight
      <4> QED
        BY <1>t, <3>1, <4>2, <4>3
    <3> QED
      BY <3>4, <3>5
  <2> QED
    BY <1>2, <2>1, <2>2 DEF CancelBegin
<1>3. ASSUME NEW d \in Cancels, CancelFailed(d) PROVE MarkHeld'
  <2> DEFINE o == CancelOf[d]
  <2>1. /\ o \in Orders
        /\ row' = [row EXCEPT ![o].mark = NoCancel]
        /\ cancel' = [cancel EXCEPT ![d].pc = "failed"]
    BY <1>3, <1>t DEF CancelFailed
  <2>2. cancel'[d].pc = "failed" /\ \A c \in Cancels \ {d} : cancel'[c] = cancel[c]
    BY <1>t, <2>1 DEF Calls
  <2>3. ~NoneFailed(o)' /\ \A p \in Orders \ {o} : row'[p] = row[p]
    BY <1>t, <2>1, <2>2 DEF NoneFailed
  <2>4. \A p \in Orders : NoneFailed(p)' => NoneFailed(p)
    <3>1. cancel[d].pc = "forwarding"
      BY <1>3 DEF CancelFailed
    <3> QED
      BY <2>2, <3>1 DEF NoneFailed
  <2> QED
    BY <1>s, <1>t, <2>2, <2>3, <2>4 DEF CooldownInv, MarkHeld, Forwarded
<1>4. ASSUME NEW d \in Cancels, CancelAccepted(d) \/ CancelGone(d) \/ FiveSecondsPass(d)
      PROVE  MarkHeld'
  <2>1. UNCHANGED row
    BY <1>4 DEF CancelAccepted, CancelGone, FiveSecondsPass
  <2>2. \A c \in Cancels : /\ cancel'[c].fresh => cancel[c].fresh
                           /\ cancel'[c].pc # "failed" => cancel[c].pc # "failed"
    BY <1>4, <1>t DEF CancelAccepted, CancelGone, FiveSecondsPass, Calls
  <2>3. \A c \in Cancels : Forwarded(c)' => Forwarded(c)
    BY <1>4, <1>t DEF CancelAccepted, CancelGone, FiveSecondsPass, Calls, Forwarded
  <2>4. \A p \in Orders : NoneFailed(p)' => NoneFailed(p)
    BY <2>2 DEF NoneFailed
  <2> QED
    BY <1>t, <2>1, <2>2, <2>3, <2>4 DEF CooldownInv, MarkHeld
<1> QED
  BY <1>1, <1>2, <1>3, <1>4 DEF CancelStep

\* As long as no DELETE of an order failed, two of them less than 5 s old have
\* not both been forwarded: the mark of the first turns the second away.
THEOREM CooldownKept == Spec => []CooldownAbsentFailures
<1>1. Init => CooldownInv
  BY DispatchInit DEF Init, CooldownInv, MarkHeld, Forwarded
<1>2. CooldownInv /\ [Next]_vars => CooldownInv'
  BY DispatchStep, MarkHeldStep DEF CooldownInv, DispatchInv
<1>3. CooldownInv => CooldownAbsentFailures
  BY DEF CooldownInv, MarkHeld, NoneFailed, CooldownAbsentFailures
<1> QED
  BY <1>1, <1>2, <1>3, PTL DEF Spec
=============================================================================
