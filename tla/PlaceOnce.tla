------------------------------ MODULE PlaceOnce ------------------------------
(***************************************************************************)
(* What POST /orders promises a client that retries: an order is recorded  *)
(* before it is sent to the broker, its record is never forgotten, and of  *)
(* all the calls made for it one at most sends it.                         *)
(***************************************************************************)
CONSTANTS Orders, Requests, OrderOf

VARIABLES recorded,   \* orders the backend can find again
          sent        \* calls that sent their order to the broker

Init == recorded = {} /\ sent = {}

Record(o) ==
    /\ o \notin recorded
    /\ recorded' = recorded \cup {o}
    /\ UNCHANGED sent

Send(r) ==
    /\ OrderOf[r] \in recorded
    /\ \A s \in sent : OrderOf[s] # OrderOf[r]
    /\ sent' = sent \cup {r}
    /\ UNCHANGED recorded

Next == \/ \E o \in Orders : Record(o)
        \/ \E r \in Requests : Send(r)

Spec == Init /\ [][Next]_<<recorded, sent>>
=============================================================================
