------------------------------- MODULE Brackets -------------------------------
(* Bracket orders: the POSTs of one client_order_id, with the rows they insert *)
(* and delete, and the way each broker's sidecar places a parent with a stop   *)
(* loss, a target or both.                                                     *)
EXTENDS Naturals, FiniteSets

CONSTANTS
    Posts,          \* POSTs of /orders/bracket with one client_order_id
    NoPost,
    MaxBreaks

ASSUME BracketAssumption == NoPost \notin Posts /\ MaxBreaks \in Nat

VARIABLES
    broker,     \* who places: "ibkr", "futu", "alpaca"
    post,       \* the POSTs
    owner,      \* the POST whose rows are in the table
    legRow,     \* their statuses
    placement,  \* the PlaceBracket calls
    market,     \* the orders of each call; "held" before IBKR transmits them
    deleted,    \* history: POSTs whose rows another one deleted
    breaks

bracketVars == <<broker, post, owner, legRow, placement, market, deleted, breaks>>

Exits == {"stop", "target"}
Legs == {"parent"} \cup Exits
NoRows == [l \in Legs |-> "none"]
Break == breaks < MaxBreaks /\ breaks' = breaks + 1

BracketTypeOK ==
    /\ broker \in {"ibkr", "futu", "alpaca"}
    /\ post \in [Posts -> [at : {"idle", "replace", "insert", "sent", "done"},
                           legs : SUBSET Exits, found : Posts \cup {NoPost}]]
    /\ owner \in Posts \cup {NoPost}
    /\ legRow \in [Legs -> {"none", "pending_submit", "submitted", "rejected", "filled"}]
    /\ placement \in [Posts -> {"none", "placing", "undoing", "placed", "failed", "cut"}]
    /\ market \in [Posts -> [Legs -> {"none", "held", "open", "filled", "cancelled"}]]
    /\ deleted \subseteq Posts
    /\ breaks \in 0..MaxBreaks

BracketInit ==
    /\ broker \in {"ibkr", "futu", "alpaca"}
    /\ post = [p \in Posts |-> [at |-> "idle", legs |-> {}, found |-> NoPost]]
    /\ owner = NoPost /\ legRow = NoRows
    /\ placement = [p \in Posts |-> "none"]
    /\ market = [p \in Posts |-> [l \in Legs |-> "none"]]
    /\ deleted = {} /\ breaks = 0

PostGoes(p, s) == post' = [post EXCEPT ![p].at = s]
Requested(p) == {"parent"} \cup post[p].legs

--------------------------------------------------------------------------------
(* place_bracket. *)

\* The rows found: those of a bracket with as many legs are answered again.
AfterLookup(legs) ==
    IF owner = NoPost THEN "insert"
    ELSE IF Cardinality({l \in Exits : legRow[l] # "none"}) = Cardinality(legs) THEN "done"
    ELSE "replace"

BracketBegins(p, legs) ==
    /\ post[p].at = "idle" /\ legs # {}
    /\ post' = [post EXCEPT ![p] = [at |-> AfterLookup(legs), legs |-> legs, found |-> owner]]
    /\ UNCHANGED <<broker, owner, legRow, placement, market, deleted, breaks>>

\* The nonce is refused, or the contract or the client is not to be had.
BracketRefused(p) ==
    /\ post[p].at \in {"replace", "insert"} /\ PostGoes(p, "done")
    /\ UNCHANGED <<broker, owner, legRow, placement, market, deleted, breaks>>

\* Rows with another number of legs are deleted, by id, and that is committed.
DeleteRows(p) ==
    /\ post[p].at = "replace" /\ PostGoes(p, "insert")
    /\ IF owner = post[p].found
       THEN owner' = NoPost /\ legRow' = NoRows /\ deleted' = deleted \cup {owner}
       ELSE UNCHANGED <<owner, legRow, deleted>>
    /\ UNCHANGED <<broker, placement, market, breaks>>

\* Parent and children in one transaction; the unique index lets one POST in.
InsertRows(p) ==
    /\ post[p].at = "insert"
    /\ IF owner = NoPost
       THEN /\ owner' = p
            /\ legRow' = [l \in Legs |-> IF l \in Requested(p) THEN "pending_submit" ELSE "none"]
            /\ placement' = [placement EXCEPT ![p] = "placing"]
            /\ PostGoes(p, "sent")
       ELSE PostGoes(p, "done") /\ UNCHANGED <<owner, legRow, placement>>
    /\ UNCHANGED <<broker, market, deleted, breaks>>

SetRows(p, st) ==
    legRow' = IF owner # p THEN legRow
              ELSE [l \in Legs |-> IF legRow[l] = "none" THEN "none" ELSE st]

\* The statuses are written whatever they have become.
BracketPlaced(p) ==
    /\ post[p].at = "sent" /\ placement[p] = "placed"
    /\ SetRows(p, "submitted") /\ PostGoes(p, "done")
    /\ UNCHANGED <<broker, owner, placement, market, deleted, breaks>>

BracketFailed(p) ==
    /\ post[p].at = "sent" /\ placement[p] = "failed"
    /\ SetRows(p, "rejected") /\ PostGoes(p, "done")
    /\ UNCHANGED <<broker, owner, placement, market, deleted, breaks>>

\* A deadline ends the handler of the call at its next await, or comes too late.
BracketTimesOut(p) ==
    /\ post[p].at = "sent" /\ Break
    /\ SetRows(p, "rejected") /\ PostGoes(p, "done")
    /\ \E cut \in BOOLEAN :
          placement' = IF cut /\ placement[p] \in {"placing", "undoing"} THEN [placement EXCEPT ![p] = "cut"] ELSE placement
    /\ UNCHANGED <<broker, owner, market, deleted>>

\* The backend stops; the call goes on.
BracketAbandoned(p) ==
    /\ post[p].at \in {"replace", "insert", "sent"} /\ Break
    /\ PostGoes(p, "done")
    /\ UNCHANGED <<broker, owner, legRow, placement, market, deleted>>

--------------------------------------------------------------------------------
(* The sidecars. *)

\* Futu's places both exits, an empty one too, which fails.
Tried(p) == IF broker = "futu" THEN Legs ELSE Requested(p)
Remaining(p) == {l \in Tried(p) : market[p][l] = "none"}
NextLeg(p) ==
    CHOOSE l \in Remaining(p) :
        l = IF "parent" \in Remaining(p) THEN "parent"
            ELSE IF "stop" \in Remaining(p) THEN "stop" ELSE "target"

\* IBKR's last leg transmits those before it.
WithLeg(p) ==
    LET last == Remaining(p) = {NextLeg(p)} IN
    [l \in Legs |->
        IF broker = "ibkr" /\ last THEN IF l \in Tried(p) THEN "open" ELSE "none"
        ELSE IF l = NextLeg(p) THEN IF broker = "ibkr" THEN "held" ELSE "open"
        ELSE market[p][l]]

PlaceLeg(p) ==
    /\ placement[p] = "placing" /\ broker # "alpaca" /\ NextLeg(p) \in Requested(p)
    /\ market' = [market EXCEPT ![p] = WithLeg(p)]
    /\ placement' = [placement EXCEPT ![p] = IF Remaining(p) = {NextLeg(p)} THEN "placed" ELSE "placing"]
    /\ UNCHANGED <<broker, post, owner, legRow, deleted, breaks>>

LegFails(p) ==
    /\ placement[p] = "placing" /\ broker # "alpaca"
    /\ IF NextLeg(p) \in Requested(p) THEN Break ELSE UNCHANGED breaks
    /\ placement' = [placement EXCEPT ![p] = IF NextLeg(p) = "parent" THEN "failed" ELSE "undoing"]
    /\ UNCHANGED <<broker, post, owner, legRow, market, deleted>>

\* Alpaca takes all legs at once, but an answer without both is an error.
PlaceAll(p) ==
    /\ placement[p] = "placing" /\ broker = "alpaca"
    /\ \E accepted \in BOOLEAN :
          /\ market' = IF accepted THEN [market EXCEPT ![p] = [l \in Legs |->
                                           IF l \in Requested(p) THEN "open" ELSE "none"]]
                       ELSE market
          /\ placement' = [placement EXCEPT ![p] = IF accepted /\ Requested(p) = Legs THEN "placed" ELSE "failed"]
    /\ UNCHANGED <<broker, post, owner, legRow, deleted, breaks>>

\* Mutant: the exits that were placed are left.
CancelledParent(orders) ==
    [l \in Legs |-> IF l = "parent" /\ orders[l] \in {"held", "open"} THEN "cancelled" ELSE orders[l]]
\* Each order placed so far is cancelled; a filled one stays.
CancelledLegs(orders) ==
    [l \in Legs |-> IF orders[l] \in {"held", "open"} THEN "cancelled" ELSE orders[l]]

UndoLegs(p) ==
    /\ placement[p] = "undoing"
    /\ market' = [market EXCEPT ![p] = CancelledLegs(@)]
    /\ placement' = [placement EXCEPT ![p] = "failed"]
    /\ UNCHANGED <<broker, post, owner, legRow, deleted, breaks>>

\* A cancellation that fails is logged.
UndoFails(p) ==
    /\ placement[p] = "undoing" /\ Break
    /\ placement' = [placement EXCEPT ![p] = "cut"]
    /\ UNCHANGED <<broker, post, owner, legRow, market, deleted>>

\* Futu's orders know nothing of each other; elsewhere an exit waits for its
\* parent and takes the other exit with it.
LegFills(p, l) ==
    /\ market[p][l] = "open"
    /\ broker = "futu" \/ l = "parent" \/ market[p]["parent"] = "filled"
    /\ market' = [market EXCEPT ![p] = [k \in Legs |->
         IF k = l THEN "filled"
         ELSE IF broker # "futu" /\ {k, l} = Exits /\ market[p][k] = "open" THEN "cancelled"
         ELSE market[p][k]]]
    /\ UNCHANGED <<broker, post, owner, legRow, placement, deleted, breaks>>

\* The consumer's UPDATE; a rejected row stays so.
LegEvent(l) ==
    /\ owner # NoPost /\ legRow[l] \in {"pending_submit", "submitted"}
    /\ market[owner][l] = "filled"
    /\ legRow' = [legRow EXCEPT ![l] = "filled"]
    /\ UNCHANGED <<broker, post, owner, placement, market, deleted, breaks>>

BracketNext ==
    \/ \E p \in Posts :
          \/ \E legs \in SUBSET Exits : BracketBegins(p, legs)
          \/ BracketRefused(p) \/ DeleteRows(p) \/ InsertRows(p)
          \/ BracketPlaced(p) \/ BracketFailed(p) \/ BracketTimesOut(p) \/ BracketAbandoned(p)
          \/ PlaceLeg(p) \/ LegFails(p) \/ PlaceAll(p) \/ UndoLegs(p) \/ UndoFails(p)
          \/ \E l \in Legs : LegFills(p, l)
    \/ \E l \in Legs : LegEvent(l)

BracketSpec == BracketInit /\ [][BracketNext]_bracketVars

--------------------------------------------------------------------------------
Working(p) == {l \in Legs : market[p][l] = "open"}
Placed(p) == {l \in Legs : market[p][l] \in {"open", "filled"}}

\* Once a placement has ended by itself, no leg works without the others it was
\* asked for: what a failure leaves is cancelled.
WholeOrNothing ==
    \A p \in Posts : placement[p] \in {"placed", "failed"} /\ Working(p) # {} => Placed(p) = Requested(p)

\* POSTs of one client_order_id place one bracket, unless one with another
\* number of legs deleted the rows of the first.
OneBracket == Cardinality({p \in Posts : Placed(p) # {}}) <= 1 + Cardinality(deleted)

\* A row that says so is at the broker, or has been.
SubmittedIsPlaced ==
    \A l \in Legs : legRow[l] \in {"submitted", "filled"} => market[owner][l] # "none"

\* A bracket is placed whole and once, and its rows know it: a failed leg undoes
\* the others (PlaceBracket of the sidecars), a retry answers from the rows
\* (orders_service.py: place_bracket), a row is submitted when its leg is placed.
BracketIsWhole == BracketTypeOK /\ WholeOrNothing /\ OneBracket /\ SubmittedIsPlaced
================================================================================
