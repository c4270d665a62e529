------------------------------ MODULE OrderModify ------------------------------
(* Changes to a working order: the nonce that preview mints, modify_order with *)
(* its writes before and after the broker's answer, the replay of an answer    *)
(* already given, and the broker's events that arrive meanwhile.  The terms of *)
(* an order (quantity, prices, time in force, notional) are one value.         *)
EXTENDS Naturals

CONSTANTS
    Modifies,   \* calls of modify_order
    Nonces,
    Terms,      \* terms a call may ask for
    FirstTerms,
    MaxTroubles

ASSUME ModifyAssumption == Nonces # {} /\ FirstTerms \notin Terms /\ MaxTroubles \in Nat

VARIABLES
    inPlace,    \* the broker keeps the id of a modified order (IBKR, Futu),
                \* or replaces the order by another (Schwab, Alpaca)
    order,      \* the orders row: status, terms, broker_order_id
    working,    \* the broker's order: state, terms, id
    minted,     \* nonce:order:{account}:{nonce} in Redis: the terms it is for
    replay,     \* order-modify-replay:{order}:{nonce}
    mod,        \* the calls
    rpc,        \* their ModifyOrder calls, which outlive a deadline
    sends,      \* history: ModifyOrder calls sent for a nonce
    excuses,    \* history: what may part the row from the broker's order
    troubles

modifyVars == <<inPlace, order, working, minted, replay, mod, rpc, sends, excuses, troubles>>

Ended == {"filled", "cancelled"}
NoTerms == FirstTerms
Unasked == [at |-> "idle", nonce |-> CHOOSE n \in Nonces : TRUE, want |-> FirstTerms,
            read |-> [terms |-> FirstTerms, id |-> 1]]
Ids == Nat \ {0}
AllTerms == Terms \cup {FirstTerms}
Trouble == troubles < MaxTroubles /\ troubles' = troubles + 1

ModifyTypeOK ==
    /\ inPlace \in BOOLEAN
    /\ order \in [st : {"submitted", "modified", "inactive"} \cup Ended, terms : AllTerms, id : Ids]
    /\ working \in [st : {"open"} \cup Ended, terms : AllTerms, id : Ids]
    /\ minted \in [Nonces -> AllTerms] /\ replay \in [Nonces -> BOOLEAN]
    /\ mod \in [Modifies -> [at : {"idle", "read", "nonce", "written", "sent", "done"},
                             nonce : Nonces, want : AllTerms, read : [terms : AllTerms, id : Ids]]]
    /\ rpc \in [Modifies -> {"none", "sent", "accepted", "refused"}]
    /\ sends \in [Nonces -> Nat]
    /\ excuses \subseteq {"lost", "contract", "overlap"}
    /\ troubles \in 0..MaxTroubles

\* place_order has had its answer.
ModifyInit ==
    /\ inPlace \in BOOLEAN
    /\ order = [st |-> "submitted", terms |-> FirstTerms, id |-> 1]
    /\ working = [st |-> "open", terms |-> FirstTerms, id |-> 1]
    /\ minted = [n \in Nonces |-> NoTerms] /\ replay = [n \in Nonces |-> FALSE]
    /\ mod = [m \in Modifies |-> Unasked]
    /\ rpc = [m \in Modifies |-> "none"]
    /\ sends = [n \in Nonces |-> 0]
    /\ excuses = {} /\ troubles = 0

At(m, s) == mod[m].at = s
Moves(m, s) == mod' = [mod EXCEPT ![m].at = s]

--------------------------------------------------------------------------------
(* Previews and calls. *)

\* preview_order answers with a nonce for the terms it was asked about.
Preview(n, t) ==
    /\ minted[n] = NoTerms /\ \A m \in Modifies : mod[m].nonce = n => At(m, "idle")
    /\ minted' = [minted EXCEPT ![n] = t]
    /\ UNCHANGED <<inPlace, order, working, replay, mod, rpc, sends, excuses, troubles>>

NonceExpires(n) ==
    /\ minted[n] # NoTerms
    /\ minted' = [minted EXCEPT ![n] = NoTerms]
    /\ UNCHANGED <<inPlace, order, working, replay, mod, rpc, sends, excuses, troubles>>

\* The replay lookup and the SELECT of the row; an ended order is refused.
ModifyBegin(m, n, t) ==
    /\ At(m, "idle")
    /\ mod' = [mod EXCEPT ![m] =
                 [at |-> IF replay[n] \/ order.st \in Ended \cup {"inactive"} THEN "done" ELSE "read",
                  nonce |-> n, want |-> t, read |-> [terms |-> order.terms, id |-> order.id]]]
    /\ UNCHANGED <<inPlace, order, working, minted, replay, rpc, sends, excuses, troubles>>

\* Kill switch, maintenance, algo strategy, gate or policy.
ModifyBlocked(m) ==
    /\ At(m, "read") /\ Moves(m, "done")
    /\ UNCHANGED <<inPlace, order, working, minted, replay, rpc, sends, excuses, troubles>>

\* Mutant: GET, and DEL once the order is modified.
ConsumeNonceLate(m) ==
    /\ At(m, "read")
    /\ Moves(m, IF minted[mod[m].nonce] = mod[m].want THEN "nonce" ELSE "done")
    /\ UNCHANGED <<inPlace, order, working, minted, replay, rpc, sends, excuses, troubles>>
\* GETDEL of the nonce: one caller finds it.
ConsumeNonce(m) ==
    /\ At(m, "read")
    /\ minted' = [minted EXCEPT ![mod[m].nonce] = NoTerms]
    /\ Moves(m, IF minted[mod[m].nonce] = mod[m].want THEN "nonce" ELSE "done")
    /\ UNCHANGED <<inPlace, order, working, replay, rpc, sends, excuses, troubles>>

Others(m) == {k \in Modifies \ {m} : mod[k].at \in {"written", "sent"}}

\* The new terms are committed before the broker hears of them.
WriteTerms(m) ==
    /\ At(m, "nonce")
    /\ order' = [order EXCEPT !.terms = mod[m].want]
    /\ excuses' = IF Others(m) # {} \/ [terms |-> order.terms, id |-> order.id] # mod[m].read
                  THEN excuses \cup {"overlap"} ELSE excuses
    /\ Moves(m, "written")
    /\ UNCHANGED <<inPlace, working, minted, replay, rpc, sends, troubles>>

\* get_contract is outside the try: nothing restores the row.
ContractFails(m) ==
    /\ At(m, "written") /\ Trouble
    /\ excuses' = excuses \cup {"contract"}
    /\ Moves(m, "done")
    /\ UNCHANGED <<inPlace, order, working, minted, replay, rpc, sends>>

SendModify(m) ==
    /\ At(m, "written")
    /\ rpc' = [rpc EXCEPT ![m] = "sent"]
    /\ sends' = [sends EXCEPT ![mod[m].nonce] = @ + 1]
    /\ Moves(m, "sent")
    /\ UNCHANGED <<inPlace, order, working, minted, replay, excuses, troubles>>

--------------------------------------------------------------------------------
(* The broker. *)

\* Found among the open orders under the id the call carries.
Modifiable(m) == working.st = "open" /\ working.id = mod[m].read.id

BrokerModifies(m) ==
    /\ rpc[m] = "sent"
    /\ \/ /\ Modifiable(m) /\ rpc' = [rpc EXCEPT ![m] = "accepted"]
          /\ working' = [working EXCEPT !.terms = mod[m].want, !.id = IF inPlace THEN @ ELSE @ + 1]
       \/ ~Modifiable(m) /\ rpc' = [rpc EXCEPT ![m] = "refused"] /\ UNCHANGED working
    /\ UNCHANGED <<inPlace, order, minted, replay, mod, sends, excuses, troubles>>

BrokerRefuses(m) ==
    /\ rpc[m] = "sent" /\ Trouble
    /\ rpc' = [rpc EXCEPT ![m] = "refused"]
    /\ UNCHANGED <<inPlace, order, working, minted, replay, mod, sends, excuses>>

OrderEnds ==
    /\ working.st = "open"
    /\ \E st \in Ended : working' = [working EXCEPT !.st = st]
    /\ UNCHANGED <<inPlace, order, minted, replay, mod, rpc, sends, excuses, troubles>>

\* The consumer's UPDATE (see OrderLifecycle): what has ended stays as it is,
\* the end is taken from the broker, and an echo or 'inactive' has the rank of
\* 'modified'.  The event of a replaced order is passed over.
EventArrives ==
    /\ order.st \notin Ended \cup {"inactive"}
    /\ \E st \in (IF working.st = "open" THEN {"submitted", "inactive"} ELSE {"submitted", working.st}) :
          /\ st # order.st
          /\ order' = [order EXCEPT !.st = st]
    /\ UNCHANGED <<inPlace, working, minted, replay, mod, rpc, sends, excuses, troubles>>

--------------------------------------------------------------------------------
(* The answer. *)

\* Unless the row is ahead of 'modified', which has the rank of 'submitted'.
StatusAfter(st) == IF st \in Ended THEN st ELSE "modified"

\* The row takes the broker's id, and the answer is kept for a replay.
ModifyAccepted(m) ==
    /\ At(m, "sent") /\ rpc[m] = "accepted"
    /\ order' = [order EXCEPT !.st = StatusAfter(@),
                              !.id = IF inPlace THEN mod[m].read.id ELSE mod[m].read.id + 1]
    /\ replay' = [replay EXCEPT ![mod[m].nonce] = TRUE]
    /\ Moves(m, "done")
    /\ UNCHANGED <<inPlace, working, minted, rpc, sends, excuses, troubles>>

\* _restore_modify_baseline: the terms that the call read at its beginning.
Restored(m) == [order EXCEPT !.terms = mod[m].read.terms]

ModifyRefused(m) ==
    /\ At(m, "sent") /\ rpc[m] = "refused"
    /\ order' = Restored(m)
    /\ Moves(m, "done")
    /\ UNCHANGED <<inPlace, working, minted, replay, rpc, sends, excuses, troubles>>

\* The deadline passes, whatever the broker does with the call.
ModifyTimesOut(m) ==
    /\ At(m, "sent") /\ rpc[m] \in {"sent", "accepted"} /\ Trouble
    /\ order' = Restored(m)
    /\ excuses' = excuses \cup {"lost"}
    /\ Moves(m, "done")
    /\ UNCHANGED <<inPlace, working, minted, replay, rpc, sends>>

\* The backend stops, or the client goes away and the call is cancelled.
ModifyAbandoned(m) ==
    /\ mod[m].at \in {"read", "nonce", "written", "sent"} /\ Trouble
    /\ excuses' = IF mod[m].at \in {"written", "sent"} THEN excuses \cup {"lost"} ELSE excuses
    /\ Moves(m, "done")
    /\ UNCHANGED <<inPlace, order, working, minted, replay, rpc, sends>>

ModifyNext ==
    \/ \E n \in Nonces : NonceExpires(n) \/ \E t \in Terms : Preview(n, t)
    \/ \E m \in Modifies :
          \/ \E n \in Nonces, t \in Terms : ModifyBegin(m, n, t)
          \/ ModifyBlocked(m) \/ ConsumeNonce(m) \/ WriteTerms(m) \/ ContractFails(m)
          \/ SendModify(m) \/ BrokerModifies(m) \/ BrokerRefuses(m) \/ ModifyAccepted(m)
          \/ ModifyRefused(m) \/ ModifyTimesOut(m) \/ ModifyAbandoned(m)
    \/ OrderEnds \/ EventArrives

ModifySpec == ModifyInit /\ [][ModifyNext]_modifyVars

--------------------------------------------------------------------------------
AllAnswered == \A m \in Modifies : mod[m].at \in {"idle", "read", "nonce", "done"}

\* While no call is between its two writes, the row has the terms and the id of
\* the order at the broker, unless an answer was lost, get_contract failed, or
\* two calls overlapped: a refused modification leaves nothing behind.
TermsAgree ==
    AllAnswered /\ working.st = "open" /\ excuses = {}
        => order.terms = working.terms /\ order.id = working.id

\* A nonce sends at most one ModifyOrder, however often it is used.
NonceSendsOnce == \A n \in Nonces : sends[n] <= 1

\* Row and broker agree after modifications, refused ones too, each nonce having
\* sent one at most (orders_service.py: modify_order).
ModifyHolds == ModifyTypeOK /\ TermsAgree /\ NonceSendsOnce
================================================================================
