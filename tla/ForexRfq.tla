------------------------------- MODULE ForexRfq -------------------------------
(***************************************************************************)
(* One forex quote: its row, the calls that accept and cancel it, the      *)
(* sweep of expired quotes, the broker, and what the pending_submit        *)
(* watchdog does with the order an acceptance leaves.                      *)
(*                                                                         *)
(* A call that dies takes no further step.                                 *)
(***************************************************************************)
EXTENDS Integers, FiniteSets

CONSTANTS
    Accepts,  \* POST /forex/quote/{id}/accept calls
    Drops,    \* DELETE /forex/quote/{id} calls
    Nobody    \* the row is not locked

ASSUME NobodyAssumption == Nobody \notin Accepts

VARIABLES
    quote,      \* forex_rfq_quotes.status
    lapsed,     \* expires_at <= now()
    nonce,      \* does forex:rfq:nonce:{id} exist?
    rowLock,    \* the call whose SELECT ... FOR UPDATE is not yet committed
    accept,     \* where each acceptance is
    drop,       \* where each cancellation is
    deal,       \* the quote at the broker
    fxOrder,    \* the status of the row of orders, "none" before
    unanswered, \* history: an AcceptFxQuote that was carried out raised here
    overruled   \* history: a cancellation changed an accepting quote

rfqVars == <<quote, lapsed, nonce, rowLock, accept, drop, deal, fxOrder, unanswered, overruled>>
-----------------------------------------------------------------------------
\* request_quote: the row, then the nonce.
RequestQuote ==
    /\ quote = "none"
    /\ quote' = "pending"
    /\ deal' = "open"
    /\ UNCHANGED <<lapsed, nonce, rowLock, accept, drop, fxOrder, unanswered, overruled>>

SetNonce ==
    /\ quote # "none" /\ nonce = "unset"
    /\ nonce' = "set"
    /\ UNCHANGED <<quote, lapsed, rowLock, accept, drop, deal, fxOrder, unanswered, overruled>>

\* The time to live of the quote is over, and soon the nonce's.
QuoteLapses ==
    /\ quote # "none" /\ ~lapsed
    /\ lapsed' = TRUE
    /\ UNCHANGED <<quote, nonce, rowLock, accept, drop, deal, fxOrder, unanswered, overruled>>

NonceLapses ==
    /\ lapsed /\ nonce = "set"
    /\ nonce' = "gone"
    /\ UNCHANGED <<quote, lapsed, rowLock, accept, drop, deal, fxOrder, unanswered, overruled>>

\* GETDEL.
TakeNonce(a) ==
    /\ accept[a] = "idle"
    /\ nonce' = IF nonce = "set" THEN "gone" ELSE nonce
    /\ accept' = [accept EXCEPT ![a] = IF nonce = "set" THEN "nonce" ELSE "refused"]
    /\ UNCHANGED <<quote, lapsed, rowLock, drop, deal, fxOrder, unanswered, overruled>>

Acceptable == quote = "pending" /\ ~lapsed

\* SELECT ... FOR UPDATE; the row stays locked while the risk gate evaluates.
LockQuote(a) ==
    /\ accept[a] = "nonce" /\ rowLock = Nobody
    /\ IF Acceptable THEN accept' = [accept EXCEPT ![a] = "gating"] /\ rowLock' = a
                     ELSE accept' = [accept EXCEPT ![a] = "refused"] /\ UNCHANGED rowLock
    /\ UNCHANGED <<quote, lapsed, nonce, drop, deal, fxOrder, unanswered, overruled>>

GateBlocks(a) ==
    /\ accept[a] = "gating"
    /\ accept' = [accept EXCEPT ![a] = "refused"]
    /\ quote' = "rejected" /\ rowLock' = Nobody
    /\ UNCHANGED <<lapsed, nonce, drop, deal, fxOrder, unanswered, overruled>>

GateClears(a) ==
    /\ accept[a] = "gating"
    /\ accept' = [accept EXCEPT ![a] = "calling"]
    /\ quote' = "accepting" /\ rowLock' = Nobody
    /\ UNCHANGED <<lapsed, nonce, drop, deal, fxOrder, unanswered, overruled>>

\* A crash while the row is locked: the transaction rolls back.
GateDies(a) ==
    /\ accept[a] = "gating"
    /\ accept' = [accept EXCEPT ![a] = "refused"]
    /\ rowLock' = Nobody
    /\ UNCHANGED <<quote, lapsed, nonce, drop, deal, fxOrder, unanswered, overruled>>

\* AcceptFxQuote, answered or not.
BrokerDeals(a) ==
    /\ accept[a] = "calling" /\ deal = "open"
    /\ deal' = "executed"
    /\ \/ accept' = [accept EXCEPT ![a] = "dealt"] /\ UNCHANGED unanswered
       \/ accept' = [accept EXCEPT ![a] = "raised"] /\ unanswered' = TRUE
    /\ UNCHANGED <<quote, lapsed, nonce, rowLock, drop, fxOrder, overruled>>

DealRaises(a) ==
    /\ accept[a] = "calling"
    /\ accept' = [accept EXCEPT ![a] = "raised"]
    /\ UNCHANGED <<quote, lapsed, nonce, rowLock, drop, deal, fxOrder, unanswered, overruled>>

\* Either UPDATE names the row by its id only: it overwrites any status.
AcceptRejects(a) ==
    /\ accept[a] = "raised" /\ rowLock = Nobody
    /\ accept' = [accept EXCEPT ![a] = "refused"]
    /\ quote' = "rejected"
    /\ UNCHANGED <<lapsed, nonce, rowLock, drop, deal, fxOrder, unanswered, overruled>>

AcceptRecords(a) ==
    /\ accept[a] = "dealt" /\ rowLock = Nobody
    /\ accept' = [accept EXCEPT ![a] = "accepted"]
    /\ quote' = "accepted"
    /\ fxOrder' = "pending_submit"
    /\ UNCHANGED <<lapsed, nonce, rowLock, drop, deal, unanswered, overruled>>

Cancellable == quote \in {"pending", "accepting"}

\* cancel_quote: the transaction, then the best-effort call.
DropQuote(d) ==
    /\ drop[d] = "idle" /\ rowLock = Nobody /\ quote # "none"
    /\ IF Cancellable
         THEN /\ quote' = "rejected"
              /\ overruled' = (overruled \/ quote = "accepting")
              /\ drop' = [drop EXCEPT ![d] = "calling"]
         ELSE /\ drop' = [drop EXCEPT ![d] = "refused"]
              /\ UNCHANGED <<quote, overruled>>
    /\ UNCHANGED <<lapsed, nonce, rowLock, accept, deal, fxOrder, unanswered>>

DropReaches(d) ==
    /\ drop[d] = "calling"
    /\ drop' = [drop EXCEPT ![d] = "done"]
    /\ deal' = IF deal = "open" THEN "cancelled" ELSE deal
    /\ UNCHANGED <<quote, lapsed, nonce, rowLock, accept, fxOrder, unanswered, overruled>>

\* Mutant: the sweep looks at the time only.
SweepableByTime == lapsed

Sweepable == quote = "pending" /\ lapsed

\* sweep_expired_quotes, every minute.
SweepQuotes ==
    /\ Sweepable /\ quote # "expired" /\ rowLock = Nobody
    /\ quote' = "expired"
    /\ UNCHANGED <<lapsed, nonce, rowLock, accept, drop, deal, fxOrder, unanswered, overruled>>

\* The watchdog, five minutes on: no broker order bears this client_order_id.
OrphanFxOrder ==
    /\ fxOrder = "pending_submit"
    /\ fxOrder' = "rejected"
    /\ UNCHANGED <<quote, lapsed, nonce, rowLock, accept, drop, deal, unanswered, overruled>>
-----------------------------------------------------------------------------
RfqInit ==
    /\ quote = "none" /\ lapsed = FALSE /\ nonce = "unset" /\ rowLock = Nobody
    /\ accept = [a \in Accepts |-> "idle"]
    /\ drop = [d \in Drops |-> "idle"]
    /\ deal = "none" /\ fxOrder = "none"
    /\ unanswered = FALSE /\ overruled = FALSE

RfqNext ==
    \/ RequestQuote \/ SetNonce \/ QuoteLapses \/ NonceLapses \/ SweepQuotes \/ OrphanFxOrder
    \/ \E a \in Accepts :
          \/ TakeNonce(a) \/ LockQuote(a) \/ GateBlocks(a) \/ GateClears(a) \/ GateDies(a)
          \/ BrokerDeals(a) \/ DealRaises(a) \/ AcceptRejects(a) \/ AcceptRecords(a)
    \/ \E d \in Drops : DropQuote(d) \/ DropReaches(d)

RfqSpec == RfqInit /\ [][RfqNext]_rfqVars
-----------------------------------------------------------------------------
RfqTypeOK ==
    /\ quote \in {"none", "pending", "accepting", "accepted", "rejected", "expired"}
    /\ lapsed \in BOOLEAN /\ nonce \in {"unset", "set", "gone"}
    /\ rowLock \in Accepts \cup {Nobody}
    /\ accept \in [Accepts -> {"idle", "nonce", "gating", "calling", "dealt", "raised",
                               "accepted", "refused"}]
    /\ drop \in [Drops -> {"idle", "calling", "done", "refused"}]
    /\ deal \in {"none", "open", "executed", "cancelled"}
    /\ fxOrder \in {"none", "pending_submit", "rejected"}
    /\ unanswered \in BOOLEAN /\ overruled \in BOOLEAN

\* What the row says of the trade, whichever acceptances, gates and
\* cancellations ran beside the sweep: a quote shown as expired was never
\* traded; and a trade ends as a rejected quote only if the broker's answer was
\* lost, or while a cancellation that met the quote accepting awaits being
\* overwritten.
StatusTellsTrade ==
    /\ quote = "expired" => deal # "executed" /\ fxOrder = "none"
    /\ quote = "rejected" /\ deal = "executed" => unanswered \/ overruled

\* Beside that, the types of the quote's row and of its calls.
RfqHolds == RfqTypeOK /\ StatusTellsTrade
=============================================================================
