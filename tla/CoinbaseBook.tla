------------------------------ MODULE CoinbaseBook ------------------------------
(***************************************************************************)
(* The order book of one product that the Coinbase adapter keeps: the bids *)
(* of a snapshot, the updates applied to them, the gap in the numbers that *)
(* throws the book away and asks for a new snapshot, and the connection    *)
(* that drops.  The asks are the same with the prices turned round.       *)
(*                                                                         *)
(* The exchange numbers its updates, sends them in order, and may lose     *)
(* some; a snapshot carries the number of the last update that it holds.   *)
(***************************************************************************)
EXTENDS Integers, Sequences, FiniteSets, FiniteSetsExt

CONSTANTS
    Prices,      \* a set of integers
    Quantities,  \* of a level that is there
    Depth,       \* MAX_BOOK_DEPTH
    MaxUpdates,  \* bound: updates of the exchange
    MaxMissing,   \* bound: updates that are lost
    MaxDrops    \* bound: connections that break

VARIABLES
    exchange,    \* history: the exchange's bids before and after each of its updates
    feed,        \* does the exchange send its updates to this connection?
    renewals,    \* subscriptions the exchange has not answered yet
    connection,  \* "down", "up", or "broken" with messages still to be read
    messages,    \* received and not dispatched
    book,        \* bids, 0 for a price without a level
    lastSeq,
    basis,       \* history: "none" while the book does not stand on a snapshot,
                 \* "top" if levels were evicted from it, else "whole"
    missing, drops

bookVars == <<exchange, feed, renewals, connection, messages, book, lastSeq, basis, missing, drops>>

Levels(b) == {p \in Prices : b[p] # 0}
NoLevels == [p \in Prices |-> 0]
Newest == exchange[Len(exchange)]
-----------------------------------------------------------------------------
(* The exchange (external).                                                *)

\* An update goes out in a message of its own or joins the one before.
ExchangeUpdates(p, q, lost, joins) ==
    /\ Len(exchange) <= MaxUpdates /\ Newest[p] # q
    /\ exchange' = Append(exchange, [Newest EXCEPT ![p] = q])
    /\ LET u == [price |-> p, qty |-> q, seq |-> Len(exchange) + 1]
           n == Len(messages) IN
       IF lost
         THEN feed /\ missing < MaxMissing /\ missing' = missing + 1 /\ ~joins /\ UNCHANGED messages
         ELSE /\ UNCHANGED missing
              /\ IF ~feed THEN ~joins /\ UNCHANGED messages
                 ELSE IF joins
                   THEN /\ n > 0 /\ messages[n].type = "update"
                        /\ messages' = [messages EXCEPT ![n].updates = Append(@, u)]
                   ELSE messages' = Append(messages, [type |-> "update", updates |-> <<u>>])
    /\ UNCHANGED <<feed, renewals, connection, book, lastSeq, basis, drops>>

ExchangeAnswers ==
    /\ connection = "up" /\ renewals > 0
    /\ renewals' = renewals - 1 /\ feed' = TRUE
    /\ messages' = Append(messages, [type |-> "snapshot", levels |-> Newest, seq |-> Len(exchange)])
    /\ UNCHANGED <<exchange, connection, book, lastSeq, basis, missing, drops>>

\* What was received before the connection broke is still there to be read.
ConnectionBreaks ==
    /\ connection = "up" /\ drops < MaxDrops
    /\ drops' = drops + 1
    /\ connection' = "broken" /\ feed' = FALSE /\ renewals' = 0
    /\ UNCHANGED <<exchange, messages, book, lastSeq, basis, missing>>
-----------------------------------------------------------------------------
\* run: connect and subscribe; the books are kept from one connection to the next.
OpenFeed ==
    /\ connection = "down"
    /\ connection' = "up" /\ renewals' = 1
    /\ UNCHANGED <<exchange, feed, messages, book, lastSeq, basis, missing, drops>>

\* The loop over the messages ends with the connection.
ConnectionLost ==
    /\ connection = "broken"
    /\ connection' = "down" /\ messages' = <<>>
    /\ UNCHANGED <<exchange, feed, renewals, book, lastSeq, basis, missing, drops>>

\* OrderBook.apply_delta: beyond Depth levels the worst goes.
Applied(b, u) ==
    LET set == [b EXCEPT ![u.price] = u.qty] IN
    IF Cardinality(Levels(set)) > Depth THEN [set EXCEPT ![Min(Levels(set))] = 0] ELSE set

\* The Depth best levels of L: what is left when they are applied one by one.
Best(L) == [p \in Prices |-> IF Cardinality({r \in Levels(L) : r > p}) < Depth THEN L[p] ELSE 0]

\* A snapshot makes a new book.  An empty one says no number.
DispatchSnapshot(m) ==
    /\ book' = Best(m.levels)
    /\ lastSeq' = IF Levels(m.levels) = {} THEN 0 ELSE m.seq
    /\ basis' = IF Levels(m.levels) = {} THEN "none" ELSE IF book' = m.levels THEN "whole" ELSE "top"
    /\ UNCHANGED renewals

\* Mutant: updates are applied whatever their number.
AnySeq(seq, u) == FALSE

\* Does update u leave something out after number seq?
Gap(seq, u) == seq # 0 /\ u.seq # seq + 1

\* _handle_l2: updates up to the first gap; the rest of the message is dropped
\* with the book, and the subscription renewed.
DispatchUpdate(m) ==
    LET ok(k) == \A j \in 1..k : ~Gap(IF j = 1 THEN lastSeq ELSE m.updates[j - 1].seq, m.updates[j])
        n == Max({k \in 0..Len(m.updates) : ok(k)})
        applied[k \in 0..n] == IF k = 0 THEN book ELSE Applied(applied[k - 1], m.updates[k])
    IN IF n < Len(m.updates)
         THEN /\ book' = NoLevels /\ lastSeq' = 0 /\ basis' = "none"
              /\ renewals' = IF connection = "up" THEN renewals + 1 ELSE renewals
         ELSE /\ book' = applied[n] /\ lastSeq' = m.updates[n].seq
              /\ basis' = IF basis = "whole"
                             /\ \E k \in 1..n : applied[k] # [applied[k - 1] EXCEPT ![m.updates[k].price] = m.updates[k].qty]
                          THEN "top" ELSE basis
              /\ UNCHANGED renewals

Dispatch ==
    /\ messages # <<>>
    /\ messages' = Tail(messages)
    /\ LET m == Head(messages) IN
         IF m.type = "snapshot" THEN DispatchSnapshot(m) ELSE DispatchUpdate(m)
    /\ UNCHANGED <<exchange, feed, connection, missing, drops>>
-----------------------------------------------------------------------------
BookInit ==
    /\ \E b \in [Prices -> Quantities \cup {0}] : exchange = <<b>>
    /\ feed = FALSE /\ renewals = 0 /\ connection = "down" /\ messages = <<>>
    /\ book = NoLevels /\ lastSeq = 0 /\ basis = "none" /\ missing = 0 /\ drops = 0

BookNext ==
    \/ \E p \in Prices, q \in Quantities \cup {0}, lost, joins \in BOOLEAN : ExchangeUpdates(p, q, lost, joins)
    \/ ExchangeAnswers \/ ConnectionBreaks \/ OpenFeed \/ ConnectionLost \/ Dispatch

BookSpec == BookInit /\ [][BookNext]_bookVars
-----------------------------------------------------------------------------
BookTypeOK ==
    /\ book \in [Prices -> Quantities \cup {0}] /\ lastSeq \in 0..Len(exchange)
    /\ connection \in {"down", "up", "broken"} /\ renewals \in Nat /\ feed \in BOOLEAN
    /\ basis \in {"none", "top", "whole"}

\* A book that stands on a snapshot is the exchange's, as of the last update it
\* took: whole, or in the levels it has if some were evicted, whatever updates
\* were lost and connections broken since.
BookIsTrue ==
    /\ basis = "whole" => book = exchange[lastSeq]
    /\ basis = "top" => \A p \in Levels(book) : book[p] = exchange[lastSeq][p]

\* A book that stands on nothing is on its way to a snapshot: one was asked for
\* or is among the messages, unless the exchange had no levels to tell of.
SnapshotComes ==
    connection = "up" /\ basis = "none" /\ lastSeq = 0
        => \/ renewals > 0
           \/ \E k \in DOMAIN messages : messages[k].type = "snapshot"
           \/ \E k \in DOMAIN exchange : exchange[k] = NoLevels

BookHolds == BookTypeOK /\ BookIsTrue /\ SnapshotComes
=================================================================================
