------------------------------ MODULE StreamCalls ------------------------------
(***************************************************************************)
(* What the quote streams of the Schwab and Futu sidecars have in common:  *)
(* StreamQuotes calls of the backend that come one after the other, the    *)
(* frames a call takes one at a time, and the table of symbols that all    *)
(* calls share.  The finally clause of a call that broke may run while the *)
(* next one is open.                                                       *)
(***************************************************************************)
EXTENDS Integers, Sequences, FiniteSets, SequencesExt

CONSTANTS
    Symbols,
    MaxOps,       \* bound: frames that calls take
    MaxEnds,    \* bound: calls that end, connections that break or fall silent
    MaxFailures   \* bound: attempts and commands that fail

ASSUME CallsAssumption == IsFiniteSet(Symbols) /\ {MaxOps, MaxEnds, MaxFailures} \subseteq Nat

VARIABLES
    current,      \* the current call: is it open, its call_subs, the commands its
                  \* operation has still to carry out, its call_subs after that
    old,          \* the call before, while its finally clause runs
    table,        \* _upstream_refcount
    ops, ends, failures

streamCalls == <<current, old, table, ops, ends, failures>>

ClosedCall == [open |-> FALSE, subs |-> {}, todo |-> <<>>, then |-> {}]

\* The symbols of the table.
Held == {s \in Symbols : table[s] > 0}

\* What the table becomes when S is subscribed, given up, or all there should be.
Counted(S) == [s \in Symbols |-> IF s \in S THEN table[s] + 1 ELSE table[s]]
Given(S) == [s \in Symbols |-> IF s \in S /\ table[s] > 0 THEN table[s] - 1 ELSE table[s]]
Resynced(S) == [s \in Symbols |-> IF s \notin S THEN 0 ELSE IF table[s] = 0 THEN 1 ELSE table[s]]

\* The symbols that leave the table when S is given up.
Leaving(S) == {s \in S : table[s] = 1}

\* One command for each symbol of S.
Commands(c, S) == [k \in 1..Cardinality(S) |-> [cmd |-> c, syms |-> {SetToSeq(S)[k]}]]
Named(cmds) == UNION {cmds[k].syms : k \in DOMAIN cmds}

\* The symbols of which command c says something else than the table.
Crosses(c) == {s \in c.syms : (c.cmd = "sub") # (s \in Held)}

\* Nothing is under way.
CallsRest == current.todo = <<>> /\ ~old.open

\* The current call can take a frame.
TakesFrame == current.open /\ current.todo = <<>> /\ ops < MaxOps /\ ops' = ops + 1

\* _consume_stream_quote_requests: call_subs changes when the operation is done.
Proceeds(c, todo, subs) ==
    IF todo = <<>> THEN [c EXCEPT !.todo = todo, !.subs = subs] ELSE [c EXCEPT !.todo = todo, !.then = subs]

\* An exception ends an operation and leaves call_subs as it was.
Aborted(c) == [c EXCEPT !.todo = <<>>]

\* The finally clause, with the commands it has still to carry out.
Closing(todo) == IF todo = <<>> THEN ClosedCall ELSE [old EXCEPT !.todo = todo]

CallOpens == ~current.open /\ current' = [ClosedCall EXCEPT !.open = TRUE] /\ UNCHANGED <<old, table, ops, ends, failures>>

\* The backend goes away: the consumer is cancelled in its operation.
CallBreaks ==
    /\ current.open /\ ~old.open /\ ends < MaxEnds
    /\ ends' = ends + 1
    /\ old' = [current EXCEPT !.todo = <<>>, !.then = {}]
    /\ current' = ClosedCall
    /\ UNCHANGED <<table, ops, failures>>

\* The streamer was started for the first call.
CallsInit ==
    /\ current = [ClosedCall EXCEPT !.open = TRUE] /\ old = ClosedCall
    /\ table = [s \in Symbols |-> 0] /\ ops = 0 /\ ends = 0 /\ failures = 0

CallsTypeOK ==
    /\ \A c \in {current, old} : c.subs \subseteq Symbols /\ c.then \subseteq Symbols /\ (c.todo # <<>> => c.open)
    /\ table \in [Symbols -> Nat]
    /\ ops <= MaxOps /\ ends <= MaxEnds /\ failures <= MaxFailures
===============================================================================
