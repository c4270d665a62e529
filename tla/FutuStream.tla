------------------------------ MODULE FutuStream ------------------------------
(***************************************************************************)
(* The quote stream of the Futu sidecar: its gateway is told of each       *)
(* symbol by a thread of its own.  The threads of two calls may overtake   *)
(* one another, and a thread goes on when the call that started it is      *)
(* cancelled.                                                              *)
(***************************************************************************)
EXTENDS StreamCalls

CONSTANT Odd \* symbols canonical_to_futu_code refuses: funds and indices that
             \* quote_source_priority sends here

ASSUME OddAssumption == Odd \subseteq Symbols

VARIABLES
    adrift,   \* commands in threads whose call was cancelled
    known,    \* _raw_to_canonical
    asked,    \* the gateway's subscriptions
    doubtful  \* history: symbols whose command was refused, dropped or overtaken

futuStreamVars == <<adrift, known, asked, doubtful>>
-----------------------------------------------------------------------------
\* The current call takes a frame that asks for cmds and leaves it with subs.
Starts(cmds, subs) ==
    /\ TakesFrame
    /\ current' = Proceeds(current, cmds, subs)
    /\ UNCHANGED <<old, adrift, asked, ends, failures>>

FutuSubscribe(S) ==
    /\ S \cap Odd = {}
    /\ table' = Counted(S) /\ known' = known \cup (S \ Held)
    /\ Starts(Commands("sub", S \ Held), current.subs \cup S)
    /\ UNCHANGED doubtful

\* An odd symbol ends the operation: those before it are in the table, and the
\* gateway is told of none.
FutuSubscribeRaises(S, before) ==
    /\ S \cap Odd # {} /\ before \subseteq S \ Odd
    /\ table' = Counted(before) /\ known' = known \cup (before \ Held)
    /\ doubtful' = doubtful \cup (before \ Held)
    /\ Starts(<<>>, current.subs)

FutuUnsubscribe(S) ==
    /\ table' = Given(S) /\ known' = known \ Leaving(S)
    /\ Starts(Commands("unsub", Leaving(S)), current.subs \ S)
    /\ UNCHANGED doubtful

FutuResync(S) ==
    /\ S \cap Odd = {}
    /\ table' = Resynced(S) /\ known' = (known \ (Held \ S)) \cup (S \ Held)
    /\ Starts(Commands("sub", S \ Held) \o Commands("unsub", Held \ S), S)
    /\ UNCHANGED doubtful

\* What a thread's command does at the gateway.
Runs(c) ==
    /\ asked' = IF c.cmd = "sub" THEN asked \cup c.syms ELSE asked \ c.syms
    /\ doubtful' = doubtful \cup Crosses(c)
    /\ UNCHANGED <<table, known, ops, ends, failures>>

\* Mutant: the entry stays when the gateway refuses the symbol.
EntryStays(S) == table

\* _subscribe_one: the entry goes, whoever else counted on it; its name stays.
EntryPopped(S) == [s \in Symbols |-> IF s \in S THEN 0 ELSE table[s]]

\* The gateway refuses a subscription, which ends the operation, so that rest is
\* not carried out; or an unsubscription, which goes unnoticed.
Refused(c, rest) ==
    /\ failures < MaxFailures /\ failures' = failures + 1
    /\ table' = IF c.cmd = "sub" THEN EntryPopped(c.syms) ELSE table
    /\ doubtful' = doubtful \cup (IF c.cmd = "unsub" THEN c.syms
                                  ELSE Named(rest) \cup {s \in c.syms : table[s] # 1 \/ s \in asked})
    /\ UNCHANGED <<asked, known, ops, ends>>

FutuRuns ==
    /\ current.todo # <<>>
    /\ Runs(Head(current.todo))
    /\ current' = Proceeds(current, Tail(current.todo), current.then)
    /\ UNCHANGED <<old, adrift>>

FutuRefused ==
    /\ current.todo # <<>>
    /\ Refused(Head(current.todo), Tail(current.todo))
    /\ current' = IF Head(current.todo).cmd = "sub" THEN Aborted(current)
               ELSE Proceeds(current, Tail(current.todo), current.then)
    /\ UNCHANGED <<old, adrift>>

FutuClosingRuns ==
    /\ old.todo # <<>>
    /\ Runs(Head(old.todo)) \/ Refused(Head(old.todo), <<>>)
    /\ old' = Closing(Tail(old.todo))
    /\ UNCHANGED <<current, adrift>>

\* A thread for which nobody waits.
AdriftRuns(c) == adrift' = adrift \ {c} /\ Runs(c) /\ UNCHANGED <<current, old>>

FutuCallOpens == CallOpens /\ UNCHANGED <<adrift, known, asked, doubtful>>

\* The consumer is cancelled, its thread is not.
FutuCallBreaks ==
    /\ CallBreaks
    /\ adrift' = adrift \cup {current.todo[k] : k \in DOMAIN current.todo \cap {1}}
    /\ doubtful' = doubtful \cup (IF current.todo = <<>> THEN {} ELSE Named(Tail(current.todo)))
    /\ UNCHANGED <<known, asked>>

\* The finally clause gives up what the call had asked for.
FutuCloses ==
    /\ old.open /\ old.todo = <<>>
    /\ table' = Given(old.subs) /\ known' = known \ Leaving(old.subs)
    /\ old' = Closing(Commands("unsub", Leaving(old.subs)))
    /\ UNCHANGED <<current, adrift, asked, ops, ends, failures, doubtful>>
-----------------------------------------------------------------------------
FutuStreamInit == CallsInit /\ adrift = {} /\ known = {} /\ asked = {} /\ doubtful = {}

FutuStreamNext ==
    \/ \E S \in SUBSET Symbols \ {{}} :
          \/ FutuSubscribe(S) \/ FutuUnsubscribe(S)
          \/ \E before \in SUBSET S : FutuSubscribeRaises(S, before)
    \/ \E S \in SUBSET Symbols : FutuResync(S)
    \/ FutuRuns \/ FutuRefused \/ FutuClosingRuns \/ (\E c \in adrift : AdriftRuns(c))
    \/ FutuCallOpens \/ FutuCallBreaks \/ FutuCloses
-----------------------------------------------------------------------------
FutuStreamTypeOK ==
    /\ CallsTypeOK /\ known \subseteq Symbols
    /\ \A s \in Odd : table[s] = 0 /\ s \notin asked

\* When no thread is under way, the gateway was asked for the symbols of the
\* table and for no others, but for the doubtful ones.
GatewayAsksWanted ==
    CallsRest /\ adrift = {} => \A s \in Symbols \ doubtful : s \in asked <=> s \in Held

\* A tick of a symbol in the table finds the name its subscriber knows it by,
\* whichever call entered it, dropped it or failed with it.
TicksHaveNames == Held \subseteq known

\* The quote stream of the Futu sidecar: beside the types, the two above.
FutuStreamHolds == FutuStreamTypeOK /\ GatewayAsksWanted /\ TicksHaveNames
===============================================================================
