-------------------------------- MODULE Backfill --------------------------------
(* BarService.get_bars for one range of one instrument: concurrent calls in    *)
(* several worker processes, the entry of each process in _IN_FLIGHT, the row  *)
(* of bar_backfill_jobs that a call inserts and the bars it stores.            *)
(* The row is inserted in the transaction that also marks it done, so no other *)
(* session ever sees it in progress: a second INSERT waits for the end of that *)
(* transaction and then succeeds, and _wait_for_job is never reached.          *)
EXTENDS Naturals, FiniteSets

CONSTANTS
    Calls, Processes,
    NoCall,
    Providers,        \* numbered by priority: the least wins
    Live,           \* the priority of the aggregators' bars
    Buckets,        \* the minutes of the range
    MaxUpsets       \* bound: failures, crashes and changes of health

ASSUME BackfillAssumption ==
    /\ NoCall \notin Calls
    /\ Providers \subseteq Nat \ {0} /\ Live \in Nat /\ \A s \in Providers : s < Live
    /\ MaxUpsets \in Nat

VARIABLES
    call,       \* the calls of get_bars
    inFlight,   \* _IN_FLIGHT: the call that made the event of the range
    signalled,  \* the calls whose event is set
    holder,     \* the call whose open transaction has inserted the job's row
    kept,       \* bars_1m: the source_priority of each bar, 0 for none
    serving,    \* the healthy sources
    leaked,     \* history: entries whose call ended without popping them
    upsets

backfillVars == <<call, inFlight, signalled, holder, kept, serving, leaked, upsets>>

NotCalled == [at |-> "idle", home |-> NoCall, source |-> 0,
              owner |-> NoCall, got |-> {}]
Present == {b \in Buckets : kept[b] # 0}
Upset == upsets < MaxUpsets /\ upsets' = upsets + 1

BackfillTypeOK ==
    /\ call \in [Calls -> [at : {"idle", "gap", "wait", "insert", "fetch", "got", "stored",
                                 "open", "woken", "done"},
                           home : Processes \cup {NoCall}, source : Providers \cup {0},
                           owner : Calls \cup {NoCall}, got : SUBSET Buckets]]
    /\ inFlight \in [Processes -> Calls \cup {NoCall}]
    /\ {signalled, leaked} \subseteq SUBSET Calls
    /\ holder \in [Providers -> Calls \cup {NoCall}]
    /\ kept \in [Buckets -> Providers \cup {0, Live}]
    /\ serving \subseteq Providers
    /\ upsets \in 0..MaxUpsets

BackfillInit ==
    /\ call = [c \in Calls |-> NotCalled]
    /\ inFlight = [w \in Processes |-> NoCall]
    /\ signalled = {} /\ leaked = {}
    /\ holder = [s \in Providers |-> NoCall]
    /\ kept = [b \in Buckets |-> 0]
    /\ serving = Providers
    /\ upsets = 0

CallGoes(c, s) == call' = [call EXCEPT ![c].at = s]
WithoutEntry(c) == [inFlight EXCEPT ![call[c].home] = NoCall]
Unheld(c) == [s \in Providers |-> IF holder[s] = c THEN NoCall ELSE holder[s]]

\* The gap is looked for and a healthy source chosen before the lock is taken;
\* one bar in the range is enough for no gap.
CallBegins(c, w) ==
    /\ call[c].at = "idle"
    /\ IF Present = {} /\ serving # {}
       THEN \E s \in serving :
              /\ \A t \in serving : s <= t
              /\ call' = [call EXCEPT ![c] = [NotCalled EXCEPT !.at = "gap", !.home = w, !.source = s]]
       ELSE CallGoes(c, "done")
    /\ UNCHANGED <<inFlight, signalled, holder, kept, serving, leaked, upsets>>

\* Under the lock of _IN_FLIGHT.
TakesEntry(c) ==
    /\ call[c].at = "gap"
    /\ LET w == call[c].home IN
       IF inFlight[w] = NoCall
       THEN inFlight' = [inFlight EXCEPT ![w] = c] /\ CallGoes(c, "insert")
       ELSE /\ call' = [call EXCEPT ![c].at = "wait", ![c].owner = inFlight[w]]
            /\ UNCHANGED inFlight
    /\ UNCHANGED <<signalled, holder, kept, serving, leaked, upsets>>

WaitEnds(c) ==
    /\ call[c].at = "wait"
    /\ \/ call[c].owner \in signalled /\ CallGoes(c, "woken")
       \/ call[c].owner \notin signalled /\ CallGoes(c, "done")     \* after 16 s
    /\ UNCHANGED <<inFlight, signalled, holder, kept, serving, leaked, upsets>>

InsertsJob(c) ==
    /\ call[c].at = "insert" /\ holder[call[c].source] = NoCall
    /\ holder' = [holder EXCEPT ![call[c].source] = c]
    /\ CallGoes(c, "fetch")
    /\ UNCHANGED <<inFlight, signalled, kept, serving, leaked, upsets>>

\* The INSERT raises or the call is cancelled; no finally covers it.
InsertFails(c) ==
    /\ call[c].at = "insert" /\ Upset
    /\ leaked' = leaked \cup {c}
    /\ CallGoes(c, "done")
    /\ UNCHANGED <<inFlight, signalled, holder, kept, serving>>

\* Mutant: the event is set once the bars are here.
FetchesAndWakes(c) ==
    /\ call[c].at = "fetch"
    /\ \E bars \in SUBSET Buckets : call' = [call EXCEPT ![c].at = "got", ![c].got = bars]
    /\ signalled' = signalled \cup {c}
    /\ UNCHANGED <<inFlight, holder, kept, serving, leaked, upsets>>
\* _fetch_with_chunks; a source may have nothing.
Fetches(c) ==
    /\ call[c].at = "fetch"
    /\ \E bars \in SUBSET Buckets : call' = [call EXCEPT ![c].at = "got", ![c].got = bars]
    /\ UNCHANGED <<inFlight, signalled, holder, kept, serving, leaked, upsets>>

\* Mutant: the UPSERT without its WHERE.
LastWins(b, s) == TRUE
\* The WHERE of the UPSERT.
Wins(b, s) == kept[b] = 0 \/ s < kept[b]

\* The bars and 'done', and the commit that lets go of the row.
StoresBars(c) ==
    /\ call[c].at = "got"
    /\ kept' = [b \in Buckets |->
                    IF b \in call[c].got /\ Wins(b, call[c].source) THEN call[c].source ELSE kept[b]]
    /\ holder' = Unheld(c)
    /\ CallGoes(c, "stored")
    /\ UNCHANGED <<inFlight, signalled, serving, leaked, upsets>>

\* The finally: the event is set, the entry popped.
Finishes(c) ==
    /\ call[c].at = "stored"
    /\ signalled' = signalled \cup {c} /\ inFlight' = WithoutEntry(c)
    /\ CallGoes(c, "done")
    /\ UNCHANGED <<holder, kept, serving, leaked, upsets>>

\* The source, its chunks or the database: the finally runs, while the session's
\* transaction stays open until its owner closes it or, in the pre-warm, until
\* another range is committed with it.
FetchFails(c) ==
    /\ call[c].at \in {"fetch", "got"} /\ Upset
    /\ signalled' = signalled \cup {c} /\ inFlight' = WithoutEntry(c)
    /\ call' = [call EXCEPT ![c].at = "open", ![c].got = {}]
    /\ UNCHANGED <<holder, kept, serving, leaked>>

TransactionEnds(c) ==
    /\ call[c].at = "open"
    /\ holder' = Unheld(c)
    /\ CallGoes(c, "done")
    /\ UNCHANGED <<inFlight, signalled, kept, serving, leaked, upsets>>

\* PostgreSQL rolls back what the process left.
WorkerStops(w) ==
    /\ Upset
    /\ LET gone == {c \in Calls : call[c].home = w /\ call[c].at # "idle"} IN
       /\ call' = [c \in Calls |->
                     IF c \in gone THEN [call[c] EXCEPT !.at = "done", !.owner = NoCall] ELSE call[c]]
       /\ holder' = [s \in Providers |-> IF holder[s] \in gone THEN NoCall ELSE holder[s]]
    /\ inFlight' = [inFlight EXCEPT ![w] = NoCall]
    /\ UNCHANGED <<signalled, kept, serving, leaked>>

SourceFlips(s) ==
    /\ Upset
    /\ serving' = IF s \in serving THEN serving \ {s} ELSE serving \cup {s}
    /\ UNCHANGED <<call, inFlight, signalled, holder, kept, leaked>>

\* An aggregator's INSERT ... ON CONFLICT DO NOTHING.
LiveBar(b) ==
    /\ kept[b] = 0
    /\ kept' = [kept EXCEPT ![b] = Live]
    /\ UNCHANGED <<call, inFlight, signalled, holder, serving, leaked, upsets>>

BackfillNext ==
    \/ \E c \in Calls :
          \/ \E w \in Processes : CallBegins(c, w)
          \/ TakesEntry(c) \/ WaitEnds(c) \/ InsertsJob(c) \/ InsertFails(c) \/ Fetches(c)
          \/ StoresBars(c) \/ Finishes(c) \/ FetchFails(c) \/ TransactionEnds(c)
    \/ \E w \in Processes : WorkerStops(w)
    \/ \E s \in Providers : SourceFlips(s)
    \/ \E b \in Buckets : LiveBar(b)

BackfillSpec == BackfillInit /\ [][BackfillNext]_backfillVars

--------------------------------------------------------------------------------
Fetching == {c \in Calls : call[c].at \in {"fetch", "got"}}

\* A source is asked for a range by one call at a time, over all processes, and
\* a process asks one source at a time.
OneFetchAtATime ==
    \A c, d \in Fetching : c # d => call[c].source # call[d].source /\ call[c].home # call[d].home

\* Who is woken finds the bars that were fetched for it.
WokenSeesBars == \A c \in Calls : call[c].at = "woken" => call[call[c].owner].got \subseteq Present

\* An entry belongs to a call that will pop it, unless one leaked.
EntryHasOwner ==
    \A w \in Processes : inFlight[w] # NoCall /\ inFlight[w] \notin leaked
        => call[inFlight[w]].at \in {"insert", "fetch", "got", "stored"}

\* A range is fetched once at a time, its waiters find what was fetched, and a
\* failed fetch does not block the range (bar_service.py: get_bars, _primary_fetch).
BackfillHolds == BackfillTypeOK /\ OneFetchAtATime /\ WokenSeesBars /\ EntryHasOwner

\* A bar is never replaced by one of a source of no better priority, in whatever
\* order fetches of two sources and the live bar come (bar_service.py: _upsert_bars).
BetterBarStays == [][\A b \in Buckets : (kept[b] # 0 /\ kept'[b] # kept[b]) =>
                        (kept'[b] # 0 /\ kept'[b] < kept[b])]_backfillVars
================================================================================
