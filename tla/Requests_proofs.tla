--------------------------- MODULE Requests_proofs ----------------------------
(***************************************************************************)
(* Theorems about requests that go through several steps: modifications,   *)
(* brackets, the backfill of bars, AI requests, historical requests and    *)
(* chart layouts, for every number of calls, processes, nonces, permits and*)
(* faults.                                                                 *)
(***************************************************************************)
EXTENDS OrderModify, Brackets, Backfill, AiGateway, HistoricalPacing, ChartLayouts,
        FiniteSetTheorems, SequenceTheorems, NaturalsInduction, WellFoundedInduction, TLAPS

-----------------------------------------------------------------------------
(* The backfill.  A call that fetches has its row of bar_backfill_jobs in  *)
(* an open transaction and its entry in _IN_FLIGHT; an event is set when   *)
(* what was fetched is committed.                                          *)

Busy == {"insert", "fetch", "got", "stored"}

Placing == \A c \in Calls : call[c].at \in {"gap", "wait"} \cup Busy =>
              call[c].home \in Processes /\ call[c].source \in Providers
RowHeld == \A c \in Calls : call[c].at \in {"fetch", "got"} => holder[call[c].source] = c
EntryHeld == \A c \in Calls : call[c].at \in Busy => inFlight[call[c].home] = c
EntryKnown == \A w \in Processes : inFlight[w] # NoCall /\ inFlight[w] \notin leaked =>
                 call[inFlight[w]].at \in Busy /\ call[inFlight[w]].home = w
SetMeansStored ==
    \A c \in Calls :
        /\ c \in signalled => call[c].at \in {"open", "done"}
        /\ c \in signalled \/ call[c].at = "stored" => call[c].got \subseteq Present
WaitsForCall == \A c \in Calls : /\ call[c].at = "wait" => call[c].owner \in Calls
                                 /\ call[c].at = "woken" => call[c].owner \in signalled

BackfillInv ==
    /\ BackfillTypeOK
    /\ Placing /\ RowHeld /\ EntryHeld /\ EntryKnown /\ SetMeansStored /\ WaitsForCall

LEMMA BackfillInitially == BackfillInit => BackfillInv
<1> SUFFICES ASSUME BackfillInit PROVE BackfillInv
  OBVIOUS
<1> USE DEF BackfillInit, NotCalled
<1>1. BackfillTypeOK
  BY BackfillAssumption DEF BackfillTypeOK
<1> QED
  BY <1>1 DEF BackfillInv, Placing, RowHeld, EntryHeld, EntryKnown, SetMeansStored, WaitsForCall,
              Present, Busy

\* What holds of one state and is left alone by a step that moves one call only.
CallType == [at : {"idle", "gap", "wait", "insert", "fetch", "got", "stored",
                   "open", "woken", "done"},
             home : Processes \cup {NoCall}, source : Providers \cup {0},
             owner : Calls \cup {NoCall}, got : SUBSET Buckets]

LEMMA BackfillHeld == BackfillInv => BackfillHolds
<1> SUFFICES ASSUME BackfillInv PROVE BackfillHolds
  OBVIOUS
<1> USE DEF BackfillInv
<1>1. OneFetchAtATime
  BY DEF OneFetchAtATime, Fetching, RowHeld, EntryHeld, Busy
<1>2. WokenSeesBars
  BY DEF WokenSeesBars, WaitsForCall, SetMeansStored, BackfillTypeOK
<1>3. EntryHasOwner
  BY DEF EntryHasOwner, EntryKnown, Busy
<1> QED
  BY <1>1, <1>2, <1>3 DEF BackfillHolds

LEMMA BackfillStep == BackfillInv /\ [BackfillNext]_backfillVars => BackfillInv'
<1> SUFFICES ASSUME BackfillInv, [BackfillNext]_backfillVars PROVE BackfillInv'
  OBVIOUS
<1> USE BackfillAssumption
<1>t. /\ call \in [Calls -> CallType] /\ inFlight \in [Processes -> Calls \cup {NoCall}]
      /\ signalled \subseteq Calls /\ leaked \subseteq Calls
      /\ holder \in [Providers -> Calls \cup {NoCall}]
      /\ kept \in [Buckets -> Providers \cup {0, Live}] /\ serving \subseteq Providers
      /\ upsets \in 0..MaxUpsets
  BY DEF BackfillInv, BackfillTypeOK, CallType
<1>i. Placing /\ RowHeld /\ EntryHeld /\ EntryKnown /\ SetMeansStored /\ WaitsForCall
  BY DEF BackfillInv
<1> DEFINE Types == /\ call' \in [Calls -> CallType]
                    /\ inFlight' \in [Processes -> Calls \cup {NoCall}]
                    /\ signalled' \subseteq Calls /\ leaked' \subseteq Calls
                    /\ holder' \in [Providers -> Calls \cup {NoCall}]
                    /\ kept' \in [Buckets -> Providers \cup {0, Live}] /\ serving' \subseteq Providers
                    /\ upsets' \in 0..MaxUpsets
<1>q. SUFFICES Types /\ Placing' /\ RowHeld' /\ EntryHeld' /\ EntryKnown' /\ SetMeansStored' /\ WaitsForCall'
  BY DEF BackfillInv, BackfillTypeOK, CallType
<1>u. Upset => upsets' \in 0..MaxUpsets
  BY <1>t DEF Upset
<1> USE DEF Placing, RowHeld, EntryHeld, EntryKnown, SetMeansStored, WaitsForCall, Present, Busy
<1>1. ASSUME NEW c \in Calls, NEW w \in Processes, CallBegins(c, w)
      PROVE  Types /\ Placing' /\ RowHeld' /\ EntryHeld' /\ EntryKnown' /\ SetMeansStored' /\ WaitsForCall'
  <2>1. CASE Present = {} /\ serving # {}
    <3>1. PICK s \in serving : call' = [call EXCEPT ![c] = [NotCalled EXCEPT !.at = "gap", !.home = w, !.source = s]]
      BY <1>1, <2>1 DEF CallBegins
    <3> DEFINE new == [NotCalled EXCEPT !.at = "gap", !.home = w, !.source = s]
    <3>2. new \in CallType /\ new.at = "gap" /\ new.home = w /\ new.source = s
      BY <1>t DEF NotCalled, CallType
    <3>3. call' = [call EXCEPT ![c] = new]
      BY <3>1
    <3>4. call[c].at = "idle" /\ UNCHANGED <<inFlight, signalled, holder, kept, serving, leaked, upsets>>
      BY <1>1 DEF CallBegins
    <3> HIDE DEF new
    <3> QED
      BY <1>t, <1>i, <3>2, <3>3, <3>4 DEF CallType
  <2>2. CASE ~(Present = {} /\ serving # {})
    <3>1. /\ call' = [call EXCEPT ![c].at = "done"] /\ call[c].at = "idle"
          /\ UNCHANGED <<inFlight, signalled, holder, kept, serving, leaked, upsets>>
      BY <1>1, <2>2 DEF CallBegins, CallGoes
    <3> QED
      BY <1>t, <1>i, <3>1 DEF CallType
  <2> QED
    BY <2>1, <2>2
<1>2. ASSUME NEW c \in Calls, TakesEntry(c)
      PROVE  Types /\ Placing' /\ RowHeld' /\ EntryHeld' /\ EntryKnown' /\ SetMeansStored' /\ WaitsForCall'
  <2>0. call[c].at = "gap" /\ call[c].home \in Processes
    BY <1>2, <1>i DEF TakesEntry
  <2>1. CASE inFlight[call[c].home] = NoCall
    <3>1. /\ inFlight' = [inFlight EXCEPT ![call[c].home] = c] /\ call' = [call EXCEPT ![c].at = "insert"]
          /\ UNCHANGED <<signalled, holder, kept, serving, leaked, upsets>>
      BY <1>2, <2>1 DEF TakesEntry, CallGoes
    <3>2. Types
      BY <1>t, <2>0, <3>1 DEF CallType
    <3>3. EntryHeld' /\ EntryKnown'
      BY <1>t, <1>i, <2>0, <2>1, <3>1 DEF CallType
    <3> QED
      BY <1>t, <1>i, <2>0, <3>1, <3>2, <3>3 DEF CallType
  <2>2. CASE inFlight[call[c].home] # NoCall
    <3> DEFINE new == [call[c] EXCEPT !.at = "wait", !.owner = inFlight[call[c].home]]
    <3>1. /\ call' = [call EXCEPT ![c] = new]
          /\ UNCHANGED <<inFlight, signalled, holder, kept, serving, leaked, upsets>>
      BY <1>2, <2>2, <1>t DEF TakesEntry
    <3>2. call[c] \in CallType /\ inFlight[call[c].home] \in Calls
      BY <1>t, <2>0, <2>2
    <3>3. /\ new.at = "wait" /\ new.owner \in Calls
          /\ new.home = call[c].home /\ new.source = call[c].source /\ new.got = call[c].got
      BY <3>2 DEF CallType
    <3>4. new \in CallType
      BY <3>2 DEF CallType
    <3> HIDE DEF new
    <3> QED
      BY <1>t, <1>i, <2>0, <3>1, <3>3, <3>4 DEF CallType
  <2> QED
    BY <2>1, <2>2
<1>3. ASSUME NEW c \in Calls, WaitEnds(c)
      PROVE  Types /\ Placing' /\ RowHeld' /\ EntryHeld' /\ EntryKnown' /\ SetMeansStored' /\ WaitsForCall'
  <2>0. call[c].at = "wait" /\ UNCHANGED <<inFlight, signalled, holder, kept, serving, leaked, upsets>>
    BY <1>3 DEF WaitEnds
  <2>1. CASE call[c].owner \in signalled /\ call' = [call EXCEPT ![c].at = "woken"]
    BY <1>t, <1>i, <2>0, <2>1 DEF CallType
  <2>2. CASE call' = [call EXCEPT ![c].at = "done"]
    BY <1>t, <1>i, <2>0, <2>2 DEF CallType
  <2> QED
    BY <1>3, <2>1, <2>2 DEF WaitEnds, CallGoes
<1>4. ASSUME NEW c \in Calls, InsertsJob(c)
      PROVE  Types /\ Placing' /\ RowHeld' /\ EntryHeld' /\ EntryKnown' /\ SetMeansStored' /\ WaitsForCall'
  <2>1. /\ call[c].at = "insert" /\ holder[call[c].source] = NoCall /\ call[c].source \in Providers
        /\ holder' = [holder EXCEPT ![call[c].source] = c]
        /\ call' = [call EXCEPT ![c].at = "fetch"]
        /\ UNCHANGED <<inFlight, signalled, kept, serving, leaked, upsets>>
    BY <1>4, <1>i DEF InsertsJob, CallGoes
  <2>2. Types
    BY <1>t, <2>1 DEF CallType
  <2>3. RowHeld'
    BY <1>t, <1>i, <2>1 DEF CallType
  <2> QED
    BY <1>t, <1>i, <2>1, <2>2, <2>3 DEF CallType
<1>5. ASSUME NEW c \in Calls, InsertFails(c)
      PROVE  Types /\ Placing' /\ RowHeld' /\ EntryHeld' /\ EntryKnown' /\ SetMeansStored' /\ WaitsForCall'
  <2>1. /\ call[c].at = "insert" /\ leaked' = leaked \cup {c} /\ call' = [call EXCEPT ![c].at = "done"]
        /\ UNCHANGED <<inFlight, signalled, holder, kept, serving>>
    BY <1>5 DEF InsertFails, CallGoes
  <2>2. upsets' \in 0..MaxUpsets
    BY <1>5, <1>u DEF InsertFails
  <2> QED
    BY <1>t, <1>i, <2>1, <2>2 DEF CallType
<1>6. ASSUME NEW c \in Calls, Fetches(c)
      PROVE  Types /\ Placing' /\ RowHeld' /\ EntryHeld' /\ EntryKnown' /\ SetMeansStored' /\ WaitsForCall'
  <2>1. PICK bars \in SUBSET Buckets : call' = [call EXCEPT ![c].at = "got", ![c].got = bars]
    BY <1>6 DEF Fetches
  <2> DEFINE new == [call[c] EXCEPT !.at = "got", !.got = bars]
  <2>2. /\ call' = [call EXCEPT ![c] = new] /\ call[c].at = "fetch"
        /\ UNCHANGED <<inFlight, signalled, holder, kept, serving, leaked, upsets>>
    BY <1>6, <2>1, <1>t DEF Fetches, CallType
  <2>c. call[c] \in CallType
    BY <1>t
  <2>3. /\ new.at = "got" /\ new.home = call[c].home
        /\ new.source = call[c].source /\ new.owner = call[c].owner
    BY <2>c DEF CallType
  <2>4. new \in CallType
    BY <2>c DEF CallType
  <2> HIDE DEF new
  <2> QED
    BY <1>t, <1>i, <2>2, <2>3, <2>4 DEF CallType
<1>7. ASSUME NEW c \in Calls, StoresBars(c)
      PROVE  Types /\ Placing' /\ RowHeld' /\ EntryHeld' /\ EntryKnown' /\ SetMeansStored' /\ WaitsForCall'
  <2>0. /\ call[c].at = "got" /\ call[c].source \in Providers
        /\ call' = [call EXCEPT ![c].at = "stored"]
        /\ UNCHANGED <<inFlight, signalled, serving, leaked, upsets>>
    BY <1>7, <1>i DEF StoresBars, CallGoes
  <2>1. /\ kept' \in [Buckets -> Providers \cup {0, Live}] /\ Present \subseteq Present'
        /\ call[c].got \subseteq Present'
    <3> DEFINE of(b) == IF b \in call[c].got /\ Wins(b, call[c].source) THEN call[c].source ELSE kept[b]
    <3>1. \A b \in Buckets : /\ of(b) \in Providers \cup {0, Live} /\ (kept[b] # 0 => of(b) # 0)
                             /\ (b \in call[c].got => of(b) # 0)
      BY <1>t, <2>0 DEF Wins
    <3>2. kept' = [b \in Buckets |-> of(b)]
      BY <1>7 DEF StoresBars
    <3>3. call[c].got \subseteq Buckets
      BY <1>t DEF CallType
    <3> HIDE DEF of
    <3> QED
      BY <3>1, <3>2, <3>3
  <2>2. /\ holder' \in [Providers -> Calls \cup {NoCall}]
        /\ \A s \in Providers : holder[s] \in Calls \ {c} => holder'[s] = holder[s]
    BY <1>7, <1>t DEF StoresBars, Unheld
  <2>3. RowHeld'
    BY <1>t, <1>i, <2>0, <2>2 DEF CallType
  <2>4. SetMeansStored'
    BY <1>t, <1>i, <2>0, <2>1 DEF CallType
  <2>5. Types
    BY <1>t, <2>0, <2>1, <2>2 DEF CallType
  <2> QED
    BY <1>t, <1>i, <2>0, <2>3, <2>4, <2>5 DEF CallType
<1>e. ASSUME NEW c \in Calls, call[c].at \in Busy
      PROVE  /\ WithoutEntry(c) \in [Processes -> Calls \cup {NoCall}]
             /\ WithoutEntry(c)[call[c].home] = NoCall
             /\ \A w \in Processes : w # call[c].home => WithoutEntry(c)[w] = inFlight[w]
  BY <1>t, <1>i, <1>e DEF WithoutEntry
<1>8. ASSUME NEW c \in Calls, Finishes(c)
      PROVE  Types /\ Placing' /\ RowHeld' /\ EntryHeld' /\ EntryKnown' /\ SetMeansStored' /\ WaitsForCall'
  <2>1. /\ call[c].at = "stored" /\ signalled' = signalled \cup {c} /\ inFlight' = WithoutEntry(c)
        /\ call' = [call EXCEPT ![c].at = "done"]
        /\ UNCHANGED <<holder, kept, serving, leaked, upsets>>
    BY <1>8 DEF Finishes, CallGoes
  <2>2. EntryHeld' /\ EntryKnown'
    BY <1>t, <1>i, <1>e, <2>1 DEF CallType
  <2>3. Types
    BY <1>t, <1>e, <2>1 DEF CallType
  <2> QED
    BY <1>t, <1>i, <2>1, <2>2, <2>3 DEF CallType
<1>9. ASSUME NEW c \in Calls, FetchFails(c)
      PROVE  Types /\ Placing' /\ RowHeld' /\ EntryHeld' /\ EntryKnown' /\ SetMeansStored' /\ WaitsForCall'
  <2> DEFINE new == [call[c] EXCEPT !.at = "open", !.got = {}]
  <2>1. /\ call[c].at \in {"fetch", "got"} /\ signalled' = signalled \cup {c}
        /\ inFlight' = WithoutEntry(c) /\ call' = [call EXCEPT ![c] = new]
        /\ UNCHANGED <<holder, kept, serving, leaked>> /\ upsets' \in 0..MaxUpsets
    BY <1>9, <1>t, <1>u DEF FetchFails, CallType
  <2>c. call[c] \in CallType
    BY <1>t
  <2>2. /\ new.at = "open" /\ new.home = call[c].home /\ new.got = {}
        /\ new.source = call[c].source /\ new.owner = call[c].owner
    BY <2>c DEF CallType
  <2>n. new \in CallType
    BY <2>c DEF CallType
  <2> HIDE DEF new
  <2>3. EntryHeld' /\ EntryKnown'
    BY <1>t, <1>i, <1>e, <2>1, <2>2, <2>n DEF CallType
  <2>4. Types
    BY <1>t, <1>e, <2>1, <2>2, <2>n DEF CallType
  <2> QED
    BY <1>t, <1>i, <2>1, <2>2, <2>n, <2>3, <2>4 DEF CallType
<1>10. ASSUME NEW c \in Calls, TransactionEnds(c)
       PROVE  Types /\ Placing' /\ RowHeld' /\ EntryHeld' /\ EntryKnown' /\ SetMeansStored' /\ WaitsForCall'
  <2>1. /\ call[c].at = "open" /\ call' = [call EXCEPT ![c].at = "done"]
        /\ UNCHANGED <<inFlight, signalled, kept, serving, leaked, upsets>>
    BY <1>10 DEF TransactionEnds, CallGoes
  <2>2. /\ holder' \in [Providers -> Calls \cup {NoCall}]
        /\ \A s \in Providers : holder[s] \in Calls \ {c} => holder'[s] = holder[s]
    BY <1>10, <1>t DEF TransactionEnds, Unheld
  <2>3. RowHeld'
    BY <1>t, <1>i, <2>1, <2>2 DEF CallType
  <2>4. Types
    BY <1>t, <2>1, <2>2 DEF CallType
  <2> QED
    BY <1>t, <1>i, <2>1, <2>3, <2>4 DEF CallType
<1>11. ASSUME NEW w \in Processes, WorkerStops(w)
       PROVE  Types /\ Placing' /\ RowHeld' /\ EntryHeld' /\ EntryKnown' /\ SetMeansStored' /\ WaitsForCall'
  <2> DEFINE gone == {c \in Calls : call[c].home = w /\ call[c].at # "idle"}
             of(c) == IF c \in gone THEN [call[c] EXCEPT !.at = "done", !.owner = NoCall] ELSE call[c]
  <2>1. /\ call' = [c \in Calls |-> of(c)]
        /\ holder' = [s \in Providers |-> IF holder[s] \in gone THEN NoCall ELSE holder[s]]
        /\ inFlight' = [inFlight EXCEPT ![w] = NoCall]
        /\ UNCHANGED <<signalled, kept, serving, leaked>> /\ upsets' \in 0..MaxUpsets
    BY <1>11, <1>u DEF WorkerStops
  <2>2. ASSUME NEW c \in Calls
        PROVE  /\ of(c) \in CallType /\ of(c).got = call[c].got /\ of(c).home = call[c].home
               /\ of(c).source = call[c].source
               /\ (c \in gone => of(c).at = "done") /\ (c \notin gone => of(c) = call[c])
    <3> DEFINE new == [call[c] EXCEPT !.at = "done", !.owner = NoCall]
    <3>1. call[c] \in CallType
      BY <1>t
    <3>2. /\ new.at = "done" /\ new.home = call[c].home /\ new.got = call[c].got
          /\ new.source = call[c].source
      BY <3>1 DEF CallType
    <3>3. new \in CallType
      BY <3>1 DEF CallType
    <3>4. (c \in gone => of(c) = new) /\ (c \notin gone => of(c) = call[c])
      OBVIOUS
    <3> HIDE DEF new, of, gone
    <3> QED
      BY <3>1, <3>2, <3>3, <3>4
  <2>3. \A c \in Calls : c \in gone <=> call[c].home = w /\ call[c].at # "idle"
    OBVIOUS
  <2>4. /\ holder' \in [Providers -> Calls \cup {NoCall}]
        /\ \A s \in Providers : holder[s] \notin gone => holder'[s] = holder[s]
    BY <1>t, <2>1
  <2>5. call' \in [Calls -> CallType] /\ \A c \in Calls : call'[c] = of(c)
    BY <2>1, <2>2
  <2> HIDE DEF gone, of
  <2>6. EntryHeld' /\ EntryKnown'
    BY <1>t, <1>i, <2>1, <2>2, <2>3, <2>5
  <2>7. \A c \in Calls : call'[c].at \notin {"done"} => c \notin gone /\ call'[c] = call[c]
    BY <2>2, <2>5
  <2>p. Placing'
    BY <1>i, <2>7
  <2>r. RowHeld'
    <3> SUFFICES ASSUME NEW c \in Calls, call'[c].at \in {"fetch", "got"}
                 PROVE  holder'[call'[c].source] = c
      OBVIOUS
    <3>1. c \notin gone /\ call'[c] = call[c]
      BY <2>7
    <3>2. holder[call[c].source] = c /\ call[c].source \in Providers
      BY <1>i, <3>1
    <3> QED
      BY <2>4, <3>1, <3>2
  <2>8. SetMeansStored' /\ WaitsForCall'
    BY <1>t, <1>i, <2>1, <2>2, <2>3, <2>5
  <2>9. Types
    BY <1>t, <2>1, <2>4, <2>5
  <2> QED
    BY <2>6, <2>p, <2>r, <2>8, <2>9
<1>12. ASSUME NEW s \in Providers, SourceFlips(s)
       PROVE  Types /\ Placing' /\ RowHeld' /\ EntryHeld' /\ EntryKnown' /\ SetMeansStored' /\ WaitsForCall'
  <2>1. /\ serving' \subseteq Providers /\ upsets' \in 0..MaxUpsets
        /\ UNCHANGED <<call, inFlight, signalled, holder, kept, leaked>>
    BY <1>12, <1>t, <1>u DEF SourceFlips
  <2> QED
    BY <1>t, <1>i, <2>1
<1>13. ASSUME NEW b \in Buckets, LiveBar(b)
       PROVE  Types /\ Placing' /\ RowHeld' /\ EntryHeld' /\ EntryKnown' /\ SetMeansStored' /\ WaitsForCall'
  <2>1. /\ kept' \in [Buckets -> Providers \cup {0, Live}] /\ Present \subseteq Present'
        /\ UNCHANGED <<call, inFlight, signalled, holder, serving, leaked, upsets>>
    BY <1>13, <1>t DEF LiveBar
  <2> QED
    BY <1>t, <1>i, <2>1
<1>14. CASE UNCHANGED backfillVars
  BY <1>t, <1>i, <1>14 DEF backfillVars
<1> QED
  BY <1>1, <1>2, <1>3, <1>4, <1>5, <1>6, <1>7, <1>8, <1>9, <1>10, <1>11, <1>12, <1>13, <1>14
     DEF BackfillNext

\* Calls in any number of processes ask a source for a range one at a time,
\* whoever waited finds what was fetched, and no entry of _IN_FLIGHT is left
\* without a call that will pop it, unless the INSERT raised (bar_service.py:
\* get_bars, _primary_fetch).
THEOREM RangesFetchedOnce == BackfillSpec => []BackfillHolds
<1>1. BackfillSpec => []BackfillInv
  BY BackfillInitially, BackfillStep, PTL DEF BackfillSpec
<1> QED
  BY <1>1, BackfillHeld, PTL

\* A bar of bars_1m is never replaced by one of a source of no better priority,
\* whatever fetches and live bars come in between (bar_service.py: _upsert_bars).
THEOREM BetterBarsStay == BackfillSpec => BetterBarStays
<1>1. BackfillSpec => []BackfillInv
  BY BackfillInitially, BackfillStep, PTL DEF BackfillSpec
<1> DEFINE Better == \A b \in Buckets : (kept[b] # 0 /\ kept'[b] # kept[b]) =>
                        (kept'[b] # 0 /\ kept'[b] < kept[b])
<1>2. BackfillInv /\ [BackfillNext]_backfillVars => [Better]_backfillVars
  <2> SUFFICES ASSUME BackfillInv, BackfillNext PROVE Better \/ UNCHANGED kept
    BY DEF backfillVars
  <2> USE BackfillAssumption
  <2>t. kept \in [Buckets -> Providers \cup {0, Live}] /\ Placing
    BY DEF BackfillInv, BackfillTypeOK
  <2>1. ASSUME NEW c \in Calls, StoresBars(c) PROVE Better
    <3>1. call[c].source \in Providers
      BY <2>1, <2>t DEF StoresBars, Placing, Busy
    <3> QED
      BY <2>1, <2>t, <3>1 DEF StoresBars, Wins
  <2>2. ASSUME NEW b \in Buckets, LiveBar(b) PROVE Better
    BY <2>2, <2>t DEF LiveBar
  <2>3. ASSUME NEW c \in Calls,
               \/ \E w \in Processes : CallBegins(c, w)
               \/ TakesEntry(c) \/ WaitEnds(c) \/ InsertsJob(c) \/ InsertFails(c) \/ Fetches(c)
               \/ Finishes(c) \/ FetchFails(c) \/ TransactionEnds(c)
        PROVE  UNCHANGED kept
    BY <2>3 DEF CallBegins, TakesEntry, WaitEnds, InsertsJob, InsertFails, Fetches,
                Finishes, FetchFails, TransactionEnds
  <2>4. ASSUME \/ \E w \in Processes : WorkerStops(w)
               \/ \E s \in Providers : SourceFlips(s)
        PROVE  UNCHANGED kept
    BY <2>4 DEF WorkerStops, SourceFlips
  <2> QED
    BY <2>1, <2>2, <2>3, <2>4 DEF BackfillNext
<1> QED
  BY <1>1, <1>2, PTL DEF BackfillSpec, BetterBarStays

-----------------------------------------------------------------------------
(* Brackets.  The rows in the table and those deleted account for every    *)
(* placement, and a leg is placed only by the placement it was asked of.   *)

BeforeInsert(p) == post[p].at \in {"idle", "replace", "insert"}

PostsStand == \A p \in Posts : /\ BeforeInsert(p) => placement[p] = "none"
                               /\ post[p].at = "replace" => post[p].found \in Posts
PlacementKnown == \A p \in Posts : placement[p] # "none" => p = owner \/ p \in deleted
RowsStand == /\ owner = NoPost => legRow = NoRows
             /\ owner # NoPost =>
                   /\ placement[owner] # "none"
                   /\ \A l \in Legs : legRow[l] # "none" => l \in Requested(owner)

\* What a call has placed.
LegsRequested(p) == \A l \in Legs : market[p][l] # "none" => placement[p] # "none" /\ l \in Requested(p)
PlacingStands(p) ==
    /\ placement[p] \in {"placing", "undoing"} /\ broker = "alpaca" =>
          placement[p] = "placing" /\ \A l \in Legs : market[p][l] = "none"
    /\ placement[p] \in {"placing", "undoing"} /\ broker = "futu" =>
          \A l \in Legs : market[p][l] \in {"none", "open", "filled"}
    /\ placement[p] = "placing" /\ broker # "alpaca" =>
          /\ Remaining(p) # {}
          /\ market[p]["parent"] = "none" => \A l \in Legs : market[p][l] = "none"
PlacedStands(p) == placement[p] = "placed" => \A l \in Requested(p) : market[p][l] # "none"
WholeStands(p) == placement[p] \in {"placed", "failed"} /\ Working(p) # {} => Placed(p) = Requested(p)

PlacementStands(p) == LegsRequested(p) /\ PlacingStands(p) /\ PlacedStands(p) /\ WholeStands(p)

BracketInv ==
    /\ BracketTypeOK /\ IsFiniteSet(deleted)
    /\ PostsStand /\ PlacementKnown /\ RowsStand /\ SubmittedIsPlaced
    /\ \A p \in Posts : PlacementStands(p)

LEMMA BracketInitially == BracketInit => BracketInv
<1> SUFFICES ASSUME BracketInit PROVE BracketInv
  OBVIOUS
<1> USE DEF BracketInit
<1>1. BracketTypeOK
  BY BracketAssumption DEF BracketTypeOK, NoRows
<1>2. IsFiniteSet(deleted)
  BY FS_EmptySet
<1> QED
  BY <1>1, <1>2 DEF BracketInv, PostsStand, PlacementKnown, RowsStand, LegsRequested, PlacingStands,
        PlacedStands, WholeStands, PlacementStands, SubmittedIsPlaced, Working, NoRows

LEMMA BracketHeld == BracketInv => BracketIsWhole
<1> SUFFICES ASSUME BracketInv PROVE BracketIsWhole
  OBVIOUS
<1>1. OneBracket
  <2> DEFINE placed == {p \in Posts : Placed(p) # {}}
  <2>1. placed \subseteq deleted \cup {owner}
    BY DEF BracketInv, Placed, PlacementStands, LegsRequested, PlacementKnown
  <2>2. IsFiniteSet(deleted) /\ Cardinality(deleted) \in Nat
    BY FS_CardinalityType DEF BracketInv
  <2>3. /\ IsFiniteSet(deleted \cup {owner})
        /\ Cardinality(deleted \cup {owner}) <= Cardinality(deleted) + 1
        /\ Cardinality(deleted \cup {owner}) \in Nat
    BY <2>2, FS_AddElement, FS_CardinalityType
  <2>4. Cardinality(placed) <= Cardinality(deleted \cup {owner}) /\ Cardinality(placed) \in Nat
    BY <2>1, <2>3, FS_Subset, FS_CardinalityType
  <2> QED
    BY <2>2, <2>3, <2>4 DEF OneBracket
<1>2. WholeOrNothing
  BY DEF BracketInv, PlacementStands, WholeStands, WholeOrNothing
<1> QED
  BY <1>1, <1>2 DEF BracketInv, BracketIsWhole

LegStates == {"none", "held", "open", "filled", "cancelled"}
RowStates == {"none", "pending_submit", "submitted", "rejected", "filled"}
PlacementStates == {"none", "placing", "undoing", "placed", "failed", "cut"}
PostType == [at : {"idle", "replace", "insert", "sent", "done"},
             legs : SUBSET Exits, found : Posts \cup {NoPost}]

BracketTypes ==
    /\ broker \in {"ibkr", "futu", "alpaca"} /\ post \in [Posts -> PostType]
    /\ owner \in Posts \cup {NoPost} /\ legRow \in [Legs -> RowStates]
    /\ placement \in [Posts -> PlacementStates] /\ market \in [Posts -> [Legs -> LegStates]]
    /\ deleted \subseteq Posts /\ breaks \in 0..MaxBreaks

\* Which leg is next.
LEMMA NextIsRemaining ==
    ASSUME NEW p \in Posts, Remaining(p) # {}, BracketTypes
    PROVE  /\ NextLeg(p) \in Remaining(p) /\ Remaining(p) \subseteq Legs
           /\ "parent" \in Remaining(p) <=> NextLeg(p) = "parent"
<1>1. Remaining(p) \subseteq Legs
  BY DEF Remaining, Tried, Requested, Legs, Exits, BracketTypes, PostType
<1> DEFINE e == IF "parent" \in Remaining(p) THEN "parent"
                ELSE IF "stop" \in Remaining(p) THEN "stop" ELSE "target"
<1>2. e \in Remaining(p)
  BY <1>1 DEF Legs, Exits
<1>3. NextLeg(p) = e
  BY <1>2 DEF NextLeg
<1> QED
  BY <1>1, <1>2, <1>3

LEMMA BracketStep == BracketInv /\ [BracketNext]_bracketVars => BracketInv'
<1> SUFFICES ASSUME BracketInv, [BracketNext]_bracketVars PROVE BracketInv'
  OBVIOUS
<1> USE BracketAssumption
<1>t. BracketTypes
  BY DEF BracketInv, BracketTypeOK, BracketTypes, PostType, RowStates, LegStates, PlacementStates
<1> DEFINE Stands == PostsStand /\ PlacementKnown /\ RowsStand /\ SubmittedIsPlaced
           Finite == IsFiniteSet(deleted)
           Placements == \A p \in Posts : PlacementStands(p)
<1>i. Stands /\ Finite /\ Placements
  BY DEF BracketInv
<1>q. SUFFICES BracketTypes' /\ Stands' /\ Finite' /\ Placements'
  BY DEF BracketInv, BracketTypeOK, BracketTypes, PostType, RowStates, LegStates, PlacementStates
<1>u. Break => breaks' \in 0..MaxBreaks
  BY <1>t DEF Break, BracketTypes
<1> USE DEF PostsStand, PlacementKnown, RowsStand, SubmittedIsPlaced, BeforeInsert
\* A post that only goes on keeps its legs.
<1>p. ASSUME NEW p \in Posts, NEW s \in {"idle", "replace", "insert", "sent", "done"}, PostGoes(p, s)
      PROVE  /\ post' \in [Posts -> PostType] /\ post'[p].at = s
             /\ \A r \in Posts : /\ r # p => post'[r] = post[r]
                                 /\ post'[r].legs = post[r].legs /\ post'[r].found = post[r].found
  <2>1. post' = [post EXCEPT ![p] = [post[p] EXCEPT !.at = s]]
    BY <1>p DEF PostGoes
  <2>2. post \in [Posts -> PostType]
    BY <1>t DEF BracketTypes
  <2>3. [post[p] EXCEPT !.at = s] \in PostType
    BY <2>2 DEF PostType
  <2>4. /\ [post[p] EXCEPT !.at = s].at = s
        /\ [post[p] EXCEPT !.at = s].legs = post[p].legs
        /\ [post[p] EXCEPT !.at = s].found = post[p].found
    BY <2>2 DEF PostType
  <2>5. post' \in [Posts -> PostType]
    BY <2>1, <2>2, <2>3
  <2>6. post'[p] = [post[p] EXCEPT !.at = s] /\ \A r \in Posts : r # p => post'[r] = post[r]
    BY <2>1, <2>2
  <2> QED
    BY <2>4, <2>5, <2>6
<1>l. ASSUME NEW r \in Posts, post'[r].legs = post[r].legs PROVE Requested(r)' = Requested(r)
  BY <1>l DEF Requested
\* A call whose orders, status and legs stay, stands.
<1>f. ASSUME NEW r \in Posts, UNCHANGED broker, post'[r].legs = post[r].legs,
             placement'[r] = placement[r], market'[r] = market[r]
      PROVE  PlacementStands(r)'
  <2>1. Requested(r)' = Requested(r) /\ Tried(r)' = Tried(r)
    BY <1>f, <1>l DEF Tried
  <2>2. /\ Remaining(r)' = Remaining(r) /\ Working(r)' = Working(r) /\ Placed(r)' = Placed(r)
    BY <1>f, <2>1 DEF Remaining, Working, Placed
  <2>3. PlacementStands(r)
    BY <1>i
  <2> QED
    BY <1>f, <2>1, <2>2, <2>3
       DEF PlacementStands, LegsRequested, PlacingStands, PlacedStands, WholeStands
\* So does one that is cut off.
<1>c. ASSUME NEW r \in Posts, UNCHANGED broker, post'[r].legs = post[r].legs,
             placement[r] # "none", placement'[r] = "cut", market'[r] = market[r]
      PROVE  PlacementStands(r)'
  <2>1. Requested(r)' = Requested(r)
    BY <1>c, <1>l
  <2> QED
    BY <1>c, <1>i, <2>1
       DEF PlacementStands, LegsRequested, PlacingStands, PlacedStands, WholeStands
<1>1. ASSUME NEW p \in Posts, NEW legs \in SUBSET Exits, BracketBegins(p, legs)
      PROVE  BracketTypes' /\ Stands' /\ Finite' /\ Placements'
  <2> DEFINE new == [at |-> AfterLookup(legs), legs |-> legs, found |-> owner]
  <2>1. /\ post[p].at = "idle" /\ post' = [post EXCEPT ![p] = new]
        /\ UNCHANGED <<broker, owner, legRow, placement, market, deleted, breaks>>
    BY <1>1 DEF BracketBegins
  <2>2. /\ new \in PostType /\ new.legs = legs /\ new.found = owner
        /\ new.at \in {"insert", "done", "replace"} /\ (new.at = "replace" => owner # NoPost)
    BY <1>t DEF AfterLookup, PostType, BracketTypes
  <2> HIDE DEF new
  <2>3. BracketTypes'
    BY <1>t, <2>1, <2>2 DEF BracketTypes
  <2>4. placement[p] = "none" /\ \A l \in Legs : market[p][l] = "none"
    BY <1>i, <2>1 DEF PlacementStands, LegsRequested
  <2>5. p # owner \/ owner = NoPost
    BY <1>i, <2>4
  <2>6. \A r \in Posts \ {p} : post'[r] = post[r] /\ Requested(r)' = Requested(r)
    BY <1>t, <2>1 DEF BracketTypes, Requested
  <2>7. post'[p] = new
    BY <1>t, <2>1 DEF BracketTypes
  <2>8. PlacementStands(p)'
    BY <2>1, <2>4 DEF PlacementStands, LegsRequested, PlacingStands, PlacedStands, WholeStands
  <2>9. Placements'
    BY <1>f, <2>1, <2>6, <2>8
  <2> QED
    BY <1>t, <1>i, <2>1, <2>2, <2>3, <2>4, <2>5, <2>6, <2>7, <2>9 DEF BracketTypes
<1>2. ASSUME NEW p \in Posts, BracketRefused(p) \/ BracketAbandoned(p)
      PROVE  BracketTypes' /\ Stands' /\ Finite' /\ Placements'
  <2>1. /\ PostGoes(p, "done") /\ breaks' \in 0..MaxBreaks
        /\ UNCHANGED <<broker, owner, legRow, placement, market, deleted>>
    BY <1>2, <1>t, <1>u DEF BracketRefused, BracketAbandoned, BracketTypes
  <2>2. BracketTypes'
    BY <1>t, <1>p, <2>1 DEF BracketTypes
  <2>3. Placements'
    BY <1>p, <1>f, <2>1
  <2>4. \A r \in Posts : Requested(r)' = Requested(r)
    BY <1>p, <1>l, <2>1
  <2> QED
    BY <1>t, <1>i, <1>p, <2>1, <2>2, <2>3, <2>4 DEF BracketTypes
<1>3. ASSUME NEW p \in Posts, DeleteRows(p)
      PROVE  BracketTypes' /\ Stands' /\ Finite' /\ Placements'
  <2>0. /\ post[p].at = "replace" /\ PostGoes(p, "insert") /\ post[p].found \in Posts
        /\ placement[p] = "none" /\ UNCHANGED <<broker, placement, market, breaks>>
    BY <1>3, <1>i DEF DeleteRows
  <2>p. Placements'
    BY <1>p, <1>f, <2>0
  <2>l. \A r \in Posts : Requested(r)' = Requested(r)
    BY <1>p, <1>l, <2>0
  <2>s. PostsStand'
    BY <1>i, <1>p, <2>0
  <2>1. CASE owner = post[p].found
    <3>1. owner' = NoPost /\ legRow' = NoRows /\ deleted' = deleted \cup {owner} /\ owner \in Posts
      BY <1>3, <2>0, <2>1 DEF DeleteRows
    <3>2. Finite'
      BY <1>i, <3>1, FS_AddElement
    <3>3. BracketTypes'
      BY <1>t, <1>p, <2>0, <3>1 DEF BracketTypes, NoRows, RowStates
    <3>4. PlacementKnown'
      BY <1>i, <2>0, <3>1
    <3>5. RowsStand' /\ SubmittedIsPlaced'
      BY <3>1 DEF NoRows
    <3> QED
      BY <2>p, <2>s, <3>2, <3>3, <3>4, <3>5
  <2>2. CASE owner # post[p].found
    <3>1. UNCHANGED <<owner, legRow, deleted>>
      BY <1>3, <2>2 DEF DeleteRows
    <3>2. BracketTypes'
      BY <1>t, <1>p, <2>0, <3>1 DEF BracketTypes
    <3> QED
      BY <1>t, <1>i, <2>0, <2>p, <2>s, <2>l, <3>1, <3>2 DEF BracketTypes
  <2> QED
    BY <2>1, <2>2
<1>4. ASSUME NEW p \in Posts, InsertRows(p)
      PROVE  BracketTypes' /\ Stands' /\ Finite' /\ Placements'
  <2>0. /\ post[p].at = "insert" /\ UNCHANGED <<broker, market, deleted, breaks>>
        /\ placement[p] = "none" /\ \A l \in Legs : market[p][l] = "none"
    BY <1>4, <1>i DEF InsertRows, PlacementStands, LegsRequested
  <2>1. CASE owner = NoPost
    <3>1. /\ owner' = p /\ placement' = [placement EXCEPT ![p] = "placing"] /\ PostGoes(p, "sent")
          /\ legRow' = [l \in Legs |-> IF l \in Requested(p) THEN "pending_submit" ELSE "none"]
      BY <1>4, <2>1 DEF InsertRows
    <3>2. BracketTypes'
      BY <1>t, <1>p, <2>0, <3>1 DEF BracketTypes, RowStates, PlacementStates
    <3>3. Remaining(p)' # {}
      <4>1. "parent" \in Tried(p)' /\ "parent" \in Legs
        BY DEF Tried, Legs, Requested
      <4> QED
        BY <2>0, <4>1 DEF Remaining
    <3>4. /\ placement'[p] = "placing"
          /\ \A r \in Posts \ {p} : placement'[r] = placement[r]
      BY <1>t, <3>1 DEF BracketTypes
    <3>5. PlacementStands(p)'
      BY <2>0, <3>3, <3>4
         DEF PlacementStands, LegsRequested, PlacingStands, PlacedStands, WholeStands
    <3>6. Placements'
      BY <1>p, <1>f, <2>0, <3>1, <3>4, <3>5
    <3>7. Requested(p)' = Requested(p)
      BY <1>p, <1>l, <3>1
    <3>8. RowsStand' /\ SubmittedIsPlaced'
      BY <2>0, <3>1, <3>4, <3>7
    <3>9. PostsStand' /\ PlacementKnown'
      BY <1>i, <1>p, <2>0, <2>1, <3>1, <3>4
    <3> QED
      BY <1>i, <2>0, <3>2, <3>6, <3>8, <3>9
  <2>2. CASE owner # NoPost
    <3>1. PostGoes(p, "done") /\ UNCHANGED <<owner, legRow, placement>>
      BY <1>4, <2>2 DEF InsertRows
    <3>2. BracketTypes'
      BY <1>t, <1>p, <2>0, <3>1 DEF BracketTypes
    <3>3. Placements'
      BY <1>p, <1>f, <2>0, <3>1
    <3>4. \A r \in Posts : Requested(r)' = Requested(r)
      BY <1>p, <1>l, <3>1
    <3> QED
      BY <1>t, <1>i, <1>p, <2>0, <3>1, <3>2, <3>3, <3>4 DEF BracketTypes
  <2> QED
    BY <2>1, <2>2
\* An answer writes the rows of its bracket only.
<1>r. ASSUME NEW p \in Posts, NEW st \in RowStates \ {"none"}, SetRows(p, st)
      PROVE  /\ legRow' \in [Legs -> RowStates]
             /\ \A l \in Legs : legRow'[l] = IF owner # p \/ legRow[l] = "none" THEN legRow[l] ELSE st
             /\ legRow = NoRows => legRow' = NoRows
  BY <1>r, <1>t DEF SetRows, BracketTypes, NoRows
<1>5. ASSUME NEW p \in Posts, BracketPlaced(p)
      PROVE  BracketTypes' /\ Stands' /\ Finite' /\ Placements'
  <2>1. /\ post[p].at = "sent" /\ placement[p] = "placed" /\ PostGoes(p, "done")
        /\ SetRows(p, "submitted") /\ "submitted" \in RowStates \ {"none"}
        /\ UNCHANGED <<broker, owner, placement, market, deleted, breaks>>
    BY <1>5 DEF BracketPlaced, RowStates
  <2>2. BracketTypes'
    BY <1>t, <1>p, <1>r, <2>1 DEF BracketTypes
  <2>3. SubmittedIsPlaced'
    BY <1>t, <1>i, <1>r, <2>1 DEF BracketTypes, PlacementStands, PlacedStands
  <2>4. \A r \in Posts : Requested(r)' = Requested(r)
    BY <1>p, <1>l, <2>1
  <2>5. RowsStand'
    BY <1>t, <1>i, <1>r, <2>1, <2>4 DEF BracketTypes
  <2>6. Placements'
    BY <1>p, <1>f, <2>1
  <2> QED
    BY <1>i, <1>p, <2>1, <2>2, <2>3, <2>5, <2>6
<1>6. ASSUME NEW p \in Posts, BracketFailed(p) \/ BracketTimesOut(p)
      PROVE  BracketTypes' /\ Stands' /\ Finite' /\ Placements'
  <2>1. /\ post[p].at = "sent" /\ PostGoes(p, "done") /\ breaks' \in 0..MaxBreaks
        /\ SetRows(p, "rejected") /\ "rejected" \in RowStates \ {"none"}
        /\ UNCHANGED <<broker, owner, market, deleted>>
    BY <1>6, <1>t, <1>u DEF BracketFailed, BracketTimesOut, RowStates, BracketTypes
  <2>2. \/ placement' = placement
        \/ placement[p] \in {"placing", "undoing"} /\ placement' = [placement EXCEPT ![p] = "cut"]
    BY <1>6 DEF BracketFailed, BracketTimesOut
  <2>3. BracketTypes'
    BY <1>t, <1>p, <1>r, <2>1, <2>2 DEF BracketTypes, PlacementStates
  <2>4. SubmittedIsPlaced'
    BY <1>t, <1>i, <1>r, <2>1 DEF BracketTypes
  <2>l. \A r \in Posts : Requested(r)' = Requested(r)
    BY <1>p, <1>l, <2>1
  <2>n. \A r \in Posts : placement'[r] = "none" <=> placement[r] = "none"
    BY <1>t, <2>2 DEF BracketTypes
  <2>5. RowsStand'
    BY <1>t, <1>i, <1>r, <2>1, <2>l, <2>n DEF BracketTypes
  <2>6. \A r \in Posts : placement'[r] = placement[r] \/ (placement[r] # "none" /\ placement'[r] = "cut")
    BY <1>t, <2>2 DEF BracketTypes
  <2>7. Placements'
    BY <1>p, <1>f, <1>c, <2>1, <2>6
  <2>8. PostsStand' /\ PlacementKnown'
    BY <1>i, <1>p, <2>1, <2>n
  <2> QED
    BY <1>i, <2>1, <2>3, <2>4, <2>5, <2>7, <2>8
<1>7. ASSUME NEW l \in Legs, LegEvent(l)
      PROVE  BracketTypes' /\ Stands' /\ Finite' /\ Placements'
  <2>1. /\ owner # NoPost /\ legRow[l] # "none" /\ market[owner][l] = "filled"
        /\ legRow' = [legRow EXCEPT ![l] = "filled"]
        /\ UNCHANGED <<broker, post, owner, placement, market, deleted, breaks>>
    BY <1>7 DEF LegEvent
  <2>2. BracketTypes'
    BY <1>t, <2>1 DEF BracketTypes, RowStates
  <2>3. \A r \in Posts : Requested(r)' = Requested(r)
    BY <2>1 DEF Requested
  <2>4. Placements'
    BY <1>f, <2>1
  <2> QED
    BY <1>t, <1>i, <2>1, <2>2, <2>3, <2>4 DEF BracketTypes
\* A sidecar moves its own call, and never takes back that a leg was placed.
<1>k. ASSUME NEW p \in Posts, placement[p] # "none", breaks' \in 0..MaxBreaks,
             UNCHANGED <<broker, post, owner, legRow, deleted>>,
             NEW s \in PlacementStates \ {"none"}, placement' = [placement EXCEPT ![p] = s],
             NEW orders \in [Legs -> LegStates], market' = [market EXCEPT ![p] = orders],
             \A l \in Legs : market[p][l] # "none" => orders[l] # "none",
             PlacementStands(p)'
      PROVE  BracketTypes' /\ Stands' /\ Finite' /\ Placements'
  <2>1. BracketTypes'
    BY <1>k, <1>t DEF BracketTypes
  <2>2. /\ placement'[p] = s /\ market'[p] = orders
        /\ \A r \in Posts \ {p} : placement'[r] = placement[r] /\ market'[r] = market[r]
    BY <1>k, <1>t DEF BracketTypes
  <2>3. Placements'
    BY <1>k, <1>f, <2>2
  <2>4. \A r \in Posts : Requested(r)' = Requested(r)
    BY <1>k, <1>l
  <2>5. PostsStand' /\ PlacementKnown'
    BY <1>k, <1>i, <2>2
  <2>6. RowsStand'
    BY <1>k, <1>t, <1>i, <2>2, <2>4 DEF BracketTypes
  <2>7. SubmittedIsPlaced'
    BY <1>k, <1>t, <1>i, <2>2 DEF BracketTypes, NoRows
  <2> QED
    BY <1>k, <1>i, <2>1, <2>3, <2>5, <2>6, <2>7
<1>v. ASSUME NEW p \in Posts, UNCHANGED <<broker, post>>
      PROVE  Requested(p)' = Requested(p) /\ Tried(p)' = Tried(p)
  BY <1>v DEF Requested, Tried
<1>b. breaks \in 0..MaxBreaks /\ \A p \in Posts : market[p] \in [Legs -> LegStates] /\ PlacementStands(p)
  BY <1>t, <1>i DEF BracketTypes
<1>m. ASSUME NEW p \in Posts, NEW orders, market' = [market EXCEPT ![p] = orders]
      PROVE  market'[p] = orders
  BY <1>m, <1>t DEF BracketTypes
<1>n. ASSUME NEW p \in Posts, NEW s, placement' = [placement EXCEPT ![p] = s]
      PROVE  placement'[p] = s
  BY <1>n, <1>t DEF BracketTypes
<1>x. ASSUME NEW p \in Posts PROVE Requested(p) \subseteq Legs /\ "parent" \in Requested(p)
  BY <1>t DEF BracketTypes, PostType, Requested, Legs, Exits
<1>8. ASSUME NEW p \in Posts, PlaceLeg(p)
      PROVE  BracketTypes' /\ Stands' /\ Finite' /\ Placements'
  <2> DEFINE last == Remaining(p) = {NextLeg(p)}
             st == IF last THEN "placed" ELSE "placing"
             orders == WithLeg(p)
  <2>1. /\ placement[p] = "placing" /\ broker # "alpaca" /\ NextLeg(p) \in Requested(p)
        /\ market' = [market EXCEPT ![p] = orders] /\ placement' = [placement EXCEPT ![p] = st]
        /\ UNCHANGED <<broker, post, owner, legRow, deleted, breaks>>
    BY <1>8 DEF PlaceLeg
  <2>2. /\ Remaining(p) # {} /\ LegsRequested(p)
        /\ market[p]["parent"] = "none" => \A l \in Legs : market[p][l] = "none"
        /\ broker = "futu" => \A l \in Legs : market[p][l] \in {"none", "open", "filled"}
    BY <1>b, <2>1 DEF PlacementStands, PlacingStands
  <2>3. /\ NextLeg(p) \in Remaining(p) /\ Remaining(p) \subseteq Legs
        /\ "parent" \in Remaining(p) <=> NextLeg(p) = "parent"
    BY <1>t, <2>2, NextIsRemaining
  <2>4. market[p][NextLeg(p)] = "none" /\ NextLeg(p) \in Legs
    BY <2>3 DEF Remaining
  <2>5. broker \in {"ibkr", "futu"}
    BY <1>t, <2>1 DEF BracketTypes
  <2>6. \A l \in Legs : orders[l] = IF broker = "ibkr" /\ last THEN IF l \in Tried(p) THEN "open" ELSE "none"
                                    ELSE IF l = NextLeg(p) THEN IF broker = "ibkr" THEN "held" ELSE "open"
                                    ELSE market[p][l]
    BY DEF WithLeg
  <2>7. orders \in [Legs -> LegStates]
    <3>1. \A l \in Legs : market[p][l] \in LegStates
      BY <1>b
    <3> DEFINE of(l) == IF broker = "ibkr" /\ last THEN IF l \in Tried(p) THEN "open" ELSE "none"
                        ELSE IF l = NextLeg(p) THEN IF broker = "ibkr" THEN "held" ELSE "open"
                        ELSE market[p][l]
    <3>2. \A l \in Legs : of(l) \in LegStates
      BY <3>1 DEF LegStates
    <3>3. orders = [l \in Legs |-> of(l)]
      BY DEF WithLeg
    <3> HIDE DEF of
    <3> QED
      BY <3>2, <3>3
  <2> HIDE DEF orders, last
  <2>8. \A l \in Legs : market[p][l] # "none" => orders[l] # "none"
    BY <2>2, <2>5, <2>6 DEF LegsRequested, Tried
  <2>9. st \in PlacementStates \ {"none"} /\ placement'[p] = st /\ market'[p] = orders
    BY <1>m, <1>n, <2>1 DEF PlacementStates
  <2>10. Requested(p)' = Requested(p) /\ Tried(p)' = Tried(p)
    BY <1>v, <2>1
  <2>11. \A l \in Legs : l \in Remaining(p) <=> l \in Tried(p) /\ market[p][l] = "none"
    BY <1>x DEF Remaining, Tried
  <2>12. LegsRequested(p)'
    BY <2>1, <2>2, <2>5, <2>6, <2>9, <2>10 DEF LegsRequested, Tried
  <2>13. CASE last
    <3>1. st = "placed" /\ Remaining(p) = {NextLeg(p)}
      BY <2>13 DEF last
    <3>2. CASE broker = "ibkr"
      <4>1. Tried(p) = Requested(p) /\ \A l \in Legs : orders[l] = IF l \in Requested(p) THEN "open" ELSE "none"
        BY <2>6, <2>13, <3>2 DEF Tried
      <4>2. Placed(p)' = Requested(p)
        BY <1>x, <2>9, <4>1 DEF Placed
      <4>3. \A l \in Requested(p) : orders[l] # "none"
        BY <1>x, <4>1
      <4>4. PlacementStands(p)'
        BY <2>9, <2>10, <2>12, <3>1, <4>2, <4>3
           DEF PlacementStands, PlacingStands, PlacedStands, WholeStands
      <4> QED
        BY <1>k, <1>b, <2>1, <2>7, <2>8, <2>9, <4>4
    <3>3. CASE broker = "futu"
      <4>1. Tried(p) = Legs
        BY <3>3 DEF Tried
      <4>2. \A l \in Legs \ {NextLeg(p)} : market[p][l] \in {"open", "filled"}
        BY <2>2, <2>11, <3>1, <3>3, <4>1
      <4>3. \A l \in Legs : l \in Requested(p) /\ orders[l] \in {"open", "filled"}
        BY <2>1, <2>2, <2>6, <3>3, <4>2 DEF LegsRequested
      <4>4. Placed(p)' = Legs /\ Requested(p) = Legs
        BY <1>x, <2>9, <4>3 DEF Placed
      <4>5. PlacementStands(p)'
        BY <2>9, <2>10, <2>12, <3>1, <4>3, <4>4
           DEF PlacementStands, PlacingStands, PlacedStands, WholeStands
      <4> QED
        BY <1>k, <1>b, <2>1, <2>7, <2>8, <2>9, <4>5
    <3> QED
      BY <2>5, <3>2, <3>3
  <2>14. CASE ~last
    <3>1. st = "placing" /\ \A l \in Legs : orders[l] = IF l = NextLeg(p) THEN IF broker = "ibkr" THEN "held" ELSE "open"
                                                        ELSE market[p][l]
      BY <2>6, <2>14
    <3>2. PICK k \in Remaining(p) : k # NextLeg(p)
      BY <2>3, <2>14 DEF last
    <3>3. k \in Remaining(p)'
      BY <2>3, <2>9, <2>10, <2>11, <3>1, <3>2 DEF Remaining
    <3>4. orders["parent"] # "none"
      BY <1>x, <2>3, <2>8, <2>11, <3>1 DEF Tried, Legs
    <3>5. broker = "futu" => \A l \in Legs : orders[l] \in {"none", "open", "filled"}
      BY <2>2, <3>1
    <3>6. PlacementStands(p)'
      BY <2>1, <2>9, <2>10, <2>12, <3>1, <3>3, <3>4, <3>5
         DEF PlacementStands, PlacingStands, PlacedStands, WholeStands
    <3> QED
      BY <1>k, <1>b, <2>1, <2>7, <2>8, <2>9, <3>6
  <2> QED
    BY <2>13, <2>14
<1>9. ASSUME NEW p \in Posts, LegFails(p)
      PROVE  BracketTypes' /\ Stands' /\ Finite' /\ Placements'
  <2> DEFINE st == IF NextLeg(p) = "parent" THEN "failed" ELSE "undoing"
  <2>1. /\ placement[p] = "placing" /\ broker # "alpaca" /\ placement' = [placement EXCEPT ![p] = st]
        /\ UNCHANGED <<broker, post, owner, legRow, market, deleted>> /\ breaks' \in 0..MaxBreaks
    BY <1>9, <1>b, <1>u DEF LegFails
  <2>2. market' = [market EXCEPT ![p] = market[p]]
    BY <1>t, <2>1 DEF BracketTypes
  <2>3. st \in PlacementStates \ {"none"} /\ placement'[p] = st
    BY <1>n, <2>1 DEF PlacementStates
  <2>4. Requested(p)' = Requested(p)
    BY <1>v, <2>1
  <2>5. NextLeg(p) = "parent" => \A l \in Legs : market[p][l] = "none"
    <3>1. /\ Remaining(p) # {}
          /\ market[p]["parent"] = "none" => \A l \in Legs : market[p][l] = "none"
      BY <1>b, <2>1 DEF PlacementStands, PlacingStands
    <3>2. NextLeg(p) = "parent" => "parent" \in Remaining(p)
      BY <1>t, <3>1, NextIsRemaining
    <3> QED
      BY <3>1, <3>2 DEF Remaining
  <2>6. PlacementStands(p)'
    <3>1. LegsRequested(p) /\ PlacingStands(p)
      BY <1>b DEF PlacementStands
    <3>2. LegsRequested(p)'
      BY <2>1, <2>3, <2>4, <3>1 DEF LegsRequested
    <3>3. PlacingStands(p)'
      BY <2>1, <2>3, <3>1 DEF PlacingStands
    <3>4. WholeStands(p)'
      BY <2>1, <2>3, <2>5 DEF WholeStands, Working
    <3> QED
      BY <2>3, <3>2, <3>3, <3>4 DEF PlacementStands, PlacedStands
  <2> QED
    BY <1>k, <1>b, <2>1, <2>2, <2>3, <2>6
<1>10. ASSUME NEW p \in Posts, PlaceAll(p)
       PROVE  BracketTypes' /\ Stands' /\ Finite' /\ Placements'
  <2>1. PICK accepted \in BOOLEAN :
          /\ market' = IF accepted THEN [market EXCEPT ![p] = [l \in Legs |->
                                           IF l \in Requested(p) THEN "open" ELSE "none"]]
                       ELSE market
          /\ placement' = [placement EXCEPT ![p] = IF accepted /\ Requested(p) = Legs THEN "placed" ELSE "failed"]
    BY <1>10 DEF PlaceAll
  <2> DEFINE st == IF accepted /\ Requested(p) = Legs THEN "placed" ELSE "failed"
             orders == IF accepted THEN [l \in Legs |-> IF l \in Requested(p) THEN "open" ELSE "none"] ELSE market[p]
  <2>2. /\ placement[p] = "placing" /\ broker = "alpaca" /\ placement' = [placement EXCEPT ![p] = st]
        /\ UNCHANGED <<broker, post, owner, legRow, deleted, breaks>>
    BY <1>10, <2>1 DEF PlaceAll
  <2>3. market' = [market EXCEPT ![p] = orders]
    BY <1>t, <2>1 DEF BracketTypes
  <2>4. \A l \in Legs : market[p][l] = "none"
    BY <1>b, <2>2 DEF PlacementStands, PlacingStands
  <2>5. orders \in [Legs -> LegStates]
    BY <1>b DEF LegStates
  <2>6. \A l \in Legs : orders[l] = IF accepted /\ l \in Requested(p) THEN "open" ELSE "none"
    BY <2>4
  <2>7. st \in {"placed", "failed"} /\ st \in PlacementStates \ {"none"} /\ (st = "placed" => accepted)
    BY DEF PlacementStates
  <2>8. placement'[p] = st /\ market'[p] = orders /\ Requested(p)' = Requested(p)
    BY <1>m, <1>n, <1>v, <2>2, <2>3
  <2> HIDE DEF orders, st
  <2>9. PlacementStands(p)'
    <3>1. LegsRequested(p)' /\ PlacingStands(p)'
      BY <2>6, <2>7, <2>8 DEF LegsRequested, PlacingStands
    <3>2. PlacedStands(p)'
      BY <1>x, <2>6, <2>7, <2>8 DEF PlacedStands
    <3>3. accepted => Placed(p)' = Requested(p)
      BY <1>x, <2>6, <2>8 DEF Placed
    <3>4. ~accepted => Working(p)' = {}
      BY <2>6, <2>8 DEF Working
    <3>5. WholeStands(p)'
      BY <2>8, <3>3, <3>4 DEF WholeStands
    <3> QED
      BY <3>1, <3>2, <3>5 DEF PlacementStands
  <2>10. breaks' \in 0..MaxBreaks /\ \A l \in Legs : market[p][l] # "none" => orders[l] # "none"
    BY <1>b, <2>2, <2>4
  <2> QED
    BY <1>k, <2>2, <2>3, <2>5, <2>7, <2>9, <2>10
<1>11. ASSUME NEW p \in Posts, UndoLegs(p)
       PROVE  BracketTypes' /\ Stands' /\ Finite' /\ Placements'
  <2> DEFINE orders == CancelledLegs(market[p])
  <2>1. /\ placement[p] = "undoing" /\ placement' = [placement EXCEPT ![p] = "failed"]
        /\ market' = [market EXCEPT ![p] = orders]
        /\ UNCHANGED <<broker, post, owner, legRow, deleted, breaks>>
    BY <1>11, <1>t DEF UndoLegs, BracketTypes
  <2>2. /\ orders \in [Legs -> LegStates]
        /\ \A l \in Legs : orders[l] # "open" /\ (orders[l] = "none" <=> market[p][l] = "none")
    BY <1>b DEF CancelledLegs, LegStates
  <2> HIDE DEF orders
  <2>3. placement'[p] = "failed" /\ market'[p] = orders /\ Requested(p)' = Requested(p)
    BY <1>m, <1>n, <1>v, <2>1
  <2>4. PlacementStands(p)'
    <3>1. LegsRequested(p)
      BY <1>b DEF PlacementStands
    <3>2. LegsRequested(p)'
      BY <2>2, <2>3, <3>1 DEF LegsRequested
    <3>3. Working(p)' = {}
      BY <2>2, <2>3 DEF Working
    <3> QED
      BY <2>3, <3>2, <3>3 DEF PlacementStands, PlacingStands, PlacedStands, WholeStands
  <2>5. "failed" \in PlacementStates \ {"none"}
    BY DEF PlacementStates
  <2> QED
    BY <1>k, <1>b, <2>1, <2>2, <2>4, <2>5
<1>12. ASSUME NEW p \in Posts, UndoFails(p)
       PROVE  BracketTypes' /\ Stands' /\ Finite' /\ Placements'
  <2>1. /\ placement[p] = "undoing" /\ placement' = [placement EXCEPT ![p] = "cut"]
        /\ UNCHANGED <<broker, post, owner, legRow, market, deleted>> /\ breaks' \in 0..MaxBreaks
    BY <1>12, <1>u DEF UndoFails
  <2>2. market' = [market EXCEPT ![p] = market[p]] /\ placement'[p] = "cut"
    BY <1>t, <1>n, <2>1 DEF BracketTypes
  <2>3. PlacementStands(p)'
    BY <1>c, <2>1, <2>2
  <2>4. "cut" \in PlacementStates \ {"none"}
    BY DEF PlacementStates
  <2> QED
    BY <1>k, <1>b, <2>1, <2>2, <2>3, <2>4
<1>13. ASSUME NEW p \in Posts, NEW l \in Legs, LegFills(p, l)
       PROVE  BracketTypes' /\ Stands' /\ Finite' /\ Placements'
  <2> DEFINE of(k) == IF k = l THEN "filled"
                      ELSE IF broker # "futu" /\ {k, l} = Exits /\ market[p][k] = "open" THEN "cancelled"
                      ELSE market[p][k]
             orders == [k \in Legs |-> of(k)]
  <2>1. /\ market[p][l] = "open" /\ (broker = "futu" \/ l = "parent" \/ market[p]["parent"] = "filled")
        /\ market' = [market EXCEPT ![p] = orders]
        /\ UNCHANGED <<broker, post, owner, legRow, placement, deleted, breaks>>
    BY <1>13 DEF LegFills
  <2>2. LegsRequested(p) /\ placement[p] # "none"
    BY <1>b, <2>1 DEF PlacementStands, LegsRequested
  <2>3. \A k \in Legs : of(k) \in LegStates
    BY <1>b DEF LegStates
  <2>4. /\ orders \in [Legs -> LegStates] /\ \A k \in Legs : orders[k] = of(k)
    BY <2>3
  <2>5. \A k \in Legs : orders[k] = "none" <=> market[p][k] = "none"
    BY <2>1, <2>4
  <2>6. \A k \in Legs : (broker = "futu" \/ l = "parent") /\ k # l => orders[k] = market[p][k]
    BY <2>4 DEF Exits
  <2>7. broker # "futu" /\ l # "parent" => \A k \in Legs : orders[k] # "open"
    <3> SUFFICES ASSUME broker # "futu", l # "parent", NEW k \in Legs, k # l
                 PROVE  orders[k] # "open"
      BY <2>4
    <3>1. CASE k = "parent"
      BY <2>1, <2>4, <3>1
    <3>2. CASE k # "parent"
      <4>1. {k, l} = Exits
        BY <3>2 DEF Legs, Exits
      <4> QED
        BY <2>4, <4>1
    <3> QED
      BY <3>1, <3>2
  <2>8. orders[l] = "filled"
    BY <2>4
  <2> HIDE DEF orders, of
  <2>9. /\ placement' = [placement EXCEPT ![p] = placement[p]] /\ market'[p] = orders
        /\ placement'[p] = placement[p] /\ Requested(p)' = Requested(p) /\ Tried(p)' = Tried(p)
        /\ placement[p] \in PlacementStates \ {"none"}
    BY <1>t, <1>m, <1>v, <2>1, <2>2 DEF BracketTypes
  <2>10. Remaining(p)' = Remaining(p)
    BY <1>x, <2>5, <2>9 DEF Remaining, Tried
  <2>11. PlacementStands(p)'
    <3>1. PlacementStands(p)
      BY <1>b
    <3>2. LegsRequested(p)'
      BY <2>5, <2>9, <3>1 DEF PlacementStands, LegsRequested
    <3>3. PlacingStands(p)'
      BY <2>1, <2>5, <2>6, <2>8, <2>9, <2>10, <3>1 DEF PlacementStands, PlacingStands, Legs
    <3>4. PlacedStands(p)'
      BY <1>x, <2>5, <2>9, <3>1 DEF PlacementStands, PlacedStands
    <3>5. CASE broker = "futu" \/ l = "parent"
      <4>1. Working(p)' \subseteq Working(p) /\ Placed(p)' = Placed(p)
        BY <2>1, <2>6, <2>8, <2>9, <3>5 DEF Working, Placed
      <4> QED
        BY <2>9, <3>1, <3>2, <3>3, <3>4, <4>1 DEF PlacementStands, WholeStands
    <3>6. CASE broker # "futu" /\ l # "parent"
      <4>1. Working(p)' = {}
        BY <2>7, <2>9, <3>6 DEF Working
      <4> QED
        BY <3>2, <3>3, <3>4, <4>1 DEF PlacementStands, WholeStands
    <3> QED
      BY <3>5, <3>6
  <2>12. breaks' \in 0..MaxBreaks /\ \A k \in Legs : market[p][k] # "none" => orders[k] # "none"
    BY <1>b, <2>1, <2>5
  <2> QED
    BY <1>k, <2>1, <2>2, <2>4, <2>9, <2>11, <2>12
<1>14. CASE UNCHANGED bracketVars
  <2>1. \A r \in Posts : Requested(r)' = Requested(r)
    BY <1>14 DEF bracketVars, Requested
  <2>2. Placements'
    BY <1>14, <1>f DEF bracketVars
  <2> QED
    BY <1>t, <1>i, <1>14, <2>1, <2>2 DEF bracketVars, BracketTypes
<1> QED
  BY <1>1, <1>2, <1>3, <1>4, <1>5, <1>6, <1>7, <1>8, <1>9, <1>10, <1>11, <1>12, <1>13, <1>14
     DEF BracketNext

\* The POSTs of one client_order_id place one bracket for every one whose rows
\* were deleted and one more, a placement that has ended by itself is whole, and
\* a row that says so has been at the broker (orders_service.py: place_bracket,
\* and PlaceBracket of the sidecars).
THEOREM BracketsWhole == BracketSpec => []BracketIsWhole
<1>1. BracketSpec => []BracketInv
  BY BracketInitially, BracketStep, PTL DEF BracketSpec
<1> QED
  BY <1>1, BracketHeld, PTL

-----------------------------------------------------------------------------
(* Modifications.  A nonce is in Redis, with one call that took it, or     *)
(* used; and while nothing excuses a difference at most one call has       *)
(* written the row and not had its answer, and the row, the broker's order *)
(* and what the call read say how far it has come.                         *)

TookNonce(m) == mod[m].at \in {"nonce", "written"}
Active(m) == mod[m].at \in {"written", "sent"}

WantsTerms == \A m \in Modifies : mod[m].at # "idle" => mod[m].want \in Terms
MintedUnused == \A n \in Nonces : minted[n] # NoTerms =>
                   sends[n] = 0 /\ \A m \in Modifies : mod[m].nonce = n => ~TookNonce(m)
TakenUnused == \A m \in Modifies : TookNonce(m) => sends[mod[m].nonce] = 0
TakenOnce == \A m, k \in Modifies : TookNonce(m) /\ TookNonce(k) /\ mod[m].nonce = mod[k].nonce => m = k
SentByCall == \A n \in Nonces : sends[n] # 0 =>
                 \E m \in Modifies : mod[m].nonce = n /\ mod[m].at # "idle"

SentIsActive == \A m \in Modifies : rpc[m] = "sent" => mod[m].at = "sent"
UnsentHasNone == \A m \in Modifies : mod[m].at \in {"idle", "read", "nonce", "written"} => rpc[m] = "none"
ActiveAlone == \A m, k \in Modifies : Active(m) /\ Active(k) => m = k
WasApplied(m) == mod[m].at = "sent" /\ rpc[m] = "accepted"
ActiveStands ==
    \A m \in Modifies : Active(m) =>
        /\ order.terms = mod[m].want /\ order.id = mod[m].read.id
        /\ working.terms = IF WasApplied(m) THEN mod[m].want ELSE mod[m].read.terms
        /\ working.id = IF WasApplied(m) /\ ~inPlace THEN mod[m].read.id + 1 ELSE mod[m].read.id
RestAgrees == (\A m \in Modifies : ~Active(m)) =>
                 order.terms = working.terms /\ order.id = working.id
Unexcused == SentIsActive /\ ActiveAlone /\ ActiveStands /\ RestAgrees

ModifyInv ==
    /\ ModifyTypeOK
    /\ WantsTerms /\ MintedUnused /\ TakenUnused /\ TakenOnce /\ SentByCall /\ NonceSendsOnce
    /\ UnsentHasNone /\ (excuses = {} => Unexcused)

LEMMA ModifyInitially == ModifyInit => ModifyInv
<1> SUFFICES ASSUME ModifyInit PROVE ModifyInv
  OBVIOUS
<1> USE ModifyAssumption DEF ModifyInit
<1>1. Unasked.nonce \in Nonces /\ Unasked.at = "idle" /\ Unasked.want = FirstTerms
      /\ Unasked.read = [terms |-> FirstTerms, id |-> 1]
  BY DEF Unasked
<1>2. ModifyTypeOK
  BY <1>1 DEF ModifyTypeOK, NoTerms, AllTerms, Ids, Unasked
<1>3. \A m \in Modifies : mod[m].at = "idle" /\ rpc[m] = "none"
  BY <1>1
<1> QED
  BY <1>2, <1>3 DEF ModifyInv, WantsTerms, MintedUnused, TakenUnused, TakenOnce, SentByCall,
        NonceSendsOnce, UnsentHasNone, Unexcused, SentIsActive, ActiveAlone, ActiveStands,
        RestAgrees, TookNonce, Active, NoTerms

LEMMA ModifyHeld == ModifyInv => ModifyHolds
<1> SUFFICES ASSUME ModifyInv PROVE ModifyHolds
  OBVIOUS
<1>1. TermsAgree
  BY DEF ModifyInv, TermsAgree, AllAnswered, Unexcused, RestAgrees, Active
<1> QED
  BY <1>1 DEF ModifyInv, ModifyHolds

CallStates == {"idle", "read", "nonce", "written", "sent", "done"}
ModType == [at : CallStates, nonce : Nonces, want : AllTerms, read : [terms : AllTerms, id : Ids]]
RowType == [st : {"submitted", "modified", "inactive"} \cup Ended, terms : AllTerms, id : Ids]
WorkingType == [st : {"open"} \cup Ended, terms : AllTerms, id : Ids]

ModifyTypes ==
    /\ inPlace \in BOOLEAN /\ order \in RowType /\ working \in WorkingType
    /\ minted \in [Nonces -> AllTerms] /\ replay \in [Nonces -> BOOLEAN]
    /\ mod \in [Modifies -> ModType]
    /\ rpc \in [Modifies -> {"none", "sent", "accepted", "refused"}]
    /\ sends \in [Nonces -> Nat] /\ excuses \subseteq {"lost", "contract", "overlap"}
    /\ troubles \in 0..MaxTroubles

NonceSide == WantsTerms /\ MintedUnused /\ TakenUnused /\ TakenOnce /\ SentByCall /\ NonceSendsOnce
RowSide == UnsentHasNone /\ (excuses = {} => Unexcused)

LEMMA ModifyStep == ModifyInv /\ [ModifyNext]_modifyVars => ModifyInv'
<1> SUFFICES ASSUME ModifyInv, [ModifyNext]_modifyVars PROVE ModifyInv'
  OBVIOUS
<1> USE ModifyAssumption
<1>t. ModifyTypes
  BY DEF ModifyInv, ModifyTypeOK, ModifyTypes, CallStates, ModType, RowType, WorkingType
<1>i. NonceSide /\ RowSide
  BY DEF ModifyInv, NonceSide, RowSide
<1>q. SUFFICES ModifyTypes' /\ NonceSide' /\ RowSide'
  BY DEF ModifyInv, ModifyTypeOK, ModifyTypes, CallStates, ModType, RowType, WorkingType, NonceSide, RowSide
<1>u. Trouble => troubles' \in 0..MaxTroubles
  BY <1>t DEF Trouble, ModifyTypes
<1> DEFINE Keeps(m) == /\ mod'[m].nonce = mod[m].nonce /\ mod'[m].want = mod[m].want
                       /\ mod'[m].read = mod[m].read
           RestSame(m) == \A k \in Modifies \ {m} : mod'[k] = mod[k]
<1>m. ASSUME NEW m \in Modifies, NEW s \in CallStates, Moves(m, s)
      PROVE  mod' \in [Modifies -> ModType] /\ mod'[m].at = s /\ Keeps(m) /\ RestSame(m)
  <2>1. mod[m] \in ModType
    BY <1>t DEF ModifyTypes
  <2> DEFINE new == [mod[m] EXCEPT !.at = s]
  <2>2. new \in ModType /\ new.at = s /\ new.nonce = mod[m].nonce /\ new.want = mod[m].want
        /\ new.read = mod[m].read
    BY <2>1 DEF ModType
  <2>3. mod' = [mod EXCEPT ![m] = new]
    BY <1>m, <1>t DEF Moves, ModifyTypes
  <2> HIDE DEF new
  <2> QED
    BY <1>t, <2>2, <2>3 DEF ModifyTypes
\* A call that takes no nonce, while nonces stay as they are.
<1>n. ASSUME NEW m \in Modifies, mod[m].at # "idle", NEW s \in CallStates \ {"idle", "nonce"}, Moves(m, s),
             s = "written" => mod[m].at = "nonce", UNCHANGED <<minted, sends>>
      PROVE  NonceSide'
  <2>1. \A k \in Modifies : /\ mod'[k].nonce = mod[k].nonce /\ mod'[k].want = mod[k].want
                            /\ (mod'[k].at = "idle" <=> mod[k].at = "idle")
                            /\ (TookNonce(k)' => TookNonce(k))
    BY <1>m, <1>n DEF TookNonce
  <2> QED
    BY <1>i, <1>n, <2>1 DEF NonceSide, WantsTerms, MintedUnused, TakenUnused, TakenOnce, SentByCall, NonceSendsOnce
\* A call that stays away from the row and the broker.
<1>r. ASSUME UNCHANGED <<inPlace, order, working, rpc, excuses>>,
             \A k \in Modifies : \/ mod'[k] = mod[k]
                                 \/ mod[k].at \in {"idle", "read", "nonce"} /\ mod'[k].at \in {"read", "nonce", "done"}
      PROVE  RowSide'
  <2>1. \A k \in Modifies : /\ Active(k)' <=> Active(k)
                            /\ Active(k) => mod'[k] = mod[k]
                            /\ mod'[k].at = "sent" <=> mod[k].at = "sent"
                            /\ mod'[k].at \in {"idle", "read", "nonce", "written"}
                                  => mod[k].at \in {"idle", "read", "nonce", "written"}
    BY <1>r DEF Active
  <2>2. UnsentHasNone'
    BY <1>i, <1>r, <2>1 DEF RowSide, UnsentHasNone
  <2>3. excuses = {} => Unexcused'
    <3> SUFFICES ASSUME excuses = {} PROVE Unexcused'
      OBVIOUS
    <3> USE DEF Unexcused, RowSide
    <3>1. SentIsActive' /\ ActiveAlone'
      BY <1>i, <1>r, <2>1 DEF SentIsActive, ActiveAlone
    <3>2. ActiveStands'
      BY <1>i, <1>r, <2>1 DEF ActiveStands, WasApplied
    <3>3. RestAgrees'
      BY <1>i, <1>r, <2>1 DEF RestAgrees
    <3> QED
      BY <3>1, <3>2, <3>3
  <2> QED
    BY <1>r, <2>2, <2>3 DEF RowSide
<1> USE DEF ModifyTypes
<1>1. ASSUME NEW n \in Nonces, NEW t \in Terms, Preview(n, t)
      PROVE  ModifyTypes' /\ NonceSide' /\ RowSide'
  <2>1. /\ minted[n] = NoTerms /\ \A m \in Modifies : mod[m].nonce = n => mod[m].at = "idle"
        /\ minted' = [minted EXCEPT ![n] = t]
        /\ UNCHANGED <<inPlace, order, working, replay, mod, rpc, sends, excuses, troubles>>
    BY <1>1 DEF Preview, At
  <2>2. ModifyTypes'
    BY <1>t, <2>1 DEF AllTerms
  <2>3. sends[n] = 0 /\ \A m \in Modifies : mod[m].nonce = n => ~TookNonce(m)
    BY <1>i, <2>1 DEF NonceSide, SentByCall, TookNonce
  <2>4. NonceSide'
    BY <1>i, <1>t, <2>1, <2>3 DEF NonceSide, WantsTerms, MintedUnused, TakenUnused, TakenOnce, SentByCall, NonceSendsOnce, TookNonce
  <2> QED
    BY <1>r, <2>1, <2>2, <2>4
<1>2. ASSUME NEW n \in Nonces, NonceExpires(n)
      PROVE  ModifyTypes' /\ NonceSide' /\ RowSide'
  <2>1. /\ minted' = [minted EXCEPT ![n] = NoTerms]
        /\ UNCHANGED <<inPlace, order, working, replay, mod, rpc, sends, excuses, troubles>>
    BY <1>2 DEF NonceExpires
  <2>2. ModifyTypes'
    BY <1>t, <2>1 DEF AllTerms, NoTerms
  <2>4. NonceSide'
    BY <1>i, <1>t, <2>1 DEF NonceSide, WantsTerms, MintedUnused, TakenUnused, TakenOnce, SentByCall, NonceSendsOnce, TookNonce
  <2> QED
    BY <1>r, <2>1, <2>2, <2>4
<1>3. ASSUME NEW m \in Modifies, NEW n \in Nonces, NEW t \in Terms, ModifyBegin(m, n, t)
      PROVE  ModifyTypes' /\ NonceSide' /\ RowSide'
  <2> DEFINE new == [at |-> IF replay[n] \/ order.st \in Ended \cup {"inactive"} THEN "done" ELSE "read",
                     nonce |-> n, want |-> t, read |-> [terms |-> order.terms, id |-> order.id]]
  <2>1. /\ mod[m].at = "idle" /\ mod' = [mod EXCEPT ![m] = new]
        /\ UNCHANGED <<inPlace, order, working, minted, replay, rpc, sends, excuses, troubles>>
    BY <1>3 DEF ModifyBegin, At
  <2>2. /\ new.at \in {"done", "read"} /\ new.nonce = n /\ new.want = t
        /\ new \in ModType
    <3>1. order.terms \in AllTerms /\ order.id \in Ids /\ t \in AllTerms
      BY <1>t DEF RowType, AllTerms
    <3> QED
      BY <3>1 DEF ModType, CallStates
  <2> HIDE DEF new
  <2>3. mod'[m] = new /\ RestSame(m) /\ mod' \in [Modifies -> ModType]
    BY <1>t, <2>1, <2>2
  <2>4. ModifyTypes'
    BY <1>t, <2>1, <2>3
  <2>5. \A k \in Modifies : /\ TookNonce(k)' <=> TookNonce(k)
                            /\ TookNonce(k) => mod'[k] = mod[k]
                            /\ mod[k].at # "idle" => mod'[k] = mod[k]
    BY <2>1, <2>2, <2>3 DEF TookNonce
  <2>6. NonceSide'
    <3>1. WantsTerms'
      BY <1>i, <2>2, <2>3 DEF NonceSide, WantsTerms
    <3>2. MintedUnused' /\ TakenUnused' /\ TakenOnce'
      BY <1>i, <2>1, <2>5 DEF NonceSide, MintedUnused, TakenUnused, TakenOnce
    <3>3. SentByCall' /\ NonceSendsOnce'
      BY <1>i, <2>1, <2>5 DEF NonceSide, SentByCall, NonceSendsOnce
    <3> QED
      BY <3>1, <3>2, <3>3 DEF NonceSide
  <2>7. RowSide'
    BY <1>r, <2>1, <2>2, <2>3
  <2> QED
    BY <2>4, <2>6, <2>7
<1>4. ASSUME NEW m \in Modifies, ModifyBlocked(m)
      PROVE  ModifyTypes' /\ NonceSide' /\ RowSide'
  <2>1. /\ mod[m].at = "read" /\ Moves(m, "done") /\ "done" \in CallStates \ {"idle", "nonce"}
        /\ UNCHANGED <<inPlace, order, working, minted, replay, rpc, sends, excuses, troubles>>
    BY <1>4 DEF ModifyBlocked, At, CallStates
  <2>2. ModifyTypes'
    BY <1>t, <1>m, <2>1
  <2>3. NonceSide'
    BY <1>n, <2>1
  <2>4. RowSide'
    BY <1>r, <1>m, <2>1
  <2> QED
    BY <2>2, <2>3, <2>4
<1>5. ASSUME NEW m \in Modifies, ConsumeNonce(m)
      PROVE  ModifyTypes' /\ NonceSide' /\ RowSide'
  <2> DEFINE n == mod[m].nonce
             s == IF minted[n] = mod[m].want THEN "nonce" ELSE "done"
  <2>1. /\ mod[m].at = "read" /\ minted' = [minted EXCEPT ![n] = NoTerms] /\ Moves(m, s)
        /\ s \in CallStates /\ n \in Nonces
        /\ UNCHANGED <<inPlace, order, working, replay, rpc, sends, excuses, troubles>>
    BY <1>5, <1>t DEF ConsumeNonce, At, CallStates, ModType
  <2>2. mod' \in [Modifies -> ModType] /\ mod'[m].at = s /\ Keeps(m) /\ RestSame(m)
    BY <1>m, <2>1
  <2>3. ModifyTypes'
    BY <1>t, <2>1, <2>2 DEF AllTerms, NoTerms
  <2>4. s = "nonce" => /\ sends[n] = 0
                       /\ \A k \in Modifies : mod[k].nonce = n => ~TookNonce(k)
    BY <1>i, <1>t, <2>1 DEF NonceSide, MintedUnused, WantsTerms, NoTerms
  <2>5. \A k \in Modifies : /\ mod'[k].nonce = mod[k].nonce /\ mod'[k].want = mod[k].want
                            /\ (mod'[k].at = "idle" <=> mod[k].at = "idle")
                            /\ (TookNonce(k)' <=> TookNonce(k) \/ (k = m /\ s = "nonce"))
    BY <2>1, <2>2 DEF TookNonce
  <2> HIDE DEF s
  <2>6. NonceSide'
    <3>1. WantsTerms' /\ SentByCall' /\ NonceSendsOnce'
      BY <1>i, <2>1, <2>5 DEF NonceSide, WantsTerms, SentByCall, NonceSendsOnce
    <3>2. MintedUnused'
      BY <1>i, <1>t, <2>1, <2>5 DEF NonceSide, MintedUnused
    <3>3. TakenUnused' /\ TakenOnce'
      BY <1>i, <2>1, <2>4, <2>5 DEF NonceSide, TakenUnused, TakenOnce
    <3> QED
      BY <3>1, <3>2, <3>3 DEF NonceSide
  <2>7. s \in {"nonce", "done"}
    BY DEF s
  <2>8. RowSide'
    BY <1>r, <2>1, <2>2, <2>7
  <2> QED
    BY <2>3, <2>6, <2>8
\* Who has no rpc still has none.
<1>o. ASSUME NEW m \in Modifies, NEW s \in CallStates \ {"idle", "read", "nonce"}, Moves(m, s),
             s = "written" => mod[m].at = "nonce",
             rpc' = rpc \/ (s = "sent" /\ rpc' = [rpc EXCEPT ![m] = "sent"])
      PROVE  UnsentHasNone'
  BY <1>o, <1>t, <1>i, <1>m DEF RowSide, UnsentHasNone, CallStates
<1>6. ASSUME NEW m \in Modifies, WriteTerms(m)
      PROVE  ModifyTypes' /\ NonceSide' /\ RowSide'
  <2>1. /\ mod[m].at = "nonce" /\ order' = [order EXCEPT !.terms = mod[m].want]
        /\ excuses' = IF Others(m) # {} \/ [terms |-> order.terms, id |-> order.id] # mod[m].read
                      THEN excuses \cup {"overlap"} ELSE excuses
        /\ Moves(m, "written") /\ "written" \in CallStates \ {"idle", "nonce", "read"}
        /\ UNCHANGED <<inPlace, working, minted, replay, rpc, sends, troubles>>
    BY <1>6 DEF WriteTerms, At, CallStates
  <2>2. mod' \in [Modifies -> ModType] /\ mod'[m].at = "written" /\ Keeps(m) /\ RestSame(m)
    BY <1>m, <2>1
  <2>3. order' \in RowType /\ order'.terms = mod[m].want /\ order'.id = order.id
    <3>1. mod[m].want \in AllTerms
      BY <1>t DEF ModType
    <3> QED
      BY <1>t, <2>1, <3>1 DEF RowType
  <2>4. ModifyTypes'
    BY <1>t, <2>1, <2>2, <2>3
  <2>5. NonceSide'
    BY <1>n, <2>1
  <2>6. UnsentHasNone'
    BY <1>o, <2>1
  <2>7. ASSUME excuses' = {} PROVE Unexcused'
    <3>1. /\ excuses = {} /\ Others(m) = {}
          /\ mod[m].read.terms = order.terms /\ mod[m].read.id = order.id
      BY <2>1, <2>7
    <3>2. \A k \in Modifies : ~Active(k)
      BY <2>1, <3>1 DEF Others, Active
    <3>3. order.terms = working.terms /\ order.id = working.id /\ SentIsActive
      BY <1>i, <3>1, <3>2 DEF RowSide, Unexcused, RestAgrees
    <3>4. \A k \in Modifies : Active(k)' => k = m
      BY <2>2, <3>2 DEF Active
    <3>5. SentIsActive' /\ ActiveAlone' /\ RestAgrees'
      BY <2>1, <2>2, <3>3, <3>4 DEF SentIsActive, ActiveAlone, RestAgrees, Active
    <3>6. ActiveStands'
      BY <2>1, <2>2, <2>3, <3>1, <3>3, <3>4 DEF ActiveStands, WasApplied
    <3> QED
      BY <3>5, <3>6 DEF Unexcused
  <2> QED
    BY <2>4, <2>5, <2>6, <2>7 DEF RowSide
\* A call ends with an excuse.
<1>e. ASSUME NEW m \in Modifies, mod[m].at # "idle", Moves(m, "done"), excuses' # {},
             UNCHANGED <<minted, sends, rpc>>
      PROVE  NonceSide' /\ RowSide'
  <2>1. "done" \in CallStates \ {"idle", "nonce", "read"}
    BY DEF CallStates
  <2>2. NonceSide'
    BY <1>e, <1>n, <2>1
  <2>3. UnsentHasNone'
    BY <1>e, <1>o, <2>1
  <2> QED
    BY <1>e, <2>2, <2>3 DEF RowSide
<1>7. ASSUME NEW m \in Modifies, ContractFails(m)
      PROVE  ModifyTypes' /\ NonceSide' /\ RowSide'
  <2>1. /\ mod[m].at = "written" /\ excuses' = excuses \cup {"contract"} /\ Moves(m, "done")
        /\ troubles' \in 0..MaxTroubles /\ "done" \in CallStates
        /\ UNCHANGED <<inPlace, order, working, minted, replay, rpc, sends>>
    BY <1>7, <1>u DEF ContractFails, At, CallStates
  <2>2. ModifyTypes'
    BY <1>t, <1>m, <2>1
  <2> QED
    BY <1>e, <2>1, <2>2
<1>8. ASSUME NEW m \in Modifies, SendModify(m)
      PROVE  ModifyTypes' /\ NonceSide' /\ RowSide'
  <2> DEFINE n == mod[m].nonce
  <2>1. /\ mod[m].at = "written" /\ rpc' = [rpc EXCEPT ![m] = "sent"] /\ n \in Nonces
        /\ sends' = [sends EXCEPT ![n] = sends[n] + 1]
        /\ Moves(m, "sent") /\ "sent" \in CallStates \ {"idle", "nonce", "read"}
        /\ UNCHANGED <<inPlace, order, working, minted, replay, excuses, troubles>>
    BY <1>8, <1>t DEF SendModify, At, CallStates, ModType
  <2>2. mod' \in [Modifies -> ModType] /\ mod'[m].at = "sent" /\ Keeps(m) /\ RestSame(m)
    BY <1>m, <2>1
  <2>r. rpc' \in [Modifies -> {"none", "sent", "accepted", "refused"}]
    BY <1>t, <2>1
  <2>p. sends[n] + 1 \in Nat
    BY <1>t, <2>1
  <2> HIDE DEF n
  <2>s. sends' \in [Nonces -> Nat]
    BY <1>t, <2>1, <2>p
  <2> USE DEF n
  <2>3. ModifyTypes'
    BY <1>t, <2>1, <2>2, <2>r, <2>s
  <2>4. sends[n] = 0 /\ minted[n] = NoTerms /\ TookNonce(m)
        /\ \A k \in Modifies : TookNonce(k) /\ mod[k].nonce = n => k = m
    BY <1>i, <2>1 DEF NonceSide, TakenUnused, TakenOnce, MintedUnused, TookNonce
  <2>5. \A k \in Modifies : /\ mod'[k].nonce = mod[k].nonce /\ mod'[k].want = mod[k].want
                            /\ (mod'[k].at = "idle" <=> mod[k].at = "idle")
                            /\ (TookNonce(k)' <=> TookNonce(k) /\ k # m)
    BY <2>1, <2>2 DEF TookNonce
  <2>6. /\ sends'[n] = 1 /\ \A j \in Nonces : j # n => sends'[j] = sends[j]
    BY <1>t, <2>1, <2>4
  <2>7. NonceSide'
    <3>1. WantsTerms' /\ MintedUnused'
      BY <1>i, <2>1, <2>4, <2>5, <2>6 DEF NonceSide, WantsTerms, MintedUnused
    <3>2. TakenUnused' /\ TakenOnce'
      BY <1>i, <1>t, <2>1, <2>4, <2>5, <2>6 DEF NonceSide, TakenUnused, TakenOnce, ModType
    <3>3. SentByCall' /\ NonceSendsOnce'
      BY <1>i, <2>1, <2>5, <2>6 DEF NonceSide, SentByCall, NonceSendsOnce
    <3> QED
      BY <3>1, <3>2, <3>3 DEF NonceSide
  <2>8. UnsentHasNone'
    BY <1>o, <2>1
  <2>9. ASSUME excuses' = {} PROVE Unexcused'
    <3>1. Unexcused /\ Active(m) /\ ~WasApplied(m)
      BY <1>i, <2>1, <2>9 DEF RowSide, Active, WasApplied
    <3>2. \A k \in Modifies : Active(k)' <=> Active(k)
      BY <2>1, <2>2 DEF Active
    <3>3. rpc'[m] = "sent" /\ \A k \in Modifies \ {m} : rpc'[k] = rpc[k]
      BY <1>t, <2>1
    <3>4. SentIsActive' /\ ActiveAlone' /\ RestAgrees'
      BY <2>1, <2>2, <3>1, <3>2, <3>3 DEF Unexcused, SentIsActive, ActiveAlone, RestAgrees
    <3>5. ActiveStands'
      BY <2>1, <2>2, <3>1, <3>2, <3>3 DEF Unexcused, ActiveStands, ActiveAlone, WasApplied
    <3> QED
      BY <3>4, <3>5 DEF Unexcused
  <2> QED
    BY <2>3, <2>7, <2>8, <2>9 DEF RowSide
\* The broker's answers leave nonces and calls alone.
<1>b. ASSUME UNCHANGED <<minted, sends, mod>> PROVE NonceSide'
  BY <1>i, <1>b DEF NonceSide, WantsTerms, MintedUnused, TakenUnused, TakenOnce, SentByCall,
                    NonceSendsOnce, TookNonce
<1>9. ASSUME NEW m \in Modifies, BrokerModifies(m) \/ BrokerRefuses(m)
      PROVE  ModifyTypes' /\ NonceSide' /\ RowSide'
  <2>1. /\ rpc[m] = "sent" /\ troubles' \in 0..MaxTroubles
        /\ UNCHANGED <<inPlace, order, minted, replay, mod, sends, excuses>>
    BY <1>9, <1>t, <1>u DEF BrokerModifies, BrokerRefuses
  <2>2. NonceSide'
    BY <1>b, <2>1
  <2>3. excuses = {} => /\ Unexcused /\ mod[m].at = "sent" /\ Active(m) /\ ~WasApplied(m)
                        /\ \A k \in Modifies : Active(k) => k = m
    BY <1>i, <2>1 DEF RowSide, Unexcused, SentIsActive, ActiveAlone, Active, WasApplied
  <2>4. \A k \in Modifies : Active(k)' <=> Active(k)
    BY <2>1 DEF Active
  <2>5. mod[m].at \notin {"idle", "read", "nonce", "written"}
    BY <1>i, <2>1 DEF RowSide, UnsentHasNone
  <2>6. CASE rpc' = [rpc EXCEPT ![m] = "refused"] /\ UNCHANGED working
    <3>1. UnsentHasNone'
      BY <1>i, <2>1, <2>5, <2>6 DEF RowSide, UnsentHasNone
    <3>2. ModifyTypes'
      BY <1>t, <2>1, <2>6
    <3>3. ASSUME excuses' = {} PROVE Unexcused'
      <4>1. SentIsActive' /\ ActiveAlone' /\ RestAgrees'
        BY <1>t, <2>1, <2>3, <2>4, <2>6, <3>3 DEF Unexcused, SentIsActive, ActiveAlone, RestAgrees
      <4>2. ActiveStands'
        BY <1>t, <2>1, <2>3, <2>4, <2>6, <3>3 DEF Unexcused, ActiveStands, WasApplied
      <4> QED
        BY <4>1, <4>2 DEF Unexcused
    <3> QED
      BY <2>1, <2>2, <3>1, <3>2, <3>3 DEF RowSide
  <2>7. CASE /\ Modifiable(m) /\ rpc' = [rpc EXCEPT ![m] = "accepted"]
             /\ working' = [working EXCEPT !.terms = mod[m].want, !.id = IF inPlace THEN @ ELSE @ + 1]
    <3>1. UnsentHasNone'
      BY <1>i, <2>1, <2>5, <2>7 DEF RowSide, UnsentHasNone
    <3>2. /\ working' \in WorkingType /\ working'.terms = mod[m].want
          /\ working'.id = IF inPlace THEN working.id ELSE working.id + 1
      <4>1. working.id \in Ids /\ working.id + 1 \in Ids /\ mod[m].want \in AllTerms
        BY <1>t DEF WorkingType, ModType, Ids
      <4> QED
        BY <1>t, <2>7, <4>1 DEF WorkingType
    <3>3. ModifyTypes'
      BY <1>t, <2>1, <2>7, <3>2
    <3>4. ASSUME excuses' = {} PROVE Unexcused'
      <4>1. SentIsActive' /\ ActiveAlone' /\ RestAgrees'
        BY <1>t, <2>1, <2>3, <2>4, <2>7, <3>4 DEF Unexcused, SentIsActive, ActiveAlone, RestAgrees
      <4>2. ActiveStands'
        BY <1>t, <2>1, <2>3, <2>4, <2>7, <3>2, <3>4 DEF Unexcused, ActiveStands, WasApplied
      <4> QED
        BY <4>1, <4>2 DEF Unexcused
    <3> QED
      BY <2>1, <2>2, <3>1, <3>3, <3>4 DEF RowSide
  <2> QED
    BY <1>9, <2>6, <2>7 DEF BrokerModifies, BrokerRefuses
<1>10. ASSUME OrderEnds \/ EventArrives
       PROVE  ModifyTypes' /\ NonceSide' /\ RowSide'
  <2>1. /\ UNCHANGED <<inPlace, minted, replay, mod, rpc, sends, excuses, troubles>>
        /\ order' \in RowType /\ order'.terms = order.terms /\ order'.id = order.id
        /\ working' \in WorkingType /\ working'.terms = working.terms /\ working'.id = working.id
    <3>1. CASE OrderEnds
      <4>1. PICK st \in Ended : working' = [working EXCEPT !.st = st]
        BY <3>1 DEF OrderEnds
      <4> QED
        BY <1>t, <3>1, <4>1 DEF OrderEnds, WorkingType
    <3>2. CASE EventArrives
      <4>1. PICK st \in {"submitted", "inactive"} \cup Ended : order' = [order EXCEPT !.st = st]
        BY <3>2, <1>t DEF EventArrives, WorkingType
      <4> QED
        BY <1>t, <3>2, <4>1 DEF EventArrives, RowType
    <3> QED
      BY <1>10, <3>1, <3>2
  <2>2. ModifyTypes'
    BY <1>t, <2>1
  <2>3. RowSide'
    BY <1>i, <2>1 DEF RowSide, UnsentHasNone, Unexcused, SentIsActive, ActiveAlone, ActiveStands,
                      RestAgrees, Active, WasApplied
  <2> QED
    BY <1>b, <2>1, <2>2, <2>3
\* The answer that finds row and broker agreeing.
<1>a. ASSUME NEW m \in Modifies, mod[m].at = "sent", Moves(m, "done"),
             UNCHANGED <<inPlace, working, minted, rpc, sends, excuses>>,
             rpc[m] # "sent",
             Unexcused => order'.terms = working.terms /\ order'.id = working.id
      PROVE  NonceSide' /\ RowSide'
  <2>1. "done" \in CallStates \ {"idle", "nonce", "read"}
    BY DEF CallStates
  <2>2. NonceSide'
    BY <1>a, <1>n, <2>1
  <2>3. UnsentHasNone'
    BY <1>a, <1>o, <2>1
  <2>4. mod'[m].at = "done" /\ RestSame(m)
    BY <1>a, <1>m, <2>1
  <2>5. ASSUME excuses' = {} PROVE Unexcused'
    <3>1. Unexcused /\ \A k \in Modifies : Active(k) => k = m
      BY <1>a, <1>i, <2>5 DEF RowSide, Unexcused, ActiveAlone, Active
    <3>2. \A k \in Modifies : ~Active(k)'
      BY <2>4, <3>1 DEF Active
    <3>3. SentIsActive'
      BY <1>a, <2>4, <3>1 DEF Unexcused, SentIsActive
    <3> QED
      BY <1>a, <3>1, <3>2, <3>3 DEF Unexcused, ActiveAlone, ActiveStands, RestAgrees
  <2> QED
    BY <2>2, <2>3, <2>5 DEF RowSide
<1>11. ASSUME NEW m \in Modifies, ModifyAccepted(m)
       PROVE  ModifyTypes' /\ NonceSide' /\ RowSide'
  <2> DEFINE id == IF inPlace THEN mod[m].read.id ELSE mod[m].read.id + 1
  <2>1. /\ mod[m].at = "sent" /\ rpc[m] = "accepted" /\ Moves(m, "done")
        /\ order' = [order EXCEPT !.st = StatusAfter(order.st), !.id = id]
        /\ replay' = [replay EXCEPT ![mod[m].nonce] = TRUE]
        /\ UNCHANGED <<inPlace, working, minted, rpc, sends, excuses, troubles>>
    BY <1>11 DEF ModifyAccepted, At
  <2>2. id \in Ids /\ mod[m].nonce \in Nonces /\ "done" \in CallStates
    BY <1>t DEF ModType, Ids, CallStates
  <2>3. StatusAfter(order.st) \in {"submitted", "modified", "inactive"} \cup Ended
    BY <1>t DEF StatusAfter
  <2>4. order' \in RowType /\ order'.terms = order.terms /\ order'.id = id
    BY <1>t, <2>1, <2>2, <2>3 DEF RowType
  <2>5. ModifyTypes'
    BY <1>t, <1>m, <2>1, <2>2, <2>4
  <2>6. Unexcused => order'.terms = working.terms /\ order'.id = working.id
    BY <2>1, <2>4 DEF Unexcused, ActiveStands, Active, WasApplied
  <2> QED
    BY <1>a, <2>1, <2>5, <2>6
<1>s. ASSUME NEW m \in Modifies
      PROVE  Restored(m) \in RowType /\ Restored(m).terms = mod[m].read.terms /\ Restored(m).id = order.id
  <2>1. mod[m].read.terms \in AllTerms
    BY <1>t DEF ModType
  <2> QED
    BY <1>t, <2>1 DEF Restored, RowType
<1>12. ASSUME NEW m \in Modifies, ModifyRefused(m)
       PROVE  ModifyTypes' /\ NonceSide' /\ RowSide'
  <2>1. /\ mod[m].at = "sent" /\ rpc[m] = "refused" /\ Moves(m, "done") /\ order' = Restored(m)
        /\ UNCHANGED <<inPlace, working, minted, replay, rpc, sends, excuses, troubles>>
    BY <1>12 DEF ModifyRefused, At
  <2>2. "done" \in CallStates
    BY DEF CallStates
  <2>3. ModifyTypes'
    BY <1>t, <1>m, <1>s, <2>1, <2>2
  <2>4. Unexcused => order'.terms = working.terms /\ order'.id = working.id
    BY <1>s, <2>1 DEF Unexcused, ActiveStands, Active, WasApplied
  <2> QED
    BY <1>a, <2>1, <2>3, <2>4
<1>13. ASSUME NEW m \in Modifies, ModifyTimesOut(m)
       PROVE  ModifyTypes' /\ NonceSide' /\ RowSide'
  <2>1. /\ mod[m].at = "sent" /\ Moves(m, "done") /\ order' = Restored(m) /\ "done" \in CallStates
        /\ excuses' = excuses \cup {"lost"} /\ troubles' \in 0..MaxTroubles
        /\ UNCHANGED <<inPlace, working, minted, replay, rpc, sends>>
    BY <1>13, <1>u DEF ModifyTimesOut, At, CallStates
  <2>2. ModifyTypes'
    BY <1>t, <1>m, <1>s, <2>1
  <2> QED
    BY <1>e, <2>1, <2>2
<1>14. ASSUME NEW m \in Modifies, ModifyAbandoned(m)
       PROVE  ModifyTypes' /\ NonceSide' /\ RowSide'
  <2>1. /\ mod[m].at \in {"read", "nonce", "written", "sent"} /\ Moves(m, "done")
        /\ excuses' = IF mod[m].at \in {"written", "sent"} THEN excuses \cup {"lost"} ELSE excuses
        /\ troubles' \in 0..MaxTroubles /\ "done" \in CallStates \ {"idle", "nonce"}
        /\ UNCHANGED <<inPlace, order, working, minted, replay, rpc, sends>>
    BY <1>14, <1>u DEF ModifyAbandoned, CallStates
  <2>2. ModifyTypes'
    BY <1>t, <1>m, <2>1
  <2>3. CASE mod[m].at \in {"written", "sent"}
    BY <1>e, <2>1, <2>2, <2>3
  <2>4. CASE mod[m].at \in {"read", "nonce"}
    <3>1. NonceSide'
      BY <1>n, <2>1
    <3>2. mod'[m].at = "done" /\ RestSame(m)
      BY <1>m, <2>1
    <3>3. RowSide'
      BY <1>r, <2>1, <2>4, <3>2
    <3> QED
      BY <2>2, <3>1, <3>3
  <2> QED
    BY <2>1, <2>3, <2>4
<1>19. CASE UNCHANGED modifyVars
  <2>1. NonceSide'
    BY <1>i, <1>19 DEF modifyVars, NonceSide, WantsTerms, MintedUnused, TakenUnused, TakenOnce,
                       SentByCall, NonceSendsOnce, TookNonce
  <2>2. RowSide'
    BY <1>r, <1>19 DEF modifyVars
  <2> QED
    BY <1>t, <1>19, <2>1, <2>2 DEF modifyVars
<1> QED
  BY <1>1, <1>2, <1>3, <1>4, <1>5, <1>6, <1>7, <1>8, <1>9, <1>10, <1>11, <1>12, <1>13, <1>14, <1>19
     DEF ModifyNext

\* Whatever calls overlap, are lost or are refused, a nonce sends one ModifyOrder
\* at most, and once the calls are answered the row has the terms and the id of
\* the order that works, unless one of the named excuses parted them
\* (orders_service.py: modify_order, _restore_modify_baseline).
THEOREM RowFollowsOrder == ModifySpec => []ModifyHolds
<1>1. ModifySpec => []ModifyInv
  BY ModifyInitially, ModifyStep, PTL DEF ModifySpec
<1> QED
  BY <1>1, ModifyHeld, PTL

-----------------------------------------------------------------------------
(* AI requests.                                                            *)

\* A set of natural numbers has a least one.
LEMMA SmallestNumber ==
    ASSUME NEW T, T \subseteq Nat, T # {}
    PROVE  \E x \in T : \A y \in T : x <= y
<1>1. PICK x \in T : \A y \in T : <<y, x>> \notin OpToRel(<, Nat)
  BY NatLessThanWellFounded, WFMin
<1>2. \A y \in T : ~(y < x)
  BY <1>1 DEF OpToRel
<1> QED
  BY <1>2

Once(s) == \A i, j \in DOMAIN s : s[i] = s[j] => i = j

\* Joined sequences say each thing once if each does and they share nothing.
LEMMA JoinedOnce ==
    ASSUME NEW S, NEW s \in Seq(S), NEW t \in Seq(S)
    PROVE  /\ s \o t \in Seq(S) /\ ToSet(s \o t) = ToSet(s) \cup ToSet(t)
           /\ Once(s \o t) <=> Once(s) /\ Once(t) /\ ToSet(s) \cap ToSet(t) = {}
<1> DEFINE m == Len(s)
           n == Len(t)
           j == s \o t
<1>1. /\ m \in Nat /\ n \in Nat /\ DOMAIN s = 1..m /\ DOMAIN t = 1..n /\ DOMAIN j = 1..(m + n) /\ j \in Seq(S)
      /\ (\A k \in 1..m : j[k] = s[k]) /\ \A k \in 1..n : j[m + k] = t[k]
  OBVIOUS
<1> HIDE DEF j, m, n
<1>2. \A k \in 1..(m + n) : k \in 1..m \/ \E l \in 1..n : k = m + l
  <2> SUFFICES ASSUME NEW k \in 1..(m + n), ~(k \in 1..m) PROVE \E l \in 1..n : k = m + l
    OBVIOUS
  <2>1. k - m \in 1..n /\ k = m + (k - m)
    BY <1>1
  <2> QED
    BY <2>1
<1>3. (\A k \in 1..m : k \in 1..(m + n)) /\ \A k \in 1..n : m + k \in 1..(m + n) /\ m + k \notin 1..m
  BY <1>1
<1>4. ToSet(j) = ToSet(s) \cup ToSet(t)
  <2>1. \A x : x \in ToSet(j) => x \in ToSet(s) \cup ToSet(t)
    <3> SUFFICES ASSUME NEW k \in 1..(m + n) PROVE j[k] \in ToSet(s) \cup ToSet(t)
      BY <1>1 DEF ToSet
    <3>1. CASE k \in 1..m
      BY <1>1, <3>1 DEF ToSet
    <3>2. CASE \E l \in 1..n : k = m + l
      BY <1>1, <3>2 DEF ToSet
    <3> QED
      BY <1>2, <3>1, <3>2
  <2>2. \A x : x \in ToSet(s) => x \in ToSet(j)
    BY <1>1, <1>3 DEF ToSet
  <2>3. \A x : x \in ToSet(t) => x \in ToSet(j)
    BY <1>1, <1>3 DEF ToSet
  <2> QED
    BY <2>1, <2>2, <2>3
<1>5. Once(j) => Once(s) /\ Once(t) /\ ToSet(s) \cap ToSet(t) = {}
  <2> SUFFICES ASSUME Once(j) PROVE Once(s) /\ Once(t) /\ ToSet(s) \cap ToSet(t) = {}
    OBVIOUS
  <2>1. Once(s)
    BY <1>1, <1>3 DEF Once
  <2>2. Once(t)
    <3> SUFFICES ASSUME NEW k \in 1..n, NEW l \in 1..n, t[k] = t[l] PROVE k = l
      BY <1>1 DEF Once
    <3>1. m + k = m + l
      BY <1>1, <1>3 DEF Once
    <3> QED
      BY <1>1, <3>1
  <2>3. ASSUME NEW k \in 1..m, NEW l \in 1..n, s[k] = t[l] PROVE FALSE
    <3>1. k = m + l
      BY <1>1, <1>3, <2>3 DEF Once
    <3> QED
      BY <1>3, <3>1
  <2> QED
    BY <1>1, <2>1, <2>2, <2>3 DEF ToSet
<1>6. ASSUME Once(s), Once(t), ToSet(s) \cap ToSet(t) = {} PROVE Once(j)
  <2>0. \A k \in 1..m, l \in 1..n : s[k] # t[l]
    BY <1>1, <1>6 DEF ToSet
  <2> SUFFICES ASSUME NEW k \in 1..(m + n), NEW l \in 1..(m + n), j[k] = j[l] PROVE k = l
    BY <1>1 DEF Once
  <2>1. CASE k \in 1..m /\ l \in 1..m
    BY <1>1, <1>6, <2>1 DEF Once
  <2>2. ASSUME NEW a \in 1..n, k = m + a, NEW b \in 1..n, l = m + b PROVE k = l
    <3>1. t[a] = t[b]
      BY <1>1, <2>2
    <3> QED
      BY <1>1, <1>6, <2>2, <3>1 DEF Once
  <2>3. ASSUME NEW a \in 1..n, k = m + a, l \in 1..m PROVE FALSE
    BY <1>1, <2>0, <2>3
  <2>4. ASSUME NEW a \in 1..n, l = m + a, k \in 1..m PROVE FALSE
    BY <1>1, <2>0, <2>4
  <2> QED
    BY <1>2, <2>1, <2>2, <2>3, <2>4
<1> QED
  BY <1>1, <1>4, <1>5, <1>6 DEF j

\* A sequence of one.
LEMMA OneOnce ==
    ASSUME NEW S, NEW x \in S
    PROVE  <<x>> \in Seq(S) /\ ToSet(<<x>>) = {x} /\ Once(<<x>>)
BY DEF ToSet, Once

\* The first and the rest of a sequence.
LEMMA SplitOnce ==
    ASSUME NEW S, NEW s \in Seq(S), NEW n \in 0..Len(s)
    PROVE  LET a == SubSeq(s, 1, n)
               b == SubSeq(s, n + 1, Len(s))
           IN /\ a \in Seq(S) /\ b \in Seq(S) /\ ToSet(s) = ToSet(a) \cup ToSet(b)
              /\ Once(s) <=> Once(a) /\ Once(b) /\ ToSet(a) \cap ToSet(b) = {}
<1> DEFINE a == SubSeq(s, 1, n)
           b == SubSeq(s, n + 1, Len(s))
<1>1. a \in Seq(S) /\ b \in Seq(S) /\ Len(a) = n /\ Len(b) = Len(s) - n /\ Len(s) \in Nat /\ n \in Nat
      /\ (\A k \in 1..n : a[k] = s[k]) /\ \A k \in 1..(Len(s) - n) : b[k] = s[n + k]
  OBVIOUS
<1>2. s = a \o b
  <2> HIDE DEF a, b
  <2>1. a \o b \in Seq(S) /\ Len(a \o b) = Len(s)
    BY <1>1
  <2>2. \A k \in 1..Len(s) : (a \o b)[k] = s[k]
    <3> SUFFICES ASSUME NEW k \in 1..Len(s) PROVE (a \o b)[k] = s[k]
      OBVIOUS
    <3>1. CASE k <= n
      BY <1>1, <3>1
    <3>2. CASE ~(k <= n)
      <4>1. k - n \in 1..(Len(s) - n) /\ n + (k - n) = k
        BY <1>1, <3>2
      <4>2. (a \o b)[k] = b[k - n]
        BY <1>1, <3>2
      <4> QED
        BY <1>1, <4>1, <4>2
    <3> QED
      BY <3>1, <3>2
  <2> QED
    BY ONLY <1>1, <2>1, <2>2, s \in Seq(S), SeqEqual
<1> HIDE DEF a, b
<1>3. /\ ToSet(s) = ToSet(a) \cup ToSet(b)
      /\ Once(s) <=> Once(a) /\ Once(b) /\ ToSet(a) \cap ToSet(b) = {}
  BY <1>1, <1>2, JoinedOnce
<1> QED
  BY <1>1, <1>3 DEF a, b

\* Appended, and taken from the front.
LEMMA AppendOnce ==
    ASSUME NEW S, NEW s \in Seq(S), NEW x \in S
    PROVE  /\ Append(s, x) \in Seq(S) /\ ToSet(Append(s, x)) = ToSet(s) \cup {x}
           /\ Once(Append(s, x)) <=> Once(s) /\ x \notin ToSet(s)
<1>1. <<x>> \in Seq(S) /\ ToSet(<<x>>) = {x} /\ Once(<<x>>)
  BY OneOnce
<1>2. Append(s, x) = s \o <<x>> /\ Append(s, x) \in Seq(S)
  OBVIOUS
<1>3. /\ ToSet(s \o <<x>>) = ToSet(s) \cup ToSet(<<x>>)
      /\ Once(s \o <<x>>) <=> Once(s) /\ Once(<<x>>) /\ ToSet(s) \cap ToSet(<<x>>) = {}
  BY Zenon, <1>1, JoinedOnce
<1>4. ToSet(s) \cap {x} = {} <=> x \notin ToSet(s)
  OBVIOUS
<1> QED
  BY Zenon, <1>1, <1>2, <1>3, <1>4

LEMMA TailOnce ==
    ASSUME NEW S, NEW s \in Seq(S), s # <<>>
    PROVE  /\ Tail(s) \in Seq(S) /\ Head(s) \in S /\ ToSet(s) = {Head(s)} \cup ToSet(Tail(s))
           /\ Once(s) <=> Once(Tail(s)) /\ Head(s) \notin ToSet(Tail(s))
<1>1. Head(s) \in S /\ Tail(s) \in Seq(S)
  OBVIOUS
<1>2. <<Head(s)>> \in Seq(S) /\ ToSet(<<Head(s)>>) = {Head(s)} /\ Once(<<Head(s)>>)
  BY <1>1, OneOnce
<1>3. s = <<Head(s)>> \o Tail(s)
  <2>1. <<Head(s)>> \o Tail(s) \in Seq(S) /\ Len(<<Head(s)>> \o Tail(s)) = Len(s)
    BY <1>1
  <2>2. \A k \in 1..Len(s) : (<<Head(s)>> \o Tail(s))[k] = s[k]
    OBVIOUS
  <2> QED
    BY <2>1, <2>2
<1>4. /\ ToSet(<<Head(s)>> \o Tail(s)) = ToSet(<<Head(s)>>) \cup ToSet(Tail(s))
      /\ Once(<<Head(s)>> \o Tail(s)) <=> Once(<<Head(s)>>) /\ Once(Tail(s)) /\ ToSet(<<Head(s)>>) \cap ToSet(Tail(s)) = {}
  BY Zenon, <1>1, <1>2, JoinedOnce
<1>5. {Head(s)} \cap ToSet(Tail(s)) = {} <=> Head(s) \notin ToSet(Tail(s))
  OBVIOUS
<1> QED
  BY Zenon, <1>1, <1>2, <1>3, <1>4, <1>5

\* The providers a request may be sent to.
ProvidersFor(r) == IF r \in Private THEN Local ELSE Local \cup Cloud

\* Resolved, its local definition put in.
Kept(r, f, n) ==
    IF n = 0 THEN <<>>
    ELSE IF listed[n] \in Local \cup keys /\ (r \in Private => listed[n] \in Local)
      THEN Append(f[n - 1], listed[n])
      ELSE f[n - 1]
KeptOf(r) == CHOOSE f : f = [n \in 0..Len(listed) |-> Kept(r, f, n)]

\* The chain resolved has only providers the request may be sent to.
LEMMA ResolvedIs ==
    ASSUME NEW r, listed \in Seq(Local \cup Cloud), keys \subseteq Local \cup Cloud
    PROVE  Resolved(r) \in Seq(ProvidersFor(r))
<1> DEFINE N == Len(listed)
           Is(f, n) == f = [k \in 0..n |-> Kept(r, f, k)]
           Good(f, n) == \A k \in 0..n : f[k] \in Seq(ProvidersFor(r))
           T == {n \in 0..N : ~(\E f : Is(f, n) /\ Good(f, n))}
           G == KeptOf(r)
<1>1. Resolved(r) = G[N]
  BY Zenon DEF Resolved, KeptOf, Kept
<1>2. N \in Nat /\ \A n \in 1..N : listed[n] \in Local \cup Cloud
  OBVIOUS
<1>3. ASSUME NEW n \in 1..N, NEW f, f[n - 1] \in Seq(ProvidersFor(r)) PROVE Kept(r, f, n) \in Seq(ProvidersFor(r))
  <2>1. CASE listed[n] \in Local \cup keys /\ (r \in Private => listed[n] \in Local)
    <3>1. listed[n] \in ProvidersFor(r)
      BY <1>2, <2>1 DEF ProvidersFor
    <3>2. Append(f[n - 1], listed[n]) \in Seq(ProvidersFor(r))
      BY <1>3, <3>1
    <3> QED
      BY <2>1, <3>2 DEF Kept
  <2>2. CASE ~(listed[n] \in Local \cup keys /\ (r \in Private => listed[n] \in Local))
    BY <1>3, <2>2 DEF Kept
  <2> QED
    BY <2>1, <2>2
<1> HIDE DEF N
<1>4. T = {}
  <2> SUFFICES ASSUME T # {} PROVE FALSE
    OBVIOUS
  <2>1. PICK n \in T : \A y \in T : n <= y
    <3>1. T \subseteq Nat
      BY <1>2
    <3> HIDE DEF T
    <3> QED
      BY <3>1, SmallestNumber
  <2>2. n \in 0..N /\ n \in Nat /\ ~(\E f : Is(f, n) /\ Good(f, n))
    BY <1>2, <2>1
  <2>3. CASE n = 0
    <3>1. Is([k \in 0..0 |-> <<>>], 0) /\ Good([k \in 0..0 |-> <<>>], 0)
      BY DEF Kept
    <3> QED
      BY <2>2, <2>3, <3>1
  <2>4. CASE n # 0
    <3>1. n - 1 \in 0..N /\ n - 1 \notin T /\ n \in 1..N
      <4>1. n - 1 \in 0..N /\ n \in 1..N /\ ~(n <= n - 1)
        BY <1>2, <2>2, <2>4
      <4> HIDE DEF T
      <4> QED
        BY <2>1, <4>1
    <3>2. PICK f : Is(f, n - 1) /\ Good(f, n - 1)
      BY <3>1
    <3> DEFINE g == [k \in 0..n |-> IF k = n THEN Kept(r, f, n) ELSE f[k]]
    <3>3. \A k \in 0..(n - 1) : k \in 0..n /\ k # n
      BY <2>2
    <3>4. \A k \in 0..(n - 1) : g[k] = f[k] /\ f[k] = Kept(r, f, k)
      <4> SUFFICES ASSUME NEW k \in 0..(n - 1) PROVE g[k] = f[k] /\ f[k] = Kept(r, f, k)
        OBVIOUS
      <4>1. f[k] = Kept(r, f, k)
        BY <3>2
      <4> QED
        BY <3>3, <4>1
    <3>5. n - 1 \in 0..(n - 1) /\ n \in 0..n /\ g[n] = Kept(r, f, n)
      BY <2>2, <2>4
    <3>6. g[n - 1] = f[n - 1]
      BY <3>4, <3>5
    <3>7. g = [k \in 0..n |-> g[k]]
      OBVIOUS
    <3> HIDE DEF g
    <3>8. \A k \in 0..n : g[k] = Kept(r, g, k) /\ g[k] \in Seq(ProvidersFor(r))
      <4> SUFFICES ASSUME NEW k \in 0..n PROVE g[k] = Kept(r, g, k) /\ g[k] \in Seq(ProvidersFor(r))
        OBVIOUS
      <4>1. CASE k = n
        <5>1. Kept(r, f, n) = Kept(r, g, n)
          BY <2>4, <3>6 DEF Kept
        <5>2. f[n - 1] \in Seq(ProvidersFor(r))
          BY <3>2, <3>5
        <5>3. Kept(r, f, n) \in Seq(ProvidersFor(r))
          BY <1>3, <3>1, <5>2
        <5> QED
          BY <3>5, <4>1, <5>1, <5>3
      <4>2. CASE k # n
        <5>1. k \in 0..(n - 1) /\ (k # 0 => k - 1 \in 0..(n - 1))
          BY <2>2, <4>2
        <5>2. Kept(r, f, k) = Kept(r, g, k)
          BY <3>4, <5>1 DEF Kept
        <5> QED
          BY <3>2, <3>4, <5>1, <5>2
      <4> QED
        BY <4>1, <4>2
    <3>9. Is(g, n) /\ Good(g, n)
      BY <3>7, <3>8
    <3> QED
      BY <2>2, <3>9
  <2> QED
    BY <2>3, <2>4
<1>5. N \in 0..N
  BY <1>2
<1>6. PICK f : Is(f, N) /\ Good(f, N)
  BY <1>4, <1>5
<1>7. Is(G, N)
  BY <1>6 DEF KeptOf, N
<1>8. \A k \in 0..N : G[k] = Kept(r, G, k)
  <2> HIDE DEF G
  <2> QED
    BY <1>7
<1> DEFINE B == {k \in 0..N : G[k] \notin Seq(ProvidersFor(r))}
<1>9. B = {}
  <2> HIDE DEF G
  <2> SUFFICES ASSUME B # {} PROVE FALSE
    OBVIOUS
  <2>1. PICK n \in B : \A y \in B : n <= y
    <3>1. B \subseteq Nat
      BY <1>2
    <3> HIDE DEF B
    <3> QED
      BY <3>1, SmallestNumber
  <2>2. n \in 0..N /\ n \in Nat /\ G[n] \notin Seq(ProvidersFor(r)) /\ G[n] = Kept(r, G, n)
    BY <1>2, <1>8, <2>1
  <2>3. n # 0
    BY <2>2 DEF Kept
  <2>4. n - 1 \in 0..N /\ n \in 1..N /\ ~(n <= n - 1)
    BY <1>2, <2>2, <2>3
  <2>5. n - 1 \notin B
    <3> HIDE DEF B
    <3> QED
      BY <2>1, <2>4
  <2>6. G[n - 1] \in Seq(ProvidersFor(r))
    BY <2>4, <2>5
  <2> QED
    BY <1>3, <2>2, <2>4, <2>6
<1> QED
  BY <1>1, <1>5, <1>9

Stages == RequestEnds \cup {"idle", "outer", "routing", "inner", "walking", "calling"}

\* The requests: whom they may be sent to, and the permits they hold.
AskedInv ==
    /\ stage \in [Requests -> Stages] /\ hits \in 0..Burst
    /\ DOMAIN chain = Requests /\ \A r \in Requests : chain[r] \in Seq(ProvidersFor(r))
    /\ \A r \in Requests : stage[r] = "calling" => chain[r] # <<>>
    /\ keys \subseteq Local \cup Cloud /\ cached \subseteq Local \cup Cloud /\ listed \in Seq(Local \cup Cloud)
    /\ PrivateStaysLocal
    /\ Cardinality(OuterPermits) + Cardinality(InnerPermits) <= Slots

\* The records: where each is.
Somewhere == ToSet(queue) \cup ToSet(batch) \cup ToSet(drained) \cup ToSet(rows)
OnceInPlace ==
    /\ Once(queue) /\ Once(batch) /\ Once(drained) /\ Once(rows)
    /\ ToSet(queue) \cap (ToSet(batch) \cup ToSet(drained) \cup ToSet(rows)) = {}
    /\ ToSet(batch) \cap (ToSet(drained) \cup ToSet(rows)) = {}
    /\ ToSet(drained) \cap ToSet(rows) = {}
LedgerInv ==
    /\ queue \in Seq(Requests) /\ batch \in Seq(Requests) /\ drained \in Seq(Requests) /\ rows \in Seq(Requests)
    /\ ledger \in {"running", "closing", "stopping", "stopped"}
    /\ OnceInPlace
    /\ \A r \in Requests : stage[r] = "answered" <=> r \in Somewhere \cup excused

AiInv == AskedInv /\ LedgerInv

\* No more permits are held when no request takes one.
LEMMA PermitsReturned ==
    ASSUME AskedInv, OuterPermits' \subseteq OuterPermits, InnerPermits' \subseteq InnerPermits
    PROVE  Cardinality(OuterPermits') + Cardinality(InnerPermits') <= Slots
<1>1. IsFiniteSet(OuterPermits) /\ IsFiniteSet(InnerPermits)
  <2>1. OuterPermits \subseteq Requests /\ InnerPermits \subseteq Requests
    BY AiSetsAssumption DEF OuterPermits, InnerPermits
  <2> QED
    BY <2>1, AiSetsAssumption, FS_Subset
<1>2. IsFiniteSet(OuterPermits') /\ IsFiniteSet(InnerPermits')
  BY <1>1, FS_Subset
<1>3. Cardinality(OuterPermits') <= Cardinality(OuterPermits) /\ Cardinality(InnerPermits') <= Cardinality(InnerPermits)
  BY <1>1, FS_Subset
<1>4. /\ Cardinality(OuterPermits) \in Nat /\ Cardinality(InnerPermits) \in Nat
      /\ Cardinality(OuterPermits') \in Nat /\ Cardinality(InnerPermits') \in Nat
  BY <1>1, <1>2, FS_CardinalityType
<1> QED
  BY <1>3, <1>4, AiBoundAssumption DEF AskedInv

\* One permit is taken when there is one.
LEMMA PermitTaken ==
    ASSUME AskedInv, PermitFree, NEW r \in Requests,
           \/ OuterPermits' \subseteq OuterPermits \cup {r} /\ InnerPermits' \subseteq InnerPermits
           \/ OuterPermits' \subseteq OuterPermits /\ InnerPermits' \subseteq InnerPermits \cup {r}
    PROVE  Cardinality(OuterPermits') + Cardinality(InnerPermits') <= Slots
<1>1. IsFiniteSet(OuterPermits) /\ IsFiniteSet(InnerPermits)
  <2>1. OuterPermits \subseteq Requests /\ InnerPermits \subseteq Requests
    BY AiSetsAssumption DEF OuterPermits, InnerPermits
  <2> QED
    BY <2>1, AiSetsAssumption, FS_Subset
<1>2. ASSUME NEW S, IsFiniteSet(S), NEW R, R \subseteq S \cup {r}
      PROVE  Cardinality(R) \in Nat /\ Cardinality(S) \in Nat /\ Cardinality(R) <= Cardinality(S) + 1
  <2>1. IsFiniteSet(S \cup {r}) /\ Cardinality(S \cup {r}) <= Cardinality(S) + 1 /\ Cardinality(S) \in Nat
    <3>1. IsFiniteSet(S \cup {r}) /\ Cardinality(S \cup {r}) = IF r \in S THEN Cardinality(S) ELSE Cardinality(S) + 1
      BY <1>2, FS_AddElement
    <3>2. Cardinality(S) \in Nat
      BY <1>2, FS_CardinalityType
    <3> QED
      BY <3>1, <3>2
  <2>2. IsFiniteSet(R) /\ Cardinality(R) <= Cardinality(S \cup {r})
    BY <1>2, <2>1, FS_Subset
  <2>3. Cardinality(R) \in Nat /\ Cardinality(S \cup {r}) \in Nat
    BY <2>1, <2>2, FS_CardinalityType
  <2> QED
    BY <2>1, <2>2, <2>3
<1>3. ASSUME NEW S, IsFiniteSet(S), NEW R, R \subseteq S
      PROVE  Cardinality(R) \in Nat /\ Cardinality(S) \in Nat /\ Cardinality(R) <= Cardinality(S)
  BY <1>3, FS_Subset, FS_CardinalityType
<1>4. Slots \in Nat /\ Cardinality(OuterPermits) + Cardinality(InnerPermits) < Slots
  BY AiBoundAssumption DEF PermitFree
<1>5. CASE OuterPermits' \subseteq OuterPermits \cup {r} /\ InnerPermits' \subseteq InnerPermits
  <2>1. /\ Cardinality(OuterPermits') \in Nat /\ Cardinality(OuterPermits) \in Nat
        /\ Cardinality(OuterPermits') <= Cardinality(OuterPermits) + 1
    BY <1>1, <1>2, <1>5
  <2>2. /\ Cardinality(InnerPermits') \in Nat /\ Cardinality(InnerPermits) \in Nat
        /\ Cardinality(InnerPermits') <= Cardinality(InnerPermits)
    BY <1>1, <1>3, <1>5
  <2> QED
    BY <1>4, <2>1, <2>2
<1>6. CASE OuterPermits' \subseteq OuterPermits /\ InnerPermits' \subseteq InnerPermits \cup {r}
  <2>1. /\ Cardinality(InnerPermits') \in Nat /\ Cardinality(InnerPermits) \in Nat
        /\ Cardinality(InnerPermits') <= Cardinality(InnerPermits) + 1
    BY <1>1, <1>2, <1>6
  <2>2. /\ Cardinality(OuterPermits') \in Nat /\ Cardinality(OuterPermits) \in Nat
        /\ Cardinality(OuterPermits') <= Cardinality(OuterPermits)
    BY <1>1, <1>3, <1>6
  <2> QED
    BY <1>4, <2>1, <2>2
<1> QED
  BY <1>5, <1>6

\* A request goes on.
LEMMA AskedGoesOn ==
    ASSUME AskedInv, NEW r \in Requests, RequestSteps(r)
    PROVE  AskedInv'
<1>t. /\ stage \in [Requests -> Stages] /\ hits \in 0..Burst /\ Burst \in Nat
      /\ DOMAIN chain = Requests /\ \A q \in Requests : chain[q] \in Seq(ProvidersFor(q))
      /\ keys \subseteq Local \cup Cloud /\ cached \subseteq Local \cup Cloud /\ listed \in Seq(Local \cup Cloud)
      /\ PrivateStaysLocal /\ \A q \in Requests : stage[q] = "calling" => chain[q] # <<>>
  BY AiBoundAssumption DEF AskedInv
<1>1. PICK to \in Stages : Goes(r, to) \/ (TryNext(r) /\ UNCHANGED stage)
  BY DEF RequestSteps, Guard, TakeOuterPermit, CallRouter, Route, TakeInnerPermit, TryNext, Retryable, Refuse, Answer,
         Goes, Stages, RequestEnds
<1>2. stage' \in [Requests -> Stages] /\ \A q \in Requests : q # r => stage'[q] = stage[q]
  BY <1>t, <1>1 DEF Goes
<1>3. hits' \in 0..Burst /\ keys' = keys /\ listed' = listed
  BY <1>t DEF RequestSteps, Guard, TakeOuterPermit, CallRouter, Route, TakeInnerPermit, TryNext, Retryable, Refuse, Answer, settings
<1>4. /\ DOMAIN chain' = Requests /\ \A q \in Requests : chain'[q] \in Seq(ProvidersFor(q))
  <2>1. CASE chain' = chain
    BY <1>t, <2>1
  <2>2. CASE chain' = [chain EXCEPT ![r] = Resolved(r)]
    <3>1. Resolved(r) \in Seq(ProvidersFor(r))
      BY <1>t, ResolvedIs
    <3> QED
      BY <1>t, <2>2, <3>1
  <2>3. CASE chain[r] # <<>> /\ chain' = [chain EXCEPT ![r] = Tail(@)]
    <3>1. Tail(chain[r]) \in Seq(ProvidersFor(r))
      BY <1>t, <2>3
    <3> QED
      BY <1>t, <2>3, <3>1
  <2> QED
    BY <1>t, <2>1, <2>2, <2>3
       DEF RequestSteps, Guard, TakeOuterPermit, CallRouter, Route, TakeInnerPermit, TryNext, Retryable, Refuse, Answer
<1>5. \A q \in Requests : stage'[q] = "calling" => chain'[q] # <<>>
  <2>1. CASE TryNext(r)
    <3>1. \/ Goes(r, "unavailable") /\ chain' = chain
          \/ chain[r] # <<>> /\ Goes(r, "calling") /\ chain' = chain
          \/ stage' = stage /\ chain' = [chain EXCEPT ![r] = Tail(@)] /\ stage[r] = "walking"
      BY <2>1 DEF TryNext
    <3> QED
      BY <1>t, <3>1 DEF Goes
  <2>2. CASE Guard(r) \/ TakeOuterPermit(r) \/ CallRouter(r) \/ TakeInnerPermit(r) \/ Refuse(r) \/ Answer(r)
    <3>1. chain' = chain /\ \E at \in Stages \ {"calling"} : Goes(r, at)
      BY <2>2 DEF Guard, TakeOuterPermit, CallRouter, TakeInnerPermit, Refuse, Answer, Stages, RequestEnds
    <3> QED
      BY <1>t, <3>1 DEF Goes
  <2>3. CASE Route(r) \/ Retryable(r)
    <3>1. /\ \E at \in Stages \ {"calling"} : Goes(r, at)
          /\ \A q \in Requests : q # r => chain'[q] = chain[q]
      BY <1>t, <2>3 DEF Route, Retryable, Stages, RequestEnds
    <3> QED
      BY <1>t, <3>1 DEF Goes
  <2> QED
    BY <2>1, <2>2, <2>3 DEF RequestSteps
<1>6. cached' \subseteq Local \cup Cloud
  BY <1>t DEF RequestSteps, Guard, TakeOuterPermit, CallRouter, Route, TakeInnerPermit, TryNext, Retryable, Refuse, Answer, settings
<1>7. PrivateStaysLocal'
  <2>1. CASE sent' = sent
    BY <1>t, <2>1 DEF PrivateStaysLocal
  <2>2. CASE sent' # sent
    <3>1. chain[r] # <<>> /\ sent' = sent \cup {<<r, Head(chain[r])>>}
      BY <2>2 DEF RequestSteps, Guard, TakeOuterPermit, CallRouter, Route, TakeInnerPermit, TryNext, Retryable, Refuse, Answer
    <3>2. Head(chain[r]) \in ProvidersFor(r)
      BY <1>t, <3>1
    <3> QED
      BY <1>t, <3>1, <3>2 DEF PrivateStaysLocal, ProvidersFor
  <2> QED
    BY <2>1, <2>2
<1>8. Cardinality(OuterPermits') + Cardinality(InnerPermits') <= Slots
  <2>1. CASE TakeOuterPermit(r)
    <3>1. PermitFree /\ OuterPermits' \subseteq OuterPermits \cup {r} /\ InnerPermits' \subseteq InnerPermits
      BY <1>t, <2>1, AiSetsAssumption DEF TakeOuterPermit, Goes, OuterPermits, InnerPermits
    <3> QED
      BY <3>1, PermitTaken
  <2>2. CASE TakeInnerPermit(r)
    <3>1. PermitFree /\ OuterPermits' \subseteq OuterPermits /\ InnerPermits' \subseteq InnerPermits \cup {r}
      BY <1>t, <2>2, AiSetsAssumption DEF TakeInnerPermit, Goes, OuterPermits, InnerPermits
    <3> QED
      BY <3>1, PermitTaken
  <2>3. CASE ~TakeOuterPermit(r) /\ ~TakeInnerPermit(r)
    <3>1. \/ stage' = stage
          \/ stage'[r] \in {"outer", "inner", "limited", "unavailable", "answered"}
          \/ stage'[r] \in {"walking", "calling"} /\ stage[r] \in {"walking", "calling"}
          \/ stage'[r] = "routing" /\ r \notin Rest
      BY <1>t, <2>3 DEF RequestSteps, Guard, CallRouter, Route, TryNext, Retryable, Refuse, Answer, Goes
    <3>2. \A q \in Requests : stage'[q] \in {"walking", "calling"} => stage[q] \in {"walking", "calling"}
      BY <1>2, <3>1
    <3>3. \A q \in Rest : stage'[q] \in {"routing", "inner", "walking", "calling"}
                            => stage[q] \in {"routing", "inner", "walking", "calling"}
      <4>1. stage'[r] = "inner" => stage[r] = "routing"
        BY <1>t, <2>3 DEF RequestSteps, Guard, CallRouter, Route, TryNext, Retryable, Refuse, Answer, Goes
      <4> QED
        BY <1>2, <3>1, <4>1, AiSetsAssumption
    <3>4. OuterPermits' \subseteq OuterPermits /\ InnerPermits' \subseteq InnerPermits
      BY <3>2, <3>3 DEF OuterPermits, InnerPermits
    <3> QED
      BY <3>4, PermitsReturned
  <2> QED
    BY <2>1, <2>2, <2>3
<1>9. AskedInv'
  <2>1. (\A q \in Requests : chain'[q] \in Seq(ProvidersFor(q)'))
    BY <1>4 DEF ProvidersFor
  <2> QED
    BY <1>t, <1>2, <1>3, <1>4, <1>5, <1>6, <1>7, <1>8, <2>1 DEF AskedInv
<1> QED
  BY <1>9

\* What time, the operator and the ledger do leaves the requests alone.
LEMMA AskedStays ==
    ASSUME AskedInv, WindowPasses \/ (\E p \in Local \cup Cloud : KeyExpires(p)) \/ EditSettings \/ UNCHANGED <<requests, settings>>
    PROVE  AskedInv'
<1>1. /\ stage' = stage /\ chain' = chain /\ sent' = sent /\ hits' \in 0..Burst
      /\ keys' \subseteq Local \cup Cloud /\ cached' \subseteq Local \cup Cloud
  BY AiBoundAssumption DEF AskedInv, WindowPasses, KeyExpires, EditSettings, requests, settings
<1>2. listed' \in Seq(Local \cup Cloud)
  <2>1. CASE listed' = listed
    BY <2>1 DEF AskedInv
  <2>2. CASE listed' \in SetToSeqs(Local \cup Cloud)
    <3>1. Cardinality(Local \cup Cloud) \in Nat
      BY AiSetsAssumption, FS_CardinalityType
    <3>2. listed' \in [1..Cardinality(Local \cup Cloud) -> Local \cup Cloud]
      BY <2>2 DEF SetToSeqs
    <3> DEFINE n == Cardinality(Local \cup Cloud)
    <3> HIDE DEF n
    <3>3. listed' \in [1..n -> Local \cup Cloud] /\ n \in Nat
      BY <3>1, <3>2 DEF n
    <3> QED
      BY <3>3
  <2> QED
    BY <2>1, <2>2 DEF WindowPasses, KeyExpires, EditSettings, settings
<1>3. OuterPermits' = OuterPermits /\ InnerPermits' = InnerPermits
  BY <1>1 DEF OuterPermits, InnerPermits
<1>4. PrivateStaysLocal'
  BY <1>1 DEF AskedInv, PrivateStaysLocal
<1>5. \A r \in Requests : chain'[r] \in Seq(ProvidersFor(r)')
  BY <1>1 DEF AskedInv, ProvidersFor
<1> QED
  BY <1>1, <1>2, <1>3, <1>4, <1>5 DEF AskedInv


\* Where the records are is the same if they are only moved.
LEMMA LedgerMoves ==
    ASSUME LedgerInv, ledger' \in {"running", "closing", "stopping", "stopped"},
           queue' \in Seq(Requests), batch' \in Seq(Requests), drained' \in Seq(Requests), rows' \in Seq(Requests),
           OnceInPlace',
           stage' = stage, Somewhere' \cup excused' = Somewhere \cup excused
    PROVE  LedgerInv'
BY DEF LedgerInv

\* A completion is answered, and recorded unless the ledger stops.
LEMMA LedgerRecords ==
    ASSUME AskedInv, LedgerInv, NEW r \in Requests, Answer(r)
    PROVE  LedgerInv'
<1>t. /\ queue \in Seq(Requests) /\ batch \in Seq(Requests) /\ drained \in Seq(Requests) /\ rows \in Seq(Requests)
      /\ OnceInPlace /\ stage \in [Requests -> Stages]
  BY DEF LedgerInv, AskedInv
<1>1. stage[r] = "calling" /\ stage' = [stage EXCEPT ![r] = "answered"] /\ UNCHANGED <<batch, drained, ledger, rows>> /\ Record(r)
  BY DEF Answer, Goes
<1>2. r \notin Somewhere \cup excused
  BY <1>1 DEF LedgerInv
<1>3. \A q \in Requests : stage'[q] = "answered" <=> stage[q] = "answered" \/ q = r
  BY <1>1, <1>t
<1>4. /\ Somewhere' \cup excused' = Somewhere \cup excused \cup {r}
      /\ queue' \in Seq(Requests) /\ OnceInPlace'
  <2>1. CASE ledger # "running"
    <3>1. excused' = excused \cup {r} /\ queue' = queue
      BY <1>1, <2>1 DEF Record
    <3> QED
      BY <1>1, <1>t, <3>1 DEF Somewhere, OnceInPlace
  <2>2. CASE ledger = "running" /\ Len(queue) < QueueMax
    <3>1. queue' = Append(queue, r) /\ excused' = excused
      BY <1>1, <2>2 DEF Record
    <3>2. /\ queue' \in Seq(Requests) /\ ToSet(queue') = ToSet(queue) \cup {r}
          /\ Once(queue') <=> Once(queue) /\ r \notin ToSet(queue)
      BY <1>t, <3>1, AppendOnce
    <3> QED
      BY <1>1, <1>2, <1>t, <3>1, <3>2 DEF Somewhere, OnceInPlace
  <2>3. CASE ledger = "running" /\ ~(Len(queue) < QueueMax)
    <3>1. queue' = Append(Tail(queue), r) /\ excused' = excused \cup {Head(queue)} /\ queue # <<>>
      BY <1>1, <1>t, <2>3, AiBoundAssumption DEF Record
    <3>2. /\ Tail(queue) \in Seq(Requests) /\ ToSet(queue) = {Head(queue)} \cup ToSet(Tail(queue))
          /\ Once(queue) <=> Once(Tail(queue)) /\ Head(queue) \notin ToSet(Tail(queue))
      BY <1>t, <3>1, TailOnce
    <3>3. /\ queue' \in Seq(Requests) /\ ToSet(queue') = ToSet(Tail(queue)) \cup {r}
          /\ Once(queue') <=> Once(Tail(queue)) /\ r \notin ToSet(Tail(queue))
      BY <3>1, <3>2, AppendOnce
    <3>4. Once(queue') /\ ToSet(queue') \subseteq ToSet(queue) \cup {r}
      BY <1>2, <1>t, <3>2, <3>3 DEF Somewhere, OnceInPlace
    <3>5. Somewhere' \cup excused' = Somewhere \cup excused \cup {r}
      BY <1>1, <3>1, <3>2, <3>3 DEF Somewhere
    <3>6. OnceInPlace'
      BY <1>1, <1>2, <1>t, <3>4 DEF Somewhere, OnceInPlace
    <3> QED
      BY <3>3, <3>5, <3>6
  <2> QED
    BY <2>1, <2>2, <2>3
<1> QED
  BY <1>1, <1>3, <1>4, <1>t DEF LedgerInv

\* The queue's front, taken.
LEMMA LedgerTakes ==
    ASSUME LedgerInv, queue # <<>>
    PROVE  LET a == SubSeq(queue, 1, Taken)
               b == SubSeq(queue, Taken + 1, Len(queue))
           IN /\ a \in Seq(Requests) /\ b \in Seq(Requests) /\ ToSet(queue) = ToSet(a) \cup ToSet(b)
              /\ Once(a) /\ Once(b) /\ ToSet(a) \cap ToSet(b) = {}
<1>1. Taken \in 0..Len(queue) /\ queue \in Seq(Requests) /\ Once(queue)
  BY AiBoundAssumption DEF Taken, LedgerInv, OnceInPlace
<1> HIDE DEF Taken
<1> QED
  BY Zenon, <1>1, SplitOnce

\* A batch is written, or not, or nobody knows.
LEMMA LedgerStep ==
    ASSUME LedgerInv, Collect \/ Flush \/ Stop \/ Drain \/ FlushDrained \/ Stopped
    PROVE  LedgerInv'
<1>t. /\ queue \in Seq(Requests) /\ batch \in Seq(Requests) /\ drained \in Seq(Requests) /\ rows \in Seq(Requests)
      /\ OnceInPlace /\ ledger \in {"running", "closing", "stopping", "stopped"}
  BY DEF LedgerInv
<1>0. stage' = stage
  BY DEF Collect, Flush, Stop, Drain, FlushDrained, Stopped, requests
<1>e. <<>> \in Seq(Requests) /\ ToSet(<<>>) = {} /\ Once(<<>>)
  BY DEF ToSet, Once
<1>r. \A b \in Seq(Requests) : /\ rows \o b \in Seq(Requests) /\ ToSet(rows \o b) = ToSet(rows) \cup ToSet(b)
                               /\ Once(rows \o b) <=> Once(rows) /\ Once(b) /\ ToSet(rows) \cap ToSet(b) = {}
  BY Zenon, <1>t, JoinedOnce
<1>1. CASE Collect
  <2> DEFINE a == SubSeq(queue, 1, Taken)
             b == SubSeq(queue, Taken + 1, Len(queue))
  <2>1. batch = <<>> /\ batch' = a /\ queue' = b /\ queue # <<>> /\ UNCHANGED <<drained, rows, excused>>
        /\ ledger' \in {"running", "closing", "stopping", "stopped"}
    BY <1>1, <1>t DEF Collect
  <2>2. /\ a \in Seq(Requests) /\ b \in Seq(Requests) /\ ToSet(queue) = ToSet(a) \cup ToSet(b)
        /\ Once(a) /\ Once(b) /\ ToSet(a) \cap ToSet(b) = {}
    BY <2>1, LedgerTakes
  <2> HIDE DEF a, b
  <2> QED
    BY <1>0, <1>e, <1>t, <2>1, <2>2, LedgerMoves DEF OnceInPlace, Somewhere
<1>2. CASE Drain
  <2> DEFINE a == SubSeq(queue, 1, Taken)
             b == SubSeq(queue, Taken + 1, Len(queue))
  <2>1. drained = <<>> /\ drained' = a /\ queue' = b /\ queue # <<>> /\ UNCHANGED <<batch, rows, excused, ledger>>
    BY <1>2 DEF Drain
  <2>2. /\ a \in Seq(Requests) /\ b \in Seq(Requests) /\ ToSet(queue) = ToSet(a) \cup ToSet(b)
        /\ Once(a) /\ Once(b) /\ ToSet(a) \cap ToSet(b) = {}
    BY <2>1, LedgerTakes
  <2> HIDE DEF a, b
  <2> QED
    BY <1>0, <1>e, <1>t, <2>1, <2>2, LedgerMoves DEF OnceInPlace, Somewhere
<1>3. CASE Flush
  <2>1. /\ batch' = <<>> /\ UNCHANGED <<drained, ledger, queue>>
        /\ \/ rows' = rows \o batch /\ excused' = excused
           \/ rows' = rows /\ excused' = excused \cup ToSet(batch)
    BY <1>3 DEF Flush, Written
  <2>2. /\ rows \o batch \in Seq(Requests) /\ ToSet(rows \o batch) = ToSet(rows) \cup ToSet(batch)
        /\ Once(rows \o batch)
    BY <1>r, <1>t DEF OnceInPlace
  <2>3. rows' \in Seq(Requests) /\ OnceInPlace'
    BY <1>e, <1>t, <2>1, <2>2 DEF OnceInPlace
  <2>4. Somewhere' \cup excused' = Somewhere \cup excused
    BY <1>e, <2>1, <2>2 DEF Somewhere
  <2> QED
    BY <1>0, <1>e, <1>t, <2>1, <2>3, <2>4, LedgerMoves
<1>4. CASE FlushDrained
  <2>1. /\ drained' = <<>> /\ UNCHANGED <<batch, ledger, queue>>
        /\ \/ rows' = rows \o drained /\ excused' = excused
           \/ rows' = rows /\ excused' = excused \cup ToSet(drained)
    BY <1>4 DEF FlushDrained, Written
  <2>2. /\ rows \o drained \in Seq(Requests) /\ ToSet(rows \o drained) = ToSet(rows) \cup ToSet(drained)
        /\ Once(rows \o drained)
    BY <1>r, <1>t DEF OnceInPlace
  <2>3. rows' \in Seq(Requests) /\ OnceInPlace'
    BY <1>e, <1>t, <2>1, <2>2 DEF OnceInPlace
  <2>4. Somewhere' \cup excused' = Somewhere \cup excused
    BY <1>e, <2>1, <2>2 DEF Somewhere
  <2> QED
    BY <1>0, <1>e, <1>t, <2>1, <2>3, <2>4, LedgerMoves
<1>5. CASE Stop
  <2>1. UNCHANGED <<queue, batch, drained, rows, excused>> /\ ledger' \in {"closing", "stopping"}
    BY <1>5 DEF Stop
  <2> QED
    BY <1>0, <1>t, <2>1, LedgerMoves DEF OnceInPlace, Somewhere
<1>6. CASE Stopped
  <2>1. PICK b \in {<<>>, batch}, d \in {<<>>, drained} : rows' = rows \o b \o d
    BY <1>6 DEF Stopped
  <2>2. /\ ledger' = "stopped" /\ excused' = excused \cup ToSet(queue \o drained \o batch)
        /\ queue' = <<>> /\ drained' = <<>> /\ batch' = <<>>
    BY <1>6 DEF Stopped
  <2>3. ToSet(queue \o drained \o batch) = ToSet(queue) \cup ToSet(drained) \cup ToSet(batch)
    <3>1. queue \o drained \in Seq(Requests) /\ ToSet(queue \o drained) = ToSet(queue) \cup ToSet(drained)
      BY <1>t, JoinedOnce
    <3>2. ToSet((queue \o drained) \o batch) = ToSet(queue \o drained) \cup ToSet(batch)
      BY Zenon, <1>t, <3>1, JoinedOnce
    <3> QED
      BY Zenon, <3>1, <3>2
  <2>4. b \in Seq(Requests) /\ d \in Seq(Requests) /\ Once(b) /\ Once(d) /\ ToSet(b) \subseteq ToSet(batch) /\ ToSet(d) \subseteq ToSet(drained)
    BY <1>e, <1>t DEF OnceInPlace
  <2>5. /\ rows \o b \in Seq(Requests) /\ ToSet(rows \o b) = ToSet(rows) \cup ToSet(b)
        /\ Once(rows \o b) <=> Once(rows) /\ Once(b) /\ ToSet(rows) \cap ToSet(b) = {}
    BY <1>r, <2>4
  <2>6. /\ (rows \o b) \o d \in Seq(Requests) /\ ToSet((rows \o b) \o d) = ToSet(rows \o b) \cup ToSet(d)
        /\ Once((rows \o b) \o d) <=> Once(rows \o b) /\ Once(d) /\ ToSet(rows \o b) \cap ToSet(d) = {}
    BY Zenon, <2>4, <2>5, JoinedOnce
  <2>7. rows' \in Seq(Requests) /\ ToSet(rows') = ToSet(rows) \cup ToSet(b) \cup ToSet(d)
    BY <2>1, <2>5, <2>6
  <2>8. Once(rows')
    BY <1>t, <2>1, <2>4, <2>5, <2>6 DEF OnceInPlace
  <2>9. OnceInPlace'
    BY <1>e, <2>2, <2>8 DEF OnceInPlace
  <2>10. Somewhere' \cup excused' = Somewhere \cup excused
    BY <1>e, <2>2, <2>3, <2>4, <2>7 DEF Somewhere
  <2> QED
    BY <1>0, <1>e, <2>2, <2>7, <2>9, <2>10, LedgerMoves
<1> QED
  BY <1>1, <1>2, <1>3, <1>4, <1>5, <1>6

LEMMA AiInitially == AiInit => AiInv
<1> SUFFICES ASSUME AiInit PROVE AiInv
  OBVIOUS
<1>1. listed \in Seq(Local \cup Cloud)
  <2> DEFINE P == Local \cup Cloud
             n == Cardinality(P)
  <2>1. n \in Nat /\ ExistsBijection(1..n, P)
    BY AiSetsAssumption, FS_CardinalityType
  <2>2. \E f \in [1..n -> P] : IsInjective(f)
    <3> HIDE DEF n, P
    <3>1. PICK f : f \in Bijection(1..n, P)
      BY <2>1 DEF ExistsBijection
    <3>2. f \in [1..n -> P] /\ IsInjective(f)
      BY <3>1 DEF Bijection, Injection, IsInjective
    <3> QED
      BY <3>2
  <2>3. listed \in [1..n -> P]
    BY <2>2 DEF AiInit, SetToSeq
  <2> HIDE DEF n
  <2> QED
    BY <2>1, <2>3
<1>2. /\ stage = [r \in Requests |-> "idle"] /\ chain = [r \in Requests |-> <<>>] /\ sent = {} /\ hits = 0
      /\ keys = Local \cup Cloud /\ cached = {}
      /\ queue = <<>> /\ batch = <<>> /\ drained = <<>> /\ ledger = "running" /\ rows = <<>> /\ excused = {}
  BY DEF AiInit
<1>3. OuterPermits = {} /\ InnerPermits = {}
  BY <1>2, AiSetsAssumption DEF OuterPermits, InnerPermits
<1>4. Cardinality(OuterPermits) + Cardinality(InnerPermits) <= Slots
  BY <1>3, FS_EmptySet, AiBoundAssumption
<1>5. AskedInv
  BY <1>1, <1>2, <1>4, AiBoundAssumption DEF AskedInv, PrivateStaysLocal, Stages
<1>6. LedgerInv
  BY <1>2 DEF LedgerInv, OnceInPlace, Somewhere, ToSet, Once
<1> QED
  BY <1>5, <1>6 DEF AiInv

LEMMA AiStep == AiInv /\ [AiNext]_aiVars => AiInv'
<1> SUFFICES ASSUME AskedInv, LedgerInv, [AiNext]_aiVars PROVE AskedInv' /\ LedgerInv'
  BY DEF AiInv
<1>s. ASSUME UNCHANGED accounts, \A r \in Requests : stage'[r] = "answered" <=> stage[r] = "answered"
      PROVE  LedgerInv'
  BY <1>s DEF LedgerInv, accounts, OnceInPlace, Somewhere
<1>1. CASE \E r \in Requests : RequestSteps(r)
  <2>1. PICK r \in Requests : RequestSteps(r)
    BY <1>1
  <2>2. CASE Answer(r)
    BY <2>1, <2>2, AskedGoesOn, LedgerRecords
  <2>3. CASE ~Answer(r)
    <3>1. UNCHANGED accounts /\ stage \in [Requests -> Stages]
      BY <2>1, <2>3 DEF RequestSteps, Guard, TakeOuterPermit, CallRouter, Route, TakeInnerPermit, TryNext, Retryable, Refuse, AskedInv
    <3>2. \A q \in Requests : stage'[q] = "answered" <=> stage[q] = "answered"
      BY <2>1, <2>3, <3>1
         DEF RequestSteps, Guard, TakeOuterPermit, CallRouter, Route, TakeInnerPermit, TryNext, Retryable, Refuse, Goes
    <3> QED
      BY <1>s, <2>1, <3>1, <3>2, AskedGoesOn
  <2> QED
    BY <2>2, <2>3
<1>2. CASE WindowPasses \/ (\E p \in Local \cup Cloud : KeyExpires(p)) \/ EditSettings
  <2>1. UNCHANGED accounts /\ stage' = stage
    BY <1>2 DEF WindowPasses, KeyExpires, EditSettings, requests
  <2> QED
    BY <1>2, <1>s, <2>1, AskedStays
<1>3. CASE Collect \/ Flush \/ Stop \/ Drain \/ FlushDrained \/ Stopped
  <2>1. UNCHANGED <<requests, settings>>
    BY <1>3 DEF Collect, Flush, Stop, Drain, FlushDrained, Stopped
  <2> QED
    BY <1>3, <2>1, AskedStays, LedgerStep
<1>4. CASE UNCHANGED aiVars
  <2>1. UNCHANGED <<requests, settings>> /\ UNCHANGED accounts /\ stage' = stage
    BY <1>4 DEF aiVars, requests
  <2> QED
    BY <1>s, <2>1, AskedStays
<1> QED
  BY <1>1, <1>2, <1>3, <1>4 DEF AiNext

LEMMA AiInvHolds == AiInv => AiHolds
<1> SUFFICES ASSUME AskedInv, LedgerInv PROVE AiHolds
  BY DEF AiInv
<1>1. AiTypeOK
  <2>1. ASSUME NEW r \in Requests PROVE ToSet(chain[r]) \subseteq Local \cup Cloud
    BY DEF AskedInv, ToSet, ProvidersFor
  <2> QED
    BY <2>1 DEF AiTypeOK, AskedInv, LedgerInv, Stages
<1>2. CallsBounded
  <2> DEFINE C == {r \in Requests : stage[r] = "calling"}
  <2>1. OuterPermits \subseteq Requests /\ InnerPermits \subseteq Requests /\ C \subseteq InnerPermits
    BY AiSetsAssumption DEF OuterPermits, InnerPermits
  <2>2. IsFiniteSet(OuterPermits) /\ IsFiniteSet(InnerPermits) /\ IsFiniteSet(C) /\ Cardinality(C) <= Cardinality(InnerPermits)
    BY <2>1, AiSetsAssumption, FS_Subset
  <2>3. Cardinality(OuterPermits) \in Nat /\ Cardinality(InnerPermits) \in Nat /\ Cardinality(C) \in Nat
    BY <2>2, FS_CardinalityType
  <2> QED
    BY <2>2, <2>3, AiBoundAssumption DEF CallsBounded, AskedInv
<1>3. ToSet(Recorded) = Somewhere /\ Once(Recorded)
  <2>t. queue \in Seq(Requests) /\ batch \in Seq(Requests) /\ drained \in Seq(Requests) /\ rows \in Seq(Requests) /\ OnceInPlace
    BY DEF LedgerInv
  <2> DEFINE A == queue \o batch
             B == A \o drained
             C == B \o rows
  <2>1. A \in Seq(Requests) /\ ToSet(A) = ToSet(queue) \cup ToSet(batch)
        /\ (Once(A) <=> Once(queue) /\ Once(batch) /\ ToSet(queue) \cap ToSet(batch) = {})
    BY Zenon, <2>t, JoinedOnce
  <2> HIDE DEF A
  <2>2. B \in Seq(Requests) /\ ToSet(B) = ToSet(A) \cup ToSet(drained)
        /\ (Once(B) <=> Once(A) /\ Once(drained) /\ ToSet(A) \cap ToSet(drained) = {})
    BY Zenon, <2>t, <2>1, JoinedOnce
  <2> HIDE DEF B
  <2>3. /\ ToSet(C) = ToSet(B) \cup ToSet(rows)
        /\ Once(C) <=> Once(B) /\ Once(rows) /\ ToSet(B) \cap ToSet(rows) = {}
    BY Zenon, <2>t, <2>2, JoinedOnce
  <2>4. Recorded = C
    BY DEF Recorded, A, B
  <2> HIDE DEF C
  <2> QED
    BY <2>t, <2>1, <2>2, <2>3, <2>4 DEF OnceInPlace, Somewhere
<1>4. RecordedOnce /\ AnswersRecorded
  BY <1>3 DEF RecordedOnce, IsInjective, Once, AnswersRecorded, LedgerInv
<1> QED
  BY <1>1, <1>2, <1>4 DEF AiHolds, AskedInv

\* An AI request that must stay local goes to no cloud, the calls under way keep
\* within the slots, and a completion is recorded once, and not lost but for an
\* overflow, a failed INSERT or a stop (capabilities.py, router.py,
\* cost_ledger.py).
THEOREM CompletionsAreRecordedOnce == AiSpec => []AiHolds
<1>1. AiSpec => []AiInv
  BY AiInitially, AiStep, PTL DEF AiSpec
<1> QED
  BY <1>1, AiInvHolds, PTL

-----------------------------------------------------------------------------
(* The pace of historical requests: tokens are counted in Windows, so that *)
(* what has accrued is a whole number of them, Capacity to a tick.         *)

\* What division rounds down.
LEMMA DivIs ==
    ASSUME NEW a \in Nat, NEW b \in Nat \ {0}
    PROVE  /\ a \div b \in Nat /\ b * (a \div b) \in Nat
           /\ b * (a \div b) <= a /\ a < b * (a \div b) + b
OBVIOUS

LEMMA TimesLess ==
    ASSUME NEW b \in Nat \ {0}, NEW k \in Int, NEW m \in Int, b * k < b * m
    PROVE  k < m
OBVIOUS

LEMMA TimesAdds ==
    ASSUME NEW b \in Int, NEW k \in Int, NEW m \in Int
    PROVE  /\ b * (k + m) = b * k + b * m /\ b * (k - m) = b * k - b * m
           /\ (k + m) * b = k * b + m * b /\ (k - m) * b = k * b - m * b
           /\ b * k \in Int /\ k * b \in Int /\ b * m \in Int /\ m * b \in Int
OBVIOUS

LEMMA TimesMore ==
    ASSUME NEW b \in Nat, NEW k \in Int, NEW m \in Int, k <= m
    PROVE  b * k <= b * m /\ k * b <= m * b
OBVIOUS
-----------------------------------------------------------------------------
Since(from) == {g \in grants : from <= g.at}
Spent(from) == Cardinality(Since(from))

PacingTypes ==
    /\ PacingTypeOK
    /\ time \in 0..LastTick /\ nextRefill \in Nat /\ cooldownUntil \in Nat
    /\ IsFiniteSet(grants)
    /\ \A g \in grants : g.n \in Nat /\ g.n <= Cardinality(grants) /\ g.at \in 0..time

\* What waits are reckoned from is no further off than a window.
WaitsAreShort ==
    /\ nextRefill <= time + Larger(Window, Cooldown) /\ cooldownUntil <= time + Cooldown
    /\ SleepsAWindowAtMost

\* Since the last refill less than a token has accrued when a request goes out.
NoneAccrued(stamp) == \A g \in grants : g.at > stamp => (g.at - stamp) * Capacity < Window

\* What has been sent since from, with the tokens that are left, is a bucket and
\* what has accrued since; the rounding of one refill comes on top.
Budget(left, stamp) ==
    \A from \in 0..time :
        IF from <= stamp
          THEN Window * (Spent(from) + left) < Window * Capacity + (stamp - from) * Capacity + Window
          ELSE Spent(from) + left <= Capacity

\* The same of a stretch of time, in Windows.
PacedIn(from, to) == Window * SentIn(from, to) < Window * Capacity + (to - from) * Capacity + Window

PacedAlways == \A from \in 0..LastTick, length \in 1..(LastTick + 1) : PacedIn(from, from + length)

PacingInv ==
    /\ PacingTypes /\ WaitsAreShort
    /\ NoneAccrued(refilledAt) /\ Budget(bucketTokens, refilledAt) /\ PacedAlways

\* Numbers of requests.
LEMMA SpentIs ==
    ASSUME IsFiniteSet(grants)
    PROVE  \A from, to : Spent(from) \in Nat /\ SentIn(from, to) \in Nat /\ SentIn(from, to) <= Spent(from)
<1> SUFFICES ASSUME NEW from, NEW to
             PROVE  Spent(from) \in Nat /\ SentIn(from, to) \in Nat /\ SentIn(from, to) <= Spent(from)
  OBVIOUS
<1>1. IsFiniteSet(Since(from)) /\ {g \in grants : from <= g.at /\ g.at < to} \subseteq Since(from)
  BY FS_Subset DEF Since
<1> QED
  BY <1>1, FS_Subset, FS_CardinalityType DEF Spent, SentIn

LEMMA PacingInitially == PacingInit => PacingInv
<1> SUFFICES ASSUME PacingInit PROVE PacingInv
  OBVIOUS
<1> USE PacingAssumption DEF PacingInit
<1>1. PacingTypes
  BY FS_EmptySet DEF PacingTypes, PacingTypeOK, Off, Larger
<1>2. WaitsAreShort
  BY DEF WaitsAreShort, SleepsAWindowAtMost, Off, Larger
<1>3. \A from, to : Spent(from) = 0 /\ SentIn(from, to) = 0
  <2>1. \A from, to : Since(from) = {} /\ {g \in grants : from <= g.at /\ g.at < to} = {}
    BY DEF Since
  <2> QED
    BY <2>1, FS_EmptySet DEF Spent, SentIn
<1>4. NoneAccrued(refilledAt)
  BY DEF NoneAccrued
<1>5. Window * (0 + Capacity) = Window * Capacity /\ Window * 0 = 0 /\ Window * Capacity \in Nat /\ Window > 0
  OBVIOUS
<1>6. Budget(bucketTokens, refilledAt)
  <2> SUFFICES ASSUME NEW from \in 0..time
               PROVE  IF from <= refilledAt
                        THEN Window * (Spent(from) + bucketTokens) < Window * Capacity + (refilledAt - from) * Capacity + Window
                        ELSE Spent(from) + bucketTokens <= Capacity
    BY DEF Budget
  <2>1. from = 0 /\ (0 - 0) * Capacity = 0
    OBVIOUS
  <2> QED
    BY <1>3, <1>5, <2>1
<1>7. PacedAlways
  <2> SUFFICES ASSUME NEW from \in 0..LastTick, NEW length \in 1..(LastTick + 1) PROVE PacedIn(from, from + length)
    BY DEF PacedAlways
  <2>1. (from + length) - from = length /\ length * Capacity \in Nat
    OBVIOUS
  <2> QED
    BY <1>3, <1>5, <2>1 DEF PacedIn
<1> QED
  BY <1>1, <1>2, <1>4, <1>6, <1>7 DEF PacingInv

\* What the refill at a look leaves keeps the budget.
LEMMA BudgetRefilled ==
    ASSUME PacingInv
    PROVE  /\ Accrued \in Nat /\ Refilled \in 0..Capacity /\ RefillStamp \in 0..time
           /\ Budget(Refilled, RefillStamp) /\ NoneAccrued(RefillStamp)
           /\ RefillStamp # time => (time - RefillStamp) * Capacity < Window
<1> USE PacingAssumption
<1>t. /\ bucketTokens \in 0..Capacity /\ refilledAt \in 0..time /\ time \in Nat
      /\ IsFiniteSet(grants) /\ (\A g \in grants : g.at \in 0..time)
  BY DEF PacingInv, PacingTypes, PacingTypeOK
<1> DEFINE since == (time - refilledAt) * Capacity
<1>1. since \in Nat
  BY <1>t
<1>2. Accrued \in Nat /\ Window * Accrued \in Nat /\ Window * Accrued <= since /\ since < Window * Accrued + Window
  BY <1>1, DivIs DEF Accrued
<1>3. Refilled \in 0..Capacity /\ RefillStamp \in 0..time
  BY <1>t, <1>2 DEF Refilled, RefillStamp, Smaller
<1>4. CASE Accrued = 0
  <2>1. Refilled = bucketTokens /\ RefillStamp = refilledAt
    BY <1>t, <1>4 DEF Refilled, RefillStamp, Smaller
  <2>2. since < Window
    BY <1>2, <1>4
  <2> QED
    BY <1>2, <1>3, <2>1, <2>2 DEF PacingInv
<1>5. CASE Accrued >= 1
  <2>1. RefillStamp = time /\ Refilled <= bucketTokens + Accrued /\ Refilled <= Capacity
    BY <1>t, <1>2, <1>5 DEF Refilled, RefillStamp, Smaller
  <2>2. NoneAccrued(time)
    BY <1>t DEF NoneAccrued
  <2>3. ASSUME NEW from \in 0..time
        PROVE  Window * (Spent(from) + Refilled) < Window * Capacity + (time - from) * Capacity + Window
    <3>1. Spent(from) \in Nat
      BY <1>t, SpentIs
    <3>2. (time - from) * Capacity \in Nat
      BY <1>t
    <3>3. CASE from <= refilledAt
      <4>1. Window * (Spent(from) + bucketTokens) < Window * Capacity + (refilledAt - from) * Capacity + Window
        BY <2>3, <3>3 DEF PacingInv, Budget
      <4>2. Window * (Spent(from) + Refilled) <= Window * (Spent(from) + bucketTokens + Accrued)
        BY <1>t, <1>2, <1>3, <2>1, <3>1, TimesMore
      <4>3. Window * (Spent(from) + bucketTokens + Accrued) = Window * (Spent(from) + bucketTokens) + Window * Accrued
        BY <1>t, <1>2, <3>1, TimesAdds
      <4>4. (time - from) * Capacity = (refilledAt - from) * Capacity + since
        BY <1>t, <2>3
      <4>5. /\ Window * (Spent(from) + bucketTokens) \in Int /\ Window * Capacity \in Int
            /\ (refilledAt - from) * Capacity \in Int /\ Window * (Spent(from) + Refilled) \in Int
        BY <1>t, <1>3, <2>3, <3>1
      <4> HIDE DEF since
      <4> QED
        BY <1>1, <1>2, <4>1, <4>2, <4>3, <4>4, <4>5
    <3>4. CASE from > refilledAt /\ Spent(from) = 0
      <4>1. Window * (Spent(from) + Refilled) <= Window * Capacity
        BY <1>3, <2>1, <3>4, TimesMore
      <4> QED
        BY <1>3, <3>2, <3>4, <4>1
    <3>5. CASE from > refilledAt /\ Spent(from) # 0
      <4>1. Spent(from) + bucketTokens <= Capacity
        BY <1>t, <2>3, <3>5 DEF PacingInv, Budget
      <4>2. PICK g \in grants : from <= g.at
        <5>1. Since(from) # {}
          BY <3>5, FS_EmptySet DEF Spent
        <5> QED
          BY <5>1 DEF Since
      <4>3. (g.at - refilledAt) * Capacity < Window
        BY <1>t, <2>3, <3>5, <4>2 DEF PacingInv, NoneAccrued
      <4>4. (from - refilledAt) * Capacity <= (g.at - refilledAt) * Capacity
        BY <1>t, <2>3, <4>2, TimesMore
      <4>5. since = (time - from) * Capacity + (from - refilledAt) * Capacity
        BY <1>t, <2>3
      <4>6. Window * (Spent(from) + Refilled) <= Window * (Capacity + Accrued)
        BY <1>t, <1>2, <1>3, <2>1, <3>1, <4>1, TimesMore
      <4>7. Window * (Capacity + Accrued) = Window * Capacity + Window * Accrued
        BY <1>2, TimesAdds
      <4>8. /\ (from - refilledAt) * Capacity \in Int /\ (g.at - refilledAt) * Capacity \in Int
            /\ Window * Capacity \in Int /\ Window * (Spent(from) + Refilled) \in Int
        BY <1>t, <1>3, <2>3, <3>1
      <4> HIDE DEF since
      <4> QED
        BY <1>1, <1>2, <3>2, <4>3, <4>4, <4>5, <4>6, <4>7, <4>8
    <3> QED
      BY <1>t, <2>3, <3>3, <3>4, <3>5
  <2>4. Budget(Refilled, time)
    BY <2>3 DEF Budget
  <2> QED
    BY <1>2, <1>3, <2>1, <2>2, <2>4
<1> QED
  BY <1>2, <1>4, <1>5
\* What changes when no request goes out and no token comes.
LEMMA PacingQuiet ==
    ASSUME PacingInv, UNCHANGED <<refilledAt, grants>>, time' \in {time, time + 1}, time' \in 0..LastTick,
           bucketTokens' \in {0, bucketTokens}
    PROVE  NoneAccrued(refilledAt)' /\ Budget(bucketTokens, refilledAt)' /\ PacedAlways'
<1> USE PacingAssumption
<1>t. /\ bucketTokens \in 0..Capacity /\ bucketTokens' \in 0..Capacity /\ bucketTokens' <= bucketTokens
      /\ refilledAt \in 0..time /\ time \in Nat /\ time' \in Nat
      /\ IsFiniteSet(grants) /\ (\A g \in grants : g.at \in 0..time)
  BY DEF PacingInv, PacingTypes, PacingTypeOK
<1>1. NoneAccrued(refilledAt)' /\ PacedAlways'
  BY DEF PacingInv, NoneAccrued, PacedAlways, PacedIn, SentIn
<1>2. ASSUME NEW from \in 0..time'
      PROVE  IF from <= refilledAt
               THEN Window * (Spent(from) + bucketTokens') < Window * Capacity + (refilledAt - from) * Capacity + Window
               ELSE Spent(from) + bucketTokens' <= Capacity
  <2>1. Spent(from) \in Nat
    BY <1>t, SpentIs
  <2>2. CASE from <= refilledAt
    <3>1. Window * (Spent(from) + bucketTokens) < Window * Capacity + (refilledAt - from) * Capacity + Window
      BY <1>t, <2>2 DEF PacingInv, Budget
    <3>2. Window * (Spent(from) + bucketTokens') <= Window * (Spent(from) + bucketTokens)
      BY <1>t, <2>1, TimesMore
    <3>3. /\ Window * (Spent(from) + bucketTokens') \in Int /\ Window * (Spent(from) + bucketTokens) \in Int
          /\ (refilledAt - from) * Capacity \in Int /\ Window * Capacity \in Int
      BY <1>t, <2>1
    <3> QED
      BY <2>2, <3>1, <3>2, <3>3
  <2>3. CASE from > refilledAt /\ from <= time
    <3>1. Spent(from) + bucketTokens <= Capacity
      BY <1>t, <2>3 DEF PacingInv, Budget
    <3> QED
      BY <1>t, <2>1, <2>3, <3>1
  <2>4. CASE from > time
    <3>1. Since(from) = {}
      BY <1>t, <2>4 DEF Since
    <3>2. Spent(from) = 0
      BY <3>1, FS_EmptySet DEF Spent
    <3> QED
      BY <1>t, <2>4, <3>2
  <2> QED
    BY <1>t, <2>2, <2>3, <2>4
<1>3. \A from : Spent(from)' = Spent(from)
  BY DEF Spent, Since
<1>4. Budget(bucketTokens, refilledAt)'
  BY <1>2, <1>3 DEF Budget
<1> QED
  BY <1>1, <1>4

\* Time passes; IBKR answers or refuses; a caller leaves.
LEMMA PacingRests ==
    ASSUME PacingInv, \/ Passes \/ UNCHANGED pacingVars
                      \/ \E h \in Handlers : IbkrAnswers(h) \/ IbkrRefuses(h) \/ CallerLeaves(h)
    PROVE  PacingInv'
<1> USE PacingAssumption
<1>t. /\ PacingTypes /\ WaitsAreShort /\ time \in 0..LastTick /\ nextRefill \in Nat /\ cooldownUntil \in Nat
      /\ bucketTokens \in 0..Capacity /\ refilledAt \in 0..time
      /\ handler \in [Handlers -> [at : {"off", "ibkr", "reserve", "prewarm"},
                                   until : 0..(LastTick + Larger(Window, Cooldown))]]
      /\ Larger(Window, Cooldown) \in Nat /\ Cooldown <= Larger(Window, Cooldown)
  BY DEF PacingInv, PacingTypes, PacingTypeOK, Larger
<1>o. /\ Off \in [at : {"off", "ibkr", "reserve", "prewarm"}, until : 0..(LastTick + Larger(Window, Cooldown))]
      /\ Off.until = 0
  BY <1>t DEF Off
<1>1. CASE Passes
  <2>1. time' = time + 1 /\ time' \in 0..LastTick
        /\ UNCHANGED <<bucketTokens, refilledAt, nextRefill, cooldownUntil, handler, grants>>
    BY <1>1, <1>t DEF Passes
  <2>2. NoneAccrued(refilledAt)' /\ Budget(bucketTokens, refilledAt)' /\ PacedAlways'
    BY <2>1, PacingQuiet
  <2>3. PacingTypes'
    BY <1>t, <2>1 DEF PacingTypes, PacingTypeOK
  <2>4. WaitsAreShort'
    BY <1>t, <2>1 DEF WaitsAreShort, SleepsAWindowAtMost
  <2> QED
    BY <2>2, <2>3, <2>4 DEF PacingInv
<1>2. CASE UNCHANGED pacingVars
  <2>1. UNCHANGED <<time, bucketTokens, refilledAt, nextRefill, cooldownUntil, handler, grants>>
    BY <1>2 DEF pacingVars
  <2>2. NoneAccrued(refilledAt)' /\ Budget(bucketTokens, refilledAt)' /\ PacedAlways'
    BY <1>t, <2>1, PacingQuiet
  <2> QED
    BY <1>t, <2>1, <2>2 DEF PacingInv, PacingTypes, PacingTypeOK, WaitsAreShort, SleepsAWindowAtMost
<1>3. ASSUME NEW h \in Handlers, IbkrAnswers(h) \/ IbkrRefuses(h) \/ CallerLeaves(h) PROVE PacingInv'
  <2>1. /\ UNCHANGED <<time, refilledAt, grants>> /\ handler' = [handler EXCEPT ![h] = Off]
        /\ \/ UNCHANGED <<bucketTokens, cooldownUntil, nextRefill>>
           \/ bucketTokens' = 0 /\ cooldownUntil' = time + Cooldown /\ nextRefill' = time + Cooldown
    BY <1>3 DEF IbkrAnswers, IbkrRefuses, CallerLeaves
  <2>2. NoneAccrued(refilledAt)' /\ Budget(bucketTokens, refilledAt)' /\ PacedAlways'
    BY <1>t, <2>1, PacingQuiet
  <2>3. PacingTypes'
    BY <1>t, <1>o, <2>1 DEF PacingTypes, PacingTypeOK
  <2>4. WaitsAreShort'
    BY <1>t, <1>o, <2>1 DEF WaitsAreShort, SleepsAWindowAtMost
  <2> QED
    BY <2>2, <2>3, <2>4 DEF PacingInv
<1> QED
  BY <1>1, <1>2, <1>3

\* A handler looks at the bucket, and sleeps or sends its request.
LEMMA PacingAcquires ==
    ASSUME PacingInv, NEW h \in Handlers, NEW reserve \in BOOLEAN, Acquire(h, reserve)
    PROVE  PacingInv'
<1> USE PacingAssumption
<1>t. /\ PacingTypes /\ WaitsAreShort /\ time \in 0..LastTick /\ nextRefill \in Nat /\ cooldownUntil \in Nat
      /\ handler \in [Handlers -> [at : {"off", "ibkr", "reserve", "prewarm"},
                                   until : 0..(LastTick + Larger(Window, Cooldown))]]
      /\ IsFiniteSet(grants) /\ (\A g \in grants : g.n <= Cardinality(grants) /\ g.n \in Nat /\ g.at \in 0..time)
      /\ Larger(Window, Cooldown) \in Nat /\ Cooldown <= Larger(Window, Cooldown)
  BY DEF PacingInv, PacingTypes, PacingTypeOK, Larger
<1>w. /\ nextRefill <= time + Larger(Window, Cooldown) /\ cooldownUntil <= time + Cooldown
      /\ \A k \in Handlers : handler[k].until <= time + Larger(Window, Cooldown)
  BY <1>t DEF WaitsAreShort, SleepsAWindowAtMost
<1>b. /\ Refilled \in 0..Capacity /\ RefillStamp \in 0..time
      /\ Budget(Refilled, RefillStamp) /\ NoneAccrued(RefillStamp)
      /\ RefillStamp # time => (time - RefillStamp) * Capacity < Window
  BY BudgetRefilled
<1>1. /\ refilledAt' = RefillStamp /\ UNCHANGED <<time, cooldownUntil>>
      /\ nextRefill' \in {nextRefill, Smaller(nextRefill, time)}
  BY DEF Acquire
<1>2. nextRefill' \in Nat /\ nextRefill' <= time + Larger(Window, Cooldown)
  BY <1>t, <1>w, <1>1 DEF Smaller
<1> DEFINE wait == [at |-> IF reserve THEN "reserve" ELSE "prewarm",
                    until |-> IF time < cooldownUntil THEN cooldownUntil ELSE Larger(nextRefill', time)]
           g == [n |-> Cardinality(grants) + 1, at |-> time]
<1>3. CASE bucketTokens' = Refilled /\ handler' = [handler EXCEPT ![h] = wait] /\ grants' = grants
  <2>1. wait.until \in 0..(LastTick + Larger(Window, Cooldown)) /\ wait.until <= time + Larger(Window, Cooldown)
    BY <1>t, <1>w, <1>2 DEF Larger
  <2>2. wait.at \in {"off", "ibkr", "reserve", "prewarm"}
    OBVIOUS
  <2>3. wait \in [at : {"off", "ibkr", "reserve", "prewarm"}, until : 0..(LastTick + Larger(Window, Cooldown))]
    BY <2>1, <2>2
  <2> HIDE DEF wait
  <2>4. PacingTypes'
    BY <1>t, <1>b, <1>1, <1>2, <1>3, <2>3 DEF PacingTypes, PacingTypeOK
  <2>5. WaitsAreShort'
    BY <1>t, <1>w, <1>1, <1>2, <1>3, <2>1 DEF WaitsAreShort, SleepsAWindowAtMost
  <2>6. NoneAccrued(refilledAt)' /\ PacedAlways'
    BY <1>b, <1>1, <1>3 DEF PacingInv, NoneAccrued, PacedAlways, PacedIn, SentIn
  <2>7. \A from : Spent(from)' = Spent(from)
    BY <1>3 DEF Spent, Since
  <2>8. Budget(bucketTokens, refilledAt)'
    BY <1>b, <1>1, <1>3, <2>7 DEF Budget
  <2> QED
    BY <2>4, <2>5, <2>6, <2>8 DEF PacingInv
<1>4. CASE /\ Refilled > 0 /\ bucketTokens' = Refilled - 1 /\ grants' = grants \cup {g}
           /\ handler' = [handler EXCEPT ![h] = Sending]
  <2>1. g.n = Cardinality(grants) + 1 /\ g.at = time
    OBVIOUS
  <2> HIDE DEF g
  <2>2. Cardinality(grants) \in Nat /\ g \notin grants
    BY <1>t, <2>1, FS_CardinalityType
  <2>3. IsFiniteSet(grants') /\ Cardinality(grants') = Cardinality(grants) + 1
    BY <1>t, <1>4, <2>2, FS_AddElement
  <2>4. /\ Sending \in [at : {"off", "ibkr", "reserve", "prewarm"}, until : 0..(LastTick + Larger(Window, Cooldown))]
        /\ Sending.until = 0
    BY <1>t DEF Sending
  <2>5. PacingTypes'
    <3>1. \A x \in grants' : x.n \in Nat /\ x.n <= Cardinality(grants') /\ x.at \in 0..time
      BY <1>t, <1>4, <2>1, <2>2, <2>3
    <3>2. bucketTokens' \in 0..Capacity /\ refilledAt' \in 0..time
      BY <1>b, <1>1, <1>4
    <3>3. handler' \in [Handlers -> [at : {"off", "ibkr", "reserve", "prewarm"},
                                     until : 0..(LastTick + Larger(Window, Cooldown))]]
      BY <1>t, <1>4, <2>4
    <3> QED
      BY <1>t, <1>1, <1>2, <2>3, <3>1, <3>2, <3>3 DEF PacingTypes, PacingTypeOK
  <2>6. WaitsAreShort'
    BY <1>t, <1>w, <1>1, <1>2, <1>4, <2>4 DEF WaitsAreShort, SleepsAWindowAtMost
  <2>7. NoneAccrued(refilledAt)'
    <3>1. time > RefillStamp => (time - RefillStamp) * Capacity < Window
      BY <1>t, <1>b
    <3> QED
      BY <1>b, <1>1, <1>4, <2>1, <3>1 DEF NoneAccrued
  <2>8. ASSUME NEW from \in 0..time
        PROVE  Spent(from)' = Spent(from) + 1 /\ Spent(from) \in Nat
    <3>1. Since(from)' = Since(from) \cup {g} /\ g \notin Since(from)
      BY <1>4, <2>1, <2>2, <2>8 DEF Since
    <3>2. IsFiniteSet(Since(from))
      BY <1>t, FS_Subset DEF Since
    <3> QED
      BY <3>1, <3>2, FS_AddElement, FS_CardinalityType DEF Spent
  <2>9. ASSUME NEW from \in 0..time
        PROVE  Spent(from)' + bucketTokens' = Spent(from) + Refilled
    BY <1>b, <1>4, <2>8
  <2>10. Budget(bucketTokens, refilledAt)'
    <3>1. ASSUME NEW from \in 0..time
          PROVE  IF from <= refilledAt'
                   THEN Window * (Spent(from)' + bucketTokens')
                            < Window * Capacity + (refilledAt' - from) * Capacity + Window
                   ELSE Spent(from)' + bucketTokens' <= Capacity
      BY <1>b, <1>1, <2>9 DEF Budget
    <3> QED
      BY <1>1, <3>1 DEF Budget
  <2>11. PacedAlways'
    <3> SUFFICES ASSUME NEW from \in 0..LastTick, NEW length \in 1..(LastTick + 1)
                 PROVE  PacedIn(from, from + length)'
      BY DEF PacedAlways
    <3> DEFINE to == from + length
    <3>1. PacedIn(from, to)
      BY DEF PacingInv, PacedAlways
    <3>2. CASE ~(from <= time /\ time < to)
      <4>1. {x \in grants' : from <= x.at /\ x.at < to} = {x \in grants : from <= x.at /\ x.at < to}
        BY <1>4, <2>1, <3>2
      <4> QED
        BY <3>1, <4>1 DEF PacedIn, SentIn
    <3>3. CASE from <= time /\ time < to
      <4>1. from \in 0..time /\ Spent(from)' \in Nat
        BY <1>t, <2>8, <3>3
      <4>2. SentIn(from, to)' = Spent(from)'
        <5>1. \A x \in grants' : x.at < to
          BY <1>t, <1>4, <2>1, <3>3
        <5>2. {x \in grants' : from <= x.at /\ x.at < to} = Since(from)'
          BY <5>1 DEF Since
        <5> QED
          BY <5>2 DEF SentIn, Spent
      <4>3. Window * Spent(from)' <= Window * (Spent(from)' + bucketTokens') /\ bucketTokens' \in 0..Capacity
        BY <1>b, <1>4, <4>1, TimesMore
      <4>4. (to - from) * Capacity \in Nat
        OBVIOUS
      <4>5. CASE from <= RefillStamp
        <5>1. Window * (Spent(from)' + bucketTokens') < Window * Capacity + (RefillStamp - from) * Capacity + Window
          BY <1>1, <2>10, <4>1, <4>5 DEF Budget
        <5>2. (RefillStamp - from) * Capacity <= (to - from) * Capacity
          BY <1>t, <1>b, <3>3, TimesMore
        <5>3. /\ Window * Spent(from)' \in Int /\ Window * (Spent(from)' + bucketTokens') \in Int
              /\ (RefillStamp - from) * Capacity \in Int /\ Window * Capacity \in Int
          BY <1>b, <4>1, <4>3
        <5>4. Window * Spent(from)' < Window * Capacity + (to - from) * Capacity + Window
          BY <4>3, <4>4, <5>1, <5>2, <5>3
        <5> QED
          BY <4>2, <5>4 DEF PacedIn
      <4>6. CASE from > RefillStamp
        <5>1. Spent(from)' <= Capacity
          BY <1>b, <1>1, <2>10, <4>1, <4>3, <4>6 DEF Budget
        <5>2. Window * Spent(from)' <= Window * Capacity
          BY <4>1, <5>1, TimesMore
        <5>3. Window * Spent(from)' \in Int /\ Window * Capacity \in Int
          BY <4>1
        <5>4. Window * Spent(from)' < Window * Capacity + (to - from) * Capacity + Window
          BY <4>4, <5>2, <5>3
        <5> QED
          BY <4>2, <5>4 DEF PacedIn
      <4> QED
        BY <1>b, <4>1, <4>5, <4>6
    <3> QED
      BY <3>2, <3>3
  <2> QED
    BY <2>5, <2>6, <2>7, <2>10, <2>11 DEF PacingInv
<1>5. \/ bucketTokens' = Refilled /\ handler' = [handler EXCEPT ![h] = wait] /\ grants' = grants
      \/ /\ Refilled > (IF reserve THEN 0 ELSE Reserved)
         /\ bucketTokens' = Refilled - 1 /\ grants' = grants \cup {g} /\ handler' = [handler EXCEPT ![h] = Sending]
  BY DEF Acquire
<1>6. Refilled > (IF reserve THEN 0 ELSE Reserved) => Refilled > 0
  BY <1>b
<1> QED
  BY <1>3, <1>4, <1>5, <1>6

LEMMA PacingStep == PacingInv /\ [PacingNext]_pacingVars => PacingInv'
BY PacingRests, PacingAcquires DEF PacingNext

\* In requests again.
LEMMA PacingInvHolds == PacingInv => PacingHolds
<1> SUFFICES ASSUME PacingInv PROVE PacingHolds
  OBVIOUS
<1> USE PacingAssumption
<1>1. PacedOverall
  <2> SUFFICES ASSUME NEW from \in 0..LastTick, NEW length \in 1..(LastTick + 1)
               PROVE  SentIn(from, from + length) <= Capacity + (length * Capacity + Window - 1) \div Window
    BY DEF PacedOverall
  <2> DEFINE answered == SentIn(from, from + length)
             accrues == length * Capacity + Window - 1
             more == accrues \div Window
  <2>1. answered \in Nat
    BY SpentIs DEF PacingInv, PacingTypes
  <2>2. length * Capacity \in Nat /\ accrues \in Nat
    OBVIOUS
  <2>3. more \in Nat /\ accrues < Window * more + Window
    BY <2>2, DivIs
  <2>4. Window * answered < Window * Capacity + ((from + length) - from) * Capacity + Window
    BY DEF PacingInv, PacedAlways, PacedIn
  <2>5. (from + length) - from = length
    OBVIOUS
  <2>6. Window * (Capacity + more + 1) = Window * Capacity + Window * more + Window
    BY <2>3
  <2>7. Window * answered \in Int /\ Window * Capacity \in Int /\ Window * more \in Int
    BY <2>1, <2>3
  <2>8. Window * answered < Window * (Capacity + more + 1)
    <3>1. Window * answered <= Window * Capacity + accrues
      BY <2>2, <2>4, <2>5, <2>7
    <3> HIDE DEF accrues, more, answered
    <3> QED
      BY <2>2, <2>3, <2>6, <2>7, <3>1
  <2>9. answered < Capacity + more + 1
    <3> HIDE DEF answered, more
    <3> QED
      BY <2>1, <2>3, <2>8, TimesLess
  <2> QED
    BY <2>1, <2>3, <2>9
<1> QED
  BY <1>1 DEF PacingInv, PacingTypes, WaitsAreShort, PacingHolds

\* Over any stretch of time IBKR is sent a full bucket and what accrues meanwhile
\* at most, and no handler sleeps for longer than the larger of a window and the
\* cooldown, in whatever order the handlers sleep, wake and leave
\* (handlers.py of the IBKR sidecar: _PacingTokenBucket).
THEOREM RequestsArePaced == PacingSpec => []PacingHolds
BY PacingInitially, PacingStep, PacingInvHolds, PTL DEF PacingSpec

-----------------------------------------------------------------------------
(* Chart layouts: a PUT replaces the version it named.                     *)

\* A PUT under way that names a version saw that version, if it saw any.
NamesWhatItSaw ==
    \A c \in Clients : putting[c].peeked # 0 => putting[c] = NoPut \/ putting[c].match \in {Wildcard, putting[c].peeked}

\* A version that was replaced was one, and is the row's no longer.
ReplacedAreGone == \A o \in overwritten : o.version \in 1..written /\ o.version # row

LayoutInv == written \in Nat /\ LayoutHolds /\ NamesWhatItSaw /\ ReplacedAreGone

\* It holds before the first PUT.
LEMMA LayoutInitially == LayoutInit => LayoutInv
BY DEF LayoutInit, LayoutInv, LayoutHolds, LayoutTypeOK, NamedIsReplaced, ReplacedOnce, NamesWhatItSaw,
       ReplacedAreGone, NoPut, Wildcard

\* GET, and the SELECT of a PUT.
LEMMA LayoutLooks ==
    ASSUME LayoutInv, NEW c \in Clients, NEW match, GetLayout(c) \/ PeekRow(c, match)
    PROVE  LayoutInv'
<1> USE DEF LayoutInv, LayoutHolds, LayoutTypeOK
<1>1. NamedIsReplaced' /\ ReplacedOnce' /\ ReplacedAreGone' /\ (written \in Nat)' /\ (row \in 0..written)'
  BY DEF GetLayout, PeekRow, NamedIsReplaced, ReplacedOnce, ReplacedAreGone
<1>2. CASE GetLayout(c)
  BY <1>1, <1>2 DEF GetLayout, NamesWhatItSaw
<1>3. CASE PeekRow(c, match)
  <2>1. match \in Wildcard..written /\ row \in -1..written
    BY <1>3 DEF PeekRow, Wildcard
  <2>2. LayoutTypeOK'
    BY <1>1, <1>3, <2>1 DEF PeekRow
  <2>3. NamesWhatItSaw'
    BY <1>3 DEF PeekRow, NamesWhatItSaw
  <2> QED
    BY <1>1, <2>2, <2>3
<1> QED
  BY <1>2, <1>3

\* The second statement of a PUT.
LEMMA LayoutWrites ==
    ASSUME LayoutInv, NEW c \in Clients, WriteRow(c)
    PROVE  LayoutInv'
<1> USE DEF LayoutInv, LayoutHolds, LayoutTypeOK
<1>1. putting' = [putting EXCEPT ![c] = NoPut] /\ putting[c] # NoPut
  BY DEF WriteRow
<1>2. NamesWhatItSaw'
  BY <1>1 DEF NamesWhatItSaw, NoPut
<1>3. CASE UNCHANGED <<row, written, etag, overwritten>>
  BY <1>1, <1>2, <1>3 DEF NamedIsReplaced, ReplacedOnce, ReplacedAreGone, NoPut, Wildcard
<1>4. CASE /\ written' = written + 1 /\ row' = written + 1
           /\ etag' = [etag EXCEPT ![c] = written + 1]
           /\ row = 0 /\ overwritten' = overwritten
  BY <1>1, <1>2, <1>4 DEF NamedIsReplaced, ReplacedOnce, ReplacedAreGone, NoPut, Wildcard
<1>5. CASE /\ written' = written + 1 /\ row' = written + 1
           /\ etag' = [etag EXCEPT ![c] = written + 1]
           /\ row # 0 /\ row = putting[c].peeked
           /\ overwritten' = overwritten \cup {[version |-> row, by |-> written + 1, match |-> putting[c].match]}
  <2> DEFINE o == [version |-> row, by |-> written + 1, match |-> putting[c].match]
  <2>1. o.version = row /\ o.match \in {Wildcard, row}
    BY <1>1, <1>5 DEF NamesWhatItSaw
  <2>2. NamedIsReplaced' /\ ReplacedAreGone'
    BY <1>5, <2>1 DEF NamedIsReplaced, ReplacedAreGone
  <2>3. ReplacedOnce'
    BY <1>5, <2>1 DEF ReplacedOnce, ReplacedAreGone
  <2>4. LayoutTypeOK'
    BY <1>1, <1>5 DEF NoPut, Wildcard
  <2> QED
    BY <1>2, <1>5, <2>2, <2>3, <2>4
<1> QED
  BY <1>3, <1>4, <1>5 DEF WriteRow, Updates, Inserts

\* A step of the layouts, or none.
LEMMA LayoutStep == LayoutInv /\ [LayoutNext]_layoutVars => LayoutInv'
<1> SUFFICES ASSUME LayoutInv, [LayoutNext]_layoutVars PROVE LayoutInv'
  OBVIOUS
<1>1. CASE DeleteLayout
  BY <1>1 DEF DeleteLayout, LayoutInv, LayoutHolds, LayoutTypeOK, NamedIsReplaced, ReplacedOnce, NamesWhatItSaw,
              ReplacedAreGone
<1>2. ASSUME NEW c \in Clients, GetLayout(c) \/ WriteRow(c) \/ \E match \in Wildcard..MaxVersions : PeekRow(c, match)
      PROVE  LayoutInv'
  BY <1>2, LayoutLooks, LayoutWrites
<1>3. CASE UNCHANGED layoutVars
  BY <1>3 DEF layoutVars, LayoutInv, LayoutHolds, LayoutTypeOK, NamedIsReplaced, ReplacedOnce, NamesWhatItSaw,
              ReplacedAreGone
<1> QED
  BY <1>1, <1>2, <1>3 DEF LayoutNext

\* Whoever names a version of a layout replaces that one, and one PUT only
\* replaces it, whatever PUTs and deletions come between a PUT's statements
\* (chart_layouts.py: If-Match, updated_at = :expected_ts).
THEOREM LayoutsKeepUpdates == LayoutSpec => []LayoutHolds
<1>1. LayoutInv => LayoutHolds
  BY DEF LayoutInv
<1> QED
  BY <1>1, LayoutInitially, LayoutStep, PTL DEF LayoutSpec
===============================================================================
