----------------------------- MODULE ConfigCache -----------------------------
(***************************************************************************)
(* One key of the configuration: its row in Postgres, the cache each       *)
(* worker process keeps of it, and the invalidations published in Redis.   *)
(*                                                                         *)
(* Every written value is new: a value is the number of the write that     *)
(* made it.  The time between the query of a read and its entry in the     *)
(* cache is taken to be shorter than a tick.                               *)
(***************************************************************************)
EXTENDS Integers, FiniteSets

CONSTANTS
    Workers,     \* processes that read and write the key
    Ttl,         \* ConfigCache.ttl_seconds, in ticks
    MaxVersions, \* bound: writes
    MaxClock,    \* bound: ticks
    MaxLosses    \* bound: publications that fail, and listeners that break

ASSUME ConfigBoundsAssumption ==
    /\ IsFiniteSet(Workers)
    /\ MaxVersions \in Nat \ {0} /\ Ttl \in Nat /\ MaxClock \in Nat /\ MaxLosses \in Nat

VARIABLES
    version,    \* the number of the last write
    present,    \* does the row exist?
    entry,      \* _store: [v, age], v = NoEntry if the key is not in it
    reading,    \* rows that were read and are not in the cache yet
    writing,    \* values committed by a worker that it still has to pop or to publish
    listening,  \* is the worker's listener subscribed?
    pending,    \* number of messages in its subscription
    losses, clock,
    excused,    \* history: workers whose entry was read before an invalidation
                \* it outlived, or that missed one
    supersededAt \* history: the tick at which the value in each entry was replaced

configVars == <<version, present, entry, reading, writing, listening, pending, losses, clock,
                excused, supersededAt>>

NoEntry == [v |-> 0, age |-> 0]
Absent  == 0
NotYet   == MaxClock + 1
Stale(w) == entry[w] # NoEntry /\ (~present \/ entry[w].v # version)
-----------------------------------------------------------------------------
\* ConfigCache.get: an entry is served up to its time to live.
Fresh(e) == e # NoEntry /\ e.age <= Ttl

\* get, get_int, get_bool, get_json: a miss reads the row; an absent row is
\* not cached.
GetMisses(w) ==
    /\ ~Fresh(entry[w])
    /\ entry' = [entry EXCEPT ![w] = NoEntry]
    /\ excused' = excused \ {w}
    /\ supersededAt' = [supersededAt EXCEPT ![w] = NotYet]
    /\ reading' = [reading EXCEPT ![w] = IF present THEN @ \cup {version} ELSE @]
    /\ UNCHANGED <<version, present, writing, listening, pending, losses, clock>>

\* _fetch_row after its session is closed: the value is stored whatever has
\* been invalidated since.
StoreFetched(w, v) ==
    /\ v \in reading[w]
    /\ reading' = [reading EXCEPT ![w] = @ \ {v}]
    /\ entry' = [entry EXCEPT ![w] = [v |-> v, age |-> 0]]
    /\ LET late == ~present \/ v # version IN
         /\ excused' = IF late THEN excused \cup {w} ELSE excused \ {w}
         /\ supersededAt' = [supersededAt EXCEPT ![w] = IF late THEN clock ELSE NotYet]
    /\ UNCHANGED <<version, present, writing, listening, pending, losses, clock>>

\* The entries that hold the value a commit replaces.
Replaced == [w \in Workers |-> IF entry[w] # NoEntry /\ ~Stale(w) THEN clock ELSE supersededAt[w]]

\* Mutant: a deletion invalidates nothing.
AfterCommitSilent(exists) == IF exists THEN "pop" ELSE "idle"

\* What either write has to do once it is committed.
AfterCommit(exists) == "pop"

\* set and set_secret up to the commit, and delete.
CommitValue(w, exists) ==
    /\ version < MaxVersions
    /\ writing[w] = "idle"
    /\ exists \/ present
    /\ version' = version + 1
    /\ present' = exists
    /\ writing' = [writing EXCEPT ![w] = AfterCommit(exists)]
    /\ supersededAt' = Replaced
    /\ UNCHANGED <<entry, reading, listening, pending, losses, clock, excused>>

PopOwn(w) ==
    /\ writing[w] = "pop"
    /\ writing' = [writing EXCEPT ![w] = "publish"]
    /\ entry' = [entry EXCEPT ![w] = NoEntry]
    /\ excused' = excused \ {w}
    /\ supersededAt' = [supersededAt EXCEPT ![w] = NotYet]
    /\ UNCHANGED <<version, present, reading, listening, pending, losses, clock>>

Publish(w) ==
    /\ writing[w] = "publish"
    /\ writing' = [writing EXCEPT ![w] = "idle"]
    /\ pending' = [x \in Workers |-> IF listening[x] THEN pending[x] + 1 ELSE pending[x]]
    /\ excused' = excused \cup {x \in Workers : ~listening[x] /\ Stale(x)}
    /\ UNCHANGED <<version, present, entry, reading, listening, losses, clock, supersededAt>>

\* publish_invalidation swallows the error.
PublishFails(w) ==
    /\ writing[w] = "publish" /\ losses < MaxLosses
    /\ writing' = [writing EXCEPT ![w] = "idle"]
    /\ losses' = losses + 1
    /\ excused' = excused \cup {x \in Workers : Stale(x)}
    /\ UNCHANGED <<version, present, entry, reading, listening, pending, clock, supersededAt>>

\* run_listener.
Deliver(w) ==
    /\ pending[w] > 0
    /\ pending' = [pending EXCEPT ![w] = @ - 1]
    /\ entry' = [entry EXCEPT ![w] = NoEntry]
    /\ excused' = excused \ {w}
    /\ supersededAt' = [supersededAt EXCEPT ![w] = NotYet]
    /\ UNCHANGED <<version, present, reading, writing, listening, losses, clock>>

\* The connection breaks; what its subscription held is lost.
ListenerBreaks(w) ==
    /\ listening[w] /\ losses < MaxLosses
    /\ losses' = losses + 1
    /\ listening' = [listening EXCEPT ![w] = FALSE]
    /\ pending' = [pending EXCEPT ![w] = 0]
    /\ excused' = IF Stale(w) THEN excused \cup {w} ELSE excused
    /\ UNCHANGED <<version, present, entry, reading, writing, clock, supersededAt>>

\* The back-off over, it subscribes again; it does not empty the cache.
Resubscribe(w) ==
    /\ ~listening[w]
    /\ listening' = [listening EXCEPT ![w] = TRUE]
    /\ UNCHANGED <<version, present, entry, reading, writing, pending, losses, clock, excused, supersededAt>>

ClockTicks ==
    /\ clock < MaxClock
    /\ \A w \in Workers : reading[w] = {}
    /\ clock' = clock + 1
    /\ entry' = [w \in Workers |-> IF entry[w] = NoEntry THEN NoEntry
                                   ELSE [entry[w] EXCEPT !.age = @ + 1]]
    /\ UNCHANGED <<version, present, reading, writing, listening, pending, losses, excused, supersededAt>>
-----------------------------------------------------------------------------
ConfigInit ==
    /\ version = 1 /\ present = TRUE
    /\ entry = [w \in Workers |-> NoEntry]
    /\ reading = [w \in Workers |-> {}]
    /\ writing = [w \in Workers |-> "idle"]
    /\ listening = [w \in Workers |-> TRUE]
    /\ pending = [w \in Workers |-> 0]
    /\ losses = 0 /\ clock = 0
    /\ excused = {}
    /\ supersededAt = [w \in Workers |-> NotYet]

ConfigNext ==
    \/ \E w \in Workers :
          \/ GetMisses(w) \/ \E v \in reading[w] : StoreFetched(w, v)
          \/ \E exists \in BOOLEAN : CommitValue(w, exists)
          \/ PopOwn(w) \/ Publish(w) \/ PublishFails(w)
          \/ Deliver(w) \/ ListenerBreaks(w) \/ Resubscribe(w)
    \/ ClockTicks

ConfigSpec == ConfigInit /\ [][ConfigNext]_configVars
-----------------------------------------------------------------------------
ConfigTypeOK ==
    /\ version \in 1..MaxVersions /\ present \in BOOLEAN
    /\ entry \in [Workers -> [v : 0..MaxVersions, age : 0..MaxClock]]
    /\ reading \in [Workers -> SUBSET (1..MaxVersions)]
    /\ writing \in [Workers -> {"idle", "pop", "publish"}]
    /\ listening \in [Workers -> BOOLEAN]
    /\ pending \in [Workers -> 0..MaxVersions]
    /\ excused \in SUBSET Workers
    /\ supersededAt \in [Workers -> 0..NotYet]

\* "Cache coherence contract": a cache serves an old value only while a writer
\* has yet to pop or publish, a message is on its way, an invalidation was
\* lost, or the row was read before a write and stored after it.
StaleHasReason ==
    \A w \in Workers : Stale(w) =>
        \/ w \in excused
        \/ pending[w] > 0
        \/ \E x \in Workers : writing[x] # "idle"

\* "the cache's TTL [...] is the hard upper bound on staleness": also after
\* such a race, a lost message and a lost subscription.
ServedWithinTtl ==
    \A w \in Workers : Stale(w) /\ Fresh(entry[w]) => clock - supersededAt[w] <= Ttl

\* How far a cache may lag behind the row, in cause and in time
\* (config_cache.py, config.py: _fetch_row).
CacheHolds == ConfigTypeOK /\ StaleHasReason /\ ServedWithinTtl
=============================================================================
