---------------------------- MODULE BarAggregator ----------------------------
(***************************************************************************)
(* The bar aggregator of one instrument: the consumer of quotes, the       *)
(* write-ahead log in a Redis stream, the one-second buckets in memory,    *)
(* the flusher that turns closed buckets into rows of bars_1s and trims    *)
(* the log, the minute emitter, and a crash with its replay.  Redis and    *)
(* Postgres survive the crash.                                             *)
(*                                                                         *)
(* A bar is the sequence of the ticks folded into it (by log entry id),    *)
(* and a bar of a minute those of its seconds: prices and volumes are      *)
(* functions of that.                                                      *)
(***************************************************************************)
EXTENDS Integers, Sequences, FiniteSets

CONSTANTS
    Sources,     \* feeds of the instrument: schwab, alpaca, ibkr, futu
    Late,        \* may a tick arrive after its second is over?
    MaxTime,     \* bound: seconds the clock runs
    MaxTicks,    \* bound: ticks received
    MaxCrashes,  \* bound: crashes
    Minute,      \* seconds in a minute
    MaxLag       \* 2 * flush_interval_ms / 1000

ASSUME FeedAssumption   == Sources # {} /\ Late \in BOOLEAN
ASSUME BoundsAssumption == MaxTime \in Nat /\ MaxTicks \in Nat /\ MaxCrashes \in Nat
ASSUME TimeAssumption   == Minute \in Nat \ {0} /\ MaxLag \in Nat

VARIABLES
    now,       \* the clock, in whole seconds
    up,        \* is the service running?
    log,       \* every entry ever XADDed; its index is its entry id
    wal,       \* the ids still in the stream
    flushedAt, \* ...:flushed_ts, or Never
    inflight,  \* the entry the consumer has appended and not yet applied, or 0
    buckets,   \* AggregatorEngine.buckets: per source and second
    lastEntry, \* _wal_entry_id_by_bucket: per second, 0 if absent
    flush,     \* where flush_once is
    todo,      \* its candidates
    bars,      \* bars_1s, per second
    minutes,   \* bars_1m, per minute
    due,       \* when the minute emitter wakes
    paused,    \* is the instrument in _paused_instruments?
    crashes

redis == <<log, wal, flushedAt>>
engine == <<inflight, buckets, lastEntry>>
flusher == <<flush, todo>>
service == <<up, paused, crashes>>
tables == <<bars, minutes, due>>
barVars == <<now, redis, engine, flusher, service, tables>>

Secs    == 0..MaxTime - 1
Minutes == 0..MaxTime \div Minute
Never   == -1
NoRow   == <<>>

\* The ids of a set, in the order of the stream.
InOrder(ids) == [k \in 1..Cardinality(ids) |-> CHOOSE i \in ids : Cardinality({j \in ids : j <= i}) = k]
-----------------------------------------------------------------------------
(* The consumer.                                                           *)

\* _handle_quote_message up to the await: XADD.
Receive(src, sec) ==
    /\ up /\ ~paused /\ inflight = 0
    /\ Len(log) < MaxTicks
    /\ IF Late THEN sec <= now ELSE sec = now
    /\ log' = Append(log, [src |-> src, sec |-> sec])
    /\ wal' = wal \cup {Len(log) + 1}
    /\ inflight' = Len(log) + 1
    /\ UNCHANGED <<now, flushedAt, buckets, lastEntry, flusher, service, tables>>

\* The rest of it: the bucket, and the last entry of its second.
Apply ==
    LET e == log[inflight] IN
    /\ up /\ inflight # 0
    /\ buckets' = [buckets EXCEPT ![e.src][e.sec] = Append(@, inflight)]
    /\ lastEntry' = [lastEntry EXCEPT ![e.sec] = inflight]
    /\ inflight' = 0
    /\ UNCHANGED <<now, redis, flusher, service, tables>>
-----------------------------------------------------------------------------
(* The flusher.  flush.sec is the second whose acknowledgement is awaited. *)

Idle      == [at |-> "idle", sec |-> Never]
Collected == [at |-> "collected", sec |-> Never]
Inserted  == [at |-> "inserted", sec |-> Never]

Closed(sec) == sec + 1 <= now

\* _closed_candidates: the rows are made here, the buckets stay.
FlushCollect ==
    LET closed == {c \in Sources \X Secs : buckets[c[1]][c[2]] # <<>> /\ Closed(c[2])} IN
    /\ up /\ flush = Idle
    /\ closed # {}
    /\ flush' = Collected
    /\ todo' = {[src |-> c[1], sec |-> c[2], ticks |-> buckets[c[1]][c[2]]] : c \in closed}
    /\ UNCHANGED <<now, redis, engine, service, tables>>

\* Mutant: ON CONFLICT DO UPDATE SET volume = bars_1s.volume + EXCLUDED.volume.
InsertAccumulates(old, ticks) == old \o ticks

\* Mutant: ON CONFLICT DO UPDATE SET volume = EXCLUDED.volume.
InsertReplaces(old, ticks) == ticks

\* ON CONFLICT (instrument_id, bucket_start) DO NOTHING.
Insert(old, ticks) == IF old = NoRow THEN ticks ELSE old

\* The transaction.  The sources of one second compete for its row.
FlushInsert ==
    /\ up /\ flush = Collected
    /\ \E first \in [{c.sec : c \in todo} -> todo] :
          /\ \A s \in DOMAIN first : first[s].sec = s
          /\ bars' = [s \in Secs |-> IF s \in DOMAIN first THEN Insert(bars[s], first[s].ticks)
                                     ELSE bars[s]]
    /\ flush' = Inserted
    /\ UNCHANGED <<now, redis, engine, todo, service, minutes, due>>

\* Postgres cannot be reached: the buckets are kept for the next flush.
FlushFail ==
    /\ up /\ flush = Collected
    /\ flush' = Idle
    /\ todo' = {}
    /\ UNCHANGED <<now, redis, engine, service, tables>>

\* One candidate: _remove_bucket and _pop_wal_entry_id.
Forget(c) ==
    /\ buckets' = [buckets EXCEPT ![c.src][c.sec] = <<>>]
    /\ lastEntry' = [lastEntry EXCEPT ![c.sec] = 0]

Rest(cs) == IF cs = {} THEN Idle ELSE Inserted

\* Mutant: everything in the stream is taken for flushed.
TrimmedAll(last) == {}

\* XTRIM MINID: the entries from `last` on stay.
Trimmed(last) == {id \in wal : id >= last}

\* A candidate with a remembered entry is acknowledged.
FlushAck(c) ==
    /\ up /\ flush = Inserted
    /\ c \in todo
    /\ Forget(c)
    /\ todo' = todo \ {c}
    /\ \/ /\ lastEntry[c.sec] = 0
          /\ flush' = Rest(todo \ {c})
          /\ UNCHANGED wal
       \/ /\ lastEntry[c.sec] # 0
          /\ flush' = [at |-> "trimmed", sec |-> c.sec]
          /\ wal' = Trimmed(lastEntry[c.sec])
    /\ UNCHANGED <<now, log, flushedAt, inflight, service, tables>>

\* Redis fails the XTRIM or the PUBLISH: flush_once is left, the buckets of the
\* other candidates are kept.
FlushAckError(c) ==
    /\ up /\ flush = Inserted
    /\ c \in todo
    /\ Forget(c)
    /\ todo' = {}
    /\ flush' = Idle
    /\ UNCHANGED <<now, redis, inflight, service, tables>>

\* set_last_flushed.
FlushMark ==
    /\ up /\ flush.at = "trimmed"
    /\ flushedAt' = flush.sec
    /\ flush' = Rest(todo)
    /\ UNCHANGED <<now, log, wal, engine, todo, service, tables>>

\* Redis fails the HSET, or the PUBLISH that follows it.
FlushMarkError ==
    /\ up /\ flush.at = "trimmed"
    /\ flushedAt' \in {flushedAt, flush.sec}
    /\ flush' = Idle
    /\ todo' = {}
    /\ UNCHANGED <<now, log, wal, engine, service, tables>>
-----------------------------------------------------------------------------
(* The minute emitter.                                                     *)

\* The minute's buckets that are in memory, of one source.
InMinute(src, m) ==
    {s \in Secs : s \div Minute = m /\ buckets[src][s] # <<>>}

FoldMinute(src, m) == [s \in InMinute(src, m) |-> buckets[src][s]]

\* tick(), a minute after the last one; Postgres may be unreachable.  The
\* sources' upserts have one priority: the first row stays.
MinuteEmit ==
    LET m == due \div Minute - 1
        active == {src \in Sources : InMinute(src, m) # {}}
    IN
    /\ up
    /\ now >= due
    /\ \/ /\ active # {}
          /\ \E src \in active :
               minutes' = [minutes EXCEPT ![m] = IF @ = NoRow THEN FoldMinute(src, m) ELSE @]
       \/ UNCHANGED minutes
    /\ due' = (now \div Minute + 1) * Minute
    /\ UNCHANGED <<now, redis, engine, flusher, service, bars>>
-----------------------------------------------------------------------------
(* The clock, crashes and replay.                                          *)

Tick ==
    /\ now < MaxTime
    /\ now' = now + 1
    /\ UNCHANGED <<redis, engine, flusher, service, tables>>

\* Everything in memory is gone; stop() does the same.
Crash ==
    /\ up
    /\ crashes < MaxCrashes
    /\ crashes' = crashes + 1
    /\ up' = FALSE
    /\ paused' = FALSE
    /\ inflight' = 0
    /\ buckets' = [src \in Sources |-> [s \in Secs |-> <<>>]]
    /\ lastEntry' = [s \in Secs |-> 0]
    /\ flush' = Idle
    /\ todo' = {}
    /\ UNCHANGED <<now, redis, tables>>

\* _raise_on_gap: MaxLag exactly is a gap for all but the first microsecond.
Gap ==
    LET oldest == CHOOSE id \in wal : \A other \in wal : id <= other IN
    IF wal = {} \/ flushedAt = Never THEN {FALSE}
    ELSE {lag > MaxLag : lag \in {log[oldest].sec - flushedAt, log[oldest].sec - flushedAt + 1}}

\* Mutant: entries are not told apart by their source.
ReplayedAnySource(src, s) == InOrder({i \in wal : log[i].sec = s})

\* Mutant: XRANGE is called with count=1, as for the gap.
ReplayedOldest(src, s) ==
    InOrder({i \in wal : log[i] = [src |-> src, sec |-> s] /\ \A j \in wal : i <= j})

\* The entries of a stream that belong to one bucket, in its order.
Replayed(src, s) == InOrder({i \in wal : log[i] = [src |-> src, sec |-> s]})

\* _replay_wal, then the tasks are started.
Restart ==
    /\ ~up
    /\ up' = TRUE
    /\ \E gap \in Gap :
         /\ paused' = gap
         /\ buckets' = IF gap THEN buckets
                       ELSE [src \in Sources |-> [s \in Secs |-> Replayed(src, s)]]
    /\ due' = (now \div Minute + 1) * Minute
    /\ UNCHANGED <<now, redis, inflight, lastEntry, flusher, crashes, bars, minutes>>
-----------------------------------------------------------------------------
BarInit ==
    /\ now = 0
    /\ up = TRUE
    /\ log = <<>>
    /\ wal = {}
    /\ flushedAt = Never
    /\ inflight = 0
    /\ buckets = [src \in Sources |-> [s \in Secs |-> <<>>]]
    /\ lastEntry = [s \in Secs |-> 0]
    /\ flush = Idle
    /\ todo = {}
    /\ bars = [s \in Secs |-> NoRow]
    /\ minutes = [m \in Minutes |-> NoRow]
    /\ due = Minute
    /\ paused = FALSE
    /\ crashes = 0

Consumer == (\E src \in Sources, sec \in Secs : Receive(src, sec)) \/ Apply
Flusher  == \/ FlushCollect \/ FlushInsert \/ FlushFail \/ FlushMark \/ FlushMarkError
            \/ \E c \in todo : FlushAck(c) \/ FlushAckError(c)
BarNext     == Consumer \/ Flusher \/ MinuteEmit \/ Tick \/ Crash \/ Restart

BarSpec == BarInit /\ [][BarNext]_barVars

\* The tasks run on, Docker restarts the service, the clock runs, and a
\* Postgres that is asked again and again answers in the end.
BarFairness ==
    /\ WF_barVars(Tick) /\ WF_barVars(Restart) /\ WF_barVars(Apply)
    /\ WF_barVars(FlushCollect)
    /\ WF_barVars((FlushInsert \/ FlushFail)) /\ SF_barVars(FlushInsert)
    /\ WF_barVars((FlushMark \/ FlushMarkError))
    /\ WF_barVars(\E c \in todo : FlushAck(c) \/ FlushAckError(c))
-----------------------------------------------------------------------------
(* Properties.                                                             *)

TicksOk(seq) == seq \in Seq(DOMAIN log)

\* Every variable has its type; a bar has ticks of its own second only.
BarTypeOK ==
    /\ now \in 0..MaxTime /\ due \in Nat /\ crashes \in 0..MaxCrashes
    /\ up \in BOOLEAN /\ paused \in BOOLEAN
    /\ log \in Seq([src : Sources, sec : Secs])
    /\ wal \subseteq DOMAIN log
    /\ flushedAt \in Secs \cup {Never}
    /\ inflight \in {0} \cup DOMAIN log
    /\ DOMAIN buckets = Sources
    /\ \A src \in Sources, s \in Secs :
         /\ TicksOk(buckets[src][s])
         /\ \A i \in DOMAIN buckets[src][s] : log[buckets[src][s][i]] = [src |-> src, sec |-> s]
    /\ lastEntry \in [Secs -> {0} \cup DOMAIN log]
    /\ flush \in {Idle, Collected, Inserted} \cup [at : {"trimmed"}, sec : Secs]
    /\ \A c \in todo : c.src \in Sources /\ c.sec \in Secs /\ TicksOk(c.ticks)
    /\ \A s \in Secs : TicksOk(bars[s])
    /\ \A m \in Minutes : DOMAIN minutes[m] \subseteq Secs /\ \A s \in DOMAIN minutes[m] : TicksOk(minutes[m][s])

Ticks(seq) == {seq[i] : i \in DOMAIN seq}
Distinct(seq) == \A i, j \in DOMAIN seq : seq[i] = seq[j] => i = j

\* Whatever is replayed, no tick is counted twice in a bar of a second or of
\* a minute (the log keeps entries that were flushed already).
NoTickCountedTwice ==
    /\ \A s \in Secs : Distinct(bars[s])
    /\ \A m \in Minutes : \A s, t \in DOMAIN minutes[m] :
         /\ Distinct(minutes[m][s])
         /\ s # t => Ticks(minutes[m][s]) \cap Ticks(minutes[m][t]) = {}

\* A tick of a second that has no bar yet can be recovered after a crash.
UnwrittenIsRecoverable ==
    \A id \in DOMAIN log : bars[log[id].sec] = NoRow => id \in wal

\* A bar once written keeps its ticks: neither a replay of the entry that the
\* trim leaves behind nor a late tick takes them away.
BarsKeepTicks ==
    [][\A s \in Secs : Ticks(bars[s]) \subseteq Ticks(bars'[s])]_barVars

\* A second with a tick gets its bar, unless replay was refused.
EveryBarWritten ==
    \A s \in Secs : (\E id \in DOMAIN log : log[id].sec = s) ~> (bars[s] # NoRow \/ paused)
-----------------------------------------------------------------------------
(* What docs say of the program, and the program does not do.              *)

\* "Zero-tick loss within Redis uptime": no tick is gone from memory and from
\* the log without being in its bar (phase9 charting design).
ZeroTickLoss ==
    \A id \in DOMAIN log :
       \/ id \in wal
       \/ id \in Ticks(bars[log[id].sec])
       \/ id = inflight \/ id \in Ticks(buckets[log[id].src][log[id].sec])
       \/ \E c \in todo : id \in Ticks(c.ticks)
=============================================================================
