----------------------------- MODULE OrderStream -----------------------------
(***************************************************************************)
(* The server-sent events of GET /api/orders/events: the consumer of each  *)
(* account writes an event, commits it and publishes it on two channels;   *)
(* a client replays what it missed, then tails one channel through a       *)
(* bounded queue, is dropped when it is slow, and comes back with the id   *)
(* of the last event it was sent.                                          *)
(***************************************************************************)
EXTENDS Integers, Sequences, FiniteSets

CONSTANTS
    Streams,      \* accounts, each with one consumer
    Fleet,        \* the scope of a client that asks for every account
    QueueSlots,   \* frames the client's queue holds
    MaxEvents, MaxConnects, MaxBeats  \* bounds

ASSUME StreamScopesAssumption == Fleet \notin Streams
ASSUME StreamBoundAssumption  == {QueueSlots, MaxEvents, MaxConnects, MaxBeats} \subseteq Nat

VARIABLES
    writer,    \* where each consumer is with its event: "rest", "inserted",
               \* "committed", "announced" (on the fleet's channel)
    event,     \* the id of that event
    accountOf,     \* the account of each id the sequence has given out, 0 if rolled back
    stored,    \* ids in order_events
    aired,     \* ids published on each channel
    scope,     \* what the client asks for
    link,      \* "closed", "replaying", "live"
    backlog,   \* ids of the replay not yet sent
    outbox,    \* the client's queue; 0 is a heartbeat
    full,      \* a pump found the queue full and returned
    lastId,    \* Last-Event-ID
    connects, beats,
    seen,      \* history: ids the client was sent
    missed     \* history: ids no channel brought the client while it was there

writers == <<writer, event, accountOf, stored, aired>>
client == <<scope, link, backlog, outbox, full, lastId, connects, beats, seen>>
orderStreamVars == <<writers, client, missed>>

Channels == Streams \cup {Fleet}
InScope(id) == scope \in {Fleet, accountOf[id]}
-----------------------------------------------------------------------------
(* _process_event of one account: one event at a time.                     *)

InsertEvent(a) ==
    /\ writer[a] = "rest" /\ Len(accountOf) < MaxEvents
    /\ accountOf' = Append(accountOf, a)
    /\ writer' = [writer EXCEPT ![a] = "inserted"]
    /\ event' = [event EXCEPT ![a] = Len(accountOf) + 1]
    /\ UNCHANGED <<stored, aired, client, missed>>

\* An event of kind "replaced" is kept for the record and not published; any
\* other is handed to _publish.
CommitEvent(a) ==
    /\ writer[a] = "inserted"
    /\ stored' = stored \cup {event[a]}
    /\ \/ writer' = [writer EXCEPT ![a] = "committed"] /\ UNCHANGED missed
       \/ writer' = [writer EXCEPT ![a] = "rest"] /\ missed' = missed \cup {event[a]}
    /\ UNCHANGED <<event, accountOf, aired, client>>

\* Mutant: a full queue costs the frame only.
PumpedOrDropped(id) ==
    /\ outbox' = IF Len(outbox) < QueueSlots THEN Append(outbox, id) ELSE outbox
    /\ UNCHANGED full

\* What a subscribed client's pump does with a frame: a full queue ends it.
Pumped(id) ==
    IF full THEN UNCHANGED <<outbox, full>>
    ELSE IF Len(outbox) < QueueSlots THEN outbox' = Append(outbox, id) /\ UNCHANGED full
    ELSE full' = TRUE /\ UNCHANGED outbox

Publish(id, channel) ==
    /\ aired' = [aired EXCEPT ![channel] = @ \cup {id}]
    /\ IF link = "live" /\ scope = channel THEN Pumped(id) ELSE UNCHANGED <<outbox, full>>
    /\ UNCHANGED <<event, accountOf, stored, scope, link, backlog, lastId, connects, beats, seen, missed>>

PublishFleet(a) ==
    /\ writer[a] = "committed" /\ writer' = [writer EXCEPT ![a] = "announced"]
    /\ Publish(event[a], Fleet)

PublishAccount(a) ==
    /\ writer[a] = "announced" /\ writer' = [writer EXCEPT ![a] = "rest"]
    /\ Publish(event[a], a)

\* Redis fails, or the consumer is cancelled: a transaction not committed is
\* rolled back, an event already committed stays unpublished.
WriterFails(a) ==
    /\ writer[a] # "rest" /\ writer' = [writer EXCEPT ![a] = "rest"]
    /\ accountOf' = [accountOf EXCEPT ![event[a]] = IF writer[a] = "inserted" THEN 0 ELSE @]
    /\ missed' = IF writer[a] = "inserted" THEN missed ELSE missed \cup {event[a]}
    /\ UNCHANGED <<event, stored, aired, client>>
-----------------------------------------------------------------------------
(* order_events_generator.                                                 *)

\* What _replay_events reads.
Missing == {id \in stored : InScope(id) /\ id > lastId}

\* Mutant: no ORDER BY.
NextUnordered(id) == id \in backlog

\* The row that is next in the order of the replay's ids.
NextRow(id) == id \in backlog /\ \A other \in backlog : id <= other

Connect ==
    /\ link = "closed" /\ connects < MaxConnects /\ connects' = connects + 1
    /\ link' = "replaying"
    /\ backlog' = Missing
    /\ UNCHANGED <<writers, scope, outbox, full, lastId, beats, seen, missed>>

SendReplayed ==
    /\ link = "replaying"
    /\ \E id \in backlog :
          /\ NextRow(id)
          /\ lastId' = id /\ seen' = seen \cup {id}
          /\ backlog' = backlog \ {id}
    /\ UNCHANGED <<writers, scope, link, outbox, full, connects, beats, missed>>

\* What was published since the replay read the table is in neither.
Subscribe ==
    /\ link = "replaying" /\ backlog = {}
    /\ link' = "live"
    /\ missed' = missed \cup (aired[scope] \ seen)
    /\ UNCHANGED <<writers, scope, backlog, outbox, full, lastId, connects, beats, seen>>

SendQueued ==
    /\ link = "live" /\ ~full /\ outbox # <<>>
    /\ outbox' = Tail(outbox)
    /\ IF Head(outbox) = 0 THEN UNCHANGED <<lastId, seen>>
       ELSE lastId' = Head(outbox) /\ seen' = seen \cup {Head(outbox)}
    /\ UNCHANGED <<writers, scope, link, backlog, full, connects, beats, missed>>

\* The heartbeat goes through the same queue.
Heartbeat ==
    /\ link = "live" /\ beats < MaxBeats /\ beats' = beats + 1
    /\ Pumped(0)
    /\ UNCHANGED <<writers, scope, link, backlog, lastId, connects, seen, missed>>

Closes ==
    /\ link' = "closed" /\ backlog' = {} /\ outbox' = <<>> /\ full' = FALSE
    /\ UNCHANGED <<writers, scope, lastId, connects, beats, seen, missed>>

\* A pump has returned: an error frame without an id, and what is queued is
\* thrown away.
DropSlowClient == link = "live" /\ full /\ Closes

ClientLeaves == link # "closed" /\ Closes
-----------------------------------------------------------------------------
OrderStreamInit ==
    /\ writer = [a \in Streams |-> "rest"] /\ event = [a \in Streams |-> 0]
    /\ accountOf = <<>> /\ stored = {} /\ aired = [c \in Channels |-> {}]
    /\ scope \in Channels /\ link = "closed"
    /\ backlog = {} /\ outbox = <<>> /\ full = FALSE
    /\ lastId = 0 /\ connects = 0 /\ beats = 0 /\ seen = {} /\ missed = {}

OrderStreamNext ==
    \/ \E a \in Streams : \/ InsertEvent(a) \/ CommitEvent(a)
                          \/ PublishFleet(a) \/ PublishAccount(a) \/ WriterFails(a)
    \/ Connect \/ SendReplayed \/ Subscribe \/ SendQueued \/ Heartbeat
    \/ DropSlowClient \/ ClientLeaves

OrderStreamSpec == OrderStreamInit /\ [][OrderStreamNext]_orderStreamVars
-----------------------------------------------------------------------------
OrderStreamTypeOK ==
    /\ writer \in [Streams -> {"rest", "inserted", "committed", "announced"}]
    /\ stored \cup seen \cup missed \cup {id \in {lastId} : id > 0} \subseteq 1..Len(accountOf)
    /\ link \in {"closed", "replaying", "live"} /\ Len(outbox) <= QueueSlots

\* A client of one account that resumes from the last id it was sent has been
\* sent everything before it: being dropped as slow, or leaving with frames in
\* its queue, costs nothing.  Only what no channel brought it is missing.
ResumeSkipsNothing ==
    scope # Fleet => \A id \in stored : InScope(id) /\ id <= lastId => id \in seen \cup missed

\* order_events_generator and _publish (orders_sse.py, order_event_consumer.py).
OrderStreamHolds == OrderStreamTypeOK /\ ResumeSkipsNothing

\* Within an account the ids a client is sent never go back.
NeverGoesBack == [][scope # Fleet => lastId' >= lastId]_orderStreamVars
==============================================================================
