------------------------------ MODULE AiGateway ------------------------------
(***************************************************************************)
(* The AI gateway: completions asked for over REST (POST /api/ai/complete) *)
(* and by the backend's own services, the limiter both go through, the     *)
(* chain of providers a completion walks down, and the ledger that writes  *)
(* what was used into ai_completions.  All requests are of one user and    *)
(* one capability, so they share a window and a semaphore.                 *)
(*                                                                         *)
(* A REST call passes the limiter in its own guard and again in the router *)
(* it then calls; the other callers pass it once.                          *)
(***************************************************************************)
EXTENDS Integers, Sequences, FiniteSets, SequencesExt

CONSTANTS
    Requests,
    Rest,       \* those that come over REST
    Private,    \* those with force_local_only, or of capability LOCAL_ONLY
    Local,      \* providers inside the WireGuard network
    Cloud,      \* the others
    Slots,      \* permits of the capability's semaphore
    Burst,      \* requests of a user in the window
    QueueMax,   \* records the ledger's queue holds
    BatchSize,  \* records of one INSERT
    MaxEdits    \* bound: edits of the provider keys and of the map

ASSUME AiSetsAssumption  == /\ Rest \subseteq Requests /\ Private \subseteq Requests /\ Local \cap Cloud = {}
                            /\ IsFiniteSet(Requests) /\ IsFiniteSet(Local \cup Cloud)
ASSUME AiBoundAssumption == {Slots, Burst, QueueMax, BatchSize} \subseteq Nat \ {0} /\ MaxEdits \in Nat

VARIABLES
    stage,     \* where each request is
    chain,     \* the providers it has still to try
    sent,      \* history: the calls made, <<request, provider>>
    hits,      \* requests counted in the user's window
    listed,    \* the capability's list in app_config
    keys,      \* providers with a key in app_secrets
    cached,    \* providers whose key is in AIProviderKeyCache
    edits,
    queue,     \* CostLedger._queue
    batch,     \* what its task has taken from the queue and not yet written
    drained,   \* what stop() has taken from the queue and not yet written
    ledger,    \* "running", "closing" (stop() runs, the task still waits for a
               \* first record), "stopping" or "stopped"
    rows,      \* ai_completions, in the order written
    excused    \* history: records dropped, failed or cancelled

requests == <<stage, chain, sent, hits>>
settings == <<listed, keys, cached, edits>>
accounts == <<queue, batch, drained, ledger, rows, excused>>
aiVars == <<requests, settings, accounts>>

RequestEnds == {"answered", "limited", "unavailable"}

\* The permits held: async with, so an end of any kind frees them.
OuterPermits == {r \in Rest : stage[r] \in {"routing", "inner", "walking", "calling"}}
InnerPermits == {r \in Requests : stage[r] \in {"walking", "calling"}}

PermitFree == Cardinality(OuterPermits) + Cardinality(InnerPermits) < Slots

Goes(r, to) == stage' = [stage EXCEPT ![r] = to]
-----------------------------------------------------------------------------
(* A request.                                                              *)

\* _guarded_ai_call of a REST request: its window, then its permit.
Guard(r) ==
    /\ stage[r] = "idle" /\ r \in Rest
    /\ IF hits < Burst THEN Goes(r, "outer") /\ hits' = hits + 1
                       ELSE Goes(r, "limited") /\ UNCHANGED hits
    /\ UNCHANGED <<chain, sent, settings, accounts>>

TakeOuterPermit(r) ==
    /\ stage[r] = "outer" /\ PermitFree
    /\ Goes(r, "routing")
    /\ UNCHANGED <<chain, sent, hits, settings, accounts>>

\* A service of the backend calls the router itself.
CallRouter(r) ==
    /\ stage[r] = "idle" /\ r \notin Rest
    /\ Goes(r, "routing")
    /\ UNCHANGED <<chain, sent, hits, settings, accounts>>

\* Mutant: the router trusts the capability's list.
ResolvedAsListed(r) == SelectSeq(listed, LAMBDA p : p \in Local \cup keys)

\* resolve_models, entry after entry: the local providers need no key to be listed.
Resolved(r) ==
    LET kept[n \in 0..Len(listed)] ==
          IF n = 0 THEN <<>>
          ELSE IF listed[n] \in Local \cup keys /\ (r \in Private => listed[n] \in Local)
            THEN Append(kept[n - 1], listed[n])
            ELSE kept[n - 1]
    IN kept[Len(listed)]

\* complete, up to the permit: the chain is settled before the wait.
Route(r) ==
    /\ stage[r] = "routing"
    /\ \/ Resolved(r) = <<>> /\ Goes(r, "unavailable") /\ UNCHANGED <<chain, hits>>
       \/ /\ Resolved(r) # <<>>
          /\ chain' = [chain EXCEPT ![r] = Resolved(r)]
          /\ IF hits < Burst THEN Goes(r, "inner") /\ hits' = hits + 1
                             ELSE Goes(r, "limited") /\ UNCHANGED hits
    /\ UNCHANGED <<sent, settings, accounts>>

TakeInnerPermit(r) ==
    /\ stage[r] = "inner" /\ PermitFree
    /\ Goes(r, "walking")
    /\ UNCHANGED <<chain, sent, hits, settings, accounts>>

\* The next provider of the chain, or the end of it.  A provider without a
\* key is passed over, a local one too.
TryNext(r) ==
    /\ stage[r] = "walking"
    /\ \/ chain[r] = <<>> /\ Goes(r, "unavailable") /\ UNCHANGED <<chain, sent, cached>>
       \/ /\ chain[r] # <<>>
          /\ LET p == Head(chain[r]) IN
             IF p \in cached \cup keys
             THEN /\ Goes(r, "calling")
                  /\ cached' = cached \cup {p}
                  /\ sent' = sent \cup {<<r, p>>}
                  /\ UNCHANGED chain
             ELSE chain' = [chain EXCEPT ![r] = Tail(@)] /\ UNCHANGED <<stage, sent, cached>>
    /\ UNCHANGED <<hits, listed, keys, edits, accounts>>

\* A timeout, a transport error, 429 or 5xx.
Retryable(r) ==
    /\ stage[r] = "calling"
    /\ Goes(r, "walking")
    /\ chain' = [chain EXCEPT ![r] = Tail(@)]
    /\ UNCHANGED <<sent, hits, settings, accounts>>

\* Any other 4xx, or an answer that cannot be read.
Refuse(r) ==
    /\ stage[r] = "calling"
    /\ Goes(r, "unavailable")
    /\ UNCHANGED <<chain, sent, hits, settings, accounts>>

\* CostLedger.record: the oldest makes room, and a stopping ledger takes none.
Record(r) ==
    IF ledger # "running" THEN excused' = excused \cup {r} /\ UNCHANGED queue
    ELSE IF Len(queue) < QueueMax THEN queue' = Append(queue, r) /\ UNCHANGED excused
    ELSE queue' = Append(Tail(queue), r) /\ excused' = excused \cup {Head(queue)}

Answer(r) ==
    /\ stage[r] = "calling"
    /\ Goes(r, "answered")
    /\ Record(r)
    /\ UNCHANGED <<chain, sent, hits, settings, batch, drained, ledger, rows>>

RequestSteps(r) ==
    \/ Guard(r) \/ TakeOuterPermit(r) \/ CallRouter(r) \/ Route(r) \/ TakeInnerPermit(r)
    \/ TryNext(r) \/ Retryable(r) \/ Refuse(r) \/ Answer(r)
-----------------------------------------------------------------------------
(* Time and the operator.                                                  *)

WindowPasses ==
    /\ hits > 0 /\ hits' \in 0..hits - 1
    /\ UNCHANGED <<stage, chain, sent, settings, accounts>>

\* Nobody publishes the invalidation: a key is cached until its minute is over.
KeyExpires(p) ==
    /\ p \in cached /\ cached' = cached \ {p}
    /\ UNCHANGED <<requests, listed, keys, edits, accounts>>

EditSettings ==
    /\ edits < MaxEdits /\ edits' = edits + 1
    /\ \/ keys' \in SUBSET (Local \cup Cloud) /\ UNCHANGED listed
       \/ listed' \in SetToSeqs(Local \cup Cloud) /\ UNCHANGED keys
    /\ UNCHANGED <<requests, cached, accounts>>
-----------------------------------------------------------------------------
(* The ledger.                                                             *)

Taken == IF Len(queue) < BatchSize THEN Len(queue) ELSE BatchSize

\* _run, which looks at _stopping between two batches only.
Collect ==
    /\ ledger \in {"running", "closing"} /\ batch = <<>> /\ queue # <<>>
    /\ batch' = SubSeq(queue, 1, Taken) /\ queue' = SubSeq(queue, Taken + 1, Len(queue))
    /\ ledger' = IF ledger = "closing" THEN "stopping" ELSE ledger
    /\ UNCHANGED <<requests, settings, drained, rows, excused>>

\* Mutant: a batch whose INSERT failed goes back to the queue.
WrittenOrRequeued(b) ==
    \/ rows' = rows \o b /\ queue' \in {queue, queue \o b} /\ UNCHANGED excused
    \/ UNCHANGED <<rows, excused>> /\ queue' = queue \o b

\* _flush: one transaction.  An error is logged and the batch forgotten,
\* whether or not the commit had gone through.
Written(b) ==
    \/ rows' = rows \o b /\ UNCHANGED <<queue, excused>>
    \/ UNCHANGED <<rows, queue>> /\ excused' = excused \cup ToSet(b)

Flush ==
    /\ batch # <<>> /\ ledger # "stopped"
    /\ Written(batch)
    /\ batch' = <<>>
    /\ UNCHANGED <<requests, settings, drained, ledger>>

Stop ==
    /\ ledger = "running"
    /\ ledger' = IF batch = <<>> THEN "closing" ELSE "stopping"
    /\ UNCHANGED <<requests, settings, queue, batch, drained, rows, excused>>

Drain ==
    /\ ledger \in {"closing", "stopping"} /\ drained = <<>> /\ queue # <<>>
    /\ drained' = SubSeq(queue, 1, Taken) /\ queue' = SubSeq(queue, Taken + 1, Len(queue))
    /\ UNCHANGED <<requests, settings, batch, ledger, rows, excused>>

FlushDrained ==
    /\ ledger \in {"closing", "stopping"} /\ drained # <<>>
    /\ Written(drained)
    /\ drained' = <<>>
    /\ UNCHANGED <<requests, settings, batch, ledger>>

\* The queue is empty, or five seconds are over: the drain and the task are
\* cancelled, with the batch each is writing.
Stopped ==
    /\ ledger \in {"closing", "stopping"} /\ ledger' = "stopped"
    /\ \E b \in {<<>>, batch}, d \in {<<>>, drained} : rows' = rows \o b \o d
    /\ excused' = excused \cup ToSet(queue \o drained \o batch)
    /\ queue' = <<>> /\ drained' = <<>> /\ batch' = <<>>
    /\ UNCHANGED <<requests, settings>>
-----------------------------------------------------------------------------
AiInit ==
    /\ stage = [r \in Requests |-> "idle"]
    /\ chain = [r \in Requests |-> <<>>]
    /\ sent = {} /\ hits = 0
    /\ listed = SetToSeq(Local \cup Cloud) /\ keys = Local \cup Cloud
    /\ cached = {} /\ edits = 0
    /\ queue = <<>> /\ batch = <<>> /\ drained = <<>> /\ ledger = "running"
    /\ rows = <<>> /\ excused = {}

AiNext ==
    \/ \E r \in Requests : RequestSteps(r)
    \/ WindowPasses
    \/ \E p \in Local \cup Cloud : KeyExpires(p)
    \/ EditSettings
    \/ Collect \/ Flush \/ Stop \/ Drain \/ FlushDrained \/ Stopped

AiSpec == AiInit /\ [][AiNext]_aiVars
-----------------------------------------------------------------------------
AiTypeOK ==
    /\ stage \in [Requests -> RequestEnds \cup {"idle", "outer", "routing", "inner", "walking", "calling"}]
    /\ \A r \in Requests : ToSet(chain[r]) \subseteq Local \cup Cloud
    /\ hits \in 0..Burst /\ keys \cup cached \subseteq Local \cup Cloud
    /\ ledger \in {"running", "closing", "stopping", "stopped"}

\* What is private never leaves the network, whatever the operator lists and
\* whichever keys there are while the request waits and falls back.
PrivateStaysLocal == \A c \in sent : c[1] \in Private => c[2] \in Local

\* The semaphore bounds the calls under way.
CallsBounded == Cardinality({r \in Requests : stage[r] = "calling"}) <= Slots

Recorded == queue \o batch \o drained \o rows

\* A completion is written once, also when the ledger is stopped while a batch
\* is being written and when the outcome of an INSERT is not known.
RecordedOnce == IsInjective(Recorded)

\* None is missing but for an overflow, a failed INSERT or a stop.
AnswersRecorded ==
    \A r \in Requests : stage[r] = "answered" <=> r \in ToSet(Recorded) \cup excused

\* CapabilityMap, LOCAL_ONLY and the ledger hold (capabilities.py, router.py,
\* cost_ledger.py).
AiHolds == AiTypeOK /\ PrivateStaysLocal /\ CallsBounded /\ RecordedOnce /\ AnswersRecorded
=============================================================================
