-------------------------------- MODULE Alerts --------------------------------
(* Alert rules: the writers of their rows, the evaluator's index from symbols *)
(* to rules with the rebuilds that refill it, the debounced and bounded queue *)
(* of bars to evaluate, and the worker.  A predicate is the symbol it names.  *)
EXTENDS Naturals, Sequences, SequencesExt

CONSTANTS
    Rules, Symbols,
    NoSymbol,
    ErrorLimit,     \* _DORMANCY_THRESHOLD
    QueueSize,
    MaxActs, MaxBars, MaxFailures

ASSUME AlertsAssumption ==
    /\ IsFiniteSet(Rules) /\ Rules # {} /\ NoSymbol \notin Symbols
    /\ {ErrorLimit, QueueSize} \subseteq Nat \ {0}
    /\ {MaxActs, MaxBars, MaxFailures} \subseteq Nat

VARIABLES
    rule,       \* the alerts row: status, deleted_at, symbol, errors, muted_until
    put,        \* a PUT of the status between its SELECT and its UPDATE
    index,      \* InvertedIndex, by rule
    known,      \* SymbolCache: the symbols it resolves
    rebuild,    \* the rebuilds: one for requests, one for capability flips
    pending,    \* _rebuild_pending
    recent,     \* _debounce_last_at, the entries of the last 500 ms
    queue, worker,
    running,    \* the evaluator has started
    asked,      \* history: the last write of the row asked for a rebuild
    spoilt,     \* history: a rebuild failed, or one with an older view came last
    lateFires,  \* history: rules that fired in an evaluation begun after their deletion
    acts, barCount, failures

ruleVars == <<rule, asked, acts>>
indexVars == <<index, known, rebuild, pending, spoilt>>
workVars == <<recent, queue, worker, lateFires, barCount>>
alertVars == <<ruleVars, put, indexVars, workVars, running, failures>>

Rebuilds == {"request", "capability"}
NotRebuilding == [at |-> "idle", found |-> [r \in Rules |-> NoSymbol], older |-> FALSE]
NotPutting == [at |-> "idle", rule |-> CHOOSE r \in Rules : TRUE, to |-> "active"]
NotWorking == [at |-> "idle", rule |-> CHOOSE r \in Rules : TRUE, late |-> FALSE]
Statuses == {"none", "pending", "active", "disabled", "dormant", "deleted"}
Stored(r) == rule[r].st # "none"
\* The condition of get_rule; deleted_at is not looked at.
Visible(r) == rule[r].st \notin {"none", "deleted"}
\* load_active_rules
Active(r) == rule[r].st = "active" /\ ~rule[r].gone

AlertsTypeOK ==
    /\ rule \in [Rules -> [st : Statuses, gone : BOOLEAN, symbol : Symbols,
                           errors : 0..ErrorLimit, muted : BOOLEAN]]
    /\ put \in [at : {"idle", "read"}, rule : Rules, to : {"active", "disabled"}]
    /\ index \in [Rules -> Symbols \cup {NoSymbol}] /\ known \subseteq Symbols
    /\ rebuild \in [Rebuilds -> [at : {"idle", "asleep", "begun", "read", "filled"},
                                 found : [Rules -> Symbols \cup {NoSymbol}], older : BOOLEAN]]
    /\ {pending, running, spoilt} \subseteq BOOLEAN
    /\ recent \subseteq Rules \X Symbols
    /\ Len(queue) <= QueueSize
    /\ worker \in [at : {"idle", "begun", "row"}, rule : Rules, late : BOOLEAN]
    /\ asked \in [Rules -> BOOLEAN] /\ lateFires \subseteq Rules
    /\ acts \in 0..MaxActs /\ barCount \in 0..MaxBars /\ failures \in 0..MaxFailures

\* The evaluator starts with the rules that are active, its first rebuild done.
AlertsInit ==
    /\ rule \in [Rules -> [st : {"none", "active"}, gone : {FALSE}, symbol : Symbols,
                           errors : {0}, muted : {FALSE}]]
    /\ put = NotPutting
    /\ index = [r \in Rules |-> IF Active(r) THEN rule[r].symbol ELSE NoSymbol]
    /\ known = {index[r] : r \in Rules} \ {NoSymbol}
    /\ rebuild = [b \in Rebuilds |-> NotRebuilding] /\ pending = FALSE
    /\ recent = {} /\ queue = <<>> /\ worker = NotWorking
    /\ running = TRUE
    /\ asked = [r \in Rules |-> FALSE] /\ spoilt = FALSE
    /\ lateFires = {}
    /\ acts = 0 /\ barCount = 0 /\ failures = 0

Failing == failures < MaxFailures /\ failures' = failures + 1
Acting == acts < MaxActs /\ acts' = acts + 1

--------------------------------------------------------------------------------
(* The rows. *)

\* A write after which nothing asks for a rebuild.
Write(r, row) ==
    /\ Acting
    /\ rule' = [rule EXCEPT ![r] = row]
    /\ asked' = [asked EXCEPT ![r] = FALSE]
    /\ UNCHANGED <<put, indexVars, workVars, running, failures>>

CreateRule(r) == ~Stored(r) /\ Write(r, [rule[r] EXCEPT !.st = "pending"])
ConfirmRule(r) == rule[r].st = "pending" /\ Write(r, [rule[r] EXCEPT !.st = "active"])
UpdatePredicate(r, s) == Visible(r) /\ Write(r, [rule[r] EXCEPT !.symbol = s])
DeleteRule(r) == Visible(r) /\ Write(r, [rule[r] EXCEPT !.st = "deleted", !.gone = TRUE])

\* Telegram's /mute, with or without an end, and /unmute look at no status.
Mute(r, until) == Stored(r) /\ Write(r, [rule[r] EXCEPT !.st = "disabled", !.muted = until])
Unmute(r) == Stored(r) /\ Write(r, [rule[r] EXCEPT !.st = "active", !.muted = FALSE])
MuteExpires(r) ==
    /\ rule[r].st = "disabled" /\ rule[r].muted
    /\ Write(r, [rule[r] EXCEPT !.st = "active", !.muted = FALSE])

\* _ALLOWED_STATUS_TRANSITIONS
Allowed(from) == IF from = "active" THEN {"disabled"}
                 ELSE IF from = "disabled" THEN {"active"} ELSE {"active", "disabled"}

PutStatusReads(r, to) ==
    /\ put.at = "idle" /\ Visible(r) /\ to \in Allowed(rule[r].st) /\ Acting
    /\ put' = [at |-> "read", rule |-> r, to |-> to]
    /\ UNCHANGED <<rule, asked, indexVars, workVars, running, failures>>

\* Mutant: a request while a rebuild is under way is dropped.
RequestUnlessBusy ==
    IF rebuild["request"].at = "idle"
    THEN pending' = TRUE /\ rebuild' = [rebuild EXCEPT !["request"].at = "asleep"]
    ELSE UNCHANGED <<pending, rebuild>>
\* request_snapshot_rebuild: a rebuild that runs goes round once more.
Request ==
    /\ pending' = TRUE
    /\ rebuild' = IF rebuild["request"].at = "idle"
                  THEN [rebuild EXCEPT !["request"].at = "asleep"] ELSE rebuild

\* The UPDATE is of the rule's id, whatever its status has become.
PutStatusWrites ==
    /\ put.at = "read"
    /\ rule' = [rule EXCEPT ![put.rule].st = put.to, ![put.rule].errors = 0]
    /\ asked' = [asked EXCEPT ![put.rule] = TRUE]
    /\ IF running THEN Request ELSE UNCHANGED <<pending, rebuild>>
    /\ put' = NotPutting
    /\ UNCHANGED <<index, known, spoilt, workVars, running, acts, failures>>

--------------------------------------------------------------------------------
(* The rebuilds. *)

\* The listener of capability flips rebuilds outside the evaluator's lock.
CapabilityFlips ==
    /\ running /\ rebuild["capability"].at = "idle" /\ Acting
    /\ rebuild' = [rebuild EXCEPT !["capability"].at = "begun"]
    /\ UNCHANGED <<rule, asked, put, index, known, pending, spoilt, workVars, running, failures>>

\* The flag falls before the rules are read.
RebuildWakes ==
    /\ rebuild["request"].at = "asleep"
    /\ rebuild' = [rebuild EXCEPT !["request"].at = "begun"]
    /\ pending' = FALSE
    /\ UNCHANGED <<index, known, spoilt, ruleVars, put, workVars, running, failures>>

Other(b) == CHOOSE c \in Rebuilds : c # b
Underway(b) == rebuild[b].at \in {"read", "filled"}

RebuildReads(b) ==
    /\ rebuild[b].at = "begun"
    /\ rebuild' = [c \in Rebuilds |->
         IF c = b THEN [at |-> "read", older |-> FALSE,
                        found |-> [r \in Rules |-> IF Active(r) THEN rule[r].symbol ELSE NoSymbol]]
         ELSE [rebuild[c] EXCEPT !.older = Underway(c)]]
    /\ spoilt' = (spoilt /\ Underway(Other(b)))
    /\ UNCHANGED <<index, known, pending, ruleVars, put, workVars, running, failures>>

\* Index and cache are replaced one after the other, with a query between.
RebuildFills(b) ==
    /\ rebuild[b].at = "read"
    /\ index' = rebuild[b].found
    /\ rebuild' = [rebuild EXCEPT ![b].at = "filled"]
    /\ spoilt' = (spoilt \/ (rebuild[b].older /\ rebuild[Other(b)].at # "read"))
    /\ UNCHANGED <<known, pending, ruleVars, put, workVars, running, failures>>

RebuildReplaces(b) ==
    /\ rebuild[b].at = "filled"
    /\ known' = {rebuild[b].found[r] : r \in Rules} \ {NoSymbol}
    /\ rebuild' = [rebuild EXCEPT ![b] = [NotRebuilding EXCEPT !.at =
                     IF b = "request" /\ pending THEN "begun" ELSE "idle"]]
    /\ pending' = (pending /\ b # "request")
    /\ spoilt' = (spoilt \/ (rebuild[b].older /\ ~Underway(Other(b))))
    /\ UNCHANGED <<index, ruleVars, put, workVars, running, failures>>

\* An exception ends the task; a request that came meanwhile is not taken up.
RebuildFails(b) ==
    /\ rebuild[b].at \in {"begun", "filled"} /\ Failing
    /\ rebuild' = [rebuild EXCEPT ![b] = NotRebuilding]
    /\ spoilt' = TRUE
    /\ UNCHANGED <<index, known, pending, ruleVars, put, workVars, running>>

--------------------------------------------------------------------------------
(* Bars, the queue and the worker. *)

Due(s) == {r \in Rules : index[r] = s /\ <<r, s>> \notin recent}
\* A full queue loses its oldest entry.
Newest(q) == SubSeq(q, IF Len(q) > QueueSize THEN Len(q) - QueueSize + 1 ELSE 1, Len(q))

BarArrives(s) ==
    /\ running /\ s \in known /\ Due(s) # {} /\ barCount < MaxBars
    /\ \E order \in SetToSeqs(Due(s)) : queue' = Newest(queue \o order)
    /\ recent' = recent \cup (Due(s) \X {s})
    /\ barCount' = barCount + 1
    /\ UNCHANGED <<worker, lateFires, ruleVars, put, indexVars, running, failures>>

DebouncePasses(r, s) ==
    /\ <<r, s>> \in recent
    /\ recent' = recent \ {<<r, s>>}
    /\ UNCHANGED <<queue, worker, lateFires, barCount, ruleVars, put, indexVars, running, failures>>

ProcessBegins ==
    /\ worker.at = "idle" /\ queue # <<>>
    /\ worker' = [at |-> "begun", rule |-> Head(queue), late |-> rule[Head(queue)].gone]
    /\ queue' = Tail(queue)
    /\ UNCHANGED <<recent, lateFires, barCount, ruleVars, put, indexVars, running, failures>>

\* Mutant: the status alone.
StillActive(r) == rule[r].st = "active"
\* The SELECT of the rule: deleted_at is looked at, and the status.
Evaluable(r) == Active(r)

ProcessReads ==
    /\ worker.at = "begun"
    /\ worker' = IF Evaluable(worker.rule) THEN [worker EXCEPT !.at = "row"] ELSE NotWorking
    /\ UNCHANGED <<recent, queue, lateFires, barCount, ruleVars, put, indexVars, running, failures>>

Evaluated == worker.at = "row" /\ worker' = NotWorking

\* record_fire_and_dispatch; the errors counted before are kept.
EvaluationFires ==
    /\ Evaluated
    /\ lateFires' = IF worker.late THEN lateFires \cup {worker.rule} ELSE lateFires
    /\ UNCHANGED <<recent, queue, barCount, ruleVars, put, indexVars, running, failures>>

EvaluationIsFalse ==
    /\ Evaluated
    /\ rule' = [rule EXCEPT ![worker.rule].errors = 0]
    /\ UNCHANGED <<recent, queue, lateFires, barCount, asked, acts, put, indexVars, running, failures>>

\* mark_eval_error, whatever the status has become.
EvaluationErrs ==
    /\ Evaluated
    /\ LET row == rule[worker.rule] IN
       rule' = [rule EXCEPT ![worker.rule] =
                  [row EXCEPT !.errors = IF row.errors = ErrorLimit THEN @ ELSE @ + 1,
                              !.st = IF row.errors + 1 >= ErrorLimit THEN "dormant" ELSE @]]
    /\ UNCHANGED <<recent, queue, lateFires, barCount, asked, acts, put, indexVars, running, failures>>

\* No bars yet, or the database fails: the event is gone.
EvaluationSkipped ==
    /\ Evaluated
    /\ UNCHANGED <<recent, queue, lateFires, barCount, ruleVars, put, indexVars, running, failures>>

\* The lifespan starts again; without its first rebuild no evaluator runs.
AlertsRestart ==
    /\ Failing
    /\ running' \in BOOLEAN
    /\ index' = [r \in Rules |-> IF running' /\ Active(r) THEN rule[r].symbol ELSE NoSymbol]
    /\ known' = {index'[r] : r \in Rules} \ {NoSymbol}
    /\ rebuild' = [b \in Rebuilds |-> NotRebuilding] /\ pending' = FALSE
    /\ recent' = {} /\ queue' = <<>> /\ worker' = NotWorking /\ put' = NotPutting
    /\ spoilt' = ~running'
    /\ UNCHANGED <<ruleVars, lateFires, barCount>>

Rebuilding(b) == RebuildReads(b) \/ RebuildFills(b) \/ RebuildReplaces(b)

AlertsNext ==
    \/ \E r \in Rules :
          \/ CreateRule(r) \/ ConfirmRule(r) \/ DeleteRule(r) \/ Unmute(r) \/ MuteExpires(r)
          \/ \E s \in Symbols : UpdatePredicate(r, s) \/ DebouncePasses(r, s)
          \/ \E until \in BOOLEAN : Mute(r, until)
          \/ \E to \in {"active", "disabled"} : PutStatusReads(r, to)
    \/ PutStatusWrites \/ CapabilityFlips \/ RebuildWakes
    \/ \E b \in Rebuilds : Rebuilding(b) \/ RebuildFails(b)
    \/ \E s \in Symbols : BarArrives(s)
    \/ ProcessBegins \/ ProcessReads \/ EvaluationFires \/ EvaluationIsFalse \/ EvaluationErrs
    \/ EvaluationSkipped \/ AlertsRestart

\* The event loop goes on with the tasks of the rebuilds.
AlertsFairness == WF_alertVars(RebuildWakes) /\ \A b \in Rebuilds : WF_alertVars(Rebuilding(b))

AlertsSpec == AlertsInit /\ [][AlertsNext]_alertVars /\ AlertsFairness

--------------------------------------------------------------------------------
\* A rule is silent once it is deleted, save for an evaluation begun before,
\* though a status PUT, /unmute, the end of a mute or a failed evaluation may
\* make its row active or dormant again (runner.py: process, rules.py: delete_rule).
DeletedStaysSilent == lateFires = {}

\* A rule left active by a status PUT is in the index in the end, and its symbol
\* is resolved, whatever rebuilds were under way; but not when a rebuild
\* failed or a capability flip's older view came last.
RequestedIsIndexed ==
    \A r \in Rules :
        (<>[](running /\ asked[r] /\ Active(r) /\ ~spoilt))
            => <>[](index[r] = rule[r].symbol /\ rule[r].symbol \in known)
================================================================================
