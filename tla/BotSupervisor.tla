---------------------------- MODULE BotSupervisor ----------------------------
(***************************************************************************)
(* One bot and its supervisor: commands the API appends to the bot's       *)
(* control stream, the child processes that trade, each with a queue of    *)
(* its own, the heartbeat key, and the delayed respawns.                   *)
(*                                                                         *)
(* Time is counted in polls of the heartbeat loop (8 s): the respawn that  *)
(* is due 10, 30 or 60 s after a poll runs before the 2nd, 4th or 8th poll *)
(* that follows it.                                                        *)
(***************************************************************************)
EXTENDS Integers, Sequences, FiniteSets

CONSTANTS
    RespawnDelays, \* polls that may precede each respawn: <<1, 3, 7>>
    QueueLimit,    \* maxsize of a child's queue (20)
    MaxChildren,   \* bound: child processes ever started
    MaxCommands,   \* bound: commands appended
    MaxFailovers     \* bound: crashes of the supervisor

ASSUME DelaysAssumption == RespawnDelays \in Seq(Nat) /\ RespawnDelays # <<>>
ASSUME BotBoundsAssumption ==
    /\ QueueLimit \in Nat /\ MaxChildren \in Nat \ {0}
    /\ MaxCommands \in Nat /\ MaxFailovers \in Nat

VARIABLES
    control,    \* entries of bot:control:{bot} not yet delivered
    added,      \* commands ever appended
    doing,      \* the command being executed: "none", "DEPLOY" asleep, or "mark"
    tuner,      \* where a restart() by the parameter tuner is
    childSt,    \* the children: "live" or "dead", in the order of their start
    inbox,      \* _child_queues, of the children that ever lived
    running,    \* is the bot in _running_bots?
    missed,     \* _respawn_counts
    respawns,   \* _respawn_tasks: how many are due after so many polls
    heartbeat,  \* does bot:heartbeat:{bot} exist?
    botStatus,  \* bots.status: "error" or anything else
    botCrashes,
    toldToStop,       \* history: the child a DEPLOY, a restart() toldToStop to stop
    orphanedBy  \* history: what replaced a child that had not been toldToStop to stop

commands == <<control, added, doing, tuner, toldToStop>>
processes == <<childSt, inbox, heartbeat>>
watch == <<running, missed, respawns>>
botVars == <<commands, processes, watch, botStatus, botCrashes, orphanedBy>>

Children == DOMAIN childSt
Latest   == Len(childSt)
Live     == {c \in Children : childSt[c] = "live"}
Due      == 0..RespawnDelays[Len(RespawnDelays)]
Stopping(c) == \E k \in DOMAIN inbox[c] : inbox[c][k] = "STOP"
-----------------------------------------------------------------------------
\* _start_bot: another child and queue, whether or not one is running.
StartBot(why) ==
    /\ Len(childSt) < MaxChildren
    /\ childSt' = Append(childSt, "live")
    /\ inbox' = Append(inbox, <<>>)
    /\ heartbeat' = TRUE
    /\ running' = TRUE
    /\ missed' = 0
    /\ orphanedBy' = Append(IF Latest \in Live /\ ~Stopping(Latest) /\ orphanedBy[Latest] = "none"
                              THEN [orphanedBy EXCEPT ![Latest] = why] ELSE orphanedBy, "none")

\* _send_to_child: only the latest child's queue is known; a full one loses
\* the message.
Sent(msg) ==
    IF Latest = 0 THEN inbox
    ELSE IF Len(inbox[Latest]) >= QueueLimit THEN inbox
    ELSE [inbox EXCEPT ![Latest] = Append(@, msg)]

\* A STOP that a full queue loses.
Unsent == IF Latest \in Live /\ Len(inbox[Latest]) >= QueueLimit
            THEN [orphanedBy EXCEPT ![Latest] = "full_queue"] ELSE orphanedBy

\* api/bots.py: XADD.
Command(cmd) ==
    /\ added < MaxCommands
    /\ added' = added + 1
    /\ control' = Append(control, cmd)
    /\ UNCHANGED <<doing, tuner, toldToStop, processes, watch, botStatus, botCrashes, orphanedBy>>

\* The command loop reads the streams of running bots only.
Next1(cmd) ==
    /\ running /\ doing = "none"
    /\ control # <<>> /\ Head(control) = cmd
    /\ control' = Tail(control)

DoStart ==
    /\ Next1("START")
    /\ doing' = "mark"
    /\ StartBot("start")
    /\ UNCHANGED <<added, tuner, toldToStop, respawns, botStatus, botCrashes>>

DoStop ==
    /\ Next1("STOP")
    /\ doing' = "mark"
    /\ inbox' = Sent("STOP")
    /\ orphanedBy' = Unsent
    /\ UNCHANGED <<added, tuner, toldToStop, childSt, heartbeat, watch, botStatus, botCrashes>>

\* PAUSE, RESUME and UPDATE_ADVISOR_CONFIG: passed on.
DoPass ==
    /\ Next1("PAUSE")
    /\ doing' = "mark"
    /\ inbox' = Sent("PAUSE")
    /\ UNCHANGED <<added, tuner, toldToStop, childSt, heartbeat, watch, botStatus, botCrashes, orphanedBy>>

\* Mutant: the STOP of a DEPLOY is sent after the start, to the new child.
DoDeployLate ==
    /\ Next1("DEPLOY")
    /\ doing' = "DEPLOY"
    /\ toldToStop' = [toldToStop EXCEPT !.deploy = Latest]
    /\ UNCHANGED <<added, tuner, processes, watch, botStatus, botCrashes, orphanedBy>>

\* DEPLOY: STOP, two seconds of sleep, start.
DoDeploy ==
    /\ Next1("DEPLOY")
    /\ doing' = "DEPLOY"
    /\ toldToStop' = [toldToStop EXCEPT !.deploy = Latest]
    /\ inbox' = Sent("STOP")
    /\ orphanedBy' = Unsent
    /\ UNCHANGED <<added, tuner, childSt, heartbeat, watch, botStatus, botCrashes>>

DeployStarts ==
    /\ doing = "DEPLOY"
    /\ doing' = "mark"
    /\ StartBot(IF toldToStop.deploy = Latest THEN "deploy" ELSE "raced")
    /\ UNCHANGED <<control, added, tuner, toldToStop, respawns, botStatus, botCrashes>>

\* SADD of the done key, XACK.
MarkDone ==
    /\ doing = "mark"
    /\ doing' = "none"
    /\ UNCHANGED <<control, added, tuner, toldToStop, processes, watch, botStatus, botCrashes, orphanedBy>>

\* restart() of the parameter tuner: STOP, up to ten seconds, start.
RestartStops ==
    /\ tuner = "idle"
    /\ tuner' = "waiting"
    /\ toldToStop' = [toldToStop EXCEPT !.tuner = Latest]
    /\ inbox' = Sent("STOP")
    /\ orphanedBy' = Unsent
    /\ UNCHANGED <<control, added, doing, childSt, heartbeat, watch, botStatus, botCrashes>>

RestartStarts ==
    /\ tuner = "waiting"
    /\ tuner' = "over"
    /\ StartBot(IF toldToStop.tuner = Latest THEN "restart" ELSE "raced")
    /\ UNCHANGED <<control, added, doing, toldToStop, respawns, botStatus, botCrashes>>
-----------------------------------------------------------------------------
\* A poll that finds no heartbeat: give up after three, else respawn later.
Poll ==
    /\ respawns[0] = 0
    /\ running /\ ~heartbeat
    /\ IF missed >= Len(RespawnDelays)
         THEN /\ botStatus' = "error"
              /\ running' = FALSE
              /\ respawns' = [k \in Due |-> IF k + 1 \in Due THEN respawns[k + 1] ELSE 0]
              /\ UNCHANGED missed
         ELSE /\ missed' = missed + 1
              /\ respawns' = [k \in Due |-> (IF k + 1 \in Due THEN respawns[k + 1] ELSE 0)
                                            + (IF k = RespawnDelays[missed + 1] THEN 1 ELSE 0)]
              /\ UNCHANGED <<botStatus, running>>
    /\ UNCHANGED <<commands, processes, botCrashes, orphanedBy>>

\* One that finds it, or no bot, is eight seconds all the same.
QuietPoll ==
    /\ respawns[0] = 0
    /\ ~running \/ heartbeat
    /\ \E k \in Due : respawns[k] > 0
    /\ respawns' = [k \in Due |-> IF k + 1 \in Due THEN respawns[k + 1] ELSE 0]
    /\ UNCHANGED <<commands, processes, running, missed, botStatus, botCrashes, orphanedBy>>

\* _respawn_bot, once its delay is over; what happened meanwhile is not asked.
Respawn ==
    /\ respawns[0] > 0
    /\ respawns' = [respawns EXCEPT ![0] = @ - 1]
    /\ StartBot("respawn")
    /\ UNCHANGED <<commands, botStatus, botCrashes>>

\* A child takes one message every five seconds; only STOP means anything.
ChildReads(c) ==
    /\ c \in Live /\ inbox[c] # <<>>
    /\ inbox' = [inbox EXCEPT ![c] = Tail(@)]
    /\ childSt' = [childSt EXCEPT ![c] = IF Head(inbox[c]) = "STOP" THEN "dead" ELSE @]
    /\ UNCHANGED <<commands, heartbeat, watch, botStatus, botCrashes, orphanedBy>>

ChildDies(c) ==
    /\ c \in Live
    /\ childSt' = [childSt EXCEPT ![c] = "dead"]
    /\ UNCHANGED <<commands, inbox, heartbeat, watch, botStatus, botCrashes, orphanedBy>>

\* Ten seconds after the last write; a live child writes every five.
HeartbeatExpires ==
    /\ heartbeat /\ Live = {}
    /\ heartbeat' = FALSE
    /\ UNCHANGED <<commands, childSt, inbox, watch, botStatus, botCrashes, orphanedBy>>

\* A crash of the supervisor: its memory and its tasks are gone; an entry that
\* was delivered is not read again; the children live on without a queue.
SupervisorCrash ==
    /\ botCrashes < MaxFailovers
    /\ botCrashes' = botCrashes + 1
    /\ running' = FALSE /\ missed' = 0 /\ respawns' = [k \in Due |-> 0]
    /\ doing' = "none" /\ tuner' = "over"
    /\ orphanedBy' = [c \in Children |-> IF c \in Live /\ orphanedBy[c] = "none"
                                           THEN "crash" ELSE orphanedBy[c]]
    /\ UNCHANGED <<control, added, toldToStop, processes, botStatus>>
-----------------------------------------------------------------------------
BotInit ==
    /\ control = <<>> /\ added = 0 /\ doing = "none" /\ tuner = "idle"
    /\ toldToStop = [deploy |-> 0, tuner |-> 0]
    /\ childSt = <<"live">> /\ inbox = <<<<>>>> /\ heartbeat = TRUE
    /\ running = TRUE /\ missed = 0 /\ respawns = [k \in Due |-> 0]
    /\ botStatus = "running" /\ botCrashes = 0
    /\ orphanedBy = <<"none">>

BotNext ==
    \/ \E cmd \in {"START", "STOP", "PAUSE", "DEPLOY"} : Command(cmd)
    \/ DoStart \/ DoStop \/ DoPass \/ DoDeploy \/ DeployStarts \/ MarkDone
    \/ RestartStops \/ RestartStarts
    \/ Poll \/ QuietPoll \/ Respawn \/ HeartbeatExpires \/ SupervisorCrash
    \/ \E c \in 1..MaxChildren : ChildReads(c) \/ ChildDies(c)

BotSpec == BotInit /\ [][BotNext]_botVars
-----------------------------------------------------------------------------
BotTypeOK ==
    /\ control \in Seq({"START", "STOP", "PAUSE", "DEPLOY"})
    /\ added \in 0..MaxCommands
    /\ doing \in {"none", "DEPLOY", "mark"}
    /\ tuner \in {"idle", "waiting", "over"}
    /\ childSt \in Seq({"live", "dead"}) /\ Len(childSt) <= MaxChildren
    /\ inbox \in Seq(Seq({"STOP", "PAUSE"})) /\ Len(inbox) = Len(childSt)
    /\ running \in BOOLEAN /\ heartbeat \in BOOLEAN
    /\ missed \in 0..Len(RespawnDelays)
    /\ respawns \in [Due -> Nat]
    /\ botStatus \in {"running", "error"}
    /\ Len(orphanedBy) = Len(childSt)

\* A child that trades beside its successor, and that nobody can stop any more,
\* was replaced by a START or a respawn, was started while a DEPLOY or restart
\* slept, lost its STOP in a full queue, or outlived the supervisor: the child
\* a DEPLOY or restart finds is always toldToStop.
RolloverStopsPredecessor ==
    \A c \in Live \ {Latest} :
        Stopping(c) \/ orphanedBy[c] \in {"start", "respawn", "raced", "full_queue", "crash"}

\* Beside that, the types of the supervisor's books and of its children.
BotHolds == BotTypeOK /\ RolloverStopsPredecessor
=============================================================================
