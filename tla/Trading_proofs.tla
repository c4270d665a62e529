---------------------------- MODULE Trading_proofs ----------------------------
(***************************************************************************)
(* Proofs about the modules that place and record trades and share no      *)
(* state: the forex quote, the bot supervisor and the in-flight risk       *)
(* counters, for any number of calls, commands, children and crashes, and  *)
(* the risk gate, for any values of what its checks read.                  *)
(***************************************************************************)
EXTENDS ForexRfq, BotSupervisor, RiskCounters, RiskGate, FiniteSetTheorems, TLAPS

-----------------------------------------------------------------------------
(* The forex quote.                                                        *)

\* The acceptance a got hold of the nonce.
Past(a) == accept[a] \in {"nonce", "gating", "calling", "dealt", "raised", "accepted"}

\* The nonce lets one acceptance through.
OneAcceptance ==
    /\ quote = "none" => nonce = "unset"
    /\ nonce # "gone" => \A a \in Accepts : ~Past(a)
    /\ \A a, b \in Accepts : Past(a) /\ Past(b) => a = b

\* While the gate evaluates, the row is locked and stays as it was.
GatingLocks == \A a \in Accepts : accept[a] = "gating" => rowLock = a /\ quote = "pending"

\* What the row says while the broker is called, and after it dealt.
CallsShow ==
    \A a \in Accepts :
       /\ accept[a] \in {"calling", "dealt", "raised"} =>
             quote = "accepting" \/ (quote = "rejected" /\ overruled)
       /\ accept[a] = "accepted" => quote = "accepted"

\* An executed deal was lost on the way, or some acceptance knows of it.
DealKnown == deal = "executed" => unanswered \/ \E a \in Accepts : accept[a] \in {"dealt", "accepted"}

\* Before an acceptance passed the gate there is no trade.
EarlyUntraded == quote \in {"none", "pending", "expired"} => deal # "executed" /\ fxOrder = "none"

RfqInv == RfqTypeOK /\ OneAcceptance /\ GatingLocks /\ CallsShow /\ DealKnown /\ EarlyUntraded
          /\ StatusTellsTrade

LEMMA RfqInitially == RfqInit => RfqInv
BY DEF RfqInit, RfqInv, RfqTypeOK, OneAcceptance, Past, GatingLocks, CallsShow, DealKnown,
       EarlyUntraded, StatusTellsTrade

LEMMA RfqStep == RfqInv /\ [RfqNext]_rfqVars => RfqInv'
<1> SUFFICES ASSUME RfqInv, [RfqNext]_rfqVars PROVE RfqInv'
  OBVIOUS
<1> USE DEF RfqInv, RfqTypeOK, OneAcceptance, Past, GatingLocks, CallsShow, DealKnown,
        EarlyUntraded, StatusTellsTrade
<1>1. CASE RequestQuote
  BY <1>1 DEF RequestQuote
<1>2. CASE SetNonce
  BY <1>2 DEF SetNonce
<1>3. CASE QuoteLapses
  BY <1>3 DEF QuoteLapses
<1>4. CASE NonceLapses
  BY <1>4 DEF NonceLapses
<1>5. CASE SweepQuotes
  BY <1>5, NobodyAssumption DEF SweepQuotes, Sweepable
<1>6. CASE OrphanFxOrder
  BY <1>6 DEF OrphanFxOrder
<1>7. ASSUME NEW a \in Accepts, TakeNonce(a) PROVE RfqInv'
  BY <1>7 DEF TakeNonce
<1>8. ASSUME NEW a \in Accepts, LockQuote(a) PROVE RfqInv'
  BY <1>8 DEF LockQuote, Acceptable
<1>9. ASSUME NEW a \in Accepts, GateBlocks(a) PROVE RfqInv'
  BY <1>9 DEF GateBlocks
<1>10. ASSUME NEW a \in Accepts, GateClears(a) PROVE RfqInv'
  BY <1>10 DEF GateClears
<1>11. ASSUME NEW a \in Accepts, GateDies(a) PROVE RfqInv'
  BY <1>11 DEF GateDies
<1>12. ASSUME NEW a \in Accepts, BrokerDeals(a) PROVE RfqInv'
  <2>1. /\ accept[a] = "calling" /\ deal' = "executed"
        /\ UNCHANGED <<quote, lapsed, nonce, rowLock, drop, fxOrder, overruled>>
        /\ \/ accept' = [accept EXCEPT ![a] = "dealt"] /\ UNCHANGED unanswered
           \/ accept' = [accept EXCEPT ![a] = "raised"] /\ unanswered' = TRUE
    BY <1>12 DEF BrokerDeals
  <2>2. RfqTypeOK'
    BY <2>1
  <2>3. accept'[a] \in {"dealt", "raised"} /\ \A b \in Accepts : b # a => accept'[b] = accept[b]
    BY <2>1
  <2>4. OneAcceptance' /\ GatingLocks' /\ CallsShow'
    BY <2>1, <2>3
  <2>5. DealKnown'
    BY <2>1
  <2>6. EarlyUntraded' /\ StatusTellsTrade'
    BY <2>1
  <2> QED
    BY <2>2, <2>4, <2>5, <2>6
<1>13. ASSUME NEW a \in Accepts, DealRaises(a) PROVE RfqInv'
  BY <1>13 DEF DealRaises
<1>14. ASSUME NEW a \in Accepts, AcceptRejects(a) PROVE RfqInv'
  BY <1>14 DEF AcceptRejects
<1>15. ASSUME NEW a \in Accepts, AcceptRecords(a) PROVE RfqInv'
  BY <1>15 DEF AcceptRecords
<1>16. ASSUME NEW d \in Drops, DropQuote(d) PROVE RfqInv'
  <2>1. /\ rowLock = Nobody /\ quote # "none"
        /\ UNCHANGED <<lapsed, nonce, rowLock, accept, deal, fxOrder, unanswered>>
    BY <1>16 DEF DropQuote
  <2>2. \A b \in Accepts : accept[b] # "gating"
    BY <2>1, NobodyAssumption
  <2>3. drop' \in [Drops -> {"idle", "calling", "refused", "done"}]
    BY <1>16 DEF DropQuote
  <2>4. CASE Cancellable
    <3>1. quote' = "rejected" /\ overruled' = (overruled \/ quote = "accepting")
      BY <1>16, <2>4 DEF DropQuote
    <3>2. RfqTypeOK' /\ OneAcceptance' /\ GatingLocks'
      BY <2>1, <2>2, <2>3, <3>1
    <3>3. CallsShow' /\ DealKnown' /\ EarlyUntraded'
      BY <2>1, <2>4, <3>1 DEF Cancellable
    <3>4. StatusTellsTrade'
      BY <2>1, <2>4, <3>1 DEF Cancellable
    <3> QED
      BY <3>2, <3>3, <3>4
  <2>5. CASE ~Cancellable
    BY <1>16, <2>1, <2>3, <2>5 DEF DropQuote
  <2> QED
    BY <2>4, <2>5
<1>17. ASSUME NEW d \in Drops, DropReaches(d) PROVE RfqInv'
  BY <1>17 DEF DropReaches
<1>18. CASE UNCHANGED rfqVars
  BY <1>18 DEF rfqVars
<1> QED
  BY <1>1, <1>2, <1>3, <1>4, <1>5, <1>6, <1>7, <1>8, <1>9, <1>10, <1>11, <1>12, <1>13,
     <1>14, <1>15, <1>16, <1>17, <1>18 DEF RfqNext

\* A quote shown as expired was never traded, and a traded one is shown as
\* rejected only if the broker's answer was lost or a cancellation met it
\* accepting: the nonce lets one acceptance through, and its row lock keeps
\* sweep and cancellation away while the gate evaluates.
THEOREM QuoteTellsTrade == RfqSpec => []RfqHolds
<1>1. RfqInv => RfqHolds
  BY DEF RfqInv, RfqHolds
<1> QED
  BY <1>1, RfqInitially, RfqStep, PTL DEF RfqSpec
-----------------------------------------------------------------------------
(* The bot supervisor.                                                     *)

Reasons == {"none", "start", "respawn", "raced", "full_queue", "crash"}

\* Nothing trades on unnoticed as the child c: it is dead, or about to read a
\* STOP, or what replaced it is known.
Rolled(c) == childSt[c] # "live" \/ Stopping(c) \/ orphanedBy[c] # "none"

BotTypes ==
    /\ BotTypeOK
    /\ Latest >= 1
    /\ orphanedBy \in Seq(Reasons)
    /\ toldToStop \in [deploy : 0..Latest, tuner : 0..Latest]

\* The same in the parts that actions change apart.
CommandTypes ==
    /\ control \in Seq({"START", "STOP", "PAUSE", "DEPLOY"})
    /\ added \in 0..MaxCommands
    /\ doing \in {"none", "DEPLOY", "mark"}
    /\ tuner \in {"idle", "waiting", "over"}

ChildTypes ==
    /\ childSt \in Seq({"live", "dead"}) /\ Len(childSt) <= MaxChildren /\ Len(childSt) >= 1
    /\ inbox \in Seq(Seq({"STOP", "PAUSE"})) /\ Len(inbox) = Len(childSt)
    /\ orphanedBy \in Seq(Reasons) /\ Len(orphanedBy) = Len(childSt)
    /\ toldToStop \in [deploy : 0..Len(childSt), tuner : 0..Len(childSt)]

WatchTypes ==
    /\ running \in BOOLEAN /\ heartbeat \in BOOLEAN
    /\ missed \in 0..Len(RespawnDelays)
    /\ respawns \in [Due -> Nat]
    /\ botStatus \in {"running", "error"}

LEMMA TypesInParts == BotTypes <=> CommandTypes /\ ChildTypes /\ WatchTypes
BY DEF BotTypes, BotTypeOK, CommandTypes, ChildTypes, WatchTypes, Latest

\* A DEPLOY that sleeps, and a restart() that waits, told the child they found.
DeployTold  == doing = "DEPLOY" /\ toldToStop.deploy = Latest => Rolled(Latest)
RestartTold == tuner = "waiting" /\ toldToStop.tuner = Latest => Rolled(Latest)
OldRolled   == \A c \in Children : c # Latest => Rolled(c)

BotInv == BotTypes /\ DeployTold /\ RestartTold /\ OldRolled

LEMMA BotInitially == BotInit => BotInv
<1> SUFFICES ASSUME BotInit PROVE BotInv
  OBVIOUS
<1> USE DEF BotInit, Latest, Children
<1>1. Latest = 1 /\ Children = {1} /\ Len(inbox) = 1 /\ Len(orphanedBy) = 1
  OBVIOUS
<1>2. /\ childSt \in Seq({"live", "dead"}) /\ inbox \in Seq(Seq({"STOP", "PAUSE"}))
      /\ orphanedBy \in Seq(Reasons) /\ control \in Seq({"START", "STOP", "PAUSE", "DEPLOY"})
  BY DEF Reasons
<1>3. missed \in 0..Len(RespawnDelays)
  BY DelaysAssumption
<1>4. BotTypes
  BY <1>1, <1>2, <1>3, BotBoundsAssumption DEF BotTypes, BotTypeOK
<1> QED
  BY <1>1, <1>4 DEF BotInv, DeployTold, RestartTold, OldRolled

\* The children stay and keep what was known of them.
Keeps == \A c \in Children : Rolled(c) => Rolled(c)'

LEMMA KeptTold ==
    ASSUME BotInv, BotTypes', Keeps, Len(childSt') = Len(childSt),
           doing' = "DEPLOY" => (doing = "DEPLOY" /\ toldToStop'.deploy = toldToStop.deploy)
                                \/ Rolled(Latest)',
           tuner' = "waiting" => (tuner = "waiting" /\ toldToStop'.tuner = toldToStop.tuner)
                                 \/ Rolled(Latest)'
    PROVE  BotInv'
<1> USE DEF Latest, Children
<1>1. Latest' = Latest /\ Latest \in Children /\ Children' = Children
  BY DEF BotInv, BotTypes, BotTypeOK
<1>2. DeployTold'
  BY <1>1 DEF BotInv, DeployTold, Keeps
<1>3. RestartTold'
  BY <1>1 DEF BotInv, RestartTold, Keeps
<1>4. OldRolled'
  BY <1>1 DEF BotInv, OldRolled, Keeps
<1> QED
  BY <1>2, <1>3, <1>4 DEF BotInv

\* A message to the latest child.
LEMMA SendKeeps ==
    ASSUME BotTypes, NEW msg \in {"STOP", "PAUSE"}, inbox' = Sent(msg), UNCHANGED childSt,
           UNCHANGED orphanedBy \/ orphanedBy' = Unsent
    PROVE  /\ inbox' \in Seq(Seq({"STOP", "PAUSE"})) /\ Len(inbox') = Len(inbox)
           /\ orphanedBy' \in Seq(Reasons) /\ Len(orphanedBy') = Len(orphanedBy)
           /\ Keeps
           /\ msg = "STOP" /\ orphanedBy' = Unsent => Rolled(Latest)'
<1> USE DEF Latest, Children
<1>t. /\ childSt \in Seq({"live", "dead"}) /\ inbox \in Seq(Seq({"STOP", "PAUSE"}))
      /\ orphanedBy \in Seq(Reasons) /\ Len(inbox) = Latest /\ Len(orphanedBy) = Latest
      /\ Latest \in DOMAIN inbox /\ Latest \in DOMAIN orphanedBy /\ Children = DOMAIN inbox
      /\ Children = DOMAIN orphanedBy
  BY DEF BotTypes, BotTypeOK
<1>1. /\ orphanedBy' \in Seq(Reasons) /\ Len(orphanedBy') = Len(orphanedBy)
      /\ \A c \in Children : orphanedBy[c] # "none" => orphanedBy'[c] # "none"
  <2>1. CASE orphanedBy' = orphanedBy
    BY <1>t, <2>1
  <2>2. CASE orphanedBy' = [orphanedBy EXCEPT ![Latest] = "full_queue"]
    <3>1. "full_queue" \in Reasons
      BY DEF Reasons
    <3> QED
      BY <1>t, <2>2, <3>1
  <2> QED
    BY <2>1, <2>2 DEF Unsent
<1> DEFINE q == inbox[Latest]
<1>2. CASE Len(q) >= QueueLimit
  <2>1. inbox' = inbox
    BY <1>2, <1>t DEF Sent
  <2>2. Keeps
    BY <1>1, <2>1 DEF Keeps, Rolled, Stopping
  <2>3. orphanedBy' = Unsent => Rolled(Latest)'
    BY <1>2, <1>t DEF Unsent, Rolled, Live
  <2> QED
    BY <1>1, <1>t, <2>1, <2>2, <2>3
<1>3. CASE ~(Len(q) >= QueueLimit)
  <2>1. inbox' = [inbox EXCEPT ![Latest] = Append(q, msg)]
    BY <1>3, <1>t DEF Sent, BotTypes
  <2>2. q \in Seq({"STOP", "PAUSE"})
    BY <1>t
  <2>3. /\ Append(q, msg) \in Seq({"STOP", "PAUSE"})
        /\ Len(q) + 1 \in DOMAIN Append(q, msg) /\ Append(q, msg)[Len(q) + 1] = msg
        /\ \A k \in DOMAIN q : k \in DOMAIN Append(q, msg) /\ Append(q, msg)[k] = q[k]
    BY <2>2
  <2> HIDE DEF q
  <2>4. inbox' \in Seq(Seq({"STOP", "PAUSE"})) /\ Len(inbox') = Len(inbox)
        /\ inbox'[Latest] = Append(q, msg) /\ \A c \in Children \ {Latest} : inbox'[c] = inbox[c]
    BY <1>t, <2>1, <2>3
  <2>5. \A c \in Children : Stopping(c) => Stopping(c)'
    BY <2>3, <2>4 DEF Stopping, q
  <2>6. msg = "STOP" => Stopping(Latest)'
    BY <2>3, <2>4 DEF Stopping
  <2> QED
    BY <1>1, <2>4, <2>5, <2>6 DEF Keeps, Rolled
<1> QED
  BY <1>2, <1>3

\* The same for the types: the message is the only change to the children.
LEMMA SendTypes ==
    ASSUME BotTypes, NEW msg \in {"STOP", "PAUSE"}, inbox' = Sent(msg), UNCHANGED childSt,
           UNCHANGED orphanedBy \/ orphanedBy' = Unsent,
           toldToStop' \in [deploy : 0..Latest, tuner : 0..Latest]
    PROVE  ChildTypes'
<1>1. /\ inbox' \in Seq(Seq({"STOP", "PAUSE"})) /\ Len(inbox') = Len(inbox)
      /\ orphanedBy' \in Seq(Reasons) /\ Len(orphanedBy') = Len(orphanedBy)
  BY SendKeeps
<1>2. ChildTypes
  BY TypesInParts
<1> QED
  BY <1>1, <1>2 DEF ChildTypes, Latest

\* A new child: what it replaces was told to stop, or why not is noted.
LEMMA StartRolls ==
    ASSUME BotInv, NEW why, StartBot(why),
           why \in Reasons \ {"none"} \/ Rolled(Latest),
           UNCHANGED toldToStop
    PROVE  /\ ChildTypes'
           /\ DeployTold' /\ RestartTold' /\ OldRolled'
           /\ running' \in BOOLEAN /\ heartbeat' \in BOOLEAN /\ missed' \in 0..Len(RespawnDelays)
<1> USE DEF Latest, Children
<1>t. /\ childSt \in Seq({"live", "dead"}) /\ inbox \in Seq(Seq({"STOP", "PAUSE"}))
      /\ orphanedBy \in Seq(Reasons) /\ Len(inbox) = Latest /\ Len(orphanedBy) = Latest
      /\ Latest \in Nat /\ Latest >= 1
      /\ toldToStop.deploy <= Latest /\ toldToStop.tuner <= Latest
  BY DEF BotInv, BotTypes, BotTypeOK
<1> DEFINE noted == IF Latest \in Live /\ ~Stopping(Latest) /\ orphanedBy[Latest] = "none"
                      THEN [orphanedBy EXCEPT ![Latest] = why] ELSE orphanedBy
<1>1. /\ childSt' = Append(childSt, "live") /\ inbox' = Append(inbox, <<>>)
      /\ orphanedBy' = Append(noted, "none") /\ Latest < MaxChildren
  BY DEF StartBot
<1>2. /\ noted \in Seq(Reasons) /\ Len(noted) = Latest
      /\ \A c \in 1..Latest : orphanedBy[c] # "none" => noted[c] # "none"
      /\ Rolled(Latest) \/ noted[Latest] # "none"
  <2>1. CASE Rolled(Latest)
    BY <1>t, <2>1 DEF Rolled, Live
  <2>2. CASE ~Rolled(Latest)
    BY <1>t, <2>2 DEF Rolled, Live
  <2> QED
    BY <2>1, <2>2
<1> HIDE DEF noted
<1>3. /\ childSt' \in Seq({"live", "dead"}) /\ Len(childSt') = Latest + 1
      /\ inbox' \in Seq(Seq({"STOP", "PAUSE"})) /\ Len(inbox') = Latest + 1
      /\ orphanedBy' \in Seq(Reasons) /\ Len(orphanedBy') = Latest + 1
  <2>1. "none" \in Reasons /\ "live" \in {"live", "dead"} /\ <<>> \in Seq({"STOP", "PAUSE"})
    BY DEF Reasons
  <2> QED
    BY <1>t, <1>1, <1>2, <2>1
<1>4. \A c \in 1..Latest : /\ childSt'[c] = childSt[c] /\ inbox'[c] = inbox[c]
                           /\ orphanedBy'[c] = noted[c]
  BY <1>t, <1>1, <1>2
<1>5. \A c \in 1..Latest : Rolled(c)'
  <2>1. \A c \in 1..Latest : Rolled(c) \/ noted[c] # "none"
    BY <1>t, <1>2 DEF BotInv, OldRolled
  <2> QED
    BY <1>2, <1>4, <2>1 DEF Rolled, Stopping
<1>6. OldRolled'
  BY <1>t, <1>3, <1>5 DEF OldRolled
<1>7. DeployTold' /\ RestartTold'
  BY <1>t, <1>3 DEF DeployTold, RestartTold
<1>8. toldToStop' \in [deploy : 0..(Latest + 1), tuner : 0..(Latest + 1)]
  BY DEF BotInv, BotTypes
<1>9. ChildTypes'
  BY <1>1, <1>3, <1>8, <1>t, BotBoundsAssumption DEF ChildTypes
<1>10. Len(RespawnDelays) \in Nat
  BY DelaysAssumption
<1> QED
  BY <1>6, <1>7, <1>9, <1>10 DEF StartBot

LEMMA BotStep == BotInv /\ [BotNext]_botVars => BotInv'
<1> SUFFICES ASSUME BotInv, [BotNext]_botVars PROVE BotInv'
  OBVIOUS
<1> USE DEF Latest, Children
<1>t. BotTypes /\ BotTypeOK /\ CommandTypes /\ ChildTypes /\ WatchTypes
  BY TypesInParts DEF BotInv, BotTypes
<1>p. CommandTypes' /\ ChildTypes' /\ WatchTypes' => BotTypes'
  BY DEF BotTypes, BotTypeOK, CommandTypes, ChildTypes, WatchTypes
<1>l. Len(RespawnDelays) \in Nat
  BY DelaysAssumption
<1>s. /\ control \in Seq({"START", "STOP", "PAUSE", "DEPLOY"})
      /\ control # <<>> => Tail(control) \in Seq({"START", "STOP", "PAUSE", "DEPLOY"})
  BY <1>t DEF BotTypeOK
<1> DEFINE Others == UNCHANGED <<childSt, inbox, orphanedBy>>
<1>k. Others => Keeps
  BY DEF Keeps, Rolled, Stopping
<1>c. Others /\ UNCHANGED toldToStop => ChildTypes'
  BY <1>t DEF ChildTypes
<1>w. UNCHANGED watch /\ UNCHANGED heartbeat /\ UNCHANGED botStatus => WatchTypes'
  BY <1>t DEF WatchTypes, watch, Due
<1>o. toldToStop \in [deploy : 0..Latest, tuner : 0..Latest]
  BY <1>t DEF BotTypes
<1>1. ASSUME NEW cmd \in {"START", "STOP", "PAUSE", "DEPLOY"}, Command(cmd)
      PROVE  BotInv'
  <2>1. CommandTypes'
    BY <1>1, <1>t, <1>s, BotBoundsAssumption DEF Command, CommandTypes
  <2>2. BotTypes'
    BY <1>1, <1>c, <1>w, <1>p, <2>1 DEF Command, processes
  <2> QED
    BY <1>1, <1>k, <2>2, KeptTold DEF Command, processes, watch
<1>2. CASE DoStart
  <2>1. /\ "start" \in Reasons \ {"none"} /\ StartBot("start") /\ UNCHANGED toldToStop
        /\ UNCHANGED <<respawns, botStatus>>
    BY <1>2 DEF DoStart, Reasons
  <2>2. CommandTypes'
    BY <1>2, <1>t, <1>s DEF DoStart, Next1, CommandTypes
  <2> QED
    BY <1>t, <1>p, <2>1, <2>2, StartRolls DEF BotInv, WatchTypes, Due
<1>3. CASE DoStop
  <2>1. ChildTypes' /\ Keeps
    BY <1>3, <1>t, <1>o, SendKeeps, SendTypes DEF DoStop
  <2>2. CommandTypes'
    BY <1>3, <1>t, <1>s DEF DoStop, Next1, CommandTypes
  <2>3. BotTypes'
    BY <1>3, <1>w, <1>p, <2>1, <2>2 DEF DoStop
  <2> QED
    BY <1>3, <2>1, <2>3, KeptTold DEF DoStop
<1>4. CASE DoPass
  <2>1. ChildTypes' /\ Keeps
    BY <1>4, <1>t, <1>o, SendKeeps, SendTypes DEF DoPass
  <2>2. CommandTypes'
    BY <1>4, <1>t, <1>s DEF DoPass, Next1, CommandTypes
  <2>3. BotTypes'
    BY <1>4, <1>w, <1>p, <2>1, <2>2 DEF DoPass
  <2> QED
    BY <1>4, <2>1, <2>3, KeptTold DEF DoPass
<1>5. CASE DoDeploy
  <2>1. /\ toldToStop' = [toldToStop EXCEPT !.deploy = Latest]
        /\ toldToStop' \in [deploy : 0..Latest, tuner : 0..Latest]
        /\ toldToStop'.tuner = toldToStop.tuner
    BY <1>5, <1>o, <1>t DEF DoDeploy, BotTypes
  <2>2. ChildTypes' /\ Keeps /\ Rolled(Latest)'
    BY <1>5, <1>t, <2>1, SendKeeps, SendTypes DEF DoDeploy
  <2>3. CommandTypes'
    BY <1>5, <1>t, <1>s DEF DoDeploy, Next1, CommandTypes
  <2>4. BotTypes'
    BY <1>5, <1>w, <1>p, <2>2, <2>3 DEF DoDeploy
  <2> QED
    BY <1>5, <2>1, <2>2, <2>4, KeptTold DEF DoDeploy
<1>6. CASE DeployStarts
  <2> DEFINE why == IF toldToStop.deploy = Latest THEN "deploy" ELSE "raced"
  <2>1. why \in Reasons \ {"none"} \/ Rolled(Latest)
    BY <1>6 DEF DeployStarts, Reasons, BotInv, DeployTold
  <2>2. StartBot(why) /\ UNCHANGED toldToStop /\ UNCHANGED <<respawns, botStatus>>
    BY <1>6 DEF DeployStarts
  <2> HIDE DEF why
  <2>3. CommandTypes'
    BY <1>6, <1>t DEF DeployStarts, CommandTypes
  <2> QED
    BY <1>t, <1>p, <2>1, <2>2, <2>3, StartRolls DEF BotInv, WatchTypes, Due
<1>7. CASE MarkDone
  <2>1. CommandTypes'
    BY <1>7, <1>t DEF MarkDone, CommandTypes
  <2>2. BotTypes'
    BY <1>7, <1>c, <1>w, <1>p, <2>1 DEF MarkDone, processes
  <2> QED
    BY <1>7, <1>k, <2>2, KeptTold DEF MarkDone, processes, watch
<1>8. CASE RestartStops
  <2>1. /\ toldToStop' = [toldToStop EXCEPT !.tuner = Latest]
        /\ toldToStop' \in [deploy : 0..Latest, tuner : 0..Latest]
        /\ toldToStop'.deploy = toldToStop.deploy
    BY <1>8, <1>o, <1>t DEF RestartStops, BotTypes
  <2>2. ChildTypes' /\ Keeps /\ Rolled(Latest)'
    BY <1>8, <1>t, <2>1, SendKeeps, SendTypes DEF RestartStops
  <2>3. CommandTypes'
    BY <1>8, <1>t DEF RestartStops, CommandTypes
  <2>4. BotTypes'
    BY <1>8, <1>w, <1>p, <2>2, <2>3 DEF RestartStops
  <2> QED
    BY <1>8, <2>1, <2>2, <2>4, KeptTold DEF RestartStops
<1>9. CASE RestartStarts
  <2> DEFINE why == IF toldToStop.tuner = Latest THEN "restart" ELSE "raced"
  <2>1. why \in Reasons \ {"none"} \/ Rolled(Latest)
    BY <1>9 DEF RestartStarts, Reasons, BotInv, RestartTold
  <2>2. StartBot(why) /\ UNCHANGED toldToStop /\ UNCHANGED <<respawns, botStatus>>
    BY <1>9 DEF RestartStarts
  <2> HIDE DEF why
  <2>3. CommandTypes'
    BY <1>9, <1>t DEF RestartStarts, CommandTypes
  <2> QED
    BY <1>t, <1>p, <2>1, <2>2, <2>3, StartRolls DEF BotInv, WatchTypes, Due
<1> DEFINE Shifted == [k \in Due |-> IF k + 1 \in Due THEN respawns[k + 1] ELSE 0]
<1>f. Shifted \in [Due -> Nat]
  BY <1>t DEF WatchTypes
<1>10. CASE Poll
  <2>1. respawns' \in [Due -> Nat]
    <3>1. CASE missed >= Len(RespawnDelays)
      BY <1>10, <1>f, <3>1 DEF Poll
    <3>2. CASE ~(missed >= Len(RespawnDelays))
      <4>1. \A k \in Due : (IF k + 1 \in Due THEN respawns[k + 1] ELSE 0) \in Nat
        BY <1>t DEF WatchTypes
      <4> DEFINE more(k) == (IF k + 1 \in Due THEN respawns[k + 1] ELSE 0)
                            + (IF k = RespawnDelays[missed + 1] THEN 1 ELSE 0)
      <4>2. respawns' = [k \in Due |-> more(k)]
        BY <1>10, <3>2 DEF Poll
      <4>3. \A k \in Due : more(k) \in Nat
        BY <4>1
      <4> HIDE DEF more
      <4> QED
        BY <4>2, <4>3
    <3> QED
      BY <3>1, <3>2
  <2>2. missed' \in 0..Len(RespawnDelays) /\ running' \in BOOLEAN /\ heartbeat' \in BOOLEAN
        /\ botStatus' \in {"running", "error"}
    <3>1. missed \in 0..Len(RespawnDelays) /\ running \in BOOLEAN /\ heartbeat' \in BOOLEAN
          /\ botStatus \in {"running", "error"}
      BY <1>10, <1>t DEF Poll, WatchTypes, processes
    <3>2. CASE missed >= Len(RespawnDelays)
      BY <1>10, <3>1, <3>2 DEF Poll
    <3>3. CASE ~(missed >= Len(RespawnDelays))
      <4>1. missed + 1 \in 0..Len(RespawnDelays)
        BY <1>l, <3>1, <3>3
      <4> QED
        BY <1>10, <3>1, <3>3, <4>1 DEF Poll
    <3> QED
      BY <3>2, <3>3
  <2>3. CommandTypes' /\ WatchTypes'
    BY <1>10, <1>t, <2>1, <2>2 DEF Poll, CommandTypes, WatchTypes, commands, Due
  <2>4. BotTypes'
    BY <1>10, <1>c, <1>p, <2>3 DEF Poll, commands, processes
  <2> QED
    BY <1>10, <1>k, <2>4, KeptTold DEF Poll, commands, processes
<1>11. CASE QuietPoll
  <2>1. CommandTypes' /\ WatchTypes'
    BY <1>11, <1>t, <1>f DEF QuietPoll, CommandTypes, WatchTypes, commands, processes, Due
  <2>2. BotTypes'
    BY <1>11, <1>c, <1>p, <2>1 DEF QuietPoll, commands, processes
  <2> QED
    BY <1>11, <1>k, <2>2, KeptTold DEF QuietPoll, commands, processes
<1>12. CASE Respawn
  <2>1. /\ "respawn" \in Reasons \ {"none"} /\ StartBot("respawn") /\ UNCHANGED toldToStop
        /\ UNCHANGED botStatus
    BY <1>12 DEF Respawn, Reasons, commands
  <2>2. respawns' \in [Due -> Nat]
    <3>1. 0 \in Due
      <4>1. RespawnDelays[Len(RespawnDelays)] \in Nat
        BY DelaysAssumption
      <4> QED
        BY <4>1 DEF Due
    <3>2. respawns[0] - 1 \in Nat
      BY <1>12, <1>t, <3>1 DEF Respawn, WatchTypes
    <3> QED
      BY <1>12, <1>t, <3>2 DEF Respawn, WatchTypes
  <2>3. CommandTypes'
    BY <1>12, <1>t DEF Respawn, CommandTypes, commands
  <2> QED
    BY <1>t, <1>p, <2>1, <2>2, <2>3, StartRolls DEF BotInv, WatchTypes, Due
<1>13. CASE HeartbeatExpires
  <2>1. BotTypes'
    BY <1>13, <1>t, <1>c, <1>p DEF HeartbeatExpires, CommandTypes, WatchTypes, commands, watch, Due
  <2> QED
    BY <1>13, <1>k, <2>1, KeptTold DEF HeartbeatExpires, commands, watch
<1>14. CASE SupervisorCrash
  <2> DEFINE left == [c \in Children |-> IF c \in Live /\ orphanedBy[c] = "none"
                                           THEN "crash" ELSE orphanedBy[c]]
  <2>1. left \in Seq(Reasons) /\ Len(left) = Latest
    <3>1. orphanedBy \in Seq(Reasons) /\ Len(orphanedBy) = Latest /\ Latest \in Nat
      BY <1>t DEF BotTypes, BotTypeOK
    <3>2. \A c \in 1..Latest : left[c] \in Reasons
      BY <3>1 DEF Reasons
    <3>3. Children = 1..Latest
      BY <1>t DEF ChildTypes
    <3> DEFINE of(c) == IF c \in Live /\ orphanedBy[c] = "none" THEN "crash" ELSE orphanedBy[c]
    <3>4. left = [c \in 1..Latest |-> of(c)] /\ \A c \in 1..Latest : of(c) \in Reasons
      BY <3>2, <3>3
    <3> HIDE DEF of, left
    <3> QED
      BY <3>1, <3>4
  <2> HIDE DEF left
  <2>5. orphanedBy' = left
    BY <1>14 DEF SupervisorCrash, left
  <2>6. ChildTypes' /\ CommandTypes'
    BY <1>14, <1>t, <2>1, <2>5 DEF SupervisorCrash, ChildTypes, CommandTypes, processes
  <2>7. WatchTypes'
    <3>1. respawns' = [k \in Due |-> 0] /\ missed' = 0 /\ running' = FALSE
          /\ UNCHANGED <<heartbeat, botStatus>>
      BY <1>14 DEF SupervisorCrash, processes
    <3>2. respawns' \in [Due -> Nat] /\ missed' \in 0..Len(RespawnDelays)
      BY <3>1, <1>l
    <3> QED
      BY <1>t, <3>1, <3>2 DEF WatchTypes, Due
  <2>2. BotTypes'
    BY <1>p, <2>6, <2>7
  <2>3. Keeps
    BY <1>14 DEF SupervisorCrash, processes, Keeps, Rolled, Stopping
  <2> QED
    BY <1>14, <2>2, <2>3, KeptTold DEF SupervisorCrash, processes
<1>15. ASSUME NEW c \in 1..MaxChildren, ChildReads(c)
       PROVE  BotInv'
  <2>1. c \in DOMAIN childSt /\ c \in DOMAIN inbox /\ inbox[c] # <<>>
        /\ inbox[c] \in Seq({"STOP", "PAUSE"})
    BY <1>15, <1>t DEF ChildReads, Live, BotTypeOK
  <2>2. /\ inbox' = [inbox EXCEPT ![c] = Tail(inbox[c])]
        /\ \E x \in {"live", "dead"} : childSt' = [childSt EXCEPT ![c] = x]
        /\ Head(inbox[c]) = "STOP" => childSt'[c] = "dead"
    BY <1>15, <1>t, <2>1 DEF ChildReads, BotTypeOK, Live
  <2>3. Tail(inbox[c]) \in Seq({"STOP", "PAUSE"})
    BY <2>1
  <2>4. BotTypes'
    <3>1. /\ inbox' \in Seq(Seq({"STOP", "PAUSE"})) /\ Len(inbox') = Len(inbox)
          /\ childSt' \in Seq({"live", "dead"}) /\ Len(childSt') = Len(childSt)
      BY <1>t, <2>1, <2>2, <2>3 DEF BotTypeOK
    <3> QED
      BY <1>15, <1>t, <3>1 DEF ChildReads, BotTypes, BotTypeOK, commands, watch
  <2>5. Rolled(c) => Rolled(c)'
    <3>1. CASE Stopping(c) /\ Head(inbox[c]) # "STOP"
      <4>1. PICK k \in DOMAIN inbox[c] : inbox[c][k] = "STOP"
        BY <3>1 DEF Stopping
      <4>2. k # 1 /\ k - 1 \in DOMAIN Tail(inbox[c]) /\ Tail(inbox[c])[k - 1] = "STOP"
        BY <2>1, <3>1, <4>1
      <4>3. Stopping(c)'
        BY <1>t, <2>1, <2>2, <4>2 DEF Stopping, BotTypeOK
      <4> QED
        BY <4>3 DEF Rolled
    <3>2. CASE Head(inbox[c]) = "STOP"
      BY <2>2, <3>2 DEF Rolled
    <3>3. CASE ~Stopping(c)
      BY <1>15, <3>3 DEF Rolled, ChildReads, Live
    <3> QED
      BY <3>1, <3>2, <3>3
  <2>6. Keeps
    <3>1. \A d \in Children \ {c} : childSt'[d] = childSt[d] /\ inbox'[d] = inbox[d]
      BY <1>t, <2>2 DEF BotTypeOK
    <3> QED
      BY <1>15, <2>5, <3>1 DEF Keeps, Rolled, Stopping, ChildReads
  <2> QED
    BY <1>15, <1>t, <2>2, <2>4, <2>6, KeptTold DEF ChildReads, BotTypeOK, commands, watch
<1>16. ASSUME NEW c \in 1..MaxChildren, ChildDies(c)
       PROVE  BotInv'
  <2>1. /\ childSt' \in Seq({"live", "dead"}) /\ Len(childSt') = Len(childSt)
        /\ childSt' = [childSt EXCEPT ![c] = "dead"]
    <3>1. "dead" \in {"live", "dead"} /\ childSt \in Seq({"live", "dead"}) /\ c \in DOMAIN childSt
      BY <1>16, <1>t DEF ChildDies, ChildTypes, Live
    <3>2. childSt' = [childSt EXCEPT ![c] = "dead"]
      BY <1>16 DEF ChildDies
    <3> QED
      BY <3>1, <3>2
  <2>2. BotTypes'
    <3>1. ChildTypes'
      BY <1>16, <1>t, <2>1 DEF ChildDies, ChildTypes, commands
    <3> QED
      BY <1>16, <1>t, <1>w, <1>p, <3>1 DEF ChildDies, CommandTypes, commands
  <2>3. Keeps
    BY <1>16, <1>t, <2>1 DEF ChildDies, Keeps, Rolled, Stopping, BotTypeOK
  <2> QED
    BY <1>16, <2>1, <2>2, <2>3, KeptTold DEF ChildDies, commands, watch
<1>17. CASE UNCHANGED botVars
  <2>1. BotTypes'
    BY <1>17, <1>t DEF botVars, BotTypes, BotTypeOK, commands, watch, processes
  <2> QED
    BY <1>17, <1>k, <2>1, KeptTold DEF botVars, commands, watch, processes
<1> QED
  BY <1>1, <1>2, <1>3, <1>4, <1>5, <1>6, <1>7, <1>8, <1>9, <1>10, <1>11, <1>12, <1>13,
     <1>14, <1>15, <1>16, <1>17 DEF BotNext

\* A child that trades on beside its successor was never found by a DEPLOY or a
\* restart of the tuner: the child these find is told to stop before another is
\* started, however commands, polls, respawns and crashes fall between.
THEOREM RolloversStop == BotSpec => []BotHolds
<1>1. BotInv => BotHolds
  <2> SUFFICES ASSUME BotInv PROVE RolloverStopsPredecessor
    BY DEF BotInv, BotTypes, BotHolds
  <2> SUFFICES ASSUME NEW c \in Live \ {Latest}
               PROVE  Stopping(c) \/ orphanedBy[c] \in Reasons \ {"none"}
    BY DEF RolloverStopsPredecessor, Reasons
  <2>1. Rolled(c) /\ c \in Children
    BY DEF BotInv, OldRolled, Live
  <2>2. orphanedBy[c] \in Reasons
    BY <2>1 DEF BotInv, BotTypes, BotTypeOK, Children
  <2> QED
    BY <2>1, <2>2 DEF Rolled, Live
<1> QED
  BY <1>1, BotInitially, BotStep, PTL DEF BotSpec
-----------------------------------------------------------------------------
(* The in-flight counters: sums over sets of placements.                   *)
(*                                                                         *)
(* Total is a fold, a recursive function of sets.  What holds of it for    *)
(* every finite set is proved without an induction theorem: of the sets    *)
(* that break a law a smallest one is taken, and it does not break it.     *)

\* Total(S) is Sums(S)[S], the fold with its operators put in.
Pick(s) == CHOOSE o \in s : TRUE
PickThenRest(f, s) == IF s = {} THEN 0 ELSE Notional[Pick(s)] + f[s \ {Pick(s)}]
Sums(S) == CHOOSE f : f = [s \in SUBSET S |-> PickThenRest(f, s)]
\* f is such a sum for the subsets of S.
Recursive(f, S) == f = [s \in SUBSET S |-> PickThenRest(f, s)]

\* Total is that sum.
LEMMA TotalIsSums == \A S : Total(S) = Sums(S)[S]
BY Zenon DEF Total, MapThenSumSet, MapThenFoldSet, Sums, PickThenRest, Pick

\* A set of finite sets has a smallest one.
LEMMA Smallest ==
    ASSUME NEW T, T \subseteq SUBSET Buys, T # {}
    PROVE  \E A \in T : \A B \in T : ~(B \subseteq A /\ B # A)
<1>1. FiniteSubsetsOf(Buys) = SUBSET Buys
  BY RiskAssumption, FS_FiniteSubsetsOfFinite
<1>2. IsWellFoundedOn(StrictSubsetOrdering(Buys), SUBSET Buys)
  BY <1>1, FS_StrictSubsetOrderingWellFounded
<1>3. PICK A \in T : \A B \in T : <<B, A>> \notin StrictSubsetOrdering(Buys)
  BY <1>2, WFMin
<1> QED
  BY <1>3 DEF StrictSubsetOrdering

\* Two such functions agree where both are defined.
LEMMA SumsAgree ==
    ASSUME NEW A, NEW B, A \subseteq B, B \subseteq Buys, NEW f, NEW g, Recursive(f, A), Recursive(g, B)
    PROVE  \A s \in SUBSET A : f[s] = g[s]
<1> DEFINE T == {s \in SUBSET A : f[s] # g[s]}
<1> SUFFICES ASSUME T # {} PROVE FALSE
  OBVIOUS
<1>1. PICK s \in T : \A t \in T : ~(t \subseteq s /\ t # s)
  <2>1. T \subseteq SUBSET Buys /\ T # {}
    OBVIOUS
  <2> HIDE DEF T
  <2> QED
    BY <2>1, Smallest
<1>2. f[s] = PickThenRest(f, s) /\ g[s] = PickThenRest(g, s)
  BY DEF Recursive
<1>3. s # {}
  BY <1>2 DEF PickThenRest
<1>4. Pick(s) \in s
  BY <1>3 DEF Pick
<1>5. f[s \ {Pick(s)}] = g[s \ {Pick(s)}]
  BY <1>1, <1>4
<1> QED
  BY <1>2, <1>3, <1>5 DEF PickThenRest

\* There is one for every finite set: the equation above does define a function.
LEMMA SumsExist == \A S \in SUBSET Buys : Recursive(Sums(S), S)
<1> DEFINE T == {S \in SUBSET Buys : ~Recursive(Sums(S), S)}
<1> SUFFICES ASSUME T # {} PROVE FALSE
  OBVIOUS
<1>1. PICK S \in T : \A R \in T : ~(R \subseteq S /\ R # S)
  <2>1. T \subseteq SUBSET Buys /\ T # {}
    OBVIOUS
  <2> HIDE DEF T
  <2> QED
    BY <2>1, Smallest
<1>2. ASSUME NEW t \in SUBSET S, t # S PROVE Recursive(Sums(t), t)
  BY <1>1, <1>2
<1> DEFINE h == [s \in SUBSET S |-> IF s = {} THEN 0 ELSE Notional[Pick(s)] + Sums(s \ {Pick(s)})[s \ {Pick(s)}]]
<1>3. ASSUME NEW s \in SUBSET S, s # {} PROVE h[s] = Notional[Pick(s)] + h[s \ {Pick(s)}]
  <2> DEFINE t == s \ {Pick(s)}
             u == t \ {Pick(t)}
  <2>1. Pick(s) \in s /\ t \subseteq S /\ t # S
    BY <1>3 DEF Pick
  <2>2. Recursive(Sums(t), t)
    BY <1>2, <2>1
  <2>3. h[t] = Sums(t)[t]
    <3>1. CASE t = {}
      BY <2>1, <2>2, <3>1 DEF Recursive, PickThenRest
    <3>2. CASE t # {}
      <4>1. Pick(t) \in t /\ u \subseteq t /\ u # S
        BY <2>1, <3>2 DEF Pick
      <4>2. Recursive(Sums(u), u)
        BY <1>2, <2>1, <4>1
      <4>3. Sums(u)[u] = Sums(t)[u]
        BY <2>1, <2>2, <4>1, <4>2, SumsAgree
      <4>4. Sums(t)[t] = Notional[Pick(t)] + Sums(t)[u]
        BY <2>2, <3>2 DEF Recursive, PickThenRest
      <4>5. h[t] = Notional[Pick(t)] + Sums(u)[u]
        BY <2>1, <3>2
      <4> QED
        BY <4>3, <4>4, <4>5
    <3> QED
      BY <3>1, <3>2
  <2> QED
    BY <1>3, <2>3
<1>4. h[{}] = 0
  OBVIOUS
<1>5. Recursive(h, S)
  <2> HIDE DEF h
  <2>1. h = [s \in SUBSET S |-> h[s]]
    BY DEF h
  <2>2. \A s \in SUBSET S : h[s] = PickThenRest(h, s)
    BY <1>3, <1>4 DEF PickThenRest
  <2> QED
    BY <2>1, <2>2 DEF Recursive
<1>6. \E f : Recursive(f, S)
  BY <1>5
<1>7. Recursive(Sums(S), S)
  BY <1>6 DEF Sums, Recursive
<1> QED
  BY <1>7

\* The law that defines a total.
LEMMA TotalPicks ==
    ASSUME NEW S \in SUBSET Buys
    PROVE  /\ S = {} => Total(S) = 0
           /\ S # {} => Pick(S) \in S /\ Total(S) = Notional[Pick(S)] + Total(S \ {Pick(S)})
<1>1. Recursive(Sums(S), S) /\ Total(S) = Sums(S)[S] /\ Sums(S)[S] = PickThenRest(Sums(S), S)
  BY SumsExist, TotalIsSums DEF Recursive
<1>2. CASE S = {}
  BY <1>1, <1>2 DEF PickThenRest
<1>3. CASE S # {}
  <2> DEFINE R == S \ {Pick(S)}
  <2>1. Pick(S) \in S /\ R \subseteq S
    BY <1>3 DEF Pick
  <2>2. Recursive(Sums(R), R) /\ Total(R) = Sums(R)[R]
    BY <2>1, SumsExist, TotalIsSums
  <2>3. Sums(R)[R] = Sums(S)[R]
    BY <1>1, <2>1, <2>2, SumsAgree
  <2> QED
    BY <1>1, <1>3, <2>1, <2>2, <2>3 DEF PickThenRest
<1> QED
  BY <1>2, <1>3

\* A total is a natural number.
LEMMA TotalType == \A S \in SUBSET Buys : Total(S) \in Nat
<1> DEFINE T == {S \in SUBSET Buys : Total(S) \notin Nat}
<1> SUFFICES ASSUME T # {} PROVE FALSE
  OBVIOUS
<1>1. PICK S \in T : \A R \in T : ~(R \subseteq S /\ R # S)
  <2>1. T \subseteq SUBSET Buys /\ T # {}
    OBVIOUS
  <2> HIDE DEF T
  <2> QED
    BY <2>1, Smallest
<1>2. S # {} /\ Pick(S) \in S /\ Total(S) = Notional[Pick(S)] + Total(S \ {Pick(S)})
  BY TotalPicks
<1>3. Total(S \ {Pick(S)}) \in Nat
  BY <1>1, <1>2
<1> QED
  BY <1>2, <1>3, RiskAssumption

\* The order does not matter: any member may be taken out.
LEMMA TotalWithout ==
    \A S \in SUBSET Buys : \A o \in S : Total(S) = Notional[o] + Total(S \ {o})
<1> DEFINE T == {S \in SUBSET Buys : \E o \in S : Total(S) # Notional[o] + Total(S \ {o})}
<1> SUFFICES ASSUME T # {} PROVE FALSE
  OBVIOUS
<1>1. PICK S \in T : \A R \in T : ~(R \subseteq S /\ R # S)
  <2>1. T \subseteq SUBSET Buys /\ T # {}
    OBVIOUS
  <2> HIDE DEF T
  <2> QED
    BY <2>1, Smallest
<1>2. PICK o \in S : Total(S) # Notional[o] + Total(S \ {o})
  OBVIOUS
<1> DEFINE p == Pick(S)
<1>3. p \in S /\ Total(S) = Notional[p] + Total(S \ {p})
  BY <1>2, TotalPicks
<1>4. p # o
  BY <1>2, <1>3
<1> DEFINE R == (S \ {p}) \ {o}
<1>5. R = (S \ {o}) \ {p} /\ R \in SUBSET Buys
  OBVIOUS
<1>s. ASSUME NEW A \in SUBSET Buys, A \subseteq S, A # S, NEW q \in A
      PROVE  Total(A) = Notional[q] + Total(A \ {q})
  <2>1. A \notin T
    BY ONLY <1>1, <1>s
  <2> QED
    BY <1>s, <2>1
<1>6. Total(S \ {p}) = Notional[o] + Total(R)
  <2>1. S \ {p} \in SUBSET Buys /\ S \ {p} \subseteq S /\ S \ {p} # S /\ o \in S \ {p}
    BY <1>3, <1>4
  <2> QED
    BY ONLY <2>1, <1>s
<1>7. Total(S \ {o}) = Notional[p] + Total(R)
  <2>1. S \ {o} \in SUBSET Buys /\ S \ {o} \subseteq S /\ S \ {o} # S /\ p \in S \ {o}
    BY <1>3, <1>4
  <2>2. Total(S \ {o}) = Notional[p] + Total((S \ {o}) \ {p})
    BY ONLY <2>1, <1>s
  <2> QED
    BY <1>5, <2>2
<1>8. Total(R) \in Nat /\ Notional[o] \in Nat /\ Notional[p] \in Nat
  BY <1>3, <1>5, TotalType, RiskAssumption
<1> HIDE DEF p, R, T
<1> QED
  BY <1>2, <1>3, <1>6, <1>7, <1>8

\* One member more, or one less.
LEMMA TotalMore ==
    ASSUME NEW S \in SUBSET Buys, NEW o \in Buys
    PROVE  /\ Total(S) \in Nat /\ Total(S \cup {o}) \in Nat /\ Total(S \ {o}) \in Nat
           /\ o \notin S => Total(S \cup {o}) = Total(S) + Notional[o]
           /\ o \in S => Total(S \ {o}) = Total(S) - Notional[o] /\ S \cup {o} = S
           /\ o \notin S => S \ {o} = S
           /\ Notional[o] \in Nat /\ Total({}) = 0
<1>1. Total(S) \in Nat /\ Total(S \cup {o}) \in Nat /\ Total(S \ {o}) \in Nat /\ Total({}) = 0
  BY TotalType, TotalPicks
<1>2. Notional[o] \in Nat
  BY RiskAssumption
<1>3. ASSUME o \notin S PROVE Total(S \cup {o}) = Total(S) + Notional[o] /\ S \ {o} = S
  <2> DEFINE U == S \cup {o}
  <2>1. U \in SUBSET Buys /\ o \in U /\ U \ {o} = S /\ S \ {o} = S
    BY <1>3
  <2> HIDE DEF U
  <2>2. Total(U) = Notional[o] + Total(S)
    BY <2>1, TotalWithout
  <2>3. Total(S) \in Nat
    BY <1>1
  <2>4. Total(U) = Total(S) + Notional[o]
    BY <1>2, <2>2, <2>3
  <2> QED
    BY <2>1, <2>4 DEF U
<1>4. ASSUME o \in S PROVE Total(S \ {o}) = Total(S) - Notional[o] /\ S \cup {o} = S
  <2>1. Total(S) = Notional[o] + Total(S \ {o}) /\ S \cup {o} = S
    BY <1>4, TotalWithout
  <2> QED
    BY <1>1, <1>2, <2>1
<1> QED
  BY <1>1, <1>2, <1>3, <1>4
-----------------------------------------------------------------------------
(* The in-flight counters: placements, sweeps and resets.                  *)

\* Where a placement that took a day trade has not given it back, and where it
\* has not taken one yet.
Taken == {"pdt_taken", "bp_token", "calling", "finalize_pdt", "finalize_bp", "pending_unknown",
          "submitted", "revert_pdt"}
Early == {"idle", "gating", "blocked", "cleared", "pdt_token"}

\* The placements whose day trade is taken.
Takers == {o \in Buys : <<o, "pdt">> \in holds /\ at[o] \in Taken}

\* Stronger than what the run checks: placements between taking and dispatch, and
\* those about to give back, count too.
DayTradesKept == PdtCount <= -Cardinality(Takers)

\* A token came back only from a DECR.
HeldIsTaken == \A o \in Buys : <<o, "pdt">> \in holds => at[o] \notin Early

\* The first part of CountersCover; what was given back after a reset is of
\* placements that have ended, each counted once.
BpCovers == bp >= Total(counted) - Total(overdrawn)
OverdrawnEnded == \A o \in overdrawn : at[o] = "rejected"

RiskInv == RiskTypeOK /\ BpCovers /\ DayTradesKept /\ HeldIsTaken /\ OverdrawnEnded /\ EarlierCommitsSeen

\* Their number, and the counter's.
LEMMA TakersCount ==
    ASSUME RiskTypeOK
    PROVE  IsFiniteSet(Takers) /\ Cardinality(Takers) \in Nat /\ PdtCount \in Int
<1>1. Takers \subseteq Buys
  BY DEF Takers
<1>2. IsFiniteSet(Takers) /\ Cardinality(Takers) \in Nat
  BY <1>1, RiskAssumption, FS_Subset, FS_CardinalityType
<1> QED
  BY <1>2 DEF PdtCount, RiskTypeOK

\* The invariant is enough.
LEMMA RiskInvHolds == RiskInv => RiskHolds
<1> SUFFICES ASSUME RiskInv PROVE RiskHolds
  OBVIOUS
<1> DEFINE Living == {o \in Buys : /\ <<o, "pdt">> \in holds
                                   /\ at[o] \in {"calling", "finalize_pdt", "finalize_bp",
                                                 "pending_unknown", "submitted"}}
<1>1. Living \subseteq Takers
  BY DEF Takers, Taken
<1>2. IsFiniteSet(Takers) /\ Cardinality(Takers) \in Nat /\ PdtCount \in Int
  BY TakersCount DEF RiskInv
<1>3. Cardinality(Living) <= Cardinality(Takers) /\ Cardinality(Living) \in Nat
  BY <1>1, <1>2, FS_Subset, FS_CardinalityType
<1>4. PdtCount <= -Cardinality(Living)
  BY <1>2, <1>3 DEF RiskInv, DayTradesKept
<1> QED
  BY <1>4 DEF RiskInv, RiskHolds, CountersCover, BpCovers
\* A step that gives no day trade back and leaves no more placements with one.
LEMMA NoneGivenBack ==
    ASSUME RiskInv, RiskTypeOK', Takers' \subseteq Takers, PdtCount' <= PdtCount
    PROVE  DayTradesKept'
<1>1. /\ IsFiniteSet(Takers) /\ Cardinality(Takers) \in Nat /\ PdtCount \in Int
      /\ PdtCount <= -Cardinality(Takers)
  BY TakersCount DEF RiskInv, DayTradesKept
<1>2. Cardinality(Takers') <= Cardinality(Takers) /\ Cardinality(Takers') \in Nat
  BY <1>1, FS_Subset, FS_CardinalityType
<1>3. PdtCount' \in Int
  <2>1. pdt' = Unset \/ pdt' \in Int
    BY DEF RiskTypeOK
  <2> QED
    BY <2>1 DEF PdtCount
<1>4. PdtCount' <= -Cardinality(Takers')
  BY <1>1, <1>2, <1>3
<1> QED
  BY <1>4 DEF DayTradesKept

\* A step of a placement that keeps the committed counter and what the gate read.
LEMMA PlacementKeeps ==
    ASSUME RiskInv, NEW o \in Buys, UNCHANGED <<bp, counted, overdrawn, seen, base>>,
           NEW there, at' = [at EXCEPT ![o] = there], there \in Cleared => at[o] \in Cleared,
           at[o] # "rejected"
    PROVE  BpCovers' /\ OverdrawnEnded' /\ EarlierCommitsSeen'
<1>1. at = [p \in Buys |-> at[p]] /\ overdrawn \in SUBSET Buys
  BY DEF RiskInv, RiskTypeOK
<1>2. BpCovers'
  BY DEF RiskInv, BpCovers
<1>3. OverdrawnEnded'
  BY <1>1 DEF RiskInv, OverdrawnEnded
<1>4. \A p \in Buys : at'[p] \in Cleared => at[p] \in Cleared
  BY <1>1
<1>5. EarlierCommitsSeen'
  BY <1>4 DEF RiskInv, EarlierCommitsSeen
<1> QED
  BY <1>2, <1>3, <1>5
\* A placement that did not hold a day trade goes on without it.
LEMMA HoldsKeep ==
    ASSUME RiskInv, NEW o \in Buys, NEW there, at' = [at EXCEPT ![o] = there],
           \A p \in Buys : <<p, "pdt">> \in holds' => <<p, "pdt">> \in holds,
           there \in Early => at[o] \in Early, there \in Taken => at[o] \in Taken \cup Early
    PROVE  Takers' \subseteq Takers /\ HeldIsTaken'
<1>1. at = [p \in Buys |-> at[p]]
  BY DEF RiskInv, RiskTypeOK
<1>2. at'[o] = there /\ \A p \in Buys : p # o => at'[p] = at[p]
  BY <1>1
<1>3. HeldIsTaken
  BY DEF RiskInv
<1> QED
  BY <1>2, <1>3 DEF Takers, HeldIsTaken

\* All the places a placement can be at.
Places == Over \cup {"idle", "gating", "cleared", "pdt_token", "pdt_taken", "bp_token", "calling",
                     "finalize_pdt", "finalize_bp", "revert_pdt", "revert_bp"}

\* The steps of a placement that move no counter.
LEMMA QuietStep ==
    ASSUME RiskInv, NEW o \in Buys, NEW there \in Places, at' = [at EXCEPT ![o] = there],
           UNCHANGED <<holds, pdt, bp, bpExpires, sweep, resets, repeats, history>>,
           base' \in [Buys -> Int], at[o] = "idle" \/ UNCHANGED base,
           \A p \in Buys : p # o => base'[p] = base[p],
           pdtTokens' \in SUBSET Buys, bpTokens' \in SUBSET Buys, held' \in SUBSET Buys,
           at[o] # "rejected", there \in Cleared => at[o] \in Cleared,
           there \in Early => at[o] \in Early, there \in Taken => at[o] \in Taken \cup Early
    PROVE  RiskInv'
<1>1. RiskTypeOK'
  BY DEF RiskInv, RiskTypeOK, Places, history
<1>2. Takers' \subseteq Takers /\ HeldIsTaken'
  BY HoldsKeep
<1>3. DayTradesKept'
  <2>1. PdtCount' = PdtCount /\ PdtCount \in Int
    BY TakersCount DEF PdtCount, RiskInv
  <2> QED
    BY <1>1, <1>2, <2>1, NoneGivenBack
<1>4. BpCovers' /\ OverdrawnEnded' /\ EarlierCommitsSeen'
  <2>1. CASE UNCHANGED base
    BY <2>1, PlacementKeeps DEF history
  <2>2. CASE at[o] = "idle"
    <3>1. at = [p \in Buys |-> at[p]] /\ overdrawn \in SUBSET Buys
      BY DEF RiskInv, RiskTypeOK
    <3>2. \A p \in Buys : at'[p] \in Cleared => p # o /\ at[p] \in Cleared
      BY <2>2, <3>1 DEF Cleared
    <3>3. \A p \in Buys : p # o => base'[p] = base[p]
      OBVIOUS
    <3>4. EarlierCommitsSeen'
      BY <3>2, <3>3 DEF RiskInv, EarlierCommitsSeen, history
    <3>5. BpCovers'
      BY DEF RiskInv, BpCovers, history
    <3>6. OverdrawnEnded'
      BY <3>1 DEF RiskInv, OverdrawnEnded, history
    <3> QED
      BY <3>4, <3>5, <3>6
  <2> QED
    BY <2>1, <2>2
<1> QED
  BY <1>1, <1>2, <1>3, <1>4 DEF RiskInv
\* These are such steps.
LEMMA QuietActions ==
    ASSUME RiskInv, NEW o \in Buys,
           \/ GateReadsBroker(o) \/ SetPdtToken(o) \/ SetBpToken(o) \/ Accepted(o) \/ Unanswered(o)
           \/ Raised(o) \/ FinalizePdt(o) \/ FinalizeBp(o)
    PROVE  RiskInv'
<1>t. /\ at \in [Buys -> Places] /\ base \in [Buys -> Int] /\ pdtTokens \in SUBSET Buys
      /\ bpTokens \in SUBSET Buys /\ held \in SUBSET Buys
  BY DEF RiskInv, RiskTypeOK, Places
<1> USE DEF progress, counters, history, Over, Places, Cleared, Early, Taken
<1>1. CASE GateReadsBroker(o)
  <2>1. /\ at[o] = "idle" /\ at' = [at EXCEPT ![o] = "gating"]
        /\ base' = [base EXCEPT ![o] = BuyingPower - Total(held)]
        /\ UNCHANGED <<holds, pdt, bp, bpExpires, sweep, resets, repeats, history>>
        /\ UNCHANGED <<pdtTokens, bpTokens, held>>
    BY <1>1 DEF GateReadsBroker
  <2>2. BuyingPower - Total(held) \in Int
    BY <1>t, TotalType, RiskAssumption
  <2>3. base' \in [Buys -> Int] /\ \A p \in Buys : p # o => base'[p] = base[p]
    BY <1>t, <2>1, <2>2
  <2>4. pdtTokens' \in SUBSET Buys /\ bpTokens' \in SUBSET Buys /\ held' \in SUBSET Buys
    BY <1>t, <2>1
  <2> HIDE DEF history
  <2> QED
    BY <2>1, <2>3, <2>4, QuietStep
<1>2. CASE SetPdtToken(o)
  <2>1. at[o] = "cleared" /\ at' = [at EXCEPT ![o] = "pdt_token"] /\ pdtTokens' \in SUBSET Buys
        /\ UNCHANGED <<holds, pdt, bp, bpExpires, sweep, resets, repeats, history>>
        /\ UNCHANGED <<base, bpTokens, held>>
    BY <1>2, <1>t DEF SetPdtToken
  <2> HIDE DEF history
  <2> QED
    BY <1>t, <2>1, QuietStep
<1>3. CASE SetBpToken(o)
  <2>1. at[o] = "pdt_taken" /\ at' = [at EXCEPT ![o] = "bp_token"] /\ bpTokens' \in SUBSET Buys
        /\ UNCHANGED <<holds, pdt, bp, bpExpires, sweep, resets, repeats, history>>
        /\ UNCHANGED <<base, pdtTokens, held>>
    BY <1>3, <1>t DEF SetBpToken
  <2> HIDE DEF history
  <2> QED
    BY <1>t, <2>1, QuietStep
<1>4. CASE Accepted(o)
  <2>1. at[o] = "calling" /\ at' = [at EXCEPT ![o] = "finalize_pdt"] /\ held' \in SUBSET Buys
        /\ UNCHANGED <<holds, pdt, bp, bpExpires, sweep, resets, repeats, history>>
        /\ UNCHANGED <<base, pdtTokens, bpTokens>>
    BY <1>4, <1>t DEF Accepted
  <2> HIDE DEF history
  <2> QED
    BY <1>t, <2>1, QuietStep
<1>5. CASE Unanswered(o)
  <2>1. at[o] = "calling" /\ at' = [at EXCEPT ![o] = "pending_unknown"] /\ held' \in SUBSET Buys
        /\ UNCHANGED <<holds, pdt, bp, bpExpires, sweep, resets, repeats, history>>
        /\ UNCHANGED <<base, pdtTokens, bpTokens>>
    BY <1>5, <1>t DEF Unanswered
  <2> HIDE DEF history
  <2> QED
    BY <1>t, <2>1, QuietStep
<1>6. CASE Raised(o)
  <2>1. at[o] = "calling" /\ at' = [at EXCEPT ![o] = "revert_pdt"]
        /\ UNCHANGED <<holds, pdt, bp, bpExpires, sweep, resets, repeats, history>>
        /\ UNCHANGED <<base, pdtTokens, bpTokens, held>>
    BY <1>6 DEF Raised
  <2> HIDE DEF history
  <2> QED
    BY <1>t, <2>1, QuietStep
<1>7. CASE FinalizePdt(o)
  <2>1. at[o] = "finalize_pdt" /\ at' = [at EXCEPT ![o] = "finalize_bp"] /\ pdtTokens' \in SUBSET Buys
        /\ UNCHANGED <<holds, pdt, bp, bpExpires, sweep, resets, repeats, history>>
        /\ UNCHANGED <<base, bpTokens, held>>
    BY <1>7, <1>t DEF FinalizePdt
  <2> HIDE DEF history
  <2> QED
    BY <1>t, <2>1, QuietStep
<1>8. CASE FinalizeBp(o)
  <2>1. at[o] = "finalize_bp" /\ at' = [at EXCEPT ![o] = "submitted"] /\ bpTokens' \in SUBSET Buys
        /\ UNCHANGED <<holds, pdt, bp, bpExpires, sweep, resets, repeats, history>>
        /\ UNCHANGED <<base, pdtTokens, held>>
    BY <1>8, <1>t DEF FinalizeBp
  <2> HIDE DEF history
  <2> QED
    BY <1>t, <2>1, QuietStep
<1> QED
  BY <1>1, <1>2, <1>3, <1>4, <1>5, <1>6, <1>7, <1>8

\* The gate's read of the counter: what it clears fits beside what it saw.
LEMMA GateStep ==
    ASSUME RiskInv, NEW o \in Buys, GateReadsCounters(o)
    PROVE  RiskInv'
<1>t. /\ at \in [Buys -> Places] /\ counted \in SUBSET Buys /\ seen \in [Buys -> SUBSET Buys]
      /\ base \in [Buys -> Int] /\ bp \in Int
  BY DEF RiskInv, RiskTypeOK, Places
<1>1. PICK there \in {"cleared", "blocked"} :
         /\ at[o] = "gating" /\ at' = [at EXCEPT ![o] = there]
         /\ there = "cleared" => FitsBuyingPower(o)
         /\ seen' = [seen EXCEPT ![o] = counted]
         /\ UNCHANGED <<base, holds, counters, held, sweep, resets, repeats, counted, overdrawn>>
  BY DEF GateReadsCounters
<1>2. at' \in [Buys -> Places] /\ at'[o] = there /\ \A p \in Buys : p # o => at'[p] = at[p]
  BY <1>t, <1>1 DEF Places, Over
<1>3. seen' \in [Buys -> SUBSET Buys] /\ seen'[o] = counted /\ \A p \in Buys : p # o => seen'[p] = seen[p]
  BY <1>t, <1>1
<1>4. RiskTypeOK'
  BY <1>1, <1>2, <1>3 DEF RiskInv, RiskTypeOK, Places, counters
<1>5. Takers' \subseteq Takers /\ HeldIsTaken'
  BY <1>1, HoldsKeep DEF Early, Taken
<1>6. DayTradesKept'
  <2>1. PdtCount' = PdtCount /\ PdtCount \in Int
    BY <1>1, TakersCount DEF PdtCount, RiskInv, counters
  <2> QED
    BY <1>4, <1>5, <2>1, NoneGivenBack
<1>7. BpCovers'
  BY <1>1 DEF RiskInv, BpCovers, counters
<1>8. OverdrawnEnded'
  <2>1. overdrawn \subseteq Buys /\ \A p \in overdrawn : at[p] = "rejected"
    BY DEF RiskInv, RiskTypeOK, OverdrawnEnded
  <2> QED
    BY <1>1, <1>2, <2>1 DEF OverdrawnEnded
<1>9. EarlierCommitsSeen'
  <2>1. ASSUME there = "cleared", overdrawn = {} PROVE Notional[o] + Total(counted) <= base[o]
    <3>1. Notional[o] <= base[o] - bp
      BY <1>1, <2>1 DEF FitsBuyingPower
    <3>2. bp >= Total(counted) - Total({})
      BY <2>1 DEF RiskInv, BpCovers
    <3>3. Total({}) = 0 /\ Total(counted) \in Nat /\ Notional[o] \in Nat /\ base[o] \in Int
      BY <1>t, TotalMore
    <3> QED
      BY <1>t, <3>1, <3>2, <3>3
  <2>2. ASSUME NEW p \in Buys, at'[p] \in Cleared, overdrawn' = {}
        PROVE  Notional[p] + Total(seen'[p]) <= base'[p]
    <3>0. base' = base /\ overdrawn' = overdrawn
      BY <1>1
    <3>1. CASE p = o
      <4>1. there = "cleared"
        BY <1>2, <2>2, <3>1 DEF Cleared
      <4> QED
        BY <1>3, <2>1, <2>2, <3>0, <3>1, <4>1
    <3>2. CASE p # o
      BY <1>2, <1>3, <2>2, <3>0, <3>2 DEF RiskInv, EarlierCommitsSeen
    <3> QED
      BY <3>1, <3>2
  <2> QED
    BY <2>2 DEF EarlierCommitsSeen
<1> QED
  BY <1>4, <1>5, <1>6, <1>7, <1>8, <1>9 DEF RiskInv
\* The steps of a placement that move the day trades alone.
LEMMA PdtStep ==
    ASSUME RiskInv, NEW o \in Buys, DecrementPdt(o) \/ PdtFails(o) \/ RevertPdt(o)
    PROVE  RiskInv'
<1>t. /\ at \in [Buys -> Places] /\ holds \in SUBSET (Buys \X {"pdt", "bp"})
      /\ pdtTokens \in SUBSET Buys /\ repeats \in Nat /\ PdtCount \in Int
  BY TakersCount DEF RiskInv, RiskTypeOK, Places
<1>1. PICK there \in {"pdt_taken", "revert_bp"} :
         /\ at' = [at EXCEPT ![o] = there] /\ at[o] \in {"cleared", "pdt_token", "revert_pdt"}
         /\ there = "pdt_taken" => at[o] \in {"cleared", "pdt_token"}
         /\ there = "revert_bp" => at[o] = "revert_pdt"
         /\ UNCHANGED <<base, bp, bpExpires, bpTokens, held, sweep, resets, history>>
         /\ pdtTokens' = pdtTokens \/ pdtTokens' = pdtTokens \ {o}
  BY DEF DecrementPdt, PdtFails, RevertPdt
<1>2. pdt' = pdt \/ pdt' \in Int
  BY <1>t DEF DecrementPdt, PdtFails, RevertPdt, Times
<1>3. repeats' \in Nat
  BY <1>t DEF DecrementPdt, PdtFails, RevertPdt, Times
<1>4. holds' \in SUBSET (Buys \X {"pdt", "bp"})
  BY <1>t DEF DecrementPdt, PdtFails, RevertPdt
<1>5. RiskTypeOK'
  <2>1. at' \in [Buys -> Places]
    BY <1>t, <1>1 DEF Places, Over
  <2> QED
    BY <1>1, <1>2, <1>3, <1>4, <2>1 DEF RiskInv, RiskTypeOK, Places, history
<1>6. BpCovers' /\ OverdrawnEnded' /\ EarlierCommitsSeen'
  <2>1. UNCHANGED <<bp, counted, overdrawn, seen, base>>
    BY <1>1 DEF history
  <2>2. at[o] # "rejected" /\ (there \in Cleared => at[o] \in Cleared)
    BY <1>1 DEF Cleared
  <2> QED
    BY <1>1, <2>1, <2>2, PlacementKeeps
<1>7. at'[o] = there /\ \A p \in Buys : p # o => at'[p] = at[p]
  BY <1>t, <1>1
<1>f. /\ IsFiniteSet(Takers) /\ Cardinality(Takers) \in Nat /\ PdtCount <= -Cardinality(Takers)
      /\ HeldIsTaken
  BY TakersCount DEF RiskInv, DayTradesKept
<1>8. CASE DecrementPdt(o)
  <2>1. at[o] = "pdt_token" /\ there = "pdt_taken" /\ holds' = holds \cup {<<o, "pdt">>}
    BY <1>1, <1>7, <1>8, <1>t DEF DecrementPdt
  <2>2. PICK n \in {1, 2} : pdt' = PdtCount - n
    BY <1>8 DEF DecrementPdt, Times
  <2>3. PdtCount' = PdtCount - n
    <3>1. PdtCount - n # Unset
      BY <1>t, RiskAssumption
    <3> QED
      BY <2>2, <3>1 DEF PdtCount
  <2>4. o \notin Takers /\ Takers' = Takers \cup {o}
    BY <1>7, <2>1 DEF Takers, Taken
  <2>5. Cardinality(Takers') = Cardinality(Takers) + 1
    BY <1>f, <2>4, FS_AddElement
  <2>6. DayTradesKept'
    BY <1>f, <1>t, <2>3, <2>5 DEF DayTradesKept
  <2>7. HeldIsTaken'
    BY <1>7, <1>f, <2>1 DEF HeldIsTaken, Early
  <2> QED
    BY <1>5, <1>6, <2>6, <2>7 DEF RiskInv
<1>9. CASE PdtFails(o) \/ (RevertPdt(o) /\ UNCHANGED pdt)
  <2>1. holds' = holds /\ there \notin Early /\ (there \in Taken => at[o] \in Taken \cup Early)
    BY <1>1, <1>9 DEF PdtFails, RevertPdt, Early, Taken
  <2>2. Takers' \subseteq Takers /\ HeldIsTaken'
    BY <1>1, <2>1, HoldsKeep
  <2>3. PdtCount' <= PdtCount
    <3>1. CASE pdt' = pdt
      <4>1. PdtCount' = PdtCount
        BY <3>1 DEF PdtCount
      <4> QED
        BY <1>t, <4>1
    <3>2. CASE pdt' = PdtCount - 1
      <4>1. PdtCount - 1 # Unset
        BY <1>t, RiskAssumption
      <4>2. PdtCount' = PdtCount - 1
        BY <3>2, <4>1 DEF PdtCount
      <4> QED
        BY <1>t, <4>2
    <3> QED
      BY <1>9, <3>1, <3>2 DEF PdtFails
  <2> QED
    BY <1>5, <1>6, <2>2, <2>3, NoneGivenBack DEF RiskInv
<1>10. CASE RevertPdt(o) /\ PdtGivenBack(o) /\ pdt' = PdtCount + 1
  <2>1. at[o] = "revert_pdt" /\ there = "revert_bp" /\ holds' = holds /\ <<o, "pdt">> \in holds
    BY <1>1, <1>10 DEF RevertPdt, PdtGivenBack
  <2>2. PdtCount' = PdtCount + 1
    <3>1. PdtCount + 1 # Unset
      BY <1>t, RiskAssumption
    <3> QED
      BY <1>10, <3>1 DEF PdtCount
  <2>3. o \in Takers /\ Takers' = Takers \ {o}
    BY <1>7, <2>1 DEF Takers, Taken
  <2>4. Cardinality(Takers') = Cardinality(Takers) - 1
    BY <1>f, <2>3, FS_RemoveElement
  <2>5. DayTradesKept'
    BY <1>f, <1>t, <2>2, <2>4 DEF DayTradesKept
  <2>6. HeldIsTaken'
    BY <1>7, <1>f, <2>1 DEF HeldIsTaken, Early
  <2> QED
    BY <1>5, <1>6, <2>5, <2>6 DEF RiskInv
<1>11. RevertPdt(o) => UNCHANGED pdt \/ (PdtGivenBack(o) /\ pdt' = PdtCount + 1)
  BY DEF RevertPdt
<1> QED
  BY <1>8, <1>9, <1>10, <1>11

\* What the counters of buying power keep beside them.
LEMMA BpOnly ==
    ASSUME RiskInv, NEW o \in Buys, NEW there \in {"calling", "rejected"},
           at' = [at EXCEPT ![o] = there],
           at[o] \in {"pdt_taken", "bp_token", "revert_bp"}, there = "calling" => at[o] # "revert_bp",
           UNCHANGED <<base, pdt, bpExpires, pdtTokens, held, sweep, resets, seen>>,
           bp' \in Int, bpTokens' \in SUBSET Buys, counted' \in SUBSET Buys, repeats' \in Nat,
           holds' \in {holds, holds \cup {<<o, "bp">>}},
           overdrawn' = overdrawn \/ (overdrawn' = overdrawn \cup {o} /\ there = "rejected")
    PROVE  RiskTypeOK' /\ DayTradesKept' /\ HeldIsTaken' /\ OverdrawnEnded' /\ EarlierCommitsSeen'
<1>t. at \in [Buys -> Places] /\ overdrawn \in SUBSET Buys /\ holds \in SUBSET (Buys \X {"pdt", "bp"})
  BY DEF RiskInv, RiskTypeOK, Places
<1>1. at' \in [Buys -> Places] /\ at'[o] = there /\ \A p \in Buys : p # o => at'[p] = at[p]
  BY <1>t DEF Places, Over
<1>2. holds' \in SUBSET (Buys \X {"pdt", "bp"}) /\ \A p \in Buys : <<p, "pdt">> \in holds' => <<p, "pdt">> \in holds
  BY <1>t
<1>3. overdrawn' \in SUBSET Buys
  BY <1>t
<1>4. RiskTypeOK'
  BY <1>1, <1>2, <1>3 DEF RiskInv, RiskTypeOK, Places
<1>5. there \notin Early /\ (there \in Taken => at[o] \in Taken \cup Early) /\ at[o] \in Cleared
  BY DEF Early, Taken, Cleared
<1>6. Takers' \subseteq Takers /\ HeldIsTaken'
  BY <1>2, <1>5, HoldsKeep
<1>7. DayTradesKept'
  <2>1. PdtCount' = PdtCount /\ PdtCount \in Int
    BY TakersCount DEF PdtCount, RiskInv
  <2> QED
    BY <1>4, <1>6, <2>1, NoneGivenBack
<1>8. OverdrawnEnded'
  <2>1. \A p \in overdrawn : at[p] = "rejected" /\ p # o
    BY DEF RiskInv, OverdrawnEnded
  <2> QED
    BY <1>t, <1>1, <2>1 DEF OverdrawnEnded
<1>9. EarlierCommitsSeen'
  <2>1. \A p \in Buys : at'[p] \in Cleared => at[p] \in Cleared
    BY <1>1, <1>5
  <2>2. overdrawn' = {} => overdrawn = {}
    OBVIOUS
  <2> QED
    BY <2>1, <2>2 DEF RiskInv, EarlierCommitsSeen
<1> QED
  BY <1>4, <1>6, <1>7, <1>8, <1>9
\* The steps that move the committed buying power.
LEMMA BpStep ==
    ASSUME RiskInv, NEW o \in Buys, CommitBp(o) \/ BpFails(o) \/ RevertBp(o)
    PROVE  RiskInv'
<1>t. /\ at \in [Buys -> Places] /\ bp \in Int /\ bpTokens \in SUBSET Buys /\ repeats \in Nat
      /\ counted \in SUBSET Buys /\ overdrawn \in SUBSET Buys
  BY DEF RiskInv, RiskTypeOK, Places
<1>n. Notional[o] \in Nat /\ Total(counted) \in Nat /\ Total(overdrawn) \in Nat
  BY <1>t, TotalMore
<1>c. bp >= Total(counted) - Total(overdrawn)
  BY DEF RiskInv, BpCovers
<1>1. ASSUME bp' \in {bp + Notional[o], bp + 2 * Notional[o]}, counted' = counted \cup {o},
             overdrawn' = overdrawn
      PROVE  bp' \in Int /\ counted' \in SUBSET Buys /\ BpCovers'
  <2>1. bp' \in Int /\ bp' >= bp + Notional[o] /\ counted' \in SUBSET Buys
    BY <1>1, <1>t, <1>n
  <2>2. Total(counted') \in Nat /\ Total(counted') <= Total(counted) + Notional[o]
    <3>1. CASE o \in counted
      <4>1. counted' = counted
        BY <1>1, <3>1
      <4> QED
        BY <1>n, <4>1
    <3>2. CASE o \notin counted
      <4>1. Total(counted \cup {o}) = Total(counted) + Notional[o]
        BY <1>t, <3>2, TotalMore
      <4> QED
        BY <1>1, <1>n, <4>1
    <3> QED
      BY <3>1, <3>2
  <2>3. bp' >= Total(counted') - Total(overdrawn)
    BY <1>c, <1>n, <1>t, <2>1, <2>2
  <2>4. BpCovers'
    BY <1>1, <2>3 DEF BpCovers
  <2> QED
    BY <2>1, <2>4
<1>2. ASSUME bp' = bp, counted' = counted, overdrawn' = overdrawn PROVE BpCovers'
  BY <1>2 DEF RiskInv, BpCovers
<1>3. CASE CommitBp(o)
  <2>1. /\ at[o] = "bp_token" /\ at' = [at EXCEPT ![o] = "calling"]
        /\ UNCHANGED <<base, pdt, bpExpires, pdtTokens, held, sweep, resets, seen>>
        /\ bpTokens' = bpTokens /\ overdrawn' = overdrawn /\ counted' = counted \cup {o}
        /\ holds' = holds \cup {<<o, "bp">>}
    BY <1>3 DEF CommitBp
  <2>2. PICK n \in {1, 2} : bp' = bp + n * Notional[o] /\ repeats' = repeats + n - 1
    BY <1>3 DEF CommitBp, Times
  <2>3. bp' \in {bp + Notional[o], bp + 2 * Notional[o]} /\ repeats' \in Nat
    BY <1>n, <1>t, <2>2
  <2>4. bp' \in Int /\ counted' \in SUBSET Buys /\ BpCovers'
    BY <1>1, <2>1, <2>3
  <2>5. RiskTypeOK' /\ DayTradesKept' /\ HeldIsTaken' /\ OverdrawnEnded' /\ EarlierCommitsSeen'
    BY <1>t, <2>1, <2>3, <2>4, BpOnly
  <2> QED
    BY <2>4, <2>5 DEF RiskInv
<1>4. CASE BpFails(o)
  <2>1. /\ at[o] \in {"pdt_taken", "bp_token"} /\ at' = [at EXCEPT ![o] = "calling"]
        /\ UNCHANGED <<base, pdt, bpExpires, pdtTokens, held, sweep, resets, seen>>
        /\ bpTokens' = bpTokens /\ overdrawn' = overdrawn /\ repeats' = repeats /\ holds' = holds
        /\ \/ bp' = bp /\ counted' = counted
           \/ bp' = bp + Notional[o] /\ counted' = counted \cup {o}
    BY <1>4 DEF BpFails
  <2>2. bp' \in Int /\ counted' \in SUBSET Buys /\ BpCovers'
    BY <1>t, <1>1, <1>2, <2>1
  <2>3. RiskTypeOK' /\ DayTradesKept' /\ HeldIsTaken' /\ OverdrawnEnded' /\ EarlierCommitsSeen'
    BY <1>t, <2>1, <2>2, BpOnly
  <2> QED
    BY <2>2, <2>3 DEF RiskInv
<1>5. CASE RevertBp(o)
  <2>1. /\ at[o] = "revert_bp" /\ at' = [at EXCEPT ![o] = "rejected"]
        /\ UNCHANGED <<base, pdt, bpExpires, pdtTokens, held, sweep, resets, seen>>
        /\ repeats' = repeats /\ holds' = holds
    BY <1>5 DEF RevertBp
  <2>2. o \notin overdrawn
    BY <2>1 DEF RiskInv, OverdrawnEnded
  <2>3. CASE UNCHANGED <<bp, bpTokens, counted, overdrawn>>
    <3>1. RiskTypeOK' /\ DayTradesKept' /\ HeldIsTaken' /\ OverdrawnEnded' /\ EarlierCommitsSeen'
      BY <1>t, <2>1, <2>3, BpOnly
    <3> QED
      BY <1>2, <2>3, <3>1 DEF RiskInv
  <2>4. CASE /\ BpGivenBack(o) /\ bp' = bp - Notional[o]
             /\ bpTokens' = bpTokens \ {o} /\ counted' = counted \ {o}
             /\ overdrawn' = IF o \in counted \/ o \notin bpTokens THEN overdrawn
                             ELSE overdrawn \cup {o}
    <3>1. bp' \in Int /\ bpTokens' \in SUBSET Buys /\ counted' \in SUBSET Buys
      BY <1>t, <1>n, <2>4
    <3>2. overdrawn' = IF o \in counted THEN overdrawn ELSE overdrawn \cup {o}
      BY <2>4 DEF BpGivenBack
    <3>3. BpCovers'
      <4>1. CASE o \in counted
        <5>1. Total(counted \ {o}) = Total(counted) - Notional[o]
          BY <1>t, <4>1, TotalMore
        <5>2. bp - Notional[o] >= Total(counted \ {o}) - Total(overdrawn)
          BY <1>c, <1>n, <1>t, <5>1
        <5> QED
          BY <2>4, <3>2, <4>1, <5>2 DEF BpCovers
      <4>2. CASE o \notin counted
        <5>1. Total(overdrawn \cup {o}) = Total(overdrawn) + Notional[o]
          BY <1>t, <2>2, TotalMore
        <5>2. bp - Notional[o] >= Total(counted) - Total(overdrawn \cup {o})
          BY <1>c, <1>n, <1>t, <5>1
        <5>3. counted' = counted /\ overdrawn' = overdrawn \cup {o}
          BY <2>4, <3>2, <4>2
        <5> QED
          BY <2>4, <5>2, <5>3 DEF BpCovers
      <4> QED
        BY <4>1, <4>2
    <3>4. RiskTypeOK' /\ DayTradesKept' /\ HeldIsTaken' /\ OverdrawnEnded' /\ EarlierCommitsSeen'
      BY <1>t, <2>1, <3>1, <3>2, BpOnly
    <3> QED
      BY <3>3, <3>4 DEF RiskInv
  <2> QED
    BY <1>5, <2>3, <2>4 DEF RevertBp
<1> QED
  BY <1>3, <1>4, <1>5

\* The discoverer and the time to live: they leave the placements alone.
LEMMA ResetStep ==
    ASSUME RiskInv, SweepPdtTokens \/ SweepBpTokens \/ ReconcileBp \/ BpExpires \/ UNCHANGED riskVars
    PROVE  RiskInv'
<1>1. UNCHANGED <<at, base, holds, pdt, held, repeats, overdrawn, seen>>
  BY DEF SweepPdtTokens, SweepBpTokens, ReconcileBp, BpExpires, riskVars, progress, counters, history
<1>2. \/ bp' = bp /\ counted' = counted
      \/ bp' = 0 /\ counted' = {}
  BY DEF SweepPdtTokens, SweepBpTokens, ReconcileBp, ResetBp, BpExpires, riskVars, counters, history
<1>3. /\ bpExpires' \in BOOLEAN /\ pdtTokens' \in SUBSET Buys /\ bpTokens' \in SUBSET Buys
      /\ sweep' \in {"idle", "pdt_swept", "swept"} /\ resets' \in Nat
  <2>b. bpExpires' \in BOOLEAN
    BY Zenon DEF RiskInv, RiskTypeOK, SweepPdtTokens, SweepBpTokens, ReconcileBp, ResetBp, BpExpires,
                 riskVars, counters
  <2>t. /\ pdtTokens \in SUBSET Buys /\ bpTokens \in SUBSET Buys
        /\ sweep \in {"idle", "pdt_swept", "swept"} /\ resets \in Nat
    BY DEF RiskInv, RiskTypeOK
  <2>1. CASE SweepPdtTokens
    BY <2>t, <2>b, <2>1 DEF SweepPdtTokens
  <2>2. CASE SweepBpTokens
    BY <2>t, <2>b, <2>2 DEF SweepBpTokens
  <2>3. CASE ReconcileBp
    BY <2>t, <2>b, <2>3 DEF ReconcileBp, ResetBp
  <2>4. CASE BpExpires
    BY <2>t, <2>b, <2>4 DEF BpExpires
  <2>5. CASE UNCHANGED riskVars
    BY <2>t, <2>b, <2>5 DEF riskVars, counters
  <2> QED
    BY <2>1, <2>2, <2>3, <2>4, <2>5
<1>4. RiskTypeOK'
  BY <1>1, <1>2, <1>3 DEF RiskInv, RiskTypeOK
<1>5. BpCovers'
  <2>1. CASE bp' = bp /\ counted' = counted
    BY <1>1, <2>1 DEF RiskInv, BpCovers
  <2>2. CASE bp' = 0 /\ counted' = {}
    <3>1. Total({}) = 0 /\ Total(overdrawn) \in Nat
      BY TotalType, TotalPicks DEF RiskInv, RiskTypeOK
    <3>2. 0 >= Total({}) - Total(overdrawn)
      BY <3>1
    <3> QED
      BY <1>1, <2>2, <3>2 DEF BpCovers
  <2> QED
    BY <1>2, <2>1, <2>2
<1>6. DayTradesKept' /\ HeldIsTaken' /\ OverdrawnEnded' /\ EarlierCommitsSeen'
  BY <1>1 DEF RiskInv, DayTradesKept, PdtCount, Takers, HeldIsTaken, OverdrawnEnded, EarlierCommitsSeen
<1> QED
  BY <1>4, <1>5, <1>6 DEF RiskInv

\* Nothing is taken at first.
LEMMA RiskInitially == RiskInit => RiskInv
<1> SUFFICES ASSUME RiskInit PROVE RiskInv
  OBVIOUS
<1> USE DEF RiskInit
<1>1. RiskTypeOK
  <2>1. at \in [Buys -> {"idle"}] /\ base \in [Buys -> Int] /\ seen \in [Buys -> SUBSET Buys]
    OBVIOUS
  <2>2. pdt = Unset /\ bp \in Int /\ resets \in Nat /\ repeats \in Nat
        /\ sweep \in {"idle", "pdt_swept", "swept"}
    OBVIOUS
  <2>5. bpExpires \in BOOLEAN
    BY Zenon
  <2>3. /\ pdtTokens \in SUBSET Buys /\ bpTokens \in SUBSET Buys /\ held \in SUBSET Buys
        /\ holds \in SUBSET (Buys \X {"pdt", "bp"})
        /\ counted \in SUBSET Buys /\ overdrawn \in SUBSET Buys
    OBVIOUS
  <2>4. at \in [Buys -> Over \cup {"idle", "gating", "cleared", "pdt_token", "pdt_taken", "bp_token",
                                   "calling", "finalize_pdt", "finalize_bp", "revert_pdt", "revert_bp"}]
    BY ONLY <2>1
  <2> QED
    BY ONLY <2>1, <2>2, <2>3, <2>4, <2>5 DEF RiskTypeOK
<1>2. Total({}) = 0
  BY TotalPicks
<1>3. BpCovers
  BY <1>2 DEF BpCovers
<1>4. Takers = {} /\ PdtCount = 0
  <2>1. holds = {} /\ pdt = Unset
    OBVIOUS
  <2> QED
    BY ONLY <2>1 DEF Takers, PdtCount
<1>5. DayTradesKept
  <2>1. Cardinality(Takers) = 0
    BY <1>4, FS_EmptySet
  <2> QED
    BY <1>4, <2>1 DEF DayTradesKept
<1>6. HeldIsTaken /\ OverdrawnEnded /\ EarlierCommitsSeen
  BY DEF HeldIsTaken, OverdrawnEnded, EarlierCommitsSeen, Cleared
<1> QED
  BY <1>1, <1>3, <1>5, <1>6 DEF RiskInv

\* One step, by what it moves.
LEMMA RiskStep == RiskInv /\ [RiskNext]_riskVars => RiskInv'
<1> SUFFICES ASSUME RiskInv, [RiskNext]_riskVars PROVE RiskInv'
  OBVIOUS
<1>1. CASE \E o \in Buys :
          \/ GateReadsBroker(o) \/ SetPdtToken(o) \/ SetBpToken(o) \/ Accepted(o) \/ Unanswered(o)
          \/ Raised(o) \/ FinalizePdt(o) \/ FinalizeBp(o)
  BY <1>1, QuietActions
<1>2. CASE \E o \in Buys : GateReadsCounters(o)
  BY <1>2, GateStep
<1>3. CASE \E o \in Buys : DecrementPdt(o) \/ PdtFails(o) \/ RevertPdt(o)
  BY <1>3, PdtStep
<1>4. CASE \E o \in Buys : CommitBp(o) \/ BpFails(o) \/ RevertBp(o)
  BY <1>4, BpStep
<1>5. CASE SweepPdtTokens \/ SweepBpTokens \/ ReconcileBp \/ BpExpires \/ UNCHANGED riskVars
  BY <1>5, ResetStep
<1> QED
  BY <1>1, <1>2, <1>3, <1>4, <1>5 DEF RiskNext

\* For any finite set of buys, any costs and any number of sweeps, resets and
\* repeated commands: the committed counter covers every order counted since its
\* last reset, but for what revert_bp took out again after a reset; a placement
\* that may live at the broker keeps its day trade; and an order that cleared
\* the gate fits beside all whose commit_bp came before the gate's read.
THEOREM CountersKeep == RiskSpec => []RiskHolds
BY RiskInitially, RiskStep, RiskInvHolds, PTL DEF RiskSpec
-----------------------------------------------------------------------------
(* The risk gate: what makes evaluate refuse.                              *)

\* The results of the checks after that of the asset class.
Checks(w, mode) ==
    {AccountKillSwitch(w), BrokerKillSwitch(w), MaxDailyLoss(w), Pdt(w), PositionConcentration(w),
     BuyingPowerCheck(w), AlgoCapability(w), IcebergDisplaySize(w), Margin(w, mode), BbWarning(w)}

\* evaluate refuses.
Refuses(w, mode) == Evaluate(w, mode) \in {"block", "out"}

\* evaluate refuses when a check blocks or raises or the class's check leaves it,
\* and allows when no check has anything to say.
LEMMA GateVerdicts ==
    ASSUME NEW w, NEW mode
    PROVE  /\ Evaluate(w, mode) \in {"allow", "warn", "block", "out"}
           /\ Refuses(w, mode) <=> \/ AssetExposure(w) = "out"
                                   \/ \E r \in {AssetExposure(w)} \cup Checks(w, mode) :
                                         r \in {"block", "raise"}
           /\ Evaluate(w, mode) = "block" => AssetExposure(w) # "out"
           /\ Evaluate(w, mode) = "allow" =>
                 \A r \in {AssetExposure(w)} \cup Checks(w, mode) : r \notin {"warn", "block", "raise"}
<1> DEFINE F == AssetExposure(w)
           S == {F, AccountKillSwitch(w), BrokerKillSwitch(w), MaxDailyLoss(w), Pdt(w),
                  PositionConcentration(w), BuyingPowerCheck(w), AlgoCapability(w),
                  IcebergDisplaySize(w), Margin(w, mode), BbWarning(w)}
<1>1. Evaluate(w, mode) = IF F = "out" THEN "out"
       ELSE IF F = "block" \/ S \cap {"block", "raise"} # {} THEN "block"
       ELSE IF "warn" \in S THEN "warn" ELSE "allow"
  BY DEF Evaluate
<1>2. S = {F} \cup Checks(w, mode)
  BY DEF Checks
<1>3. F \in S
  OBVIOUS
<1> HIDE DEF F, S
<1>4. S \cap {"block", "raise"} # {} <=> \E r \in S : r \in {"block", "raise"}
  OBVIOUS
<1>5. /\ Evaluate(w, mode) \in {"allow", "warn", "block", "out"}
      /\ Refuses(w, mode) <=> F = "out" \/ \E r \in S : r \in {"block", "raise"}
      /\ Evaluate(w, mode) = "block" => F # "out"
      /\ Evaluate(w, mode) = "allow" => \A r \in S : r \notin {"warn", "block", "raise"}
  BY <1>1, <1>3, <1>4 DEF Refuses
<1> QED
  BY <1>2, <1>5 DEF F

\* A case has every field the checks read.
IsCase(w) == w = [f \in Fields |-> w[f]]
\* Two cases agree but for some fields.
AgreeOutside(v, w, S) == IsCase(v) /\ IsCase(w) /\ \A f \in Fields \ S : v[f] = w[f]

\* What each caller passes on.
LEMMA GateContexts ==
    ASSUME NEW w, IsCase(w), NEW c \in Callers
    PROVE  LET v == Context(w, c) IN
           /\ AgreeOutside(v, w, {"instrument", "opens", "algo", "display", "classKnown", "class"})
           /\ v["instrument"] = IF c = "preview" /\ w["instrument"] = "creatable"
                                 THEN "none" ELSE w["instrument"]
           /\ v["opens"] = (c = "place" /\ w["opens"])
           /\ v["opens"] <=> c = "place" /\ w["opens"]
           /\ v["algo"] = IF c = "modify" THEN "fine" ELSE w["algo"]
           /\ v["display"] = IF c = "modify" THEN "fine" ELSE w["display"]
           /\ v["classKnown"] = (c # "modify" \/ w["classKnown"])
           /\ v["classKnown"] <=> c # "modify" \/ w["classKnown"]
           /\ v["class"] = IF c = "modify" /\ ~w["classKnown"] THEN "STOCK" ELSE w["class"]
<1>1. {"instrument", "opens", "algo", "display", "classKnown", "class"} \subseteq Fields
  BY GateAssumption
<1>2. Context(w, c) =
        [f \in Fields |->
          IF f = "instrument"
            THEN IF c = "preview" /\ w["instrument"] = "creatable" THEN "none" ELSE w["instrument"]
          ELSE IF f = "opens" THEN (c = "place" /\ w["opens"])
          ELSE IF f = "algo" THEN IF c = "modify" THEN "fine" ELSE w["algo"]
          ELSE IF f = "display" THEN IF c = "modify" THEN "fine" ELSE w["display"]
          ELSE IF f = "classKnown" THEN (c # "modify" \/ w["classKnown"])
          ELSE IF f = "class" THEN IF c = "modify" /\ ~w["classKnown"] THEN "STOCK" ELSE w["class"]
          ELSE w[f]]
  BY <1>1 DEF Context, IsCase
<1> QED
  BY <1>1, <1>2 DEF AgreeOutside, IsCase

\* What may differ between the callers' contexts.
PassedOn == {"instrument", "opens", "algo", "display", "classKnown", "class"}

\* What the assumption on the constants leaves to the class and the broker's answer.
Classes == {"STOCK", "OPTION", "FUTURE", "FOREX", "CRYPTO", "BOND", "MUTUAL_FUND", "CFD"}
Margins == {"accepted", "rejected", "late", "unimplemented", "unavailable"}
IsWorld(w) == IsCase(w) /\ w["class"] \in Classes /\ w["margin"] \in Margins

\* The checks that read none of these.
LEMMA SameOutside ==
    ASSUME NEW v, NEW w, AgreeOutside(v, w, PassedOn)
    PROVE  /\ AccountKillSwitch(v) = AccountKillSwitch(w) /\ BrokerKillSwitch(v) = BrokerKillSwitch(w)
           /\ MaxDailyLoss(v) = MaxDailyLoss(w) /\ Pdt(v) = Pdt(w)
           /\ BuyingPowerCheck(v) = BuyingPowerCheck(w)
<1>1. \A f \in {"accountRow", "brokerRow", "globalRow", "accountSwitch", "brokerSwitch", "warnAt",
                "loss", "held", "side", "priced", "summary", "redis", "buyingPower", "dayTrades",
                "brokerTrades"} : v[f] = w[f]
  BY GateAssumption DEF AgreeOutside, PassedOn
<1>2. ResolveLimit(v) = ResolveLimit(w) /\ (Capped(v) <=> Capped(w)) /\ Clip(v) = Clip(w)
  BY <1>1 DEF ResolveLimit, Capped, Clip
<1>3. AccountKillSwitch(v) = AccountKillSwitch(w) /\ BrokerKillSwitch(v) = BrokerKillSwitch(w)
  BY <1>1 DEF AccountKillSwitch, BrokerKillSwitch
<1>4. MaxDailyLoss(v) = MaxDailyLoss(w)
  BY <1>1, <1>2 DEF MaxDailyLoss
<1>5. Pdt(v) = Pdt(w)
  BY <1>1, <1>2 DEF Pdt
<1>6. BuyingPowerCheck(v) = BuyingPowerCheck(w)
  BY <1>1, <1>2 DEF BuyingPowerCheck
<1> QED
  BY <1>3, <1>4, <1>5, <1>6

\* Those that read the instrument.
LEMMA SameConcentration ==
    ASSUME NEW v, NEW w, AgreeOutside(v, w, PassedOn), v["instrument"] \in {w["instrument"], "none"}
    PROVE  /\ PositionConcentration(v) \in {PositionConcentration(w), "pass"}
           /\ v["instrument"] = w["instrument"] => PositionConcentration(v) = PositionConcentration(w)
<1>1. \A f \in {"accountRow", "brokerRow", "globalRow", "warnAt", "held", "side", "priced", "summary"} :
         v[f] = w[f]
  BY GateAssumption DEF AgreeOutside, PassedOn
<1>2. ResolveLimit(v) = ResolveLimit(w) /\ (Capped(v) <=> Capped(w)) /\ Clip(v) = Clip(w)
  BY <1>1 DEF ResolveLimit, Capped, Clip
<1> QED
  BY <1>1, <1>2 DEF PositionConcentration

\* _check_bb_warning refuses nothing.
LEMMA BbOnlyWarns == \A w : BbWarning(w) \in {"pass", "warn"}
BY DEF BbWarning

\* The asset class's check, of two contexts that know its class.
LEMMA SameAsset ==
    ASSUME NEW v, NEW w, AgreeOutside(v, w, PassedOn), v["class"] = w["class"], w["class"] \in Classes,
           v["instrument"] \in {w["instrument"], "none"}, ~v["opens"]
    PROVE  /\ AssetExposure(v) \in {"block", "raise"} => AssetExposure(w) \in {"block", "raise"}
           /\ AssetExposure(v) = "out" => AssetExposure(w) = "out"
           /\ /\ v["instrument"] = w["instrument"]
              /\ ~(w["class"] = "OPTION" /\ w["side"] = "sell" /\ w["opens"])
              => AssetExposure(v) = AssetExposure(w)
<1>1. \A f \in {"held", "side", "level", "asset", "assetError"} : v[f] = w[f]
  BY GateAssumption DEF AgreeOutside, PassedOn
<1>2. CASE w["class"] = "OPTION"
  <2>1. AssetExposure(v) = OptionsExposure(v) /\ AssetExposure(w) = OptionsExposure(w)
    BY <1>2 DEF AssetExposure
  <2>2. OptionsExposure(v) = IF w["assetError"] THEN "out"
                             ELSE IF v["instrument"] = "none" THEN "pass"
                             ELSE IF w["asset"] = "expired" THEN "block"
                             ELSE IF w["asset"] = "lastDay" THEN "warn" ELSE "pass"
    BY <1>1 DEF OptionsExposure
  <2>3. OptionsExposure(v) \in {"block", "raise"} => OptionsExposure(w) \in {"block", "raise"}
    BY <2>2 DEF OptionsExposure
  <2>4. OptionsExposure(v) = "out" => OptionsExposure(w) = "out"
    BY <2>2 DEF OptionsExposure
  <2>5. v["instrument"] = w["instrument"] /\ ~(w["side"] = "sell" /\ w["opens"])
           => OptionsExposure(v) = OptionsExposure(w)
    BY <2>2 DEF OptionsExposure
  <2> QED
    BY <1>2, <2>1, <2>3, <2>4, <2>5
<1>3. CASE w["class"] # "OPTION"
  <2>1. CASE w["class"] \in {"STOCK", "FUTURE"}
    BY <2>1 DEF AssetExposure, FuturesExposure
  <2>2. CASE w["class"] = "FOREX"
    BY <1>1, <2>2 DEF AssetExposure, ForexExposure
  <2>3. CASE w["class"] = "CRYPTO"
    BY <1>1, <2>3 DEF AssetExposure, CryptoExposure
  <2>4. CASE w["class"] = "BOND"
    BY <1>1, <2>4 DEF AssetExposure, BondExposure
  <2>5. CASE w["class"] = "MUTUAL_FUND"
    BY <1>1, <2>5 DEF AssetExposure, FundExposure
  <2>6. CASE w["class"] = "CFD"
    BY <1>1, <2>6 DEF AssetExposure, CfdExposure
  <2> QED
    BY <1>3, <2>1, <2>2, <2>3, <2>4, <2>5, <2>6 DEF Classes
<1> QED
  BY <1>2, <1>3

\* The margin check: a preview warns where an order is blocked.
LEMMA MarginAnswers ==
    ASSUME NEW v, NEW w, AgreeOutside(v, w, PassedOn), w["margin"] \in Margins
    PROVE  /\ v["classKnown"] /\ w["classKnown"] =>
                 /\ Margin(v, "preview") \in {"block", "raise"}
                       => Margin(w, "place_order") \in {"block", "raise"}
                 /\ w["margin"] # "late" => Margin(v, "preview") = Margin(w, "place_order")
                 /\ Margin(v, "place_order") = Margin(w, "place_order")
           /\ ~v["classKnown"] => Margin(v, "place_order") = "block" /\ Margin(v, "preview") = "warn"
<1>1. v["margin"] = w["margin"]
  BY GateAssumption DEF AgreeOutside, PassedOn
<1>2. PreviewOrder(v) = PreviewOrder(w) /\ PreviewOrder(w) \in {"accepted", "rejected", "late", "raise"}
      /\ (w["margin"] # "late" => PreviewOrder(w) # "late")
  BY <1>1 DEF PreviewOrder, Margins
<1>3. ASSUME NEW u, NEW mode, u["classKnown"]
      PROVE  Margin(u, mode) = [accepted |-> "pass", rejected |-> "block",
                                late |-> IF mode = "preview" THEN "warn" ELSE "block",
                                raise |-> "raise"][PreviewOrder(u)]
  BY <1>3 DEF Margin
<1>4. ASSUME NEW u, NEW mode, ~u["classKnown"]
      PROVE  Margin(u, mode) = IF mode = "preview" THEN "warn" ELSE "block"
  BY <1>4 DEF Margin
<1>5. ASSUME v["classKnown"], w["classKnown"]
      PROVE  /\ Margin(v, "preview") \in {"block", "raise"} => Margin(w, "place_order") \in {"block", "raise"}
             /\ w["margin"] # "late" => Margin(v, "preview") = Margin(w, "place_order")
             /\ Margin(v, "place_order") = Margin(w, "place_order")
  <2> DEFINE m == PreviewOrder(w)
  <2>1. /\ Margin(v, "preview") = [accepted |-> "pass", rejected |-> "block", late |-> "warn", raise |-> "raise"][m]
        /\ Margin(v, "place_order") = [accepted |-> "pass", rejected |-> "block", late |-> "block", raise |-> "raise"][m]
        /\ Margin(w, "place_order") = [accepted |-> "pass", rejected |-> "block", late |-> "block", raise |-> "raise"][m]
    BY <1>2, <1>3, <1>5
  <2>2. m \in {"accepted", "rejected", "late", "raise"} /\ (w["margin"] # "late" => m # "late")
    BY <1>2
  <2> HIDE DEF m
  <2>3. CASE m = "accepted"
    BY ONLY <2>1, <2>3
  <2>4. CASE m = "rejected"
    BY ONLY <2>1, <2>4
  <2>5. CASE m = "raise"
    BY ONLY <2>1, <2>5
  <2>6. CASE m = "late"
    BY ONLY <2>1, <2>2, <2>6
  <2> QED
    BY <2>2, <2>3, <2>4, <2>5, <2>6
<1> QED
  BY <1>4, <1>5

-----------------------------------------------------------------------------
(* The risk gate: three callers, and dependencies that fail.               *)

\* What a caller is told of a case.
Judgement(w, c) == Evaluate(Context(w, c), Mode(c))
RefusedTo(w, c) == Judgement(w, c) \in {"block", "out"}

\* A result that makes evaluate refuse.
Stops(r) == r \in {"block", "raise"}

\* The reasons to refuse, one by one.
LEMMA GateReasons ==
    ASSUME NEW w, NEW mode
    PROVE  Refuses(w, mode) <=>
              \/ AssetExposure(w) = "out" \/ Stops(AssetExposure(w))
              \/ Stops(AccountKillSwitch(w)) \/ Stops(BrokerKillSwitch(w)) \/ Stops(MaxDailyLoss(w))
              \/ Stops(Pdt(w)) \/ Stops(PositionConcentration(w)) \/ Stops(BuyingPowerCheck(w))
              \/ Stops(AlgoCapability(w)) \/ Stops(IcebergDisplaySize(w)) \/ Stops(Margin(w, mode))
              \/ Stops(BbWarning(w))
BY GateVerdicts DEF Checks, Stops

\* What a preview refuses, placing refuses too; what it lets through is refused
\* only for what it is not told, or the margin check that was late.
LEMMA PreviewRefusalStands ==
    ASSUME NEW w, IsWorld(w), ~(RefusedTo(w, "preview") <=> RefusedTo(w, "place"))
    PROVE  /\ RefusedTo(w, "place")
           /\ \/ w["margin"] = "late" \/ w["instrument"] = "creatable"
              \/ w["class"] = "OPTION" /\ w["side"] = "sell" /\ w["opens"]
<1> DEFINE p == Context(w, "preview")
           q == Context(w, "place")
           excused == \/ w["margin"] = "late" \/ w["instrument"] = "creatable"
                      \/ w["class"] = "OPTION" /\ w["side"] = "sell" /\ w["opens"]
<1>0. IsCase(w) /\ w["class"] \in Classes /\ w["margin"] \in Margins /\ {"preview", "place"} \subseteq Callers
  BY DEF IsWorld, Callers
<1>1. /\ AgreeOutside(p, w, PassedOn) /\ AgreeOutside(q, w, PassedOn)
      /\ p["instrument"] = IF w["instrument"] = "creatable" THEN "none" ELSE w["instrument"]
      /\ q["instrument"] = w["instrument"] /\ ~p["opens"] /\ (q["opens"] <=> w["opens"])
      /\ p["algo"] = w["algo"] /\ q["algo"] = w["algo"] /\ p["display"] = w["display"] /\ q["display"] = w["display"]
      /\ p["classKnown"] /\ q["classKnown"] /\ p["class"] = w["class"] /\ q["class"] = w["class"]
  <2>1. "preview" \in Callers /\ "place" \in Callers /\ "preview" # "place" /\ "preview" # "modify" /\ "place" # "modify"
    BY DEF Callers
  <2>2. /\ AgreeOutside(p, w, PassedOn) /\ ~p["opens"]
        /\ p["instrument"] = IF w["instrument"] = "creatable" THEN "none" ELSE w["instrument"]
        /\ p["algo"] = w["algo"] /\ p["display"] = w["display"] /\ p["classKnown"] /\ p["class"] = w["class"]
    BY <1>0, <2>1, GateContexts DEF PassedOn
  <2>3. /\ AgreeOutside(q, w, PassedOn) /\ (q["opens"] <=> w["opens"]) /\ q["instrument"] = w["instrument"]
        /\ q["algo"] = w["algo"] /\ q["display"] = w["display"] /\ q["classKnown"] /\ q["class"] = w["class"]
    BY <1>0, <2>1, GateContexts DEF PassedOn
  <2> QED
    BY <2>2, <2>3
<1>2. /\ RefusedTo(w, "preview") <=> Refuses(p, "preview")
      /\ RefusedTo(w, "place") <=> Refuses(q, "place_order")
  BY DEF RefusedTo, Judgement, Refuses, Mode
<1> HIDE DEF p, q
<1>3. /\ AgreeOutside(p, q, PassedOn) /\ q["margin"] = w["margin"] /\ q["side"] = w["side"]
      /\ p["redis"] = q["redis"]
  BY <1>1, GateAssumption DEF AgreeOutside, PassedOn
<1>4. /\ AccountKillSwitch(p) = AccountKillSwitch(q) /\ BrokerKillSwitch(p) = BrokerKillSwitch(q)
      /\ MaxDailyLoss(p) = MaxDailyLoss(q) /\ Pdt(p) = Pdt(q) /\ BuyingPowerCheck(p) = BuyingPowerCheck(q)
  BY <1>3, SameOutside
<1>5. AlgoCapability(p) = AlgoCapability(q) /\ IcebergDisplaySize(p) = IcebergDisplaySize(q)
  BY <1>1, <1>3 DEF AlgoCapability, IcebergDisplaySize
<1>6. /\ PositionConcentration(p) \in {PositionConcentration(q), "pass"}
      /\ ~excused => PositionConcentration(p) = PositionConcentration(q)
  BY <1>1, <1>3, SameConcentration
<1>7. /\ AssetExposure(p) \in {"block", "raise"} => AssetExposure(q) \in {"block", "raise"}
      /\ AssetExposure(p) = "out" => AssetExposure(q) = "out"
      /\ ~excused => AssetExposure(p) = AssetExposure(q)
  BY <1>0, <1>1, <1>3, SameAsset
<1>8. /\ Margin(p, "preview") \in {"block", "raise"} => Margin(q, "place_order") \in {"block", "raise"}
      /\ ~excused => Margin(p, "preview") = Margin(q, "place_order")
  BY <1>0, <1>1, <1>3, MarginAnswers
<1>9. BbWarning(p) \notin {"block", "raise"} /\ BbWarning(q) \notin {"block", "raise"}
  BY BbOnlyWarns
<1>11. Refuses(p, "preview") => Refuses(q, "place_order")
  BY <1>4, <1>5, <1>6, <1>7, <1>8, <1>9, GateReasons DEF Stops
<1>12. ~excused => (Refuses(q, "place_order") => Refuses(p, "preview"))
  BY <1>4, <1>5, <1>6, <1>7, <1>8, <1>9, GateReasons DEF Stops
<1> QED
  BY <1>2, <1>11, <1>12

\* A modification lets through what placing refuses only for what it is not told.
LEMMA ModifyKeepsRefusals ==
    ASSUME NEW w, IsWorld(w), RefusedTo(w, "place"), ~RefusedTo(w, "modify")
    PROVE  \/ w["class"] = "OPTION" /\ w["side"] = "sell" /\ w["opens"]
           \/ w["algo"] = "missing" \/ w["display"] = "wrong"
<1> DEFINE m == Context(w, "modify")
           q == Context(w, "place")
<1> SUFFICES ASSUME ~(w["class"] = "OPTION" /\ w["side"] = "sell" /\ w["opens"]),
                    w["algo"] # "missing", w["display"] # "wrong"
             PROVE  FALSE
  OBVIOUS
<1>0. IsCase(w) /\ w["class"] \in Classes /\ w["margin"] \in Margins
  BY DEF IsWorld
<1>1. "modify" \in Callers /\ "place" \in Callers /\ "place" # "preview" /\ "modify" # "preview"
      /\ "place" # "modify"
  BY DEF Callers
<1>2. /\ AgreeOutside(m, w, PassedOn) /\ ~m["opens"] /\ m["instrument"] = w["instrument"]
      /\ m["algo"] = "fine" /\ m["display"] = "fine" /\ (m["classKnown"] <=> w["classKnown"])
      /\ w["classKnown"] => m["class"] = w["class"]
  BY <1>0, <1>1, GateContexts DEF PassedOn
<1>3. /\ AgreeOutside(q, w, PassedOn) /\ (q["opens"] <=> w["opens"]) /\ q["instrument"] = w["instrument"]
      /\ q["algo"] = w["algo"] /\ q["display"] = w["display"] /\ q["classKnown"] /\ q["class"] = w["class"]
  BY <1>0, <1>1, GateContexts DEF PassedOn
<1>4. Refuses(q, "place_order") /\ ~Refuses(m, "place_order")
  BY DEF RefusedTo, Judgement, Refuses, Mode
<1> HIDE DEF m, q
<1>5. AgreeOutside(m, q, PassedOn) /\ q["margin"] = w["margin"] /\ q["side"] = w["side"]
  BY <1>2, <1>3, GateAssumption DEF AgreeOutside, PassedOn
<1>6. w["classKnown"]
  <2>1. SUFFICES ASSUME ~w["classKnown"] PROVE FALSE
    OBVIOUS
  <2>2. Margin(m, "place_order") = "block"
    BY <1>0, <1>2, <1>3, <1>5, <2>1, MarginAnswers
  <2> QED
    BY <1>4, <2>2, GateVerdicts DEF Checks
<1>7. /\ AccountKillSwitch(m) = AccountKillSwitch(q) /\ BrokerKillSwitch(m) = BrokerKillSwitch(q)
      /\ MaxDailyLoss(m) = MaxDailyLoss(q) /\ Pdt(m) = Pdt(q) /\ BuyingPowerCheck(m) = BuyingPowerCheck(q)
  BY <1>5, SameOutside
<1>8. AlgoCapability(q) \notin {"block", "raise"} /\ IcebergDisplaySize(q) \notin {"block", "raise"}
  BY <1>3 DEF AlgoCapability, IcebergDisplaySize
<1>9. PositionConcentration(m) = PositionConcentration(q)
  BY <1>2, <1>3, <1>5, SameConcentration
<1>10. AssetExposure(m) = AssetExposure(q)
  BY <1>0, <1>2, <1>3, <1>5, <1>6, SameAsset
<1>11. Margin(m, "place_order") = Margin(q, "place_order")
  BY <1>0, <1>2, <1>3, <1>5, <1>6, MarginAnswers
<1>12. BbWarning(q) \notin {"block", "raise"}
  BY BbOnlyWarns
<1> QED
  BY <1>4, <1>7, <1>8, <1>9, <1>10, <1>11, <1>12, GateReasons DEF Stops

\* A case allowed with a failure in it is not one that would be refused without:
\* the failure makes no difference, but where failing open is the policy.
LEMMA FailureKeepsShut ==
    ASSUME NEW w, IsWorld(w), NEW c \in Callers, Judgement(w, c) = "allow",
           NEW f \in Fields, w[f] \in Failed[f], NEW x
    PROVE  \/ Judgement([w EXCEPT ![f] = x], c) # "block"
           \/ f = "redis" /\ w["algo"] = "missing"
           \/ f = "assetError" /\ w["class"] # "OPTION"
<1> DEFINE z == [w EXCEPT ![f] = x]
           u == Context(w, c)
           v == Context(z, c)
<1> SUFFICES ASSUME ~(f = "redis" /\ w["algo"] = "missing"),
                    ~(f = "assetError" /\ w["class"] # "OPTION"),
                    Judgement(z, c) = "block"
             PROVE  FALSE
  OBVIOUS
<1>0. IsCase(w) /\ w["class"] \in Classes /\ w["margin"] \in Margins
  BY DEF IsWorld
<1>1. f \in {"summary", "redis", "assetError", "loss", "margin"}
  BY GateAssumption
<1>2. IsCase(z) /\ \A g \in Fields : g # f => z[g] = w[g]
  BY <1>0 DEF IsCase
<1>3. \A g \in Fields \ {f} : v[g] = u[g]
  <2>1. \A g \in PassedOn : g # f /\ g \in Fields /\ z[g] = w[g]
    BY <1>1, <1>2, GateAssumption DEF PassedOn
  <2>2. \A g \in Fields \ PassedOn : u[g] = w[g] /\ v[g] = z[g]
    <3>1. AgreeOutside(u, w, PassedOn) /\ AgreeOutside(v, z, PassedOn)
      <4> HIDE DEF z
      <4> QED
        BY <1>0, <1>2, GateContexts DEF PassedOn
    <3> QED
      BY <3>1 DEF AgreeOutside
  <2>3. \A g \in PassedOn : v[g] = u[g]
    <3>1. /\ v["instrument"] = u["instrument"] /\ v["algo"] = u["algo"] /\ v["display"] = u["display"]
          /\ v["class"] = u["class"] /\ v["opens"] = u["opens"] /\ v["classKnown"] = u["classKnown"]
      <4> HIDE DEF z
      <4>1. /\ z["instrument"] = w["instrument"] /\ z["algo"] = w["algo"] /\ z["display"] = w["display"]
            /\ z["class"] = w["class"] /\ z["opens"] = w["opens"] /\ z["classKnown"] = w["classKnown"]
        BY <2>1 DEF PassedOn
      <4> QED
        BY <4>1, <1>0, <1>2, GateContexts
    <3> QED
      BY <3>1 DEF PassedOn
  <2> QED
    BY <1>2, <2>2, <2>3
<1>4. /\ Evaluate(u, Mode(c)) = "allow" /\ Evaluate(v, Mode(c)) = "block"
      /\ u["algo"] \in {w["algo"], "fine"}
      /\ AgreeOutside(u, w, PassedOn) /\ IsCase(v) /\ IsCase(u)
      /\ w["classKnown"] \/ c # "modify" => u["class"] = w["class"] /\ u["classKnown"]
      /\ c = "modify" /\ ~w["classKnown"] => ~u["classKnown"]
  <2>1. Evaluate(u, Mode(c)) = "allow" /\ Evaluate(v, Mode(c)) = "block"
    BY DEF Judgement
  <2>2. IsCase(v)
    <3> HIDE DEF z
    <3> QED
      BY <1>2, GateContexts DEF AgreeOutside
  <2> QED
    BY <1>0, <2>1, <2>2, GateContexts DEF AgreeOutside, PassedOn
<1>5. u[f] = w[f]
  BY <1>1, <1>4, GateAssumption DEF AgreeOutside, PassedOn
<1> HIDE DEF u, v, z
<1>6. /\ ~Stops(AssetExposure(u)) /\ AssetExposure(u) \notin {"warn", "out"}
      /\ \A r \in Checks(u, Mode(c)) : ~Stops(r) /\ r # "warn"
  BY <1>4, GateVerdicts DEF Stops, Refuses
<1>7. u["classKnown"] /\ f # "margin"
  <2>1. Margin(u, Mode(c)) \notin {"warn", "block", "raise"}
    BY <1>6 DEF Checks, Stops
  <2>2. u["classKnown"]
    BY <2>1 DEF Margin
  <2>3. ASSUME f = "margin" PROVE FALSE
    <3>1. PreviewOrder(u) \in {"late", "raise"}
      BY <1>5, <2>3, GateAssumption DEF PreviewOrder
    <3>2. Margin(u, Mode(c)) = [accepted |-> "pass", rejected |-> "block",
                                late |-> IF Mode(c) = "preview" THEN "warn" ELSE "block",
                                raise |-> "raise"][PreviewOrder(u)]
      BY <2>2 DEF Margin
    <3> QED
      BY <2>1, <3>1, <3>2
  <2> QED
    BY <2>2, <2>3
<1>8. u["class"] = w["class"]
  BY <1>4, <1>7
<1>9. /\ ~Stops(AccountKillSwitch(u)) /\ ~Stops(BrokerKillSwitch(u)) /\ ~Stops(MaxDailyLoss(u)) /\ ~Stops(Pdt(u))
      /\ ~Stops(PositionConcentration(u)) /\ ~Stops(BuyingPowerCheck(u)) /\ ~Stops(AlgoCapability(u))
      /\ ~Stops(IcebergDisplaySize(u)) /\ ~Stops(Margin(u, Mode(c))) /\ ~Stops(BbWarning(u))
      /\ MaxDailyLoss(u) # "warn"
  BY <1>6 DEF Checks
<1>10. SUFFICES
         /\ ~Stops(AssetExposure(v))
         /\ ~Stops(AccountKillSwitch(v)) /\ ~Stops(BrokerKillSwitch(v)) /\ ~Stops(MaxDailyLoss(v)) /\ ~Stops(Pdt(v))
         /\ ~Stops(PositionConcentration(v)) /\ ~Stops(BuyingPowerCheck(v)) /\ ~Stops(AlgoCapability(v))
         /\ ~Stops(IcebergDisplaySize(v)) /\ ~Stops(Margin(v, Mode(c))) /\ ~Stops(BbWarning(v))
  BY <1>4, GateVerdicts, GateReasons DEF Refuses
<1>11. /\ \A g \in Fields \ {"summary", "redis", "assetError", "loss"} : v[g] = u[g]
       /\ f # "summary" => v["summary"] = u["summary"]
       /\ f # "redis" => v["redis"] = u["redis"]
       /\ f # "assetError" => v["assetError"] = u["assetError"]
       /\ f # "loss" => v["loss"] = u["loss"]
  BY <1>1, <1>3, <1>7, GateAssumption
<1>12. /\ f = "summary" => ~u["summary"]
       /\ f = "redis" => ~u["redis"] /\ w["algo"] # "missing"
       /\ f = "assetError" => u["assetError"] /\ u["class"] = "OPTION"
       /\ f = "loss" => u["loss"] = NoLimit
  <2>1. u[f] \in Failed[f]
    BY <1>5
  <2>2. ASSUME f = "summary" PROVE ~u["summary"]
    <3>1. u["summary"] \in {FALSE}
      BY <2>1, <2>2, GateAssumption
    <3> QED
      BY <3>1
  <2>3. ASSUME f = "redis" PROVE ~u["redis"] /\ w["algo"] # "missing"
    <3>1. u["redis"] \in {FALSE}
      BY <2>1, <2>3, GateAssumption
    <3> QED
      BY <2>3, <3>1
  <2>4. ASSUME f = "assetError" PROVE u["assetError"] /\ u["class"] = "OPTION"
    <3>1. u["assetError"] \in {TRUE}
      BY <2>1, <2>4, GateAssumption
    <3>2. u["class"] = "OPTION"
      BY <1>8, <2>4
    <3> QED
      BY <3>1, <3>2
  <2>5. ASSUME f = "loss" PROVE u["loss"] = NoLimit
    BY <2>1, <2>5, GateAssumption
  <2> QED
    BY <2>2, <2>3, <2>4, <2>5
<1>13. /\ v["accountRow"] = u["accountRow"] /\ v["brokerRow"] = u["brokerRow"] /\ v["globalRow"] = u["globalRow"]
       /\ v["accountSwitch"] = u["accountSwitch"] /\ v["brokerSwitch"] = u["brokerSwitch"]
       /\ v["warnAt"] = u["warnAt"] /\ v["held"] = u["held"] /\ v["side"] = u["side"]
       /\ v["priced"] = u["priced"] /\ v["instrument"] = u["instrument"]
       /\ v["classKnown"] = u["classKnown"] /\ v["buyingPower"] = u["buyingPower"]
       /\ v["dayTrades"] = u["dayTrades"] /\ v["brokerTrades"] = u["brokerTrades"]
       /\ v["algo"] = u["algo"] /\ v["display"] = u["display"] /\ v["margin"] = u["margin"]
       /\ v["class"] = u["class"] /\ v["opens"] = u["opens"] /\ v["asset"] = u["asset"]
       /\ v["level"] = u["level"] /\ v["disposed"] = u["disposed"]
  BY <1>11, GateAssumption
<1>14. ResolveLimit(v) = ResolveLimit(u) /\ (Capped(v) <=> Capped(u)) /\ Clip(v) = Clip(u)
  BY <1>13 DEF ResolveLimit, Capped, Clip
<1>15. ~Stops(AccountKillSwitch(v)) /\ ~Stops(BrokerKillSwitch(v)) /\ ~Stops(BbWarning(v)) /\ ~Stops(IcebergDisplaySize(v))
  BY <1>9, <1>13, BbOnlyWarns DEF AccountKillSwitch, BrokerKillSwitch, IcebergDisplaySize, Stops
<1>16. ~Stops(MaxDailyLoss(v))
  BY <1>9, <1>11, <1>12, <1>13, <1>14 DEF MaxDailyLoss, Stops
<1>17. ~Stops(Pdt(v))
  BY <1>9, <1>11, <1>12, <1>13, <1>14 DEF Pdt, Stops
<1>18. ~Stops(PositionConcentration(v))
  BY <1>9, <1>11, <1>12, <1>13, <1>14 DEF PositionConcentration, Stops
<1>19. ~Stops(BuyingPowerCheck(v))
  BY <1>9, <1>11, <1>12, <1>13, <1>14 DEF BuyingPowerCheck, Stops
<1>20. ~Stops(AlgoCapability(v))
  <2>1. f = "redis" => u["algo"] # "missing"
    BY <1>4, <1>12
  <2> QED
    BY <1>9, <1>11, <2>1, <1>13 DEF AlgoCapability, Stops
<1>21. ~Stops(Margin(v, Mode(c)))
  BY <1>9, <1>13 DEF Margin, PreviewOrder
<1>22. ~Stops(AssetExposure(v))
  <2>1. f # "assetError"
    <3>1. SUFFICES ASSUME f = "assetError" PROVE FALSE
      OBVIOUS
    <3>2. AssetExposure(u) = OptionsExposure(u)
      BY <1>12, <3>1 DEF AssetExposure
    <3>3. OptionsExposure(u) = "out"
      BY <1>12, <3>1 DEF OptionsExposure
    <3> QED
      BY <1>6, <3>2, <3>3
  <2>2. v["assetError"] = u["assetError"]
    BY <1>11, <2>1
  <2>3. /\ OptionsExposure(v) = OptionsExposure(u) /\ ForexExposure(v) = ForexExposure(u)
        /\ CryptoExposure(v) = CryptoExposure(u) /\ BondExposure(v) = BondExposure(u)
        /\ FundExposure(v) = FundExposure(u) /\ CfdExposure(v) = CfdExposure(u)
        /\ FuturesExposure(v) = FuturesExposure(u)
    BY <1>13, <2>2 DEF OptionsExposure, ForexExposure, CryptoExposure, BondExposure, FundExposure,
                       CfdExposure, FuturesExposure
  <2>4. AssetExposure(v) = AssetExposure(u)
    BY <1>0, <1>8, <1>13, <2>3 DEF AssetExposure, Classes
  <2> QED
    BY <1>6, <2>4
<1> QED
  BY <1>15, <1>16, <1>17, <1>18, <1>19, <1>20, <1>21, <1>22

\* The fields keep their values, the verdicts are verdicts.
LEMMA RiskGateTypeIsInvariant == RiskGateSpec => []RiskGateTypeOK
<1>1. RiskGateInit => RiskGateTypeOK
  <2> SUFFICES ASSUME RiskGateInit PROVE RiskGateTypeOK
    OBVIOUS
  <2>1. PICK f \in Fields, g \in Fields, h \in Fields :
           \E u \in Values[f], v \in Values[g], x \in Values[h] :
              given = [Benign EXCEPT ![f] = u, ![g] = v, ![h] = x]
    BY DEF RiskGateInit
  <2>2. PICK u \in Values[f], v \in Values[g], x \in Values[h] :
           given = [Benign EXCEPT ![f] = u, ![g] = v, ![h] = x]
    BY <2>1
  <2>3. \A i \in Fields : given[i] = IF i = h THEN x ELSE IF i = g THEN v ELSE IF i = f THEN u ELSE Benign[i]
    BY <2>2, GateAssumption
  <2>4. \A i \in Fields : given[i] \in Values[i]
    BY <2>3, GateAssumption
  <2> QED
    BY <2>4 DEF RiskGateInit, RiskGateTypeOK
<1>2. RiskGateTypeOK /\ [RiskGateNext]_gateVars => RiskGateTypeOK'
  <2> SUFFICES ASSUME RiskGateTypeOK, [RiskGateNext]_gateVars PROVE RiskGateTypeOK'
    OBVIOUS
  <2>1. ASSUME NEW c \in Callers, Judge(c) PROVE RiskGateTypeOK'
    BY <2>1, GateVerdicts DEF Judge, RiskGateTypeOK
  <2> QED
    BY <2>1 DEF RiskGateNext, gateVars, RiskGateTypeOK
<1> QED
  BY <1>1, <1>2, PTL DEF RiskGateSpec

\* Each verdict is what evaluate says of the case, which nothing changes.
GateInv ==
    /\ RiskGateTypeOK /\ IsCase(given)
    /\ \A c \in Callers : verdict[c] # "none" => verdict[c] = Judgement(given, c)

\* Then the callers agree, and no failure allows.
LEMMA GateInvHolds ==
    ASSUME GateInv PROVE GateHolds
<1>0. IsWorld(given)
  <2>1. "class" \in Fields /\ "margin" \in Fields
    BY GateAssumption
  <2>2. given["class"] \in Values["class"] /\ given["margin"] \in Values["margin"]
    BY <2>1 DEF GateInv, RiskGateTypeOK
  <2> QED
    BY <2>2, GateAssumption DEF GateInv, IsWorld, Classes, Margins
<1>1. {"preview", "place", "modify"} = Callers
  BY DEF Callers
<1>2. \A c \in Callers : Judged(c) => (Refused(c) <=> RefusedTo(given, c))
  BY DEF GateInv, Judged, Refused, RefusedTo
<1>3. CallersAgree
  <2>1. ASSUME Judged("preview"), Judged("place"), Refused("preview") # Refused("place")
        PROVE  /\ Refused("place")
               /\ \/ given.margin = "late"
                  \/ given.instrument = "creatable"
                  \/ given.class = "OPTION" /\ given.side = "sell" /\ given.opens
    <3>1. ~(Refused("preview") <=> Refused("place"))
      BY <2>1 DEF Refused
    <3>2. /\ ~(RefusedTo(given, "preview") <=> RefusedTo(given, "place"))
          /\ Refused("place") <=> RefusedTo(given, "place")
      BY <1>1, <1>2, <2>1, <3>1
    <3> QED
      BY <1>0, <3>2, PreviewRefusalStands
  <2>2. ASSUME Judged("modify"), Judged("place"), Refused("place"), ~Refused("modify")
        PROVE  \/ given.class = "OPTION" /\ given.side = "sell" /\ given.opens
               \/ given.algo = "missing" \/ given.display = "wrong"
    <3>1. RefusedTo(given, "place") /\ ~RefusedTo(given, "modify")
      BY <1>1, <1>2, <2>2
    <3> QED
      BY <1>0, <3>1, ModifyKeepsRefusals
  <2> QED
    BY <2>1, <2>2 DEF CallersAgree
<1>4. FailureNeverAllows
  <2> SUFFICES ASSUME NEW c \in Callers, verdict[c] = "allow",
                      NEW f \in Fields, given[f] \in Failed[f], NEW v \in Values[f] \ Failed[f]
               PROVE  \/ Evaluate(Context([given EXCEPT ![f] = v], c), Mode(c)) # "block"
                      \/ f = "redis" /\ given.algo = "missing"
                      \/ f = "assetError" /\ given.class # "OPTION"
    BY DEF FailureNeverAllows
  <2>1. Judgement(given, c) = "allow"
    BY DEF GateInv
  <2>2. \/ Judgement([given EXCEPT ![f] = v], c) # "block"
        \/ f = "redis" /\ given["algo"] = "missing"
        \/ f = "assetError" /\ given["class"] # "OPTION"
    BY <1>0, <2>1, FailureKeepsShut
  <2> QED
    BY <2>2 DEF Judgement
<1> QED
  BY <1>3, <1>4 DEF GateHolds, GateInv

\* RiskService.evaluate (risk_service.py): for any values of the fields, what the
\* preview refuses is refused, a modification is let through that cannot be placed
\* only for what it is not told, and no failure of a dependency allows without a
\* warning what would be refused without it, but where failing open is the policy.
THEOREM OneGate == RiskGateSpec => []GateHolds
<1>1. RiskGateInit => IsCase(given) /\ \A c \in Callers : verdict[c] # "none" => verdict[c] = Judgement(given, c)
  <2> SUFFICES ASSUME RiskGateInit
               PROVE  IsCase(given) /\ \A c \in Callers : verdict[c] # "none" => verdict[c] = Judgement(given, c)
    OBVIOUS
  <2>1. IsCase(given)
    <3>1. PICK f \in Fields, g \in Fields, h \in Fields :
             \E u \in Values[f], v \in Values[g], x \in Values[h] :
                given = [Benign EXCEPT ![f] = u, ![g] = v, ![h] = x]
      BY DEF RiskGateInit
    <3> QED
      BY <3>1, GateAssumption DEF IsCase
  <2> QED
    BY <2>1 DEF RiskGateInit
<1>2. GateInv /\ RiskGateTypeOK' /\ [RiskGateNext]_gateVars => GateInv'
  <2> SUFFICES ASSUME GateInv, RiskGateTypeOK', [RiskGateNext]_gateVars PROVE GateInv'
    OBVIOUS
  <2>1. ASSUME NEW d \in Callers, Judge(d) PROVE GateInv'
    <3>1. given' = given /\ verdict' = [verdict EXCEPT ![d] = Judgement(given, d)]
      BY <2>1 DEF Judge, Judgement
    <3>2. \A c \in Callers : Judgement(given, c)' = Judgement(given, c)
      BY <3>1 DEF Judgement
    <3>3. ASSUME NEW c \in Callers, verdict'[c] # "none" PROVE verdict'[c] = Judgement(given, c)
      BY <3>1, <3>3 DEF GateInv, RiskGateTypeOK
    <3> QED
      BY <3>1, <3>3 DEF GateInv, Judgement, IsCase
  <2>2. CASE UNCHANGED gateVars
    BY <2>2 DEF gateVars, GateInv, Judgement, IsCase
  <2> QED
    BY <2>1, <2>2 DEF RiskGateNext
<1>3. RiskGateTypeOK /\ IsCase(given)
        /\ (\A c \in Callers : verdict[c] # "none" => verdict[c] = Judgement(given, c)) <=> GateInv
  BY DEF GateInv
<1>4. GateInv => GateHolds
  BY GateInvHolds
<1> QED
  BY <1>1, <1>2, <1>3, <1>4, RiskGateTypeIsInvariant, PTL DEF RiskGateSpec
=============================================================================
