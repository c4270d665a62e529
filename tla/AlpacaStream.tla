----------------------------- MODULE AlpacaStream -----------------------------
(***************************************************************************)
(* The quote stream of the Alpaca sidecar: each StreamQuotes call has a    *)
(* streamer of its own, which keeps a connection to an endpoint (IEX or    *)
(* crypto, of which one is modelled; they share nothing but the end of the *)
(* call).  Every subscription restarts the connection.                     *)
(*                                                                         *)
(* A rejection takes away one symbol of a command, as the code takes it to *)
(* do; Alpaca may or may not name it.                                      *)
(***************************************************************************)
EXTENDS Integers, Sequences, FiniteSets

CONSTANTS
    Pairs,          \* the symbols of the endpoint
    Cap,            \* _IEX_CAP, _CRYPTO_CAP
    MaxFrames,      \* bound: frames of the backend
    MaxLosses,      \* bound: connections and logins that fail
    MaxRejections   \* bound: symbols that Alpaca rejects

ASSUME AlpacaAssumption == IsFiniteSet(Pairs) /\ Cap \in Nat

VARIABLES
    streaming,      \* is the call open?
    active,         \* _iex_active
    loop,           \* _iex_loop: "starts", "login", "live", "dead" (closed by
                    \* Alpaca, not yet noticed) or "sleeps"
    pending,        \* the symbols of _iex_pending_subs
    subscribed,     \* what Alpaca took on this connection
    errors,         \* rejections on their way
    cleanups,       \* tasks of _handle_subscribe_rejection_async
    wanted,         \* history: what the frames of the call ask for
    told,           \* history: symbols of drift sentinels, or refused for the cap
    misjudged,      \* history: symbols of a rejection that hit another one, or came late
    frames, losses, rejections

alpacaBounds == <<frames, losses, rejections>>
alpacaStreamVars == <<streaming, active, loop, pending, subscribed, errors, cleanups, wanted, told, misjudged, alpacaBounds>>

\* The streamer of a call that begins.
NewStreamer ==
    /\ active' = {} /\ loop' = "starts" /\ pending' = {} /\ subscribed' = {} /\ errors' = <<>>
    /\ cleanups' = {} /\ wanted' = {} /\ told' = {} /\ misjudged' = {}

HasSocket == loop \in {"login", "live"}
-----------------------------------------------------------------------------
TakesRequest == streaming /\ frames < MaxFrames /\ frames' = frames + 1 /\ UNCHANGED losses

\* ConnectionClosed leaves StreamQuotes, whose finally clause stops the streamer.
EndsCall == streaming' = FALSE /\ NewStreamer

\* Of the symbols S, those there is room for beside room.
Fits(S, room) ==
    {F \in SUBSET S : Cardinality(F \cup room) <= Cap /\ (F # S => Cardinality(F \cup room) = Cap)}

\* Alpaca takes the command, or all of it but one symbol.
Answers(S) ==
    \/ subscribed' = S /\ errors' = errors /\ UNCHANGED rejections
    \/ \E s \in S \ subscribed, named \in BOOLEAN :
          /\ rejections < MaxRejections /\ rejections' = rejections + 1
          /\ subscribed' = S \ {s}
          /\ errors' = Append(errors, [sym |-> s, named |-> named])

\* _restart_iex_loop: whatever the loop is at, it begins again.
AlpacaSubscribe(S) ==
    /\ TakesRequest
    /\ \E new \in Fits(S \ active, active) :
         IF new # {} /\ loop = "dead" THEN EndsCall /\ UNCHANGED rejections
         ELSE /\ active' = active \cup new
              /\ wanted' = wanted \cup S /\ told' = told \cup ((S \ active) \ new)
              /\ pending' = IF HasSocket THEN pending \cup new ELSE pending
              /\ UNCHANGED <<streaming, cleanups, misjudged, rejections>>
              /\ IF new # {} THEN loop' = "starts" /\ subscribed' = {} /\ errors' = <<>>
                 ELSE UNCHANGED <<loop, subscribed, errors>>

AlpacaUnsubscribe(S) ==
    /\ TakesRequest
    /\ IF S \cap active # {} /\ loop = "dead" THEN EndsCall
       ELSE /\ active' = active \ S /\ wanted' = wanted \ S /\ subscribed' = subscribed \ S
            /\ told' = told \ S
            /\ UNCHANGED <<streaming, loop, pending, errors, cleanups, misjudged>>
    /\ UNCHANGED rejections

\* on_resync: the connection stays, and is told of the difference.
AlpacaResync(expected) ==
    /\ TakesRequest
    /\ \E kept \in Fits(expected, {}) :
         IF kept # active /\ loop = "dead" THEN EndsCall /\ UNCHANGED rejections
         ELSE /\ active' = kept
              /\ wanted' = expected /\ told' = expected \ kept
              /\ pending' = IF HasSocket THEN pending \cup (kept \ active) ELSE pending
              /\ IF HasSocket THEN Answers((subscribed \cup (kept \ active)) \ (active \ kept))
                 ELSE UNCHANGED <<subscribed, errors, rejections>>
              /\ UNCHANGED <<streaming, loop, cleanups, misjudged>>

AlpacaCallEnds == streaming /\ EndsCall /\ UNCHANGED alpacaBounds
AlpacaCallBegins == ~streaming /\ streaming' = TRUE /\ NewStreamer /\ UNCHANGED alpacaBounds
-----------------------------------------------------------------------------
KeepsTables == UNCHANGED <<streaming, active, pending, cleanups, wanted, told, misjudged, frames, rejections>>

\* The socket is there before Alpaca has answered the login.
AlpacaConnects == streaming /\ loop = "starts" /\ loop' = "login" /\ KeepsTables /\ UNCHANGED <<subscribed, errors, losses>>

\* _connect_iex_once ends: no connection, silence, a close, or a refused login,
\* after which the supervisor starts the loop again at once.
AlpacaLoses ==
    /\ streaming /\ loop \in {"starts", "login", "live", "dead"}
    /\ loop # "dead" => losses < MaxLosses
    /\ losses' = IF loop = "dead" THEN losses ELSE losses + 1
    /\ loop' \in (IF loop = "login" THEN {"sleeps", "starts"} ELSE {"sleeps"})
    /\ subscribed' = {} /\ errors' = <<>>
    /\ KeepsTables

AlpacaHangsUp ==
    /\ streaming /\ loop = "live" /\ losses < MaxLosses
    /\ losses' = losses + 1 /\ loop' = "dead" /\ subscribed' = {} /\ errors' = <<>>
    /\ KeepsTables

AlpacaWakes == streaming /\ loop = "sleeps" /\ loop' = "starts" /\ KeepsTables /\ UNCHANGED <<subscribed, errors, losses>>

\* Mutant: what was told on the connection is all that is asked for.
ReplayedPending == subscribed \cup pending

\* _replay_iex_subscriptions.
ReplayedActive == subscribed \cup active

AlpacaLoggedIn ==
    /\ streaming /\ loop = "login" /\ loop' = "live"
    /\ pending' = pending \cup active
    /\ Answers(ReplayedActive)
    /\ UNCHANGED <<streaming, active, cleanups, wanted, told, misjudged, frames, losses>>

\* A quote, or the confirmation of a command.
FrameArrives ==
    /\ streaming /\ loop = "live" /\ pending # {} /\ pending' = {}
    /\ UNCHANGED <<streaming, active, loop, subscribed, errors, cleanups, wanted, told, misjudged, alpacaBounds>>

\* _rejected_symbol: without a name, one of those not yet confirmed, or none.
Suspects(e) == IF e.named THEN {e.sym} ELSE pending

ErrorArrives ==
    /\ streaming /\ loop = "live" /\ errors # <<>>
    /\ errors' = Tail(errors)
    /\ LET e == Head(errors) IN
         \/ /\ Suspects(e) = {} /\ misjudged' = misjudged \cup {e.sym}
            /\ UNCHANGED <<pending, cleanups>>
         \/ \E s \in Suspects(e) :
              /\ cleanups' = cleanups \cup {s}
              /\ pending' \in (IF e.named THEN {pending} ELSE {pending, pending \ {s}})
              /\ misjudged' = IF s = e.sym THEN misjudged ELSE misjudged \cup {s, e.sym}
    /\ UNCHANGED <<streaming, active, loop, subscribed, wanted, told, alpacaBounds>>

\* _handle_subscribe_rejection_async and the drift sentinel.
CleansUp(s) ==
    /\ streaming /\ cleanups' = cleanups \ {s}
    /\ active' = active \ {s} /\ told' = told \cup {s}
    /\ misjudged' = IF s \in subscribed THEN misjudged \cup {s} ELSE misjudged
    /\ UNCHANGED <<streaming, loop, pending, subscribed, errors, wanted, alpacaBounds>>
-----------------------------------------------------------------------------
AlpacaStreamInit ==
    /\ streaming = FALSE /\ active = {} /\ loop = "starts" /\ pending = {} /\ subscribed = {} /\ errors = <<>>
    /\ cleanups = {} /\ wanted = {} /\ told = {} /\ misjudged = {}
    /\ frames = 0 /\ losses = 0 /\ rejections = 0

AlpacaStreamNext ==
    \/ \E S \in SUBSET Pairs \ {{}} : AlpacaSubscribe(S) \/ AlpacaUnsubscribe(S)
    \/ \E S \in SUBSET Pairs : AlpacaResync(S)
    \/ AlpacaCallBegins \/ AlpacaCallEnds \/ AlpacaConnects \/ AlpacaLoses \/ AlpacaHangsUp \/ AlpacaWakes
    \/ AlpacaLoggedIn \/ FrameArrives \/ ErrorArrives \/ (\E s \in cleanups : CleansUp(s))
-----------------------------------------------------------------------------
AlpacaStreamTypeOK ==
    /\ loop \in {"starts", "login", "live", "dead", "sleeps"}
    /\ Cardinality(active) <= Cap
    /\ \A S \in {active, pending, subscribed, cleanups, wanted, told, misjudged} : S \subseteq Pairs
    /\ subscribed # {} => HasSocket

\* A connection that is up has the active symbols and no others, whenever it was
\* lost, restarted or told of a change; but for those a rejection misjudged.
SubscribedIsActive ==
    loop = "live" /\ errors = <<>> /\ cleanups = {} =>
        \A s \in Pairs \ misjudged : s \in subscribed <=> s \in active

\* No symbol the call asks for falls silent untold, and none is kept it gave up.
NoneSilent == active \subseteq wanted /\ wanted \ active \subseteq told

\* The quote stream of the Alpaca sidecar: beside the types, the two above.
AlpacaStreamHolds == AlpacaStreamTypeOK /\ SubscribedIsActive /\ NoneSilent
===============================================================================
