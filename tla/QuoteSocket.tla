------------------------------ MODULE QuoteSocket ------------------------------
(***************************************************************************)
(* One WebSocket connection of /ws/quotes and one symbol: the engine that  *)
(* caches a tick, publishes it and only then gives it to the connections   *)
(* that hear the symbol; the conflator that keeps the latest tick given;   *)
(* and the lock behind which its quotes and the snapshots of the handler   *)
(* wait for the socket.  Ticks are numbered; they come from one stream,    *)
(* which hands over the next when the last is dealt with.                  *)
(***************************************************************************)
EXTENDS Integers, Sequences

CONSTANTS
    MaxArrivals,   \* bound: ticks
    MaxFollows     \* bound: frames of this client and of others for the symbol

ASSUME SocketAssumption == MaxArrivals \in Nat

VARIABLES
    arrived,       \* ticks so far
    cachedQuote,   \* _cache, 0 for none
    publishing,    \* the tick that _on_quote is publishing to Redis, 0 for none
    watching,      \* does this connection watch the symbol in the registry?
    othersWatch,   \* does another?
    hearing,       \* is the symbol in this connection's _conflator_subs?
    handling,      \* what the handler of client frames is doing
    conflated,     \* _pending, 0 for none
    lined,         \* frames that hold or wait for _send_lock
    draining,      \* is _drain_once waiting to send?
    shown,         \* frames sent
    endpoint,      \* "open" or "closed"
    given,         \* history: the last tick given to on_quote
    follows

socketVars == <<arrived, cachedQuote, publishing, watching, othersWatch, hearing, handling,
                conflated, lined, draining, shown, endpoint, given, follows>>

engineVars == <<arrived, cachedQuote, publishing>>
followVars == <<watching, othersWatch, hearing, handling, follows>>
sendVars == <<lined, draining, shown, endpoint>>
-----------------------------------------------------------------------------
\* _on_quote up to its await of redis.publish.
TickArrives ==
    /\ publishing = 0 /\ arrived < MaxArrivals
    /\ arrived' = arrived + 1 /\ cachedQuote' = arrived + 1 /\ publishing' = arrived + 1
    /\ UNCHANGED <<followVars, conflated, sendVars, given>>

\* Mutant: the conflator keeps the first tick it has not sent.
KeepsFirst(old, new) == IF old = 0 THEN new ELSE old

\* WSConflator.on_quote
KeepsLatest(old, new) == new

\* _notify_conflators, whether or not publish failed.
Notify ==
    /\ publishing # 0
    /\ publishing' = 0
    /\ IF hearing /\ endpoint = "open"
         THEN conflated' = KeepsLatest(conflated, publishing) /\ given' = publishing
         ELSE UNCHANGED <<conflated, given>>
    /\ UNCHANGED <<arrived, cachedQuote, followVars, sendVars>>
-----------------------------------------------------------------------------
\* engine.subscribe: the first to watch hears, and looks for a route; one who
\* is not the first, or watches already, gets no more than the ack.
FollowFrame ==
    /\ endpoint = "open" /\ handling = "nothing" /\ follows < MaxFollows
    /\ follows' = follows + 1 /\ watching' = TRUE
    /\ IF ~watching /\ ~othersWatch
         THEN hearing' = TRUE /\ handling' = "routing"
         ELSE UNCHANGED <<hearing, handling>>
    /\ UNCHANGED <<engineVars, othersWatch, conflated, sendVars, given>>

\* _send_snapshots: of what is cached, if it has not expired; then the ack.
Snapshot(expired) ==
    /\ handling = "routing"
    /\ cachedQuote' = IF expired THEN 0 ELSE cachedQuote
    /\ IF cachedQuote' # 0
         THEN /\ lined' = Append(lined, [op |-> "snap", quote |-> cachedQuote])
              /\ handling' = "sending"
         ELSE handling' = "nothing" /\ UNCHANGED lined
    /\ UNCHANGED <<arrived, publishing, watching, othersWatch, hearing, follows, conflated,
                   draining, shown, endpoint, given>>

\* engine.unsubscribe: what is conflated stays, and while others watch the
\* connection goes on hearing.
UnfollowFrame ==
    /\ endpoint = "open" /\ handling = "nothing" /\ watching
    /\ watching' = FALSE /\ hearing' = (hearing /\ othersWatch)
    /\ UNCHANGED <<engineVars, othersWatch, handling, follows, conflated, sendVars, given>>

\* Another connection subscribes to the symbol, or the last other one leaves.
OthersChange ==
    /\ follows < MaxFollows
    /\ follows' = follows + 1 /\ othersWatch' = ~othersWatch
    /\ UNCHANGED <<engineVars, watching, hearing, handling, conflated, sendVars, given>>
-----------------------------------------------------------------------------
\* _drain_once takes the tick and waits for the lock.
DrainOnce ==
    /\ endpoint = "open" /\ ~draining /\ conflated # 0
    /\ lined' = Append(lined, [op |-> "q", quote |-> conflated])
    /\ conflated' = 0 /\ draining' = TRUE
    /\ UNCHANGED <<engineVars, followVars, shown, endpoint, given>>

\* send_frame: the lock is handed on in the order in which it was asked for.
SendFirst ==
    /\ endpoint = "open" /\ lined # <<>>
    /\ shown' = Append(shown, Head(lined)) /\ lined' = Tail(lined)
    /\ IF Head(lined).op = "q"
         THEN draining' = FALSE /\ UNCHANGED handling
         ELSE handling' = "nothing" /\ UNCHANGED draining
    /\ UNCHANGED <<engineVars, watching, othersWatch, hearing, follows, conflated, endpoint, given>>

\* _close_slow_client, or the client goes: disconnect_ws follows.
SocketCloses ==
    /\ endpoint = "open"
    /\ endpoint' = "closed" /\ watching' = FALSE /\ hearing' = FALSE /\ handling' = "nothing"
    /\ lined' = <<>> /\ draining' = FALSE /\ conflated' = 0
    /\ UNCHANGED <<engineVars, othersWatch, follows, shown, given>>
-----------------------------------------------------------------------------
SocketInit ==
    /\ arrived = 0 /\ cachedQuote = 0 /\ publishing = 0
    /\ watching = FALSE /\ othersWatch = FALSE /\ hearing = FALSE /\ handling = "nothing"
    /\ conflated = 0 /\ lined = <<>> /\ draining = FALSE /\ shown = <<>> /\ endpoint = "open"
    /\ given = 0 /\ follows = 0

SocketNext ==
    \/ TickArrives \/ Notify
    \/ FollowFrame \/ UnfollowFrame \/ OthersChange
    \/ \E expired \in BOOLEAN : Snapshot(expired)
    \/ DrainOnce \/ SendFirst \/ SocketCloses

SocketSpec == SocketInit /\ [][SocketNext]_socketVars
-----------------------------------------------------------------------------
SocketTypeOK ==
    /\ {arrived, cachedQuote, publishing, conflated, given} \subseteq 0..MaxArrivals
    /\ handling \in {"nothing", "routing", "sending"}
    /\ endpoint \in {"open", "closed"} /\ Len(lined) <= 2

\* A tick is sent once, and never after a later one.
QuotesAdvance ==
    \A j, k \in DOMAIN shown :
        j < k /\ shown[j].op = "q" /\ shown[k].op = "q" => shown[j].quote < shown[k].quote

\* A snapshot is not older than anything that was sent before it.
SnapshotIsNewest ==
    \A j, k \in DOMAIN shown : j < k /\ shown[k].op = "snap" => shown[j].quote <= shown[k].quote

\* Conflation loses no last tick: when nothing waits to be sent, the last quote
\* sent is the last tick that was given to the connection.
LastTickIsSent ==
    endpoint = "open" /\ conflated = 0 /\ lined = <<>> /\ given # 0
        => \E k \in DOMAIN shown : shown[k] = [op |-> "q", quote |-> given]

\* What the connection is sent of a symbol.
SocketHolds == SocketTypeOK /\ QuotesAdvance /\ SnapshotIsNewest /\ LastTickIsSent
=============================================================================
