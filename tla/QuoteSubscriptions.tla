-------------------------- MODULE QuoteSubscriptions --------------------------
(***************************************************************************)
(* The subscriptions of the quote engine to one source: the registry, the  *)
(* connections that hear ticks, the queue of frames to the sidecar, and    *)
(* the sidecar, whose market-data requests are counted per symbol.         *)
(*                                                                         *)
(* subscribe gives up the event loop only while it looks for a route;      *)
(* unsubscribe and disconnect_ws never do.  A connection handles one frame *)
(* of its client at a time.  Symbols that a cap rejects change nothing.    *)
(***************************************************************************)
EXTENDS Integers, Sequences, FiniteSets, SequencesExt

CONSTANTS
    Conns,      \* WebSocket connections, and one-shot subscriptions
    Symbols,
    PendingMax, \* _PENDING_QUEUE_MAX
    MaxRounds,  \* bound: connections of the stream that break
    MaxRequests \* bound: requests counted for a symbol while more is subscribed

ASSUME QuoteAssumption ==
    /\ IsFiniteSet(Symbols) /\ "" \notin Symbols
    /\ PendingMax \in Nat \ {0}

VARIABLES
    watch,      \* _per_ws: the symbols of each connection
    hears,      \* _conflator_subs: the symbols whose ticks each connection is given
    routing,    \* the symbol each connection is looking a route for, "" for none
    routed,     \* _routes: symbols that have a route to the source
    healthy,    \* is the source up in the health map?
    stream,     \* the run loop: "down" or "up"
    frames,     \* _pending
    sameSidecar, \* has the sidecar not restarted since the last round?
    requests,   \* _upstream_refcount of the sidecar's streamer
    callSubs,   \* call_subs of the sidecar's current StreamQuotes call
    ending,     \* call_subs of calls that broke and still have to clean up
    rounds,
    muddled     \* history: symbols whose frame was dropped, or repeated what the
                \* first frame said, or whose old call ended after the new began

registry == <<watch, hears, routing, routed>>
sidecar == <<requests, callSubs, ending, sameSidecar>>
quoteVars == <<registry, healthy, stream, frames, sidecar, rounds, muddled>>

Watched(s) == \E w \in Conns : s \in watch[w]
Others(w, s) == \E x \in Conns \ {w} : s \in watch[x]
-----------------------------------------------------------------------------
\* _enqueue: a full queue loses its oldest frame.
Enqueue(f) ==
    /\ frames' = Append(IF Len(frames) >= PendingMax THEN Tail(frames) ELSE frames, f)
    /\ muddled' = IF Len(frames) >= PendingMax THEN muddled \cup {Head(frames).sym} ELSE muddled

\* subscribe: only the first to watch a symbol is entered among those that
\* hear it, and goes on to look for a route.
Subscribe(w, s) ==
    /\ routing[w] = "" /\ s \notin watch[w] /\ requests[s] < MaxRequests
    /\ watch' = [watch EXCEPT ![w] = @ \cup {s}]
    /\ IF Watched(s)
         THEN UNCHANGED <<hears, routing>>
         ELSE /\ hears' = [hears EXCEPT ![w] = @ \cup {s}]
              /\ routing' = [routing EXCEPT ![w] = s]
    /\ UNCHANGED <<routed, healthy, stream, frames, sidecar, rounds, muddled>>

\* _assign_routes and SidecarStream.add: no route while the source is down.
AssignRoute(w) ==
    /\ routing[w] # ""
    /\ routing' = [routing EXCEPT ![w] = ""]
    /\ IF healthy
         THEN /\ routed' = routed \cup {routing[w]}
              /\ Enqueue([op |-> "sub", sym |-> routing[w]])
         ELSE UNCHANGED <<routed, frames, muddled>>
    /\ UNCHANGED <<watch, hears, healthy, stream, sidecar, rounds>>

\* Mutant: the route is asked for after the registry has dropped it.
RouteToRemoveLate(s) == FALSE

\* The snapshot of the routes, before registry.remove drops them.
RouteToRemove(s) == s \in routed

\* _decrement_locked: the last one to leave takes the route along.
Unsubscribe(w, s) ==
    /\ routing[w] = "" /\ s \in watch[w]
    /\ watch' = [watch EXCEPT ![w] = @ \ {s}]
    /\ IF Others(w, s)
         THEN UNCHANGED <<hears, routed, frames, muddled>>
         ELSE /\ hears' = [hears EXCEPT ![w] = @ \ {s}]
              /\ routed' = routed \ {s}
              /\ IF RouteToRemove(s) THEN Enqueue([op |-> "unsub", sym |-> s])
                                     ELSE UNCHANGED <<frames, muddled>>
    /\ UNCHANGED <<routing, healthy, stream, sidecar, rounds>>

\* disconnect_ws.  The snapshot is of what the connection hears, so a symbol it
\* watches and does not hear is left without an unsubscription.
Disconnect(w) ==
    /\ routing[w] = "" /\ watch[w] # {}
    /\ watch' = [watch EXCEPT ![w] = {}]
    /\ hears' = [hears EXCEPT ![w] = {}]
    /\ LET gone == {s \in watch[w] : ~Others(w, s)} IN
       \E told \in SetToSeqs({s \in gone \cap hears[w] : RouteToRemove(s)}) :
          LET all == frames \o [k \in DOMAIN told |-> [op |-> "unsub", sym |-> told[k]]]
              dropped == IF Len(all) > PendingMax THEN Len(all) - PendingMax ELSE 0
          IN /\ routed' = routed \ gone
             /\ frames' = SubSeq(all, 1 + dropped, Len(all))
             /\ muddled' = muddled \cup {s \in gone \ hears[w] : s \in routed}
                             \cup {all[k].sym : k \in 1..dropped}
    /\ UNCHANGED <<routing, healthy, stream, sidecar, rounds>>
-----------------------------------------------------------------------------
(* The sidecar: on_subscribe, on_unsubscribe and on_resync.                *)

Asked(S) == [s \in Symbols |-> IF s \in S THEN requests[s] + 1 ELSE requests[s]]

Given(S) == [s \in Symbols |-> IF s \in S /\ requests[s] > 0 THEN requests[s] - 1 ELSE requests[s]]

Resync(S) == [s \in Symbols |-> IF s \in S THEN IF requests[s] = 0 THEN 1 ELSE requests[s]
                                ELSE IF requests[s] = 0 THEN 0 ELSE requests[s] - 1]

\* The first frame of a round: subscribe after a restart, else resync.
FirstFrame == IF sameSidecar THEN Resync(routed) ELSE Asked(routed)

\* _one_round: what the registry routes here goes first, then what is queued.
RoundOpens ==
    /\ stream = "down"
    /\ stream' = "up" /\ healthy' = TRUE /\ sameSidecar' = TRUE
    /\ requests' = FirstFrame
    /\ callSubs' = routed
    /\ muddled' = muddled \cup (UNION {ending[k] : k \in DOMAIN ending})
                    \cup {frames[k].sym : k \in {j \in DOMAIN frames : frames[j].op = "sub"}}
    /\ UNCHANGED <<registry, frames, ending, rounds>>

SendFrame ==
    /\ stream = "up" /\ frames # <<>>
    /\ LET f == Head(frames) IN
         /\ requests' = IF f.op = "sub" THEN Asked({f.sym}) ELSE Given({f.sym})
         /\ callSubs' = IF f.op = "sub" THEN callSubs \cup {f.sym} ELSE callSubs \ {f.sym}
    /\ frames' = Tail(frames)
    /\ UNCHANGED <<registry, healthy, stream, sameSidecar, ending, rounds, muddled>>

\* An error marks the source down, a rotation of the token does not; a frame
\* may be on its way.
RoundBreaks(error) ==
    /\ stream = "up" /\ rounds < MaxRounds
    /\ rounds' = rounds + 1
    /\ stream' = "down"
    /\ healthy' = ~error
    /\ ending' = Append(ending, callSubs)
    /\ callSubs' = {}
    /\ frames' \in {frames} \cup (IF frames = <<>> THEN {} ELSE {Tail(frames)})
    /\ UNCHANGED <<registry, sameSidecar, requests, muddled>>

\* The finally clause of the sidecar's StreamQuotes.
OldCallEnds ==
    /\ ending # <<>>
    /\ requests' = Given(Head(ending))
    /\ ending' = Tail(ending)
    /\ UNCHANGED <<registry, healthy, stream, frames, callSubs, sameSidecar, rounds, muddled>>

SidecarRestarts ==
    /\ rounds < MaxRounds
    /\ rounds' = rounds + 1
    /\ requests' = [s \in Symbols |-> 0] /\ callSubs' = {} /\ ending' = <<>>
    /\ sameSidecar' = FALSE
    /\ stream' = "down" /\ healthy' = FALSE
    /\ muddled' = {}
    /\ UNCHANGED <<registry, frames>>
-----------------------------------------------------------------------------
QuoteInit ==
    /\ watch = [w \in Conns |-> {}] /\ hears = [w \in Conns |-> {}]
    /\ routing = [w \in Conns |-> ""] /\ routed = {}
    /\ healthy = FALSE /\ stream = "down" /\ frames = <<>> /\ sameSidecar = FALSE
    /\ requests = [s \in Symbols |-> 0] /\ callSubs = {} /\ ending = <<>>
    /\ rounds = 0 /\ muddled = {}

QuoteNext ==
    \/ \E w \in Conns :
          \/ AssignRoute(w) \/ Disconnect(w)
          \/ \E s \in Symbols : Subscribe(w, s) \/ Unsubscribe(w, s)
    \/ RoundOpens \/ SendFrame \/ OldCallEnds \/ SidecarRestarts
    \/ \E error \in BOOLEAN : RoundBreaks(error)

QuoteSpec == QuoteInit /\ [][QuoteNext]_quoteVars
-----------------------------------------------------------------------------
QuoteTypeOK ==
    /\ watch \in [Conns -> SUBSET Symbols] /\ hears \in [Conns -> SUBSET Symbols]
    /\ routing \in [Conns -> Symbols \cup {""}] /\ routed \in SUBSET Symbols
    /\ healthy \in BOOLEAN /\ stream \in {"down", "up"} /\ sameSidecar \in BOOLEAN
    /\ Len(frames) <= PendingMax
    /\ requests \in [Symbols -> Nat] /\ callSubs \in SUBSET Symbols

\* When the stream is up and nothing is queued or under way, the sidecar asks
\* the market for the symbols that are watched and routed and for no others,
\* however often the stream broke and the sidecar restarted; but for symbols
\* whose frames were dropped, repeated or overtaken.
QuietMeansSame ==
    stream = "up" /\ frames = <<>> /\ ending = <<>> /\ (\A w \in Conns : routing[w] = "")
        => \A s \in Symbols \ muddled : requests[s] > 0 <=> s \in routed /\ Watched(s)

\* Beside that, the types of the registry, the frames and the requests.
QuotesHold == QuoteTypeOK /\ QuietMeansSame
=============================================================================
