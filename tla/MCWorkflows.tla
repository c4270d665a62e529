----------------------------- MODULE MCWorkflows -----------------------------
(* Instances for TLC of the modules about calls that go through several       *)
(* steps and share no state: modifications, brackets, backfill, the quote    *)
(* streams of three sidecars, AI requests, the stream of order events, the    *)
(* crypto book, the quotes of a connection, the pace of historical requests   *)
(* and chart layouts.  A behaviour is one of a single module, named by part;  *)
(* the others stay in their initial states.                                   *)
EXTENDS OrderModify, Brackets, Backfill, SchwabStream, FutuStream, AlpacaStream, AiGateway,
        OrderStream, CoinbaseBook, QuoteSocket, HistoricalPacing, ChartLayouts, TLC

CONSTANTS c1, c2, c3

VARIABLE part

\* Calls of one operation are alike.
Alike == Permutations({c1, c2})

workflowVars == <<part, modifyVars, bracketVars, backfillVars, streamCalls,
                  schwabStreamVars, futuStreamVars, alpacaStreamVars, aiVars, orderStreamVars, bookVars,
                  socketVars, pacingVars, layoutVars>>

Rests(p, v) == part # p => UNCHANGED v

WorkflowsInit ==
    /\ part \in {"modify", "brackets", "backfill", "schwab", "futu", "alpaca", "ai", "events",
                "book", "socket", "pacing", "layouts"}
    /\ ModifyInit /\ BracketInit /\ BackfillInit
    /\ SchwabStreamInit /\ FutuStreamInit /\ AlpacaStreamInit /\ AiInit /\ OrderStreamInit
    /\ BookInit /\ SocketInit /\ PacingInit /\ LayoutInit
    /\ part # "modify" => inPlace
    /\ part # "brackets" => broker = "ibkr"
    /\ part # "events" => scope = Fleet
    /\ part # "book" => Newest = NoLevels

WorkflowsNext ==
    /\ UNCHANGED part
    /\ \/ part = "modify" /\ ModifyNext
       \/ part = "brackets" /\ BracketNext
       \/ part = "backfill" /\ BackfillNext
       \/ part = "schwab" /\ SchwabStreamNext /\ ops' < MaxOps /\ Odd \cap (Held \cup Held') = {}
       \/ part = "futu" /\ FutuStreamNext
       \/ part = "alpaca" /\ AlpacaStreamNext
       \/ part = "ai" /\ AiNext
       \/ part = "events" /\ OrderStreamNext
       \/ part = "book" /\ BookNext
       \/ part = "socket" /\ SocketNext
       \/ part = "pacing" /\ PacingNext
       \/ part = "layouts" /\ LayoutNext
    /\ Rests("modify", modifyVars) /\ Rests("brackets", bracketVars)
    /\ Rests("backfill", backfillVars) /\ Rests("schwab", schwabStreamVars)
    /\ Rests("futu", futuStreamVars) /\ Rests("alpaca", alpacaStreamVars)
    /\ Rests("ai", aiVars) /\ Rests("events", orderStreamVars)
    /\ Rests("book", bookVars) /\ Rests("socket", socketVars)
    /\ Rests("pacing", pacingVars) /\ Rests("layouts", layoutVars)
    /\ part \notin {"schwab", "futu"} => UNCHANGED streamCalls

\* The streams of the three sidecars, each in the behaviours that are its own.
StreamsHold ==
    /\ part = "schwab" => SchwabStreamHolds
    /\ part = "futu" => FutuStreamHolds
    /\ part = "alpaca" => AlpacaStreamHolds

\* What requests and streams of the backend itself hold: AI requests, order
\* events, the crypto book, quotes sent, historical requests, chart layouts.
RequestsHold ==
    /\ part = "ai" => AiHolds
    /\ part = "events" => OrderStreamHolds
    /\ part = "book" => BookHolds
    /\ part = "socket" => SocketHolds
    /\ part = "pacing" => PacingHolds
    /\ part = "layouts" => LayoutHolds

WorkflowsSpec == WorkflowsInit /\ [][WorkflowsNext]_workflowVars

==============================================================================
