--------------------------- MODULE Workflows_proofs ---------------------------
(***************************************************************************)
(* Theorems about the composed specification of streams and requests: a    *)
(* behaviour is one of a single module, and each keeps what it promises.   *)
(***************************************************************************)
EXTENDS MCWorkflows, Streams_proofs, Requests_proofs

-----------------------------------------------------------------------------
(* The quote streams of the three sidecars.                                *)

StreamsInv ==
    /\ part = "schwab" => SchwabInv
    /\ part = "futu" => FutuInv
    /\ part = "alpaca" => AlpacaInv

\* A step is one of the stream whose behaviour it is.
LEMMA StreamsStep == StreamsInv /\ [WorkflowsNext]_workflowVars => StreamsInv'
<1> SUFFICES ASSUME StreamsInv, [WorkflowsNext]_workflowVars PROVE StreamsInv'
  OBVIOUS
<1>1. part' = part
  BY DEF WorkflowsNext, workflowVars
<1>2. CASE part = "schwab"
  <2>1. [SchwabStreamNext]_<<streamCalls, schwabStreamVars>>
    BY <1>2 DEF WorkflowsNext, workflowVars
  <2> QED
    BY <1>1, <1>2, <2>1, SchwabStep DEF StreamsInv
<1>3. CASE part = "futu"
  <2>1. [FutuStreamNext]_<<streamCalls, futuStreamVars>>
    BY <1>3 DEF WorkflowsNext, workflowVars
  <2> QED
    BY <1>1, <1>3, <2>1, FutuStep DEF StreamsInv
<1>4. CASE part = "alpaca"
  <2>1. [AlpacaStreamNext]_alpacaStreamVars
    BY <1>4 DEF WorkflowsNext, workflowVars
  <2> QED
    BY <1>1, <1>4, <2>1, AlpacaStep DEF StreamsInv
<1> QED
  BY <1>1, <1>2, <1>3, <1>4 DEF StreamsInv

\* What the three sidecars ask for is what is wanted of them, whatever breaks: a
\* Schwab connection was asked for the symbols of the table, the table holds what
\* the open call asked for, and the connection has the newest token (client.py,
\* _replay_subscriptions and _refcount_change); the Futu gateway was asked for
\* the symbols of the table; and a connection to Alpaca has the active symbols,
\* of which none falls silent untold, and no more of them than the cap.
THEOREM StreamsAskForWhatIsWanted == WorkflowsSpec => []StreamsHold
<1>1. WorkflowsInit => StreamsInv
  BY SchwabInitially, FutuInitially, AlpacaInitially DEF WorkflowsInit, StreamsInv
<1>2. StreamsInv => StreamsHold
  BY SchwabInvHolds, FutuInvHolds, AlpacaInvHolds DEF StreamsInv, StreamsHold
<1> QED
  BY <1>1, <1>2, StreamsStep, PTL DEF WorkflowsSpec

-----------------------------------------------------------------------------
(* The requests and streams of the backend.                                *)

RequestsInv ==
    /\ part = "ai" => AiInv
    /\ part = "events" => StreamInv
    /\ part = "book" => BookInv
    /\ part = "socket" => SocketInv
    /\ part = "pacing" => PacingInv
    /\ part = "layouts" => LayoutInv

\* A step is one of the module whose behaviour it is.
LEMMA RequestsStep == RequestsInv /\ [WorkflowsNext]_workflowVars => RequestsInv'
<1> SUFFICES ASSUME RequestsInv, [WorkflowsNext]_workflowVars PROVE RequestsInv'
  OBVIOUS
<1>1. part' = part
  BY DEF WorkflowsNext, workflowVars
<1>2. CASE part = "ai"
  <2>1. [AiNext]_aiVars
    BY <1>2 DEF WorkflowsNext, workflowVars
  <2> QED
    BY <1>1, <1>2, <2>1, AiStep DEF RequestsInv
<1>3. CASE part = "events"
  <2>1. [OrderStreamNext]_orderStreamVars
    BY <1>3 DEF WorkflowsNext, workflowVars
  <2> QED
    BY <1>1, <1>3, <2>1, StreamStep DEF RequestsInv
<1>4. CASE part = "book"
  <2>1. [BookNext]_bookVars
    BY <1>4 DEF WorkflowsNext, workflowVars
  <2> QED
    BY <1>1, <1>4, <2>1, BookStep DEF RequestsInv
<1>5. CASE part = "socket"
  <2>1. [SocketNext]_socketVars
    BY <1>5 DEF WorkflowsNext, workflowVars
  <2> QED
    BY <1>1, <1>5, <2>1, SocketStep DEF RequestsInv
<1>6. CASE part = "pacing"
  <2>1. [PacingNext]_pacingVars
    BY <1>6 DEF WorkflowsNext, workflowVars
  <2> QED
    BY <1>1, <1>6, <2>1, PacingStep DEF RequestsInv
<1>7. CASE part = "layouts"
  <2>1. [LayoutNext]_layoutVars
    BY <1>7 DEF WorkflowsNext, workflowVars
  <2> QED
    BY <1>1, <1>7, <2>1, LayoutStep DEF RequestsInv
<1> QED
  BY <1>1, <1>2, <1>3, <1>4, <1>5, <1>6, <1>7 DEF RequestsInv

\* AI requests, the stream of order events, the crypto book, the quotes sent to a
\* connection, the pace of historical requests and chart layouts keep what each
\* of them promises (router.py and cost_ledger.py, orders_sse.py, coinbase_ws.py,
\* ws_quotes.py, _PacingTokenBucket, chart_layouts.py), in every behaviour of the
\* composed specification.
THEOREM RequestsKeepPromises == WorkflowsSpec => []RequestsHold
<1>1. WorkflowsInit => RequestsInv
  BY AiInitially, StreamInitially, BookInitially, SocketInitially, PacingInitially, LayoutInitially
     DEF WorkflowsInit, RequestsInv
<1>2. RequestsInv => RequestsHold
  BY AiInvHolds, StreamHeld, BookInvHolds, SocketInvHolds, PacingInvHolds DEF RequestsInv, RequestsHold, LayoutInv
<1> QED
  BY <1>1, <1>2, RequestsStep, PTL DEF WorkflowsSpec
===============================================================================
