----------------------------- MODULE SchwabStream -----------------------------
(***************************************************************************)
(* The quote stream of the Schwab sidecar: the WebSocket to Schwab, its    *)
(* reader that reconnects, and the token cache.                            *)
(*                                                                         *)
(* An operation changes the table and sends its first command without      *)
(* giving up the event loop; it may lose it between two commands.  A       *)
(* subscription adds to what the WebSocket was asked for, as the code      *)
(* takes it to do.                                                         *)
(***************************************************************************)
EXTENDS StreamCalls

CONSTANT MaxTokens \* bound: access tokens after the first

VARIABLES
    conn,         \* _ws: "none", "login", "live", "dead" (closed by Schwab, not yet
                  \* noticed) or "junk" (its LOGIN was refused)
    upstream,     \* what Schwab was asked for on this connection
    reader,       \* _reader_loop: "reads", "pauses" or "connects"
    token,        \* the access token in the streamer's cache
    fresh,        \* is it young enough to be used?
    replaced,     \* has Configure put another cache in the servicer?
    connToken,    \* the token the reader took to connect with
    refreshed,    \* _tokens_refreshed
    marred,       \* history: symbols whose operation was cut off or repeated, or
                  \* which two calls shared
    crossed       \* history: symbols whose command was cut off, or overtaken by an
                  \* operation of the other call, since this connection was opened

tokens == <<token, fresh, replaced, refreshed>>
socket == <<conn, upstream, reader, connToken>>
schwabStreamVars == <<socket, tokens, marred, crossed>>

Sub(S) == IF S = {} THEN <<>> ELSE <<[cmd |-> "sub", syms |-> S]>>
Unsub(S) == IF S = {} THEN <<>> ELSE <<[cmd |-> "unsub", syms |-> S]>>
-----------------------------------------------------------------------------
\* _send_levelone: nothing while there is no connection.
AfterCommand(c) ==
    IF conn \in {"none", "junk", "dead"} THEN upstream
    ELSE IF c.cmd = "sub" THEN upstream \cup c.syms ELSE upstream \ c.syms

\* The call after the first of cmds; a closed connection raises.
Sent(c, cmds, subs) ==
    IF cmds = <<>> THEN Proceeds(c, <<>>, subs)
    ELSE IF conn = "dead" THEN Aborted(c) ELSE Proceeds(c, Tail(cmds), subs)

Sends(cmds) ==
    /\ upstream' = IF cmds = <<>> THEN upstream ELSE AfterCommand(Head(cmds))
    /\ UNCHANGED <<conn, reader, connToken, tokens, failures>>

\* The current call takes a frame that asks for cmds and leaves it with subs;
\* mars are the symbols of which its account is no longer exact.
Carries(cmds, subs, mars) ==
    /\ TakesFrame
    /\ current' = Sent(current, cmds, subs)
    /\ marred' = marred \cup mars \cup (IF cmds # <<>> /\ conn = "dead" THEN Named(cmds) ELSE {})
    /\ Sends(cmds)
    /\ UNCHANGED <<old, ends, crossed>>

SchwabSubscribe(S) ==
    table' = Counted(S) /\ Carries(Commands("sub", S \ Held), current.subs \cup S, S \cap Held)

SchwabUnsubscribe(S) ==
    table' = Given(S) /\ Carries(Commands("unsub", Leaving(S)), current.subs \ S, S \ current.subs)

\* on_resync: the table becomes what is expected, whoever asked for the rest.
SchwabResync(S) ==
    /\ table' = Resynced(S)
    /\ Carries(Sub(S \ Held) \o Unsub(Held \ S), S, {s \in Symbols : s \in old.subs \/ table[s] > 1})

\* The next command of call c, or its end by an exception.
Continues(c) ==
    /\ c.todo # <<>>
    /\ Sends(c.todo)
    /\ crossed' = crossed \cup Crosses(Head(c.todo))
    /\ marred' = IF conn = "dead" THEN marred \cup Named(c.todo) \cup c.then \cup c.subs ELSE marred
    /\ UNCHANGED <<table, ops, ends>>

SchwabContinues == Continues(current) /\ current' = Sent(current, current.todo, current.then) /\ UNCHANGED old

SchwabClosingContinues ==
    Continues(old) /\ old' = Closing(IF conn = "dead" THEN <<>> ELSE Tail(old.todo)) /\ UNCHANGED current

SchwabCallOpens == CallOpens /\ UNCHANGED <<socket, tokens, marred, crossed>>

SchwabCallBreaks ==
    /\ CallBreaks
    /\ marred' = marred \cup (IF current.todo = <<>> THEN {} ELSE Named(current.todo) \cup current.then \cup current.subs)
    /\ crossed' = crossed \cup Named(current.todo)
    /\ UNCHANGED <<socket, tokens>>

\* The finally clause gives up what the call had asked for.
SchwabCloses ==
    /\ old.open /\ old.todo = <<>>
    /\ table' = Given(old.subs)
    /\ LET cmds == Commands("unsub", Leaving(old.subs)) IN
         /\ old' = Closing(IF cmds = <<>> \/ conn = "dead" THEN <<>> ELSE Tail(cmds))
         /\ Sends(cmds)
    /\ marred' = marred \cup (IF current.open THEN old.subs \cap (current.subs \cup current.then) ELSE {})
    /\ UNCHANGED <<current, ops, ends, crossed>>
-----------------------------------------------------------------------------
\* _record_reconnect clears the event that made the reader leave.
Cleared(rotation) == IF rotation THEN FALSE ELSE refreshed

\* _recv_until_reconnect and _record_reconnect: a new token, the end of the
\* connection, or none, or silence for _IDLE_TIMEOUT_SEC.
ReaderLeaves(rotation) ==
    /\ reader = "reads"
    /\ rotation = (refreshed /\ conn # "none")
    /\ \/ rotation \/ conn \in {"none", "dead", "junk"}
       \/ conn = "live" /\ ends < MaxEnds
    /\ ends' = IF conn = "live" /\ ~rotation THEN ends + 1 ELSE ends
    /\ refreshed' = Cleared(rotation)
    /\ conn' = "none" /\ upstream' = {}
    /\ reader' = "pauses"
    /\ UNCHANGED <<current, old, table, ops, failures, token, fresh, replaced, connToken, marred, crossed>>

SchwabHangsUp ==
    /\ conn \in {"live", "junk"} /\ ends < MaxEnds
    /\ ends' = ends + 1 /\ conn' = "dead" /\ upstream' = {}
    /\ UNCHANGED <<current, old, table, ops, failures, reader, connToken, tokens, marred, crossed>>

\* get_access_token in _bootstrap_and_connect: a stale token is refreshed, which
\* sets the event, and cannot be once Configure closed the channel of the cache.
TakesToken ==
    /\ reader = "pauses"
    /\ \/ /\ fresh /\ connToken' = token /\ reader' = "connects"
          /\ UNCHANGED <<token, fresh, refreshed, failures>>
       \/ /\ ~fresh /\ ~replaced /\ token < MaxTokens
          /\ token' = token + 1 /\ fresh' = TRUE /\ refreshed' = TRUE
          /\ connToken' = token + 1 /\ reader' = "connects" /\ UNCHANGED failures
       \/ /\ ~fresh /\ (replaced \/ failures < MaxFailures)
          /\ failures' = IF replaced THEN failures ELSE failures + 1
          /\ reader' = "reads" /\ UNCHANGED <<token, fresh, refreshed, connToken>>
    /\ UNCHANGED <<current, old, table, ops, ends, conn, upstream, replaced, marred, crossed>>

\* The streamer's address and the connection; LOGIN is sent at once.
Connects(works) ==
    /\ reader = "connects" /\ conn = "none"
    /\ works \/ failures < MaxFailures
    /\ failures' = IF works THEN failures ELSE failures + 1
    /\ conn' = IF works THEN "login" ELSE "none"
    /\ reader' = IF works THEN "connects" ELSE "reads"
    /\ crossed' = {}
    /\ UNCHANGED <<current, old, table, ops, ends, upstream, connToken, tokens, marred>>

\* Mutant: what the current call has asked for is replayed.
ReplayedOfCall == upstream \cup current.subs

\* _replay_subscriptions.
Replayed == upstream \cup Held

\* The answer to LOGIN.  Commands of calls went out behind it meanwhile.
LoginAnswered(accepted) ==
    /\ conn = "login"
    /\ accepted \/ failures < MaxFailures
    /\ failures' = IF accepted THEN failures ELSE failures + 1
    /\ conn' = IF accepted THEN "live" ELSE "junk"
    /\ upstream' = IF accepted THEN Replayed ELSE {}
    /\ reader' = "reads"
    /\ UNCHANGED <<current, old, table, ops, ends, connToken, tokens, marred, crossed>>

\* Another caller of the cache refreshes its token.
TokenRefreshed ==
    /\ ~replaced /\ token < MaxTokens
    /\ token' = token + 1 /\ fresh' = TRUE /\ refreshed' = TRUE
    /\ UNCHANGED <<streamCalls, socket, replaced, marred, crossed>>

TokenGrowsStale == fresh /\ fresh' = FALSE /\ UNCHANGED <<streamCalls, socket, token, replaced, refreshed, marred, crossed>>

\* Configure with other credentials; the streamer keeps the cache it was given.
CacheReplaced == ~replaced /\ replaced' = TRUE /\ UNCHANGED <<streamCalls, socket, token, fresh, refreshed, marred, crossed>>
-----------------------------------------------------------------------------
\* Connected, and nothing asked for.
SchwabStreamInit ==
    /\ CallsInit
    /\ conn = "live" /\ upstream = {} /\ reader = "reads" /\ connToken = 0
    /\ token = 0 /\ fresh = TRUE /\ replaced = FALSE /\ refreshed = FALSE
    /\ marred = {} /\ crossed = {}

SchwabStreamNext ==
    \/ \E S \in SUBSET Symbols \ {{}} : SchwabSubscribe(S) \/ SchwabUnsubscribe(S)
    \/ \E S \in SUBSET Symbols : SchwabResync(S)
    \/ SchwabContinues \/ SchwabClosingContinues
    \/ SchwabCallOpens \/ SchwabCallBreaks \/ SchwabCloses
    \/ \E b \in BOOLEAN : ReaderLeaves(b) \/ Connects(b) \/ LoginAnswered(b)
    \/ SchwabHangsUp \/ TakesToken \/ TokenRefreshed \/ TokenGrowsStale \/ CacheReplaced
-----------------------------------------------------------------------------
SchwabStreamTypeOK ==
    /\ CallsTypeOK
    /\ conn \in {"none", "login", "live", "dead", "junk"} /\ reader \in {"reads", "pauses", "connects"}
    /\ upstream \subseteq Symbols /\ (conn \in {"none", "dead", "junk"} => upstream = {})
    /\ connToken <= token

\* A connection that is up was asked for the symbols of the table and for no
\* others, whatever broke and whenever the calls changed the table; but for
\* symbols whose commands crossed.
AskedIsWanted ==
    conn = "live" /\ CallsRest => \A s \in Symbols \ crossed : s \in upstream <=> s \in Held

\* The table holds what the open call asked for, but for symbols that are marred.
WantedIsCalled == CallsRest => \A s \in Symbols \ marred : s \in Held <=> s \in current.subs

\* INV-Q-4: without the event, a connection that is up was opened with the
\* newest token of the cache.
ConnectionHasNewestToken == conn = "live" /\ ~refreshed => connToken = token

\* The quote stream of the Schwab sidecar: beside the types, the three above.
SchwabStreamHolds ==
    SchwabStreamTypeOK /\ AskedIsWanted /\ WantedIsCalled /\ ConnectionHasNewestToken
===============================================================================
