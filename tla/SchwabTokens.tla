---------------------------- MODULE SchwabTokens ----------------------------
(***************************************************************************)
(* The tokens of the Schwab connection: the pair in the backend's tables,  *)
(* the refreshes the sidecar asks for, the OAuth callback, the disconnect  *)
(* of an administrator, and the sidecar's cache.                           *)
(*                                                                         *)
(* Schwab mints pairs 1, 2, ...: a pair's number stands for its access     *)
(* token, for its refresh token and for its time of issue; 0 is no token.  *)
(* The time of issue of the access token is written beside it and read by  *)
(* nobody here: it is left out.                                            *)
(***************************************************************************)
EXTENDS Integers, FiniteSets

CONSTANTS
    Getters,    \* calls of the sidecar's get_access_token
    Nobody,     \* no getter, no owner of the lock
    OAuth,      \* the owner of the lock that is a callback
    MaxPairs,   \* bound: pairs minted
    MaxFaults   \* bound: restarts of the backend, cancellations, Configures

ASSUME OwnersAssumption == Nobody \notin Getters /\ OAuth \notin Getters \cup {Nobody}
ASSUME SchwabBoundsAssumption == MaxPairs \in Nat \ {0} /\ MaxFaults \in Nat

VARIABLES
    minted,     \* number of the last pair
    usable,     \* refresh tokens that Schwab accepts
    grantOf,    \* the refresh token that came with, or was used for, each access token
    stored,     \* [access, refresh, stamp] in app_secrets and app_config
    cachedStamp, \* what ConfigService.get answers for the stamp, -1: it asks the row
    statusRead, \* a stamp GET /schwab/status read and has not cached, -1: none
    advisory,   \* owner of the advisory lock
    getter,     \* of each getter: at, the token, stamp and stored token it read, the
                \* pair Schwab answered, the getter whose refresh it waits for
    oauth,      \* the callback: at and the pair it was given
    wiping,     \* where disconnect_schwab is
    side,       \* TokenCache: is the token fresh, whose is _refresh_in_flight?
    faults,
    restarted, blind \* history: the backend restarted; a stale stamp was cached, or
                \* an older refresh token put back, which moves no stamp

pairVars == <<minted, usable, grantOf>>
tableVars == <<stored, cachedStamp, statusRead, advisory>>
schwabVars == <<pairVars, tableVars, getter, oauth, wiping, side, faults, restarted, blind>>

Stamp == IF cachedStamp >= 0 THEN cachedStamp ELSE stored.stamp
Going(c, at) == getter[c].at = at
Moves(c, at) == getter' = [getter EXCEPT ![c].at = at]
Quiet(at)    == [at |-> at, token |-> 0, stamp |-> 0, found |-> 0, access |-> 0, refresh |-> 0,
                 owner |-> Nobody]
Ends(c, at)  == getter' = [getter EXCEPT ![c] = Quiet(at)]
-----------------------------------------------------------------------------
(* The sidecar: TokenCache.get_access_token.                               *)

GetToken(c) ==
    /\ Going(c, "idle")
    /\ \/ side.fresh /\ Moves(c, "served") /\ UNCHANGED side
       \/ /\ ~side.fresh /\ side.flight # Nobody
          /\ getter' = [getter EXCEPT ![c].at = "waiting", ![c].owner = side.flight]
          /\ UNCHANGED side
       \/ /\ ~side.fresh /\ side.flight = Nobody
          /\ Moves(c, "asked")
          /\ side' = [side EXCEPT !.flight = c]
    /\ UNCHANGED <<pairVars, tableVars, oauth, wiping, faults, restarted, blind>>

\* The event of the refresh it waited for: Configure never leaves the token
\* None, so the waiter returns what there is, refreshed or not.
Woken(c) ==
    /\ Going(c, "waiting")
    /\ getter[getter[c].owner].at \in {"served", "failed"}
    /\ Ends(c, "served")
    /\ UNCHANGED <<pairVars, tableVars, oauth, wiping, side, faults, restarted, blind>>

\* Only the cache the getter belongs to: Configure makes another, without a
\* flight.
WritesBack(c, young) ==
    side' = IF side.flight = c THEN [fresh |-> young, flight |-> Nobody] ELSE side

WriteBack(c) ==
    /\ Going(c, "replied")
    /\ Ends(c, "served")
    /\ WritesBack(c, TRUE)
    /\ UNCHANGED <<pairVars, tableVars, oauth, wiping, faults, restarted, blind>>

\* The RPC raised.
RefreshFailed(c) ==
    /\ Going(c, "raised")
    /\ Ends(c, "failed")
    /\ WritesBack(c, FALSE)
    /\ UNCHANGED <<pairVars, tableVars, oauth, wiping, faults, restarted, blind>>

\* 25 minutes.
TokenAges ==
    /\ side.fresh
    /\ side' = [side EXCEPT !.fresh = FALSE]
    /\ UNCHANGED <<pairVars, tableVars, getter, oauth, wiping, faults, restarted, blind>>

Released(c) == IF advisory = c THEN Nobody ELSE advisory
InBackend == {"asked", "has_token", "has_stamp", "minted", "locked", "access", "refresh", "stamp"}

\* The caller is cancelled: no except clause sees it, the flight stays.
GetterCancelled(c) ==
    /\ getter[c].at \in InBackend /\ faults < MaxFaults
    /\ faults' = faults + 1
    /\ Ends(c, "cancelled")
    /\ advisory' = Released(c)
    /\ restarted' = TRUE
    /\ UNCHANGED <<pairVars, stored, cachedStamp, statusRead, oauth, wiping, side, blind>>
-----------------------------------------------------------------------------
(* The backend: RequestTokenRefresh and refresh_with_lock.                 *)

ReadToken(c) ==
    /\ Going(c, "asked")
    /\ getter' = [getter EXCEPT ![c].at = "has_token", ![c].token = stored.refresh]
    /\ UNCHANGED <<pairVars, tableVars, oauth, wiping, side, faults, restarted, blind>>

\* Step 1, in the lock for as long as the read takes.
ReadStamp(c) ==
    /\ Going(c, "has_token") /\ advisory = Nobody
    /\ getter' = [getter EXCEPT ![c].at = "has_stamp", ![c].stamp = Stamp, ![c].found = stored.refresh]
    /\ cachedStamp' = IF stored.stamp = 0 THEN cachedStamp ELSE Stamp
    /\ UNCHANGED <<pairVars, stored, statusRead, advisory, oauth, wiping, side, faults, restarted, blind>>

\* The lock was not free for five seconds, at either step.
LockTimesOut(c) ==
    /\ getter[c].at \in {"has_token", "minted"} /\ advisory # Nobody
    /\ Ends(c, "raised")
    /\ UNCHANGED <<pairVars, tableVars, oauth, wiping, side, faults, restarted, blind>>

\* Step 2: Schwab mints an access token, and a refresh token or none.
Mint(c) ==
    /\ Going(c, "has_stamp")
    /\ getter[c].token \in usable /\ minted < MaxPairs
    /\ minted' = minted + 1
    /\ \E rotates \in BOOLEAN :
          LET r == IF rotates THEN minted + 1 ELSE getter[c].token IN
          /\ usable' \in {usable \cup {r}, (usable \ {getter[c].token}) \cup {r}}
          /\ grantOf' = [grantOf EXCEPT ![minted + 1] = r]
          /\ getter' = [getter EXCEPT ![c].at = "minted", ![c].access = minted + 1,
                                      ![c].refresh = r]
    /\ UNCHANGED <<tableVars, oauth, wiping, side, faults, restarted, blind>>

MintFails(c) ==
    /\ Going(c, "has_stamp")
    /\ Ends(c, "raised")
    /\ UNCHANGED <<pairVars, tableVars, oauth, wiping, side, faults, restarted, blind>>

Lock(c) ==
    /\ Going(c, "minted") /\ advisory = Nobody
    /\ advisory' = c
    /\ Moves(c, "locked")
    /\ UNCHANGED <<pairVars, stored, cachedStamp, statusRead, oauth, wiping, side, faults, restarted, blind>>

\* Mutant: no comparison before the write.
UnchangedSinceAlways(c) == TRUE

\* Step 3: the stamp is the one of step 1.
UnchangedSince(c) == Stamp = getter[c].stamp

Compare(c) ==
    /\ Going(c, "locked")
    /\ cachedStamp' = IF stored.stamp = 0 THEN cachedStamp ELSE Stamp
    /\ IF UnchangedSince(c)
         THEN Moves(c, "access") /\ UNCHANGED advisory
         ELSE /\ Ends(c, "replied")
              /\ advisory' = Nobody
    /\ UNCHANGED <<pairVars, stored, statusRead, oauth, wiping, side, faults, restarted, blind>>

\* _persist_tokens_under_lock: a commit each.
StoreAccess(c) ==
    /\ Going(c, "access")
    /\ stored' = [stored EXCEPT !.access = getter[c].access]
    /\ Moves(c, "refresh")
    /\ UNCHANGED <<pairVars, cachedStamp, statusRead, advisory, oauth, wiping, side, faults, restarted, blind>>

StoreRefresh(c) ==
    /\ Going(c, "refresh")
    /\ stored' = [stored EXCEPT !.refresh = getter[c].refresh]
    /\ blind' = (blind \/ (getter[c].refresh = getter[c].token /\ getter[c].token # stored.refresh))
    /\ Moves(c, "stamp")
    /\ UNCHANGED <<pairVars, cachedStamp, statusRead, advisory, oauth, wiping, side, faults, restarted>>

StoreStamp(c) ==
    /\ Going(c, "stamp")
    /\ IF getter[c].refresh # getter[c].token
         THEN stored' = [stored EXCEPT !.stamp = getter[c].refresh] /\ cachedStamp' = -1
         ELSE UNCHANGED <<stored, cachedStamp>>
    /\ Ends(c, "replied")
    /\ advisory' = Nobody
    /\ UNCHANGED <<pairVars, statusRead, oauth, wiping, side, faults, restarted, blind>>
-----------------------------------------------------------------------------
(* The OAuth callback: _exchange_code, then Configure.                     *)

Exchange ==
    /\ oauth.at = "idle" /\ minted < MaxPairs
    /\ minted' = minted + 1
    /\ usable' = usable \cup {minted + 1}
    /\ grantOf' = [grantOf EXCEPT ![minted + 1] = minted + 1]
    /\ oauth' = [at |-> "minted", pair |-> minted + 1]
    /\ UNCHANGED <<tableVars, getter, wiping, side, faults, restarted, blind>>

\* Mutant: the callback writes without the lock.
MayPersistAnyway == TRUE

MayPersist == advisory = Nobody

OAuthLocks ==
    /\ oauth.at = "minted" /\ MayPersist
    /\ advisory' = OAuth
    /\ oauth' = [oauth EXCEPT !.at = "access"]
    /\ UNCHANGED <<pairVars, stored, cachedStamp, statusRead, getter, wiping, side, faults, restarted, blind>>

OAuthTimesOut ==
    /\ oauth.at = "minted" /\ advisory # Nobody
    /\ oauth' = [oauth EXCEPT !.at = "failed"]
    /\ UNCHANGED <<pairVars, tableVars, getter, wiping, side, faults, restarted, blind>>

OAuthStores ==
    /\ \/ /\ oauth.at = "access" /\ stored' = [stored EXCEPT !.access = oauth.pair]
          /\ oauth' = [oauth EXCEPT !.at = "refresh"] /\ UNCHANGED <<cachedStamp, advisory>>
       \/ /\ oauth.at = "refresh" /\ stored' = [stored EXCEPT !.refresh = oauth.pair]
          /\ oauth' = [oauth EXCEPT !.at = "stamp"] /\ UNCHANGED <<cachedStamp, advisory>>
       \/ /\ oauth.at = "stamp" /\ stored' = [stored EXCEPT !.stamp = oauth.pair]
          /\ oauth' = [oauth EXCEPT !.at = "configure"]
          /\ cachedStamp' = -1 /\ advisory' = Nobody
    /\ UNCHANGED <<pairVars, statusRead, getter, wiping, side, faults, restarted, blind>>

\* Configure, by the callback, the disconnect or a discovery: refused without a
\* refresh token; the access token is kept only while fresh.  The channel of
\* the cache it replaces is closed, so what its refresh answers is of no use.
Configure ==
    /\ faults < MaxFaults /\ faults' = faults + 1
    /\ stored.access # 0 /\ stored.refresh # 0
    /\ \E young \in BOOLEAN :
          side' = [fresh |-> young, flight |-> Nobody]
    /\ oauth' = IF oauth.at = "configure" THEN [oauth EXCEPT !.at = "done"] ELSE oauth
    /\ UNCHANGED <<pairVars, tableVars, getter, wiping, restarted, blind>>
-----------------------------------------------------------------------------
\* disconnect_schwab: four deletions, without the lock.
Wipe ==
    /\ \/ /\ wiping = "idle" /\ wiping' = "access"
          /\ UNCHANGED <<stored, cachedStamp>>
       \/ /\ wiping = "access" /\ wiping' = "refresh"
          /\ stored' = [stored EXCEPT !.access = 0] /\ UNCHANGED cachedStamp
       \/ /\ wiping = "refresh" /\ wiping' = "stamp"
          /\ stored' = [stored EXCEPT !.refresh = 0] /\ UNCHANGED cachedStamp
       \/ /\ wiping = "stamp" /\ wiping' = "done"
          /\ stored' = [stored EXCEPT !.stamp = 0] /\ cachedStamp' = -1
    /\ UNCHANGED <<pairVars, statusRead, advisory, getter, oauth, side, faults, restarted, blind>>

\* GET /schwab/status asks for the stamp, without the lock.
StatusReads ==
    /\ statusRead = -1 /\ cachedStamp = -1 /\ stored.stamp # 0
    /\ statusRead' = stored.stamp
    /\ UNCHANGED <<pairVars, stored, cachedStamp, advisory, getter, oauth, wiping, side, faults, restarted, blind>>

StatusCaches ==
    /\ statusRead # -1
    /\ cachedStamp' = statusRead
    /\ statusRead' = -1
    /\ blind' = (blind \/ statusRead # stored.stamp)
    /\ UNCHANGED <<pairVars, stored, advisory, getter, oauth, wiping, side, faults, restarted>>

\* The backend restarts: its calls end, its session and the lock with it.
BackendRestarts ==
    /\ faults < MaxFaults /\ faults' = faults + 1
    /\ restarted' = TRUE
    /\ getter' = [c \in Getters |-> IF getter[c].at \in InBackend
                                      THEN Quiet("raised") ELSE getter[c]]
    /\ oauth' = IF oauth.at \in {"minted", "access", "refresh", "stamp", "configure"}
                  THEN [oauth EXCEPT !.at = "failed"] ELSE oauth
    /\ wiping' = IF wiping = "idle" THEN wiping ELSE "done"
    /\ advisory' = Nobody /\ cachedStamp' = -1 /\ statusRead' = -1
    /\ UNCHANGED <<pairVars, stored, side, blind>>
-----------------------------------------------------------------------------
\* Connected, the pair an hour old.
SchwabInit ==
    /\ minted = 1 /\ usable = {1} /\ grantOf = [n \in 1..MaxPairs |-> IF n = 1 THEN 1 ELSE 0]
    /\ stored = [access |-> 1, refresh |-> 1, stamp |-> 1]
    /\ cachedStamp = -1 /\ statusRead = -1 /\ advisory = Nobody
    /\ getter = [c \in Getters |-> Quiet("idle")]
    /\ oauth = [at |-> "idle", pair |-> 0]
    /\ wiping = "idle"
    /\ side = [fresh |-> FALSE, flight |-> Nobody]
    /\ faults = 0 /\ restarted = FALSE /\ blind = FALSE

SchwabNext ==
    \/ \E c \in Getters :
          \/ GetToken(c) \/ Woken(c) \/ WriteBack(c) \/ RefreshFailed(c) \/ GetterCancelled(c)
          \/ ReadToken(c) \/ ReadStamp(c) \/ LockTimesOut(c) \/ Mint(c) \/ MintFails(c)
          \/ Lock(c) \/ Compare(c) \/ StoreAccess(c) \/ StoreRefresh(c) \/ StoreStamp(c)
    \/ TokenAges \/ Exchange \/ OAuthLocks \/ OAuthTimesOut \/ OAuthStores \/ Configure
    \/ Wipe \/ StatusReads \/ StatusCaches \/ BackendRestarts

SchwabSpec == SchwabInit /\ [][SchwabNext]_schwabVars
-----------------------------------------------------------------------------
SchwabTypeOK ==
    /\ minted \in 1..MaxPairs /\ usable \in SUBSET (1..MaxPairs)
    /\ stored \in [access : 0..MaxPairs, refresh : 0..MaxPairs, stamp : 0..MaxPairs]
    /\ cachedStamp \in -1..MaxPairs /\ statusRead \in -1..MaxPairs
    /\ advisory \in Getters \cup {Nobody, OAuth}
    /\ \A c \in Getters : getter[c].at \in InBackend \cup {"idle", "waiting", "replied", "raised",
                             "served", "failed", "cancelled"}
    /\ oauth.at \in {"idle", "minted", "access", "refresh", "stamp", "configure", "done", "failed"}
    /\ wiping \in {"idle", "access", "refresh", "stamp", "done"}
    /\ side \in [fresh : BOOLEAN, flight : Getters \cup {Nobody}]

\* The two stored tokens come from one answer of Schwab whenever nobody is
\* writing them (single writer), unless the backend died half-way.
PairMatches ==
    advisory = Nobody /\ wiping = "idle" /\ ~restarted => grantOf[stored.access] = stored.refresh

\* A refresh never replaces a refresh token that was stored after it read the
\* stamp, which the compare-and-swap is for.  It cannot see one whose stamp a
\* restart lost or a cached stamp hides, nor one that another refresh put back,
\* because it had read it before the newer was stored and Schwab did not rotate.
NewerTokenKept ==
    [][\A c \in Getters :
          Going(c, "refresh") /\ getter'[c].at = "stamp" /\ wiping = "idle" /\ ~restarted /\ ~blind
             => stored.refresh = getter[c].found]_schwabVars

\* Beside PairMatches, the types of what is stored and of the calls.
TokensHold == SchwabTypeOK /\ PairMatches
=============================================================================
