------------------------------ MODULE Discoverer ------------------------------
(* Health of the broker sidecars and discovery of their accounts: the        *)
(* registry's probe loop, which also configures a sidecar it takes for       *)
(* restarted, and the discoverer's passes over the healthy ones, which write *)
(* the accounts' rows, their net liquidation value and their positions.      *)
(* Time is counted in ticks; an account not seen for more than Grace ticks   *)
(* (30 minutes) has been silent too long.                                    *)
EXTENDS Naturals, FiniteSets

CONSTANTS
    Labels,     \* the sidecars
    Fleets,     \* the brokers that the labels may be of
    Accounts,
    Grace,      \* ticks
    MaxFaults       \* stops, moves of accounts and failures together

ASSUME DiscovererAssumption ==
    /\ Labels # {}
    /\ Fleets \subseteq [Labels -> {"ibkr", "futu", "schwab", "alpaca"}]
    /\ {Grace, MaxFaults} \subseteq Nat

VARIABLES
    broker,     \* whose sidecar a label is
    runs,         \* the sidecar runs
    ready,      \* its process has been configured
    boots,      \* starts of its process
    confs,      \* Configure calls that changed it
    serves,     \* accounts of its login
    health,     \* BrokerRegistry._health_cache
    configured, \* BrokerRegistry._configured
    probe,      \* the probe of the label: "idle", or the started_at it read
    row,        \* broker_accounts: status and last_seen_via
    silent,     \* ticks since last_seen_at, up to Grace + 1
    held,       \* positions rows: none, of this life of the account or an older
    nlv,        \* last_nlv, likewise
    pass,       \* where _discover_once is, and the labels it found healthy
    lists,      \* what ListManagedAccounts answered in this pass
    faults

sidecarVars == <<runs, ready, boots, confs, serves>>
registryVars == <<health, configured, probe>>
accountVars == <<row, silent, held, nlv>>
passVars == <<pass, lists>>
discovererVars == <<sidecarVars, registryVars, accountVars, passVars, faults>>

\* Those that need Configure.
Targets == {l \in Labels : broker[l] # "ibkr"}

None == 0
Answer(st, accounts) == [st |-> st, accounts |-> accounts]
Waiting == Answer("waiting", {})
Failed == Answer("failed", {})

\* Health's started_at: the start of the process, but for Schwab's the last
\* Configure, and for Alpaca's the present.  0 is a message without seconds.
StartedAt(l) ==
    CASE broker[l] \in {"ibkr", "futu"} -> boots[l] + 1
      [] broker[l] = "alpaca"           -> MaxFaults + 2
      [] broker[l] = "schwab"           -> IF ready[l] THEN confs[l] ELSE None

\* Mutant: a sidecar is configured once.
DiffersFromNone(l, s) == configured[l] = None
\* Each reading of Alpaca's differs from the one recorded.
Differs(l, s) == broker[l] = "alpaca" \/ configured[l] # s

Healthy == {l \in Labels : health[l] = "ok"}
Gone == [status |-> "none", via |-> CHOOSE l \in Labels : TRUE]
Live(a) == row[a].status = "live"
Reporters(a) == {l \in pass.healthy : a \in lists[l].accounts}
Seen == {a \in Accounts : Reporters(a) # {}}

Faulty == faults < MaxFaults /\ faults' = faults + 1

DiscovererTypeOK ==
    /\ broker \in Fleets
    /\ {runs, ready} \subseteq [Labels -> BOOLEAN]
    /\ boots \in [Labels -> 0..MaxFaults] /\ confs \in [Labels -> Nat]
    /\ serves \in [Labels -> SUBSET Accounts]
    /\ health \in [Labels -> {"none", "ok", "bad"}]
    /\ configured \in [Labels -> Nat]
    /\ probe \in [Labels -> Nat]
    /\ row \in [Accounts -> [status : {"none", "live", "deleted"}, via : Labels]]
    /\ silent \in [Accounts -> 0..Grace + 1]
    /\ {held, nlv} \subseteq [Accounts -> {"none", "old", "new"}]
    /\ pass \in [at : {"rest", "list", "value", "positions"}, healthy : SUBSET Labels]
    /\ lists \in [Labels -> [st : {"waiting", "failed", "ok"}, accounts : SUBSET Accounts]]
    /\ faults \in 0..MaxFaults

\* build_broker_registry has configured every target, as far as it answered.
DiscovererInit ==
    /\ broker \in Fleets
    /\ runs = [l \in Labels |-> TRUE]
    /\ ready = [l \in Labels |-> TRUE]
    /\ boots = [l \in Labels |-> 0]
    /\ confs = [l \in Labels |-> 1]
    /\ serves \in {s \in [Labels -> SUBSET Accounts] :
                     \A a \in Accounts : Cardinality({l \in Labels : a \in s[l]}) <= 1}
    /\ health = [l \in Labels |-> "none"]
    /\ configured = [l \in Labels |-> None]
    /\ probe = [l \in Labels |-> None]
    /\ row = [a \in Accounts |-> Gone]
    /\ silent = [a \in Accounts |-> 0]
    /\ held = [a \in Accounts |-> "none"] /\ nlv = [a \in Accounts |-> "none"]
    /\ pass = [at |-> "rest", healthy |-> {}]
    /\ lists = [l \in Labels |-> Waiting]
    /\ faults = 0

--------------------------------------------------------------------------------
(* The sidecars. *)

SidecarStops(l) ==
    /\ runs[l] /\ Faulty
    /\ runs' = [runs EXCEPT ![l] = FALSE]
    /\ ready' = [ready EXCEPT ![l] = FALSE]
    /\ UNCHANGED <<boots, confs, serves, registryVars, accountVars, passVars>>

SidecarStarts(l) ==
    /\ ~runs[l]
    /\ runs' = [runs EXCEPT ![l] = TRUE]
    /\ boots' = [boots EXCEPT ![l] = @ + 1]
    /\ ready' = [ready EXCEPT ![l] = l \notin Targets]
    /\ UNCHANGED <<confs, serves, registryVars, accountVars, passVars, faults>>

\* An account comes under another login, or is closed.
AccountMoves(a, l) ==
    /\ a \notin serves[l] /\ Faulty
    /\ \E stays \in BOOLEAN :
          serves' = [k \in Labels |-> IF k = l /\ stays THEN serves[k] \cup {a} ELSE serves[k] \ {a}]
    /\ UNCHANGED <<runs, ready, boots, confs, registryVars, accountVars, passVars>>

--------------------------------------------------------------------------------
(* BrokerRegistry: _probe_client in health_probe_loop. *)

Marked(l, h) == health' = [health EXCEPT ![l] = h]

\* Whether the probe takes the sidecar for restarted since it was configured.
LooksRestarted(l) == l \in Targets /\ StartedAt(l) # None /\ Differs(l, StartedAt(l))

ProbeFails(l) ==
    /\ probe[l] = None
    /\ \/ ~runs[l] /\ UNCHANGED faults
       \/ runs[l] /\ Faulty
    /\ Marked(l, "bad")
    /\ UNCHANGED <<configured, probe, sidecarVars, accountVars, passVars>>

ProbeAnswered(l) ==
    /\ probe[l] = None /\ runs[l]
    /\ \/ LooksRestarted(l) /\ probe' = [probe EXCEPT ![l] = StartedAt(l)] /\ UNCHANGED health
       \/ ~LooksRestarted(l) /\ Marked(l, "ok") /\ UNCHANGED probe
    /\ UNCHANGED <<configured, sidecarVars, accountVars, passVars, faults>>

\* Configure of a process that has the same credentials changes nothing.
ConfigureOk(l) ==
    /\ probe[l] # None /\ runs[l]
    /\ ready' = [ready EXCEPT ![l] = TRUE]
    /\ confs' = [confs EXCEPT ![l] = IF ready[l] THEN @ ELSE @ + 1]
    /\ configured' = [configured EXCEPT ![l] = probe[l]]
    /\ probe' = [probe EXCEPT ![l] = None]
    /\ Marked(l, "ok")
    /\ UNCHANGED <<runs, boots, serves, accountVars, passVars, faults>>

ConfigureFails(l) ==
    /\ probe[l] # None
    /\ \/ ~runs[l] /\ UNCHANGED faults
       \/ runs[l] /\ Faulty
    /\ probe' = [probe EXCEPT ![l] = None]
    /\ Marked(l, "bad")
    /\ UNCHANGED <<configured, sidecarVars, accountVars, passVars>>

--------------------------------------------------------------------------------
(* BrokerDiscoverer: _discover_once in discover_loop. *)

\* last_seen_at recedes; a pass takes far less than a tick.
AccountsAge ==
    /\ pass.at = "rest"
    /\ \E a \in Accounts : silent[a] <= Grace
    /\ silent' = [a \in Accounts |-> IF silent[a] <= Grace THEN silent[a] + 1 ELSE silent[a]]
    /\ UNCHANGED <<sidecarVars, registryVars, row, held, nlv, passVars, faults>>

PassBegins ==
    /\ pass.at = "rest"
    /\ pass' = [at |-> "list", healthy |-> Healthy]
    /\ lists' = [l \in Labels |-> Waiting]
    /\ UNCHANGED <<sidecarVars, registryVars, accountVars, faults>>

Answered(l, answer) ==
    /\ pass.at = "list" /\ l \in pass.healthy /\ lists[l] = Waiting
    /\ lists' = [lists EXCEPT ![l] = answer]
    /\ UNCHANGED <<sidecarVars, registryVars, accountVars, pass>>

ListOk(l) == runs[l] /\ ready[l] /\ Answered(l, Answer("ok", serves[l])) /\ UNCHANGED faults

\* A sidecar that is down or not configured refuses; so does one in trouble,
\* but IBKR's, which answers that it has no accounts.
ListFails(l) ==
    \/ (~runs[l] \/ ~ready[l]) /\ Answered(l, Failed) /\ UNCHANGED faults
    \/ runs[l] /\ ready[l] /\ Answered(l, IF l \in Targets THEN Failed ELSE Answer("ok", {})) /\ Faulty

\* Mutant: a row that returns is made live, and no more.
ForgetNothing(cache) == cache
\* A row that returns forgets what was cached of its earlier life.
Forgotten(cache) == [a \in Accounts |-> IF a \in Seen /\ row[a].status = "deleted" THEN "none" ELSE cache[a]]

\* Rows the soft delete takes: reported by nobody in this pass, last seen by
\* a label that was healthy when it began, and silent too long.
Vanished == {a \in Accounts : /\ Live(a) /\ a \notin Seen
                              /\ row[a].via \in pass.healthy
                              /\ silent[a] > Grace}

\* What was cached is of an older life once the row is deleted.
Aged(cache) == [a \in Accounts |-> IF a \in Vanished /\ cache[a] = "new" THEN "old" ELSE cache[a]]

\* The first transaction: upserts (the last label of the clients' order wins),
\* positions of returning accounts, soft deletes.
WriteAccounts ==
    /\ pass.at = "list"
    /\ \A l \in pass.healthy : lists[l] # Waiting
    /\ \E via \in [Seen -> pass.healthy] :
          /\ \A a \in Seen : via[a] \in Reporters(a)
          /\ row' = [a \in Accounts |->
                       IF a \in Seen THEN [status |-> "live", via |-> via[a]]
                       ELSE IF a \in Vanished THEN [row[a] EXCEPT !.status = "deleted"]
                       ELSE row[a]]
    /\ silent' = [a \in Accounts |-> IF a \in Seen THEN 0 ELSE silent[a]]
    /\ held' = [a \in Accounts |-> IF a \in Vanished THEN Aged(held)[a] ELSE Forgotten(held)[a]]
    /\ nlv' = [a \in Accounts |-> IF a \in Vanished THEN Aged(nlv)[a] ELSE Forgotten(nlv)[a]]
    /\ pass' = [pass EXCEPT !.at = "value"]
    /\ UNCHANGED <<sidecarVars, registryVars, lists, faults>>

\* Accounts whose sidecar answered: none is sure to, if the fetch fails.
Fetched(got) == got \subseteq {a \in Seen : \E l \in Reporters(a) : runs[l] /\ ready[l]}

\* The summaries; an overflow is isolated, another error leaves all as it was.
WriteValues ==
    /\ pass.at = "value"
    /\ \E got \in SUBSET Seen :
          /\ Fetched(got)
          /\ nlv' = [a \in Accounts |-> IF a \in got /\ Live(a) THEN "new" ELSE nlv[a]]
    /\ pass' = [pass EXCEPT !.at = "positions"]
    /\ UNCHANGED <<sidecarVars, registryVars, row, silent, held, lists, faults>>

\* _discover_positions replaces the positions of each account that answered;
\* IBKR's sidecar in trouble answers that there are none.
WritePositions ==
    /\ pass.at = "positions"
    /\ \E got \in [Seen -> {"new", "none", "error"}] :
          /\ Fetched({a \in Seen : got[a] # "error"})
          /\ \A a \in Seen : got[a] = "none" => Reporters(a) \ Targets # {}
          /\ held' = [a \in Accounts |-> IF a \notin Seen \/ got[a] = "error" THEN held[a] ELSE got[a]]
    /\ pass' = [at |-> "rest", healthy |-> {}]
    /\ lists' = [l \in Labels |-> Waiting]
    /\ UNCHANGED <<sidecarVars, registryVars, row, silent, nlv, faults>>

\* An error in a transaction ends the pass; the loop logs it and goes on.
PassFails ==
    /\ pass.at # "rest" /\ Faulty
    /\ pass' = [at |-> "rest", healthy |-> {}]
    /\ lists' = [l \in Labels |-> Waiting]
    /\ UNCHANGED <<sidecarVars, registryVars, accountVars>>

\* The backend starts again: its caches are empty, and it configures each
\* target that runs.
BackendRestarts ==
    /\ Faulty
    /\ health' = [l \in Labels |-> "none"]
    /\ configured' = [l \in Labels |-> None]
    /\ probe' = [l \in Labels |-> None]
    /\ confs' = [l \in Labels |-> IF l \in Targets /\ runs[l] /\ ~ready[l] THEN confs[l] + 1 ELSE confs[l]]
    /\ ready' = [l \in Labels |-> runs[l]]
    /\ pass' = [at |-> "rest", healthy |-> {}]
    /\ lists' = [l \in Labels |-> Waiting]
    /\ UNCHANGED <<runs, boots, serves, accountVars>>

Probes(l) == ProbeFails(l) \/ ProbeAnswered(l) \/ ConfigureOk(l) \/ ConfigureFails(l)
Lists(l) == ListOk(l) \/ ListFails(l)

DiscovererNext ==
    /\ UNCHANGED broker
    /\ \/ \E l \in Labels : SidecarStops(l) \/ SidecarStarts(l) \/ Probes(l) \/ Lists(l)
       \/ \E a \in Accounts, l \in Labels : AccountMoves(a, l)
       \/ AccountsAge \/ PassBegins \/ WriteAccounts \/ WriteValues \/ WritePositions
       \/ PassFails \/ BackendRestarts

\* Both loops go on, and each of their calls ends by its deadline.
DiscovererFairness ==
    /\ \A l \in Labels : WF_discovererVars(Probes(l)) /\ WF_discovererVars(Lists(l))
    /\ WF_discovererVars(PassBegins) /\ WF_discovererVars(WriteAccounts)
    /\ WF_discovererVars(WriteValues) /\ WF_discovererVars(WritePositions)

DiscovererSpec ==
    DiscovererInit /\ [][DiscovererNext]_<<broker, discovererVars>> /\ DiscovererFairness

--------------------------------------------------------------------------------
\* An account that is shown has no value and no positions of an earlier life,
\* before it was deleted (brokers.py:1305, "to avoid showing week-old stale data").
ReturnsClean == \A a \in Accounts : Live(a) => "old" \notin {held[a], nlv[a]}

\* Whether a restart of the sidecar can be told from its started_at.
TellsRestart(l) == broker[l] # "schwab"

\* An account that a running sidecar keeps serving is shown in the end and
\* stays so, whatever restarts, failures and logins went before; but not behind
\* Schwab's sidecar, which reports no start before it is configured, once
\* that has restarted.
ServedIsShown ==
    \A a \in Accounts, l \in Labels :
        (<>[](runs[l] /\ a \in serves[l] /\ (TellsRestart(l) \/ boots[l] = 0))) => <>[]Live(a)
================================================================================
