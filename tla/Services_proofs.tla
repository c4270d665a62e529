---------------------------- MODULE Services_proofs ----------------------------
(* Theorems about the discovery of accounts, alert rules and the bar          *)
(* aggregator, for every number of sidecars, accounts, rules, feeds, ticks    *)
(* and faults.                                                                *)
EXTENDS MCServices, SequenceTheorems, FiniteSetTheorems, TLAPS

--------------------------------------------------------------------------------
(* What is cached of an account's earlier life is found only under a row that *)
(* is deleted: the upsert that makes the row live again drops it, and the     *)
(* later writes of the pass are of this life.                                 *)

OldIsDeleted == \A a \in Accounts : "old" \in {held[a], nlv[a]} => row[a].status = "deleted"

RowsAreRows == \A a \in Accounts : row[a] = [status |-> row[a].status, via |-> row[a].via]

LEMMA DiscovererInitially == DiscovererInit => RowsAreRows /\ OldIsDeleted
<1> SUFFICES ASSUME DiscovererInit PROVE RowsAreRows /\ OldIsDeleted
  OBVIOUS
<1>1. \A a \in Accounts : row[a] = Gone /\ held[a] = "none" /\ nlv[a] = "none"
  BY DEF DiscovererInit
<1>2. \E l : Gone = [status |-> "none", via |-> l]
  BY DEF Gone
<1>3. Gone = [status |-> Gone.status, via |-> Gone.via]
  BY <1>2
<1> QED
  BY <1>1, <1>3 DEF RowsAreRows, OldIsDeleted

LEMMA DiscovererStep ==
    RowsAreRows /\ OldIsDeleted /\ [DiscovererNext]_<<broker, discovererVars>>
        => RowsAreRows' /\ OldIsDeleted'
<1> SUFFICES ASSUME RowsAreRows, OldIsDeleted, [DiscovererNext]_<<broker, discovererVars>>
             PROVE  RowsAreRows' /\ OldIsDeleted'
  OBVIOUS
<1>1. ASSUME UNCHANGED accountVars PROVE RowsAreRows' /\ OldIsDeleted'
  BY <1>1 DEF accountVars, RowsAreRows, OldIsDeleted
<1>2. CASE AccountsAge
  BY <1>2 DEF AccountsAge, RowsAreRows, OldIsDeleted
<1>3. CASE WriteAccounts
  <2>1. PICK via \in [Seen -> pass.healthy] :
          /\ \A a \in Seen : via[a] \in Reporters(a)
          /\ row' = [a \in Accounts |->
                       IF a \in Seen THEN [status |-> "live", via |-> via[a]]
                       ELSE IF a \in Vanished THEN [row[a] EXCEPT !.status = "deleted"]
                       ELSE row[a]]
    BY <1>3 DEF WriteAccounts
  <2>2. RowsAreRows'
    BY <2>1 DEF RowsAreRows
  <2> QED
    BY <2>1, <2>2, <1>3
    DEF WriteAccounts, RowsAreRows, OldIsDeleted, Vanished, Aged, Forgotten
<1>4. CASE WriteValues
  BY <1>4 DEF WriteValues, RowsAreRows, OldIsDeleted, Live
<1>5. CASE WritePositions
  BY <1>5 DEF WritePositions, RowsAreRows, OldIsDeleted
<1>6. CASE UNCHANGED <<broker, discovererVars>>
  BY <1>6, <1>1 DEF discovererVars
<1>7. CASE DiscovererNext /\ ~(AccountsAge \/ WriteAccounts \/ WriteValues \/ WritePositions)
  <2>1. ASSUME NEW l \in Labels, SidecarStops(l) \/ SidecarStarts(l) \/ Probes(l) \/ Lists(l)
        PROVE  UNCHANGED accountVars
    BY <2>1 DEF SidecarStops, SidecarStarts, Probes, ProbeFails, ProbeAnswered, ConfigureOk,
                ConfigureFails, Lists, ListOk, ListFails, Answered
  <2>2. ASSUME NEW a \in Accounts, NEW l \in Labels, AccountMoves(a, l)
        PROVE  UNCHANGED accountVars
    BY <2>2 DEF AccountMoves
  <2>3. PassBegins \/ PassFails \/ BackendRestarts => UNCHANGED accountVars
    BY DEF PassBegins, PassFails, BackendRestarts
  <2> QED
    BY <1>7, <2>1, <2>2, <2>3, <1>1 DEF DiscovererNext
<1> QED
  BY <1>2, <1>3, <1>4, <1>5, <1>6, <1>7

\* An account that is shown has no value and no positions of an earlier life
\* (brokers.py: the writes of _discover_once and _discover_positions).
THEOREM LivesAreSeparate == DiscovererSpec => []ReturnsClean
<1>1. OldIsDeleted => ReturnsClean
  BY DEF OldIsDeleted, ReturnsClean, Live
<1> QED
  BY DiscovererInitially, DiscovererStep, <1>1, PTL DEF DiscovererSpec

--------------------------------------------------------------------------------
(* The types of the discoverer's variables.                                   *)

\* A start of a sidecar's process comes after a stop, which is counted.
StartsAreCounted == \A l \in Labels : boots[l] + (IF runs[l] THEN 0 ELSE 1) <= faults

DiscovererInv == DiscovererTypeOK /\ StartsAreCounted

\* The parts of the type invariant, by the group of variables that a step changes.
SidecarTypes ==
    /\ broker \in Fleets
    /\ runs \in [Labels -> BOOLEAN] /\ ready \in [Labels -> BOOLEAN]
    /\ boots \in [Labels -> 0..MaxFaults] /\ confs \in [Labels -> Nat]
    /\ serves \in [Labels -> SUBSET Accounts]
    /\ faults \in 0..MaxFaults /\ StartsAreCounted
RegistryTypes ==
    /\ health \in [Labels -> {"none", "ok", "bad"}]
    /\ configured \in [Labels -> Nat] /\ probe \in [Labels -> Nat]
AccountTypes ==
    /\ row \in [Accounts -> [status : {"none", "live", "deleted"}, via : Labels]]
    /\ silent \in [Accounts -> 0..Grace + 1]
    /\ held \in [Accounts -> {"none", "old", "new"}] /\ nlv \in [Accounts -> {"none", "old", "new"}]
PassTypes ==
    /\ pass \in [at : {"rest", "list", "value", "positions"}, healthy : SUBSET Labels]
    /\ lists \in [Labels -> [st : {"waiting", "failed", "ok"}, accounts : SUBSET Accounts]]

LEMMA DiscovererParts ==
    DiscovererInv <=> SidecarTypes /\ RegistryTypes /\ AccountTypes /\ PassTypes
  BY DEF DiscovererInv, DiscovererTypeOK, SidecarTypes, RegistryTypes, AccountTypes, PassTypes

LEMMA DiscovererTyped == DiscovererInit => DiscovererInv
<1> SUFFICES ASSUME DiscovererInit PROVE DiscovererInv
  OBVIOUS
<1>1. MaxFaults \in Nat /\ Grace \in Nat /\ Labels # {}
  BY DiscovererAssumption
<1>2. SidecarTypes
  BY <1>1 DEF DiscovererInit, SidecarTypes, StartsAreCounted
<1>3. RegistryTypes /\ PassTypes
  BY DEF DiscovererInit, RegistryTypes, PassTypes, None, Waiting, Answer
<1>4. AccountTypes
  <2>1. Gone \in [status : {"none", "live", "deleted"}, via : Labels]
    BY <1>1 DEF Gone
  <2> QED
    BY <1>1, <2>1 DEF DiscovererInit, AccountTypes
<1> QED
  BY <1>2, <1>3, <1>4, DiscovererParts

\* A fault that happens is counted.
LEMMA FaultCounted ==
    ASSUME SidecarTypes, Faulty
    PROVE  faults' \in 0..MaxFaults /\ faults' = faults + 1
  BY DiscovererAssumption DEF SidecarTypes, Faulty

\* Steps that leave the sidecars alone, or count a fault and no more.
LEMMA SidecarsKept ==
    ASSUME SidecarTypes, UNCHANGED <<broker, sidecarVars>>, UNCHANGED faults \/ Faulty
    PROVE  SidecarTypes'
<1>1. faults' \in 0..MaxFaults /\ faults \in Nat /\ faults' \in Nat /\ faults <= faults'
  BY FaultCounted, DiscovererAssumption DEF SidecarTypes
<1>2. StartsAreCounted'
  <2> SUFFICES ASSUME NEW l \in Labels PROVE boots[l] + (IF runs[l] THEN 0 ELSE 1) <= faults'
    BY DEF StartsAreCounted, sidecarVars
  <2>1. boots[l] \in Nat /\ boots[l] + (IF runs[l] THEN 0 ELSE 1) <= faults
    BY DiscovererAssumption DEF SidecarTypes, StartsAreCounted
  <2> QED
    BY <1>1, <2>1
<1> QED
  BY <1>1, <1>2 DEF SidecarTypes, sidecarVars

LEMMA StartedAtIsNat == ASSUME SidecarTypes, NEW l \in Labels PROVE StartedAt(l) \in Nat
<1>1. broker[l] \in {"ibkr", "futu", "schwab", "alpaca"}
  BY DiscovererAssumption DEF SidecarTypes
<1>2. boots[l] \in Nat /\ confs[l] \in Nat /\ MaxFaults \in Nat
  BY DiscovererAssumption DEF SidecarTypes
<1> QED
  BY <1>1, <1>2 DEF StartedAt, None

LEMMA StopStep == ASSUME NEW l \in Labels, SidecarTypes, UNCHANGED broker, SidecarStops(l) PROVE SidecarTypes'
<1>1. faults' \in 0..MaxFaults /\ faults' = faults + 1 /\ faults \in Nat
  BY FaultCounted DEF SidecarStops, SidecarTypes
<1>2. runs' = [runs EXCEPT ![l] = FALSE] /\ ready' = [ready EXCEPT ![l] = FALSE] /\ UNCHANGED <<boots, confs, serves>>
  BY DEF SidecarStops
<1>3. runs' \in [Labels -> BOOLEAN] /\ ready' \in [Labels -> BOOLEAN]
  BY <1>2 DEF SidecarTypes
<1>4. StartsAreCounted'
  <2> SUFFICES ASSUME NEW k \in Labels PROVE boots[k] + (IF runs'[k] THEN 0 ELSE 1) <= faults'
    BY <1>2 DEF StartsAreCounted
  <2>1. boots[k] \in Nat /\ boots[k] + (IF runs[k] THEN 0 ELSE 1) <= faults
    BY DiscovererAssumption DEF SidecarTypes, StartsAreCounted
  <2>2. runs[l] /\ (k # l => runs'[k] = runs[k])
    BY <1>2 DEF SidecarStops, SidecarTypes
  <2>3. CASE k = l
    BY <1>1, <2>1, <2>2, <2>3
  <2>4. CASE k # l
    BY <1>1, <2>1, <2>2, <2>4
  <2> QED
    BY <2>3, <2>4
<1> QED
  BY <1>1, <1>2, <1>3, <1>4 DEF SidecarTypes

LEMMA StartStep == ASSUME NEW l \in Labels, SidecarTypes, UNCHANGED broker, SidecarStarts(l) PROVE SidecarTypes'
<1>1. /\ runs' = [runs EXCEPT ![l] = TRUE] /\ boots' = [boots EXCEPT ![l] = @ + 1]
      /\ ready' = [ready EXCEPT ![l] = l \notin Targets] /\ UNCHANGED <<confs, serves, faults>> /\ ~runs[l]
  BY DEF SidecarStarts
<1>2. runs' \in [Labels -> BOOLEAN] /\ ready' \in [Labels -> BOOLEAN]
  BY <1>1 DEF SidecarTypes
<1>3. faults \in Nat /\ faults <= MaxFaults /\ MaxFaults \in Nat /\ boots \in [Labels -> 0..MaxFaults]
  BY DiscovererAssumption DEF SidecarTypes
<1>4. boots[l] \in Nat /\ boots[l] + 1 <= faults
  BY <1>1, <1>3 DEF SidecarTypes, StartsAreCounted
<1>5. boots' \in [Labels -> 0..MaxFaults]
  BY <1>1, <1>3, <1>4
<1>6. StartsAreCounted'
  <2> SUFFICES ASSUME NEW k \in Labels PROVE boots'[k] + (IF runs'[k] THEN 0 ELSE 1) <= faults
    BY <1>1 DEF StartsAreCounted
  <2>1. boots[k] \in Nat /\ boots[k] + (IF runs[k] THEN 0 ELSE 1) <= faults
    BY <1>3 DEF SidecarTypes, StartsAreCounted
  <2>2. CASE k = l
    <3>1. runs'[l] /\ boots'[l] = boots[l] + 1
      BY <1>1 DEF SidecarTypes
    <3> QED
      BY <1>4, <2>2, <3>1
  <2>3. CASE k # l
    <3>1. runs'[k] = runs[k] /\ boots'[k] = boots[k]
      BY <1>1, <2>3 DEF SidecarTypes
    <3> QED
      BY <2>1, <3>1
  <2> QED
    BY <2>2, <2>3
<1> QED
  BY <1>1, <1>2, <1>5, <1>6 DEF SidecarTypes

\* Another login or Configure: neither is a start.
LEMMA SidecarsUsed ==
    ASSUME SidecarTypes, UNCHANGED <<broker, runs, boots>>, UNCHANGED faults \/ Faulty,
           ready' \in [Labels -> BOOLEAN], confs' \in [Labels -> Nat], serves' \in [Labels -> SUBSET Accounts]
    PROVE  SidecarTypes'
<1>1. faults' \in 0..MaxFaults /\ faults \in Nat /\ faults' \in Nat /\ faults <= faults'
  BY FaultCounted, DiscovererAssumption DEF SidecarTypes
<1>2. StartsAreCounted'
  <2> SUFFICES ASSUME NEW l \in Labels PROVE boots[l] + (IF runs[l] THEN 0 ELSE 1) <= faults'
    BY DEF StartsAreCounted
  <2>1. boots[l] \in Nat /\ boots[l] + (IF runs[l] THEN 0 ELSE 1) <= faults
    BY DiscovererAssumption DEF SidecarTypes, StartsAreCounted
  <2> QED
    BY <1>1, <2>1
<1> QED
  BY <1>1, <1>2 DEF SidecarTypes

LEMMA ProbesTyped ==
    ASSUME NEW l \in Labels, SidecarTypes, RegistryTypes, UNCHANGED broker, Probes(l)
    PROVE  SidecarTypes' /\ RegistryTypes' /\ UNCHANGED <<accountVars, passVars>>
<1>1. StartedAt(l) \in Nat
  BY StartedAtIsNat
<1>2. CASE ProbeFails(l)
  <2>1. UNCHANGED <<broker, sidecarVars>> /\ (UNCHANGED faults \/ Faulty)
    BY <1>2 DEF ProbeFails
  <2> QED
    BY <1>2, <2>1, SidecarsKept DEF ProbeFails, Marked, RegistryTypes
<1>3. CASE ProbeAnswered(l)
  <2>1. UNCHANGED <<broker, sidecarVars, faults>>
    BY <1>3 DEF ProbeAnswered
  <2> QED
    BY <1>1, <1>3, <2>1, SidecarsKept DEF ProbeAnswered, Marked, RegistryTypes
<1>4. CASE ConfigureOk(l)
  <2>1. /\ UNCHANGED <<runs, boots, serves, faults>> /\ ready' = [ready EXCEPT ![l] = TRUE]
        /\ confs' = [confs EXCEPT ![l] = IF ready[l] THEN @ ELSE @ + 1]
    BY <1>4 DEF ConfigureOk
  <2>2. ready' \in [Labels -> BOOLEAN]
    BY <2>1 DEF SidecarTypes
  <2>3. confs' \in [Labels -> Nat]
    BY <2>1 DEF SidecarTypes
  <2>4. serves' \in [Labels -> SUBSET Accounts]
    BY <2>1 DEF SidecarTypes
  <2>5. SidecarTypes'
    BY <2>1, <2>2, <2>3, <2>4, SidecarsUsed
  <2> QED
    BY <1>4, <2>5 DEF ConfigureOk, Marked, RegistryTypes, None
<1>5. CASE ConfigureFails(l)
  <2>1. UNCHANGED <<broker, sidecarVars>> /\ (UNCHANGED faults \/ Faulty)
    BY <1>5 DEF ConfigureFails
  <2> QED
    BY <1>5, <2>1, SidecarsKept DEF ConfigureFails, Marked, RegistryTypes, None
<1> QED
  BY <1>2, <1>3, <1>4, <1>5 DEF Probes

LEMMA ListsTyped ==
    ASSUME NEW l \in Labels, SidecarTypes, PassTypes, UNCHANGED broker, Lists(l)
    PROVE  SidecarTypes' /\ PassTypes' /\ UNCHANGED <<registryVars, accountVars>>
<1>1. PICK answer \in [st : {"waiting", "failed", "ok"}, accounts : SUBSET Accounts] :
        Answered(l, answer) /\ (UNCHANGED faults \/ Faulty)
  <2>1. Answer("ok", serves[l]) \in [st : {"waiting", "failed", "ok"}, accounts : SUBSET Accounts]
    BY DEF SidecarTypes, Answer
  <2>2. {Failed, Answer("ok", {})} \subseteq [st : {"waiting", "failed", "ok"}, accounts : SUBSET Accounts]
    BY DEF Failed, Answer
  <2> QED
    BY <2>1, <2>2 DEF Lists, ListOk, ListFails
<1>2. UNCHANGED <<sidecarVars, registryVars, accountVars, pass>> /\ lists' = [lists EXCEPT ![l] = answer]
  BY <1>1 DEF Answered
<1>3. PassTypes'
  BY <1>2 DEF PassTypes
<1>4. SidecarTypes'
  BY <1>1, <1>2, SidecarsKept
<1> QED
  BY <1>2, <1>3, <1>4

\* Seen and Vanished are told by rows and lists of the right types.
LEMMA AccountsTyped ==
    ASSUME AccountTypes, PassTypes, AccountsAge \/ WriteAccounts \/ WriteValues \/ WritePositions
    PROVE  AccountTypes' /\ PassTypes' /\ UNCHANGED <<sidecarVars, registryVars, faults>>
<1> DEFINE Life == {"none", "old", "new"}
<1>1. /\ row \in [Accounts -> [status : {"none", "live", "deleted"}, via : Labels]]
      /\ silent \in [Accounts -> 0..Grace + 1] /\ Grace \in Nat
      /\ held \in [Accounts -> Life] /\ nlv \in [Accounts -> Life]
  BY DiscovererAssumption DEF AccountTypes
<1>2. PassTypes /\ pass.healthy \subseteq Labels
  BY DEF PassTypes
<1>3. CASE AccountsAge
  <2>1. /\ silent' = [a \in Accounts |-> IF silent[a] <= Grace THEN silent[a] + 1 ELSE silent[a]]
        /\ UNCHANGED <<sidecarVars, registryVars, row, held, nlv, pass, lists, faults>>
    BY <1>3 DEF AccountsAge, passVars
  <2>2. silent' \in [Accounts -> 0..Grace + 1]
    <3>1. ASSUME NEW a \in Accounts
          PROVE  (IF silent[a] <= Grace THEN silent[a] + 1 ELSE silent[a]) \in 0..Grace + 1
      <4>1. silent[a] \in 0..Grace + 1
        BY <1>1
      <4> QED
        BY <1>1, <4>1
    <3> QED
      BY <2>1, <3>1
  <2> QED
    BY <1>2, <2>1, <2>2 DEF AccountTypes, PassTypes
<1>4. CASE WriteAccounts
  <2>1. PICK via \in [Seen -> pass.healthy] :
          row' = [a \in Accounts |->
                       IF a \in Seen THEN [status |-> "live", via |-> via[a]]
                       ELSE IF a \in Vanished THEN [row[a] EXCEPT !.status = "deleted"]
                       ELSE row[a]]
    BY <1>4 DEF WriteAccounts
  <2>2. /\ silent' = [a \in Accounts |-> IF a \in Seen THEN 0 ELSE silent[a]]
        /\ held' = [a \in Accounts |-> IF a \in Vanished THEN Aged(held)[a] ELSE Forgotten(held)[a]]
        /\ nlv' = [a \in Accounts |-> IF a \in Vanished THEN Aged(nlv)[a] ELSE Forgotten(nlv)[a]]
        /\ pass' = [pass EXCEPT !.at = "value"]
        /\ UNCHANGED <<sidecarVars, registryVars, lists, faults>>
    BY <1>4 DEF WriteAccounts
  <2>3. row' \in [Accounts -> [status : {"none", "live", "deleted"}, via : Labels]]
    BY <1>1, <1>2, <2>1
  <2>4. silent' \in [Accounts -> 0..Grace + 1]
    BY <1>1, <2>2
  <2>5. ASSUME NEW cache \in [Accounts -> Life]
        PROVE  [a \in Accounts |-> IF a \in Vanished THEN Aged(cache)[a] ELSE Forgotten(cache)[a]]
                   \in [Accounts -> Life]
    BY DEF Aged, Forgotten
  <2>6. held' \in [Accounts -> Life] /\ nlv' \in [Accounts -> Life]
    BY <1>1, <2>2, <2>5
  <2>7. PassTypes'
    BY <1>2, <2>2 DEF PassTypes
  <2> QED
    BY <2>2, <2>3, <2>4, <2>6, <2>7 DEF AccountTypes
<1>5. CASE WriteValues
  <2>1. PICK got \in SUBSET Seen : nlv' = [a \in Accounts |-> IF a \in got /\ Live(a) THEN "new" ELSE nlv[a]]
    BY <1>5 DEF WriteValues
  <2>2. pass' = [pass EXCEPT !.at = "positions"] /\ UNCHANGED <<sidecarVars, registryVars, row, silent, held, lists, faults>>
    BY <1>5 DEF WriteValues
  <2> QED
    BY <1>1, <1>2, <2>1, <2>2 DEF AccountTypes, PassTypes
<1>6. CASE WritePositions
  <2>1. PICK got \in [Seen -> {"new", "none", "error"}] :
          held' = [a \in Accounts |-> IF a \notin Seen \/ got[a] = "error" THEN held[a] ELSE got[a]]
    BY <1>6 DEF WritePositions
  <2>2. /\ pass' = [at |-> "rest", healthy |-> {}] /\ lists' = [l \in Labels |-> Waiting]
        /\ UNCHANGED <<sidecarVars, registryVars, row, silent, nlv, faults>>
    BY <1>6 DEF WritePositions
  <2>3. held' \in [Accounts -> Life]
    BY <1>1, <2>1
  <2>4. PassTypes'
    BY <2>2 DEF PassTypes, Waiting, Answer
  <2> QED
    BY <1>1, <2>2, <2>3, <2>4 DEF AccountTypes
<1> QED
  BY <1>3, <1>4, <1>5, <1>6

\* A pass that begins, fails or is cut short by a restart of the backend.
LEMMA PassesTyped ==
    ASSUME SidecarTypes, RegistryTypes, PassTypes, UNCHANGED broker, PassBegins \/ PassFails \/ BackendRestarts
    PROVE  SidecarTypes' /\ RegistryTypes' /\ PassTypes' /\ UNCHANGED accountVars
<1>1. CASE PassBegins
  <2>1. /\ pass' = [at |-> "list", healthy |-> Healthy] /\ lists' = [l \in Labels |-> Waiting]
        /\ UNCHANGED <<sidecarVars, registryVars, accountVars, faults>>
    BY <1>1 DEF PassBegins
  <2>2. PassTypes'
    BY <2>1 DEF PassTypes, Waiting, Answer, Healthy
  <2>3. SidecarTypes'
    BY <2>1, SidecarsKept
  <2> QED
    BY <2>1, <2>2, <2>3 DEF RegistryTypes, registryVars
<1>2. CASE PassFails
  <2>1. /\ pass' = [at |-> "rest", healthy |-> {}] /\ lists' = [l \in Labels |-> Waiting]
        /\ UNCHANGED <<sidecarVars, registryVars, accountVars>> /\ Faulty
    BY <1>2 DEF PassFails
  <2>2. PassTypes'
    BY <2>1 DEF PassTypes, Waiting, Answer
  <2>3. SidecarTypes'
    BY <2>1, SidecarsKept
  <2> QED
    BY <2>1, <2>2, <2>3 DEF RegistryTypes, registryVars
<1>3. CASE BackendRestarts
  <2>1. /\ Faulty /\ UNCHANGED <<runs, boots, serves, accountVars>> /\ ready' = [l \in Labels |-> runs[l]]
        /\ confs' = [l \in Labels |-> IF l \in Targets /\ runs[l] /\ ~ready[l] THEN confs[l] + 1 ELSE confs[l]]
        /\ pass' = [at |-> "rest", healthy |-> {}] /\ lists' = [l \in Labels |-> Waiting]
        /\ health' = [l \in Labels |-> "none"] /\ configured' = [l \in Labels |-> None]
        /\ probe' = [l \in Labels |-> None]
    BY <1>3 DEF BackendRestarts
  <2>2. ready' \in [Labels -> BOOLEAN]
    BY <2>1, Zenon DEF SidecarTypes
  <2>3. confs' \in [Labels -> Nat]
    BY <2>1 DEF SidecarTypes
  <2>4. serves' \in [Labels -> SUBSET Accounts]
    BY <2>1 DEF SidecarTypes
  <2>5. SidecarTypes'
    BY <2>1, <2>2, <2>3, <2>4, SidecarsUsed
  <2>6. RegistryTypes' /\ PassTypes'
    BY <2>1 DEF RegistryTypes, PassTypes, None, Waiting, Answer
  <2> QED
    BY <2>1, <2>5, <2>6
<1> QED
  BY <1>1, <1>2, <1>3

LEMMA MovesTyped ==
    ASSUME NEW a \in Accounts, NEW l \in Labels, SidecarTypes, UNCHANGED broker, AccountMoves(a, l)
    PROVE  SidecarTypes' /\ UNCHANGED <<registryVars, accountVars, passVars>>
<1>1. PICK stays \in BOOLEAN :
        serves' = [k \in Labels |-> IF k = l /\ stays THEN serves[k] \cup {a} ELSE serves[k] \ {a}]
  BY DEF AccountMoves
<1>2. Faulty /\ UNCHANGED <<runs, ready, boots, confs, registryVars, accountVars, passVars>>
  BY DEF AccountMoves
<1>3. serves' \in [Labels -> SUBSET Accounts]
  BY <1>1 DEF SidecarTypes
<1>4. ready' \in [Labels -> BOOLEAN] /\ confs' \in [Labels -> Nat]
  BY <1>2 DEF SidecarTypes
<1> QED
  BY <1>2, <1>3, <1>4, SidecarsUsed

LEMMA DiscovererTypes == DiscovererInv /\ [DiscovererNext]_<<broker, discovererVars>> => DiscovererInv'
<1> SUFFICES ASSUME SidecarTypes, RegistryTypes, AccountTypes, PassTypes,
                    [DiscovererNext]_<<broker, discovererVars>>
             PROVE  SidecarTypes' /\ RegistryTypes' /\ AccountTypes' /\ PassTypes'
  BY DiscovererParts DEF DiscovererInv, DiscovererTypeOK, SidecarTypes, RegistryTypes, AccountTypes, PassTypes,
                         StartsAreCounted
<1>1. UNCHANGED registryVars => RegistryTypes'
  BY DEF RegistryTypes, registryVars
<1>2. UNCHANGED accountVars => AccountTypes'
  BY DEF AccountTypes, accountVars
<1>3. UNCHANGED passVars => PassTypes'
  BY DEF PassTypes, passVars
<1>4. UNCHANGED <<broker, sidecarVars, faults>> => SidecarTypes'
  BY SidecarsKept
<1>5. CASE UNCHANGED <<broker, discovererVars>>
  BY <1>1, <1>2, <1>3, <1>4, <1>5 DEF discovererVars
<1>6. CASE DiscovererNext
  <2>1. UNCHANGED broker
    BY <1>6 DEF DiscovererNext
  <2>2. ASSUME NEW l \in Labels, SidecarStops(l) \/ SidecarStarts(l) \/ Probes(l) \/ Lists(l)
        PROVE  SidecarTypes' /\ RegistryTypes' /\ AccountTypes' /\ PassTypes'
    <3>1. CASE SidecarStops(l) \/ SidecarStarts(l)
      BY <2>1, <3>1, <1>1, <1>2, <1>3, StopStep, StartStep DEF SidecarStops, SidecarStarts
    <3>2. CASE Probes(l)
      BY <2>1, <3>2, <1>2, <1>3, ProbesTyped
    <3>3. CASE Lists(l)
      BY <2>1, <3>3, <1>1, <1>2, ListsTyped
    <3> QED
      BY <2>2, <3>1, <3>2, <3>3
  <2>3. ASSUME NEW a \in Accounts, NEW l \in Labels, AccountMoves(a, l)
        PROVE  SidecarTypes' /\ RegistryTypes' /\ AccountTypes' /\ PassTypes'
    BY <2>1, <2>3, <1>1, <1>2, <1>3, MovesTyped
  <2>4. CASE AccountsAge \/ WriteAccounts \/ WriteValues \/ WritePositions
    BY <2>1, <2>4, <1>1, <1>4, AccountsTyped
  <2>5. CASE PassBegins \/ PassFails \/ BackendRestarts
    BY <2>1, <2>5, <1>2, PassesTyped
  <2> QED
    BY <1>6, <2>2, <2>3, <2>4, <2>5 DEF DiscovererNext
<1> QED
  BY <1>5, <1>6

--------------------------------------------------------------------------------
(* Alerts.  Nothing sets deleted_at back, so an evaluation that began after   *)
(* the deletion finds it and never comes to the point where a rule fires.     *)

RuleType == [st : Statuses, gone : BOOLEAN, symbol : Symbols, errors : 0..ErrorLimit,
             muted : BOOLEAN]

\* The row of an evaluation's rule has been read only if it was not deleted when
\* the evaluation began.
EvaluationsBeforeDeletion ==
    /\ worker.at # "idle" => worker.rule \in Rules
    /\ worker.at = "begun" /\ worker.late => rule[worker.rule].gone
    /\ worker.at = "row" => ~worker.late

SilenceInv ==
    /\ rule \in [Rules -> RuleType]
    /\ put.at = "read" => put.rule \in Rules /\ put.to \in {"active", "disabled"}
    /\ queue \in Seq(Rules)
    /\ EvaluationsBeforeDeletion
    /\ DeletedStaysSilent

LEMMA AlertsInitially == AlertsInit => SilenceInv
<1> SUFFICES ASSUME AlertsInit PROVE SilenceInv
  OBVIOUS
<1>1. rule \in [Rules -> RuleType]
  <2>1. 0 \in 0..ErrorLimit
    BY AlertsAssumption
  <2> QED
    BY <2>1 DEF AlertsInit, RuleType, Statuses
<1>2. queue \in Seq(Rules)
  BY DEF AlertsInit
<1> QED
  BY <1>1, <1>2 DEF AlertsInit, SilenceInv, EvaluationsBeforeDeletion, DeletedStaysSilent,
                    NotPutting, NotWorking

\* A bar queues rules.
LEMMA OrdersOfRules == ASSUME NEW s \in Symbols, NEW order \in SetToSeqs(Due(s)) PROVE order \in Seq(Rules)
<1>1. Due(s) \subseteq Rules /\ Cardinality(Due(s)) \in Nat
  BY AlertsAssumption, FS_Subset, FS_CardinalityType DEF Due
<1>2. order \in [1..Cardinality(Due(s)) -> Due(s)]
  BY DEF SetToSeqs
<1> QED
  BY <1>1, <1>2

\* The queue of rules stays one, whatever order a bar's rules are queued in.
LEMMA QueueOfRules ==
    ASSUME NEW s \in Symbols, NEW order \in SetToSeqs(Due(s)), queue \in Seq(Rules)
    PROVE  Newest(queue \o order) \in Seq(Rules)
<1>1. order \in Seq(Rules)
  BY OrdersOfRules
<1>2. queue \o order \in Seq(Rules)
  BY <1>1
<1> DEFINE all == queue \o order
           m == IF Len(all) > QueueSize THEN Len(all) - QueueSize + 1 ELSE 1
<1>3. m \in Int /\ Len(all) \in Int /\ m >= 1
  BY <1>2, AlertsAssumption
<1>4. \A i \in m..Len(all) : all[i] \in Rules
  BY <1>2, <1>3
<1> HIDE DEF m, all
<1>5. SubSeq(all, m, Len(all)) \in Seq(Rules)
  BY <1>3, <1>4, SubSeqProperties
<1> QED
  BY <1>5 DEF Newest, all, m

\* A write of a row keeps the mark of deletion it may have.
LEMMA WriteKeepsSilence ==
    ASSUME SilenceInv, NEW r \in Rules, NEW terms \in RuleType, rule[r].gone => terms.gone,
           rule' = [rule EXCEPT ![r] = terms],
           UNCHANGED <<queue, lateFires, worker>>,
           put'.at = "read" => put'.rule \in Rules /\ put'.to \in {"active", "disabled"}
    PROVE  SilenceInv'
  BY DEF SilenceInv, EvaluationsBeforeDeletion, DeletedStaysSilent

LEMMA RowsOfWrites ==
    ASSUME SilenceInv, NEW r \in Rules, NEW terms \in RuleType, rule[r].gone => terms.gone, Write(r, terms)
    PROVE  SilenceInv'
  BY WriteKeepsSilence DEF Write, workVars, SilenceInv

LEMMA AlertsStep == SilenceInv /\ [AlertsNext]_alertVars => SilenceInv'
<1> SUFFICES ASSUME SilenceInv, [AlertsNext]_alertVars PROVE SilenceInv'
  OBVIOUS
<1>0. ASSUME UNCHANGED <<rule, put, queue, worker, lateFires>> PROVE SilenceInv'
  BY <1>0 DEF SilenceInv, EvaluationsBeforeDeletion, DeletedStaysSilent
<1>1. ASSUME NEW r \in Rules,
             CreateRule(r) \/ ConfirmRule(r) \/ DeleteRule(r) \/ Unmute(r) \/ MuteExpires(r)
      PROVE  SilenceInv'
  <2>1. rule[r] \in RuleType
    BY DEF SilenceInv
  <2>2. CASE CreateRule(r)
    <3>1. [rule[r] EXCEPT !.st = "pending"] \in RuleType
      BY <2>1 DEF RuleType, Statuses
    <3> QED
      BY <2>1, <2>2, <3>1, RowsOfWrites DEF CreateRule, RuleType
  <2>3. CASE ConfirmRule(r)
    <3>1. [rule[r] EXCEPT !.st = "active"] \in RuleType
      BY <2>1 DEF RuleType, Statuses
    <3> QED
      BY <2>1, <2>3, <3>1, RowsOfWrites DEF ConfirmRule, RuleType
  <2>4. CASE DeleteRule(r)
    <3>1. [rule[r] EXCEPT !.st = "deleted", !.gone = TRUE] \in RuleType
      BY <2>1 DEF RuleType, Statuses
    <3> QED
      BY <2>1, <2>4, <3>1, RowsOfWrites DEF DeleteRule, RuleType
  <2>5. CASE Unmute(r) \/ MuteExpires(r)
    <3>1. [rule[r] EXCEPT !.st = "active", !.muted = FALSE] \in RuleType
      BY <2>1 DEF RuleType, Statuses
    <3> QED
      BY <2>1, <2>5, <3>1, RowsOfWrites DEF Unmute, MuteExpires, RuleType
  <2> QED
    BY <1>1, <2>2, <2>3, <2>4, <2>5
<1>2. ASSUME NEW r \in Rules, NEW s \in Symbols, UpdatePredicate(r, s) PROVE SilenceInv'
  <2>1. rule[r] \in RuleType
    BY DEF SilenceInv
  <2>2. [rule[r] EXCEPT !.symbol = s] \in RuleType
    BY <2>1 DEF RuleType
  <2> QED
    BY <1>2, <2>1, <2>2, RowsOfWrites DEF UpdatePredicate, RuleType
<1>3. ASSUME NEW r \in Rules, NEW until \in BOOLEAN, Mute(r, until) PROVE SilenceInv'
  <2>1. rule[r] \in RuleType
    BY DEF SilenceInv
  <2>2. [rule[r] EXCEPT !.st = "disabled", !.muted = until] \in RuleType
    BY <2>1 DEF RuleType, Statuses
  <2> QED
    BY <1>3, <2>1, <2>2, RowsOfWrites DEF Mute, RuleType
<1>4. ASSUME NEW r \in Rules, NEW to \in {"active", "disabled"}, PutStatusReads(r, to)
      PROVE  SilenceInv'
  BY <1>4 DEF PutStatusReads, workVars, SilenceInv, EvaluationsBeforeDeletion, DeletedStaysSilent
<1>5. CASE PutStatusWrites
  <2> DEFINE written == [rule[put.rule] EXCEPT !.st = put.to, !.errors = 0]
  <2>1. put.rule \in Rules /\ put.to \in {"active", "disabled"}
    BY <1>5 DEF PutStatusWrites, SilenceInv
  <2>2. rule[put.rule] \in RuleType /\ 0 \in 0..ErrorLimit
    BY <2>1, AlertsAssumption DEF SilenceInv
  <2>3. written \in RuleType /\ written.gone = rule[put.rule].gone
    BY <2>1, <2>2 DEF RuleType, Statuses
  <2>4. rule' = [rule EXCEPT ![put.rule] = written]
    BY <1>5, <2>1 DEF PutStatusWrites, SilenceInv
  <2>5. put' = NotPutting /\ UNCHANGED <<queue, lateFires, worker>>
    BY <1>5 DEF PutStatusWrites, workVars
  <2> HIDE DEF written
  <2> QED
    BY <2>1, <2>3, <2>4, <2>5, WriteKeepsSilence DEF NotPutting
<1>6. CASE CapabilityFlips \/ RebuildWakes \/ \E b \in Rebuilds : Rebuilding(b) \/ RebuildFails(b)
  BY <1>6, <1>0 DEF CapabilityFlips, RebuildWakes, Rebuilding, RebuildReads, RebuildFills,
                    RebuildReplaces, RebuildFails, workVars, ruleVars
<1>7. ASSUME NEW s \in Symbols, BarArrives(s) PROVE SilenceInv'
  <2>1. queue' \in Seq(Rules)
    BY <1>7, QueueOfRules DEF BarArrives, SilenceInv
  <2> QED
    BY <1>7, <2>1 DEF BarArrives, ruleVars, SilenceInv, EvaluationsBeforeDeletion, DeletedStaysSilent
<1>8. ASSUME NEW r \in Rules, NEW s \in Symbols, DebouncePasses(r, s) PROVE SilenceInv'
  BY <1>8, <1>0 DEF DebouncePasses, ruleVars
<1>9. CASE ProcessBegins
  BY <1>9, HeadTailProperties
  DEF ProcessBegins, ruleVars, SilenceInv, EvaluationsBeforeDeletion, DeletedStaysSilent
<1>10. CASE ProcessReads
  BY <1>10 DEF ProcessReads, Evaluable, Active, NotWorking, ruleVars, SilenceInv,
               EvaluationsBeforeDeletion, DeletedStaysSilent
<1>11. CASE EvaluationFires \/ EvaluationSkipped
  BY <1>11 DEF EvaluationFires, EvaluationSkipped, Evaluated, NotWorking, ruleVars, SilenceInv,
               EvaluationsBeforeDeletion, DeletedStaysSilent
<1>12. ASSUME EvaluationIsFalse \/ EvaluationErrs PROVE SilenceInv'
  <2> DEFINE r == worker.rule
             limited == IF rule[r].errors = ErrorLimit THEN ErrorLimit ELSE rule[r].errors + 1
             dormant == IF rule[r].errors + 1 >= ErrorLimit THEN "dormant" ELSE rule[r].st
             terms == IF EvaluationIsFalse THEN [rule[r] EXCEPT !.errors = 0]
                    ELSE [rule[r] EXCEPT !.errors = limited, !.st = dormant]
  <2>1. r \in Rules /\ put' = put /\ UNCHANGED <<queue, lateFires>> /\ worker' = NotWorking
    BY <1>12 DEF EvaluationIsFalse, EvaluationErrs, Evaluated, SilenceInv, EvaluationsBeforeDeletion
  <2>2. rule[r] \in RuleType /\ ErrorLimit \in Nat
    BY <2>1, AlertsAssumption DEF SilenceInv
  <2>3. limited \in 0..ErrorLimit /\ 0 \in 0..ErrorLimit /\ dormant \in Statuses
    BY <2>2 DEF RuleType, Statuses
  <2> HIDE DEF limited, dormant
  <2>4. terms \in RuleType /\ terms.gone = rule[r].gone
    BY <2>2, <2>3 DEF RuleType
  <2> HIDE DEF terms
  <2>5. rule' = [rule EXCEPT ![r] = terms]
    <3>1. CASE EvaluationIsFalse
      BY <3>1, <2>1 DEF EvaluationIsFalse, terms, SilenceInv
    <3>2. CASE EvaluationErrs /\ ~EvaluationIsFalse
      BY <3>2, <2>1, <2>2 DEF EvaluationErrs, terms, limited, dormant, SilenceInv, RuleType
    <3> QED
      BY <1>12, <3>1, <3>2
  <2> QED
    BY <2>1, <2>4, <2>5 DEF NotWorking, SilenceInv, EvaluationsBeforeDeletion, DeletedStaysSilent
<1>13. CASE AlertsRestart
  <2>1. queue' \in Seq(Rules)
    BY <1>13 DEF AlertsRestart
  <2> QED
    BY <1>13, <2>1 DEF AlertsRestart, ruleVars, NotWorking, NotPutting, SilenceInv,
                       EvaluationsBeforeDeletion, DeletedStaysSilent
<1>14. CASE UNCHANGED alertVars
  BY <1>14, <1>0 DEF alertVars, ruleVars, workVars
<1> QED
  BY <1>1, <1>2, <1>3, <1>4, <1>5, <1>6, <1>7, <1>8, <1>9, <1>10, <1>11, <1>12, <1>13, <1>14
  DEF AlertsNext

\* A rule is silent once it is deleted, save for an evaluation begun before
\* (runner.py: process, and the writers of the rules' rows).
THEOREM DeletionSilences == AlertsSpec => []DeletedStaysSilent
<1>1. SilenceInv => DeletedStaysSilent
  BY DEF SilenceInv
<1> QED
  BY AlertsInitially, AlertsStep, <1>1, PTL DEF AlertsSpec

--------------------------------------------------------------------------------
(* The types of the alerts' variables.                                        *)

\* The types of the alerts' variables, by the group that a step changes; those
\* of the rows and of the queue's entries are in SilenceInv.
PutTypes == put \in [at : {"idle", "read"}, rule : Rules, to : {"active", "disabled"}]
Found == [Rules -> Symbols \cup {NoSymbol}]
RebuildType == [at : {"idle", "asleep", "begun", "read", "filled"}, found : Found, older : BOOLEAN]
IndexTypes ==
    /\ index \in Found /\ known \subseteq Symbols
    /\ rebuild \in [Rebuilds -> RebuildType]
FlagTypes == pending \in BOOLEAN /\ running \in BOOLEAN /\ spoilt \in BOOLEAN
WorkTypes ==
    /\ recent \subseteq Rules \X Symbols /\ Len(queue) <= QueueSize
    /\ worker \in [at : {"idle", "begun", "row"}, rule : Rules, late : BOOLEAN]
    /\ lateFires \subseteq Rules /\ barCount \in 0..MaxBars
CountTypes == asked \in [Rules -> BOOLEAN] /\ acts \in 0..MaxActs /\ failures \in 0..MaxFailures

LEMMA AlertsParts ==
    SilenceInv => (AlertsTypeOK <=> PutTypes /\ IndexTypes /\ FlagTypes /\ WorkTypes /\ CountTypes)
  BY DEF SilenceInv, RuleType, AlertsTypeOK, PutTypes, Found, RebuildType, IndexTypes, FlagTypes, WorkTypes, CountTypes

LEMMA RestTypes ==
    /\ NotRebuilding \in RebuildType
    /\ NotPutting \in [at : {"idle", "read"}, rule : Rules, to : {"active", "disabled"}]
    /\ NotWorking \in [at : {"idle", "begun", "row"}, rule : Rules, late : BOOLEAN]
<1>1. (CHOOSE r \in Rules : TRUE) \in Rules
  BY AlertsAssumption
<1> QED
  BY <1>1 DEF NotRebuilding, RebuildType, Found, NotPutting, NotWorking

\* What an index holds, a cache of its symbols may hold.
LEMMA SymbolsOf == ASSUME NEW f \in Found PROVE {f[r] : r \in Rules} \ {NoSymbol} \subseteq Symbols
  BY DEF Found

LEMMA ActivesFound ==
    ASSUME SilenceInv PROVE [r \in Rules |-> IF Active(r) THEN rule[r].symbol ELSE NoSymbol] \in Found
<1>1. \A r \in Rules : rule[r].symbol \in Symbols
  BY DEF SilenceInv, RuleType
<1> QED
  BY <1>1 DEF Found

LEMMA AlertsTyped == AlertsInit => AlertsTypeOK
<1> SUFFICES ASSUME AlertsInit PROVE AlertsTypeOK
  OBVIOUS
<1>1. SilenceInv
  BY AlertsInitially
<1>2. PutTypes
  BY RestTypes DEF AlertsInit, PutTypes
<1>3. index \in Found
  BY <1>1, ActivesFound DEF AlertsInit
<1>4. IndexTypes
  BY <1>3, RestTypes, SymbolsOf DEF AlertsInit, IndexTypes
<1>5. FlagTypes
  BY DEF AlertsInit, FlagTypes
<1>6. Len(<<>>) <= QueueSize
  BY AlertsAssumption
<1>7. WorkTypes
  BY <1>6, RestTypes, AlertsAssumption DEF AlertsInit, WorkTypes
<1>8. CountTypes
  BY AlertsAssumption DEF AlertsInit, CountTypes
<1> QED
  BY <1>1, <1>2, <1>4, <1>5, <1>7, <1>8, AlertsParts

\* The queue keeps its bound.
LEMMA NewestFits == ASSUME NEW q \in Seq(Rules) PROVE Len(Newest(q)) <= QueueSize
<1>1. Len(q) \in Nat /\ QueueSize \in Nat \ {0}
  BY AlertsAssumption
<1>2. CASE Len(q) > QueueSize
  <2>1. Newest(q) = SubSeq(q, Len(q) - QueueSize + 1, Len(q))
    BY <1>2 DEF Newest
  <2>2. Len(q) - QueueSize + 1 \in 1..Len(q) + 1 /\ \A i \in Len(q) - QueueSize + 1..Len(q) : q[i] \in Rules
    BY <1>1, <1>2
  <2>3. Len(SubSeq(q, Len(q) - QueueSize + 1, Len(q))) = Len(q) - (Len(q) - QueueSize + 1) + 1
    BY <1>1, <1>2, <2>2, SubSeqProperties
  <2> QED
    BY <1>1, <2>1, <2>3
<1>3. CASE ~(Len(q) > QueueSize)
  <2>1. Newest(q) = SubSeq(q, 1, Len(q))
    BY <1>3 DEF Newest
  <2>2. Len(SubSeq(q, 1, Len(q))) = Len(q)
    BY <1>1, SubSeqProperties
  <2> QED
    BY <1>1, <1>3, <2>1, <2>2
<1> QED
  BY <1>2, <1>3

\* A write of a row, and the count of one.
LEMMA WritesTyped ==
    ASSUME NEW r \in Rules, NEW terms, Write(r, terms), CountTypes
    PROVE  CountTypes' /\ UNCHANGED <<put, indexVars, workVars, running>>
<1>1. acts \in 0..MaxActs /\ MaxActs \in Nat /\ acts' = acts + 1 /\ acts < MaxActs
  BY AlertsAssumption DEF Write, Acting, CountTypes
<1>2. acts' \in 0..MaxActs
  BY <1>1
<1> QED
  BY <1>2 DEF Write, CountTypes

LEMMA RequestTyped ==
    ASSUME IndexTypes, Request PROVE rebuild' \in [Rebuilds -> RebuildType] /\ pending' \in BOOLEAN
<1>1. rebuild \in [Rebuilds -> RebuildType] /\ "request" \in Rebuilds
  BY DEF IndexTypes, Rebuilds
<1>2. [rebuild EXCEPT !["request"].at = "asleep"] \in [Rebuilds -> RebuildType]
  BY <1>1 DEF RebuildType
<1> QED
  BY <1>1, <1>2 DEF Request

LEMMA PutsTyped ==
    ASSUME SilenceInv, PutTypes, IndexTypes, FlagTypes, CountTypes,
           PutStatusWrites \/ \E r \in Rules, to \in {"active", "disabled"} : PutStatusReads(r, to)
    PROVE  PutTypes' /\ IndexTypes' /\ FlagTypes' /\ CountTypes' /\ UNCHANGED workVars
<1>1. CASE PutStatusWrites
  <2>1. /\ put' = NotPutting /\ asked' = [asked EXCEPT ![put.rule] = TRUE]
        /\ UNCHANGED <<index, known, spoilt, workVars, running, acts, failures>>
        /\ Request \/ UNCHANGED <<pending, rebuild>>
    BY <1>1 DEF PutStatusWrites
  <2>2. rebuild' \in [Rebuilds -> RebuildType] /\ pending' \in BOOLEAN
    BY <2>1, RequestTyped DEF IndexTypes, FlagTypes
  <2>3. CountTypes'
    BY <2>1 DEF CountTypes
  <2> QED
    BY <2>1, <2>2, <2>3, RestTypes DEF PutTypes, IndexTypes, FlagTypes
<1>2. ASSUME NEW r \in Rules, NEW to \in {"active", "disabled"}, PutStatusReads(r, to)
      PROVE  PutTypes' /\ IndexTypes' /\ FlagTypes' /\ CountTypes' /\ UNCHANGED workVars
  <2>1. /\ put' = [at |-> "read", rule |-> r, to |-> to] /\ Acting
        /\ UNCHANGED <<rule, asked, indexVars, workVars, running, failures>>
    BY <1>2 DEF PutStatusReads
  <2>2. acts' \in 0..MaxActs
    BY <2>1, AlertsAssumption DEF Acting, CountTypes
  <2> QED
    BY <2>1, <2>2 DEF PutTypes, IndexTypes, FlagTypes, CountTypes, indexVars
<1> QED
  BY <1>1, <1>2

\* The steps of the rebuilds.
LEMMA RebuildsTyped ==
    ASSUME SilenceInv, IndexTypes, FlagTypes, CountTypes,
           CapabilityFlips \/ RebuildWakes \/ \E b \in Rebuilds : Rebuilding(b) \/ RebuildFails(b)
    PROVE  IndexTypes' /\ FlagTypes' /\ CountTypes' /\ UNCHANGED <<put, workVars>>
<1>1. rebuild \in [Rebuilds -> RebuildType] /\ index \in Found /\ known \subseteq Symbols
  BY DEF IndexTypes
<1>2. CASE CapabilityFlips
  <2>1. /\ rebuild' = [rebuild EXCEPT !["capability"].at = "begun"] /\ Acting
        /\ UNCHANGED <<rule, asked, put, index, known, pending, spoilt, workVars, running, failures>>
    BY <1>2 DEF CapabilityFlips
  <2>2. acts' \in 0..MaxActs
    BY <2>1, AlertsAssumption DEF Acting, CountTypes
  <2>3. rebuild' \in [Rebuilds -> RebuildType]
    BY <1>1, <2>1 DEF RebuildType
  <2> QED
    BY <2>1, <2>2, <2>3 DEF IndexTypes, FlagTypes, CountTypes
<1>3. CASE RebuildWakes
  <2>1. /\ rebuild' = [rebuild EXCEPT !["request"].at = "begun"] /\ pending' = FALSE
        /\ UNCHANGED <<index, known, spoilt, ruleVars, put, workVars, running, failures>>
    BY <1>3 DEF RebuildWakes
  <2>2. rebuild' \in [Rebuilds -> RebuildType]
    BY <1>1, <2>1 DEF RebuildType
  <2> QED
    BY <2>1, <2>2 DEF IndexTypes, FlagTypes, CountTypes, ruleVars
<1>4. ASSUME NEW b \in Rebuilds, RebuildReads(b)
      PROVE  IndexTypes' /\ FlagTypes' /\ CountTypes' /\ UNCHANGED <<put, workVars>>
  <2> DEFINE actives == [r \in Rules |-> IF Active(r) THEN rule[r].symbol ELSE NoSymbol]
  <2>1. /\ rebuild' = [c \in Rebuilds |-> IF c = b THEN [at |-> "read", older |-> FALSE, found |-> actives]
                                          ELSE [rebuild[c] EXCEPT !.older = Underway(c)]]
        /\ UNCHANGED <<index, known, pending, ruleVars, put, workVars, running, failures>>
    BY <1>4 DEF RebuildReads
  <2>2. actives \in Found
    BY ActivesFound
  <2>3. spoilt' = (spoilt /\ Underway(Other(b)))
    BY <1>4 DEF RebuildReads
  <2>4. spoilt' \in BOOLEAN
    BY <2>3, Zenon
  <2> HIDE DEF actives
  <2>5. \A c \in Rebuilds : Underway(c) \in BOOLEAN
    BY DEF Underway
  <2>6. rebuild' \in [Rebuilds -> RebuildType]
    BY <1>1, <2>1, <2>2, <2>5 DEF RebuildType
  <2> QED
    BY <2>1, <2>4, <2>6 DEF IndexTypes, FlagTypes, CountTypes, ruleVars
<1>5. ASSUME NEW b \in Rebuilds, RebuildFills(b)
      PROVE  IndexTypes' /\ FlagTypes' /\ CountTypes' /\ UNCHANGED <<put, workVars>>
  <2>1. /\ index' = rebuild[b].found /\ rebuild' = [rebuild EXCEPT ![b].at = "filled"]
        /\ UNCHANGED <<known, pending, ruleVars, put, workVars, running, failures>>
    BY <1>5 DEF RebuildFills
  <2>2. spoilt' = (spoilt \/ (rebuild[b].older /\ rebuild[Other(b)].at # "read"))
    BY <1>5 DEF RebuildFills
  <2>3. spoilt' \in BOOLEAN
    BY <2>2, Zenon
  <2>4. index' \in Found /\ rebuild' \in [Rebuilds -> RebuildType]
    BY <1>1, <2>1 DEF RebuildType
  <2> QED
    BY <2>1, <2>3, <2>4 DEF IndexTypes, FlagTypes, CountTypes, ruleVars
<1>6. ASSUME NEW b \in Rebuilds, RebuildReplaces(b)
      PROVE  IndexTypes' /\ FlagTypes' /\ CountTypes' /\ UNCHANGED <<put, workVars>>
  <2>1. /\ known' = {rebuild[b].found[r] : r \in Rules} \ {NoSymbol}
        /\ rebuild' = [rebuild EXCEPT ![b] = [NotRebuilding EXCEPT !.at =
                         IF b = "request" /\ pending THEN "begun" ELSE "idle"]]
        /\ UNCHANGED <<index, ruleVars, put, workVars, running, failures>>
    BY <1>6 DEF RebuildReplaces
  <2>2. /\ pending' = (pending /\ b # "request")
        /\ spoilt' = (spoilt \/ (rebuild[b].older /\ ~Underway(Other(b))))
    BY <1>6 DEF RebuildReplaces
  <2>3. pending' \in BOOLEAN /\ spoilt' \in BOOLEAN
    BY <2>2, Zenon
  <2>4. rebuild[b].found \in Found
    BY <1>1 DEF RebuildType
  <2>5. known' \subseteq Symbols
    BY <2>1, <2>4, SymbolsOf
  <2>6. rebuild' \in [Rebuilds -> RebuildType]
    BY <1>1, <2>1, RestTypes DEF RebuildType
  <2> QED
    BY <1>1, <2>1, <2>3, <2>5, <2>6 DEF IndexTypes, FlagTypes, CountTypes, ruleVars
<1>7. ASSUME NEW b \in Rebuilds, RebuildFails(b)
      PROVE  IndexTypes' /\ FlagTypes' /\ CountTypes' /\ UNCHANGED <<put, workVars>>
  <2>1. /\ rebuild' = [rebuild EXCEPT ![b] = NotRebuilding] /\ spoilt' = TRUE /\ Failing
        /\ UNCHANGED <<index, known, pending, ruleVars, put, workVars, running>>
    BY <1>7 DEF RebuildFails
  <2>2. failures' \in 0..MaxFailures
    BY <2>1, AlertsAssumption DEF Failing, CountTypes
  <2> QED
    BY <1>1, <2>1, <2>2, RestTypes DEF IndexTypes, FlagTypes, CountTypes, ruleVars
<1> QED
  BY <1>2, <1>3, <1>4, <1>5, <1>6, <1>7 DEF Rebuilding

\* Bars, the queue and the worker.
LEMMA WorkTyped ==
    ASSUME SilenceInv, WorkTypes,
           \/ \E s \in Symbols : BarArrives(s) \/ \E r \in Rules : DebouncePasses(r, s)
           \/ ProcessBegins \/ ProcessReads
           \/ EvaluationFires \/ EvaluationIsFalse \/ EvaluationErrs \/ EvaluationSkipped
    PROVE  WorkTypes' /\ UNCHANGED <<asked, acts, put, indexVars, running, failures>>
<1>1. /\ recent \subseteq Rules \X Symbols /\ Len(queue) <= QueueSize /\ lateFires \subseteq Rules
      /\ worker \in [at : {"idle", "begun", "row"}, rule : Rules, late : BOOLEAN]
      /\ barCount \in 0..MaxBars /\ queue \in Seq(Rules)
  BY DEF WorkTypes, SilenceInv
<1>2. ASSUME NEW s \in Symbols, BarArrives(s)
      PROVE  WorkTypes' /\ UNCHANGED <<asked, acts, put, indexVars, running, failures>>
  <2>1. PICK order \in SetToSeqs(Due(s)) : queue' = Newest(queue \o order)
    BY <1>2 DEF BarArrives
  <2>2. /\ barCount < MaxBars /\ barCount' = barCount + 1 /\ recent' = recent \cup (Due(s) \X {s})
        /\ UNCHANGED <<worker, lateFires, ruleVars, put, indexVars, running, failures>>
    BY <1>2 DEF BarArrives
  <2>3. queue \o order \in Seq(Rules)
    BY <1>1, OrdersOfRules
  <2>4. Len(queue') <= QueueSize
    BY <2>1, <2>3, NewestFits
  <2>5. barCount' \in 0..MaxBars
    BY <1>1, <2>2, AlertsAssumption
  <2>6. recent' \subseteq Rules \X Symbols
    BY <1>1, <2>2 DEF Due
  <2> QED
    BY <1>1, <2>2, <2>4, <2>5, <2>6 DEF WorkTypes, ruleVars
<1>3. ASSUME NEW s \in Symbols, NEW r \in Rules, DebouncePasses(r, s)
      PROVE  WorkTypes' /\ UNCHANGED <<asked, acts, put, indexVars, running, failures>>
  BY <1>1, <1>3 DEF DebouncePasses, WorkTypes, ruleVars
<1>4. CASE ProcessBegins
  <2>1. /\ queue # <<>> /\ queue' = Tail(queue)
        /\ worker' = [at |-> "begun", rule |-> Head(queue), late |-> rule[Head(queue)].gone]
        /\ UNCHANGED <<recent, lateFires, barCount, ruleVars, put, indexVars, running, failures>>
    BY <1>4 DEF ProcessBegins
  <2>2. Head(queue) \in Rules /\ Len(Tail(queue)) = Len(queue) - 1 /\ Len(queue) \in Nat
    BY <1>1, <2>1, HeadTailProperties
  <2>3. Len(queue') <= QueueSize
    BY <1>1, <2>1, <2>2, AlertsAssumption
  <2>4. rule[Head(queue)].gone \in BOOLEAN
    BY <2>2 DEF SilenceInv, RuleType
  <2> QED
    BY <1>1, <2>1, <2>2, <2>3, <2>4 DEF WorkTypes, ruleVars
<1>5. CASE ProcessReads
  <2>1. worker' \in [at : {"idle", "begun", "row"}, rule : Rules, late : BOOLEAN]
    BY <1>1, <1>5, RestTypes DEF ProcessReads
  <2> QED
    BY <1>1, <1>5, <2>1 DEF ProcessReads, WorkTypes, ruleVars
<1>6. CASE EvaluationFires \/ EvaluationSkipped \/ EvaluationIsFalse \/ EvaluationErrs
  <2>1. worker' = NotWorking /\ UNCHANGED <<recent, queue, barCount, asked, acts, put, indexVars, running, failures>>
    BY <1>6 DEF EvaluationFires, EvaluationSkipped, EvaluationIsFalse, EvaluationErrs, Evaluated, ruleVars
  <2>2. lateFires' \subseteq Rules
    BY <1>1, <1>6 DEF EvaluationFires, EvaluationSkipped, EvaluationIsFalse, EvaluationErrs
  <2> QED
    BY <1>1, <2>1, <2>2, RestTypes DEF WorkTypes
<1> QED
  BY <1>2, <1>3, <1>4, <1>5, <1>6

LEMMA RestartTyped ==
    ASSUME SilenceInv, WorkTypes, CountTypes, AlertsRestart
    PROVE  PutTypes' /\ IndexTypes' /\ FlagTypes' /\ WorkTypes' /\ CountTypes'
<1>1. /\ Failing /\ running' \in BOOLEAN
      /\ index' = [r \in Rules |-> IF running' /\ Active(r) THEN rule[r].symbol ELSE NoSymbol]
      /\ known' = {index'[r] : r \in Rules} \ {NoSymbol}
      /\ rebuild' = [b \in Rebuilds |-> NotRebuilding] /\ pending' = FALSE
      /\ recent' = {} /\ queue' = <<>> /\ worker' = NotWorking /\ put' = NotPutting
      /\ UNCHANGED <<ruleVars, lateFires, barCount>>
  BY DEF AlertsRestart
<1>2. spoilt' = ~running'
  BY DEF AlertsRestart
<1>3. spoilt' \in BOOLEAN
  BY <1>2, Zenon
<1>4. index' \in Found
  <2>1. \A r \in Rules : rule[r].symbol \in Symbols
    BY DEF SilenceInv, RuleType
  <2> QED
    BY <1>1, <2>1 DEF Found
<1>5. IndexTypes'
  BY <1>1, <1>4, RestTypes, SymbolsOf DEF IndexTypes
<1>6. failures' \in 0..MaxFailures
  BY <1>1, AlertsAssumption DEF Failing, CountTypes
<1>7. Len(queue') <= QueueSize
  BY <1>1, AlertsAssumption
<1> QED
  BY <1>1, <1>3, <1>5, <1>6, <1>7, RestTypes DEF PutTypes, FlagTypes, WorkTypes, CountTypes, ruleVars

LEMMA AlertsTypes == SilenceInv /\ AlertsTypeOK /\ [AlertsNext]_alertVars => AlertsTypeOK'
<1> SUFFICES ASSUME SilenceInv, PutTypes, IndexTypes, FlagTypes, WorkTypes, CountTypes, [AlertsNext]_alertVars
             PROVE  PutTypes' /\ IndexTypes' /\ FlagTypes' /\ WorkTypes' /\ CountTypes'
  <2>1. ASSUME SilenceInv, AlertsTypeOK, [AlertsNext]_alertVars PROVE SilenceInv'
    BY <2>1, AlertsStep
  <2>2. SilenceInv' => (AlertsTypeOK' <=> PutTypes' /\ IndexTypes' /\ FlagTypes' /\ WorkTypes' /\ CountTypes')
    BY DEF SilenceInv, RuleType, AlertsTypeOK, PutTypes, Found, RebuildType, IndexTypes, FlagTypes, WorkTypes,
           CountTypes
  <2> QED
    BY <2>1, <2>2, AlertsParts
<1>1. UNCHANGED put => PutTypes'
  BY DEF PutTypes
<1>2. UNCHANGED <<indexVars, running>> => IndexTypes' /\ FlagTypes'
  BY DEF IndexTypes, FlagTypes, indexVars
<1>3. UNCHANGED workVars => WorkTypes'
  BY DEF WorkTypes, workVars
<1>4. UNCHANGED <<asked, acts, failures>> => CountTypes'
  BY DEF CountTypes
<1>5. ASSUME NEW r \in Rules, NEW terms, Write(r, terms)
      PROVE  PutTypes' /\ IndexTypes' /\ FlagTypes' /\ WorkTypes' /\ CountTypes'
  BY <1>5, <1>1, <1>2, <1>3, WritesTyped
<1>6. ASSUME NEW r \in Rules, CreateRule(r) \/ ConfirmRule(r) \/ DeleteRule(r) \/ Unmute(r) \/ MuteExpires(r)
      PROVE  PutTypes' /\ IndexTypes' /\ FlagTypes' /\ WorkTypes' /\ CountTypes'
  BY <1>5, <1>6 DEF CreateRule, ConfirmRule, DeleteRule, Unmute, MuteExpires
<1>7. ASSUME NEW r \in Rules, NEW s \in Symbols, UpdatePredicate(r, s)
      PROVE  PutTypes' /\ IndexTypes' /\ FlagTypes' /\ WorkTypes' /\ CountTypes'
  BY <1>5, <1>7 DEF UpdatePredicate
<1>8. ASSUME NEW r \in Rules, NEW until \in BOOLEAN, Mute(r, until)
      PROVE  PutTypes' /\ IndexTypes' /\ FlagTypes' /\ WorkTypes' /\ CountTypes'
  BY <1>5, <1>8 DEF Mute
<1>9. CASE PutStatusWrites \/ \E r \in Rules, to \in {"active", "disabled"} : PutStatusReads(r, to)
  BY <1>9, <1>3, PutsTyped
<1>10. CASE CapabilityFlips \/ RebuildWakes \/ \E b \in Rebuilds : Rebuilding(b) \/ RebuildFails(b)
  BY <1>10, <1>1, <1>3, RebuildsTyped
<1>11. CASE \/ \E s \in Symbols : BarArrives(s) \/ \E r \in Rules : DebouncePasses(r, s)
            \/ ProcessBegins \/ ProcessReads
            \/ EvaluationFires \/ EvaluationIsFalse \/ EvaluationErrs \/ EvaluationSkipped
  BY <1>11, <1>1, <1>2, <1>4, WorkTyped
<1>12. CASE AlertsRestart
  BY <1>12, RestartTyped
<1>13. CASE UNCHANGED alertVars
  BY <1>13, <1>1, <1>2, <1>3, <1>4 DEF alertVars, ruleVars
<1> QED
  BY <1>6, <1>7, <1>8, <1>9, <1>10, <1>11, <1>12, <1>13 DEF AlertsNext

--------------------------------------------------------------------------------
(* Bars.  Each tick is in one bucket once, and so in one bar once; and if no  *)
(* tick comes late, what is closed and has no bar is in memory or is the      *)
(* entry whose bucket is still to be made.                                    *)

\* The ticks of one source in one second, and those of a bar of that second.
InBucket(l, seq, src, s) ==
    /\ seq \in Seq(DOMAIN l) /\ Distinct(seq)
    /\ \A i \in DOMAIN seq : l[seq[i]] = [src |-> src, sec |-> s]
InBar(l, seq, s) ==
    /\ seq \in Seq(DOMAIN l) /\ Distinct(seq)
    /\ \A i \in DOMAIN seq : l[seq[i]].sec = s

BarTypes ==
    /\ now \in 0..MaxTime /\ due \in Nat /\ crashes \in 0..MaxCrashes
    /\ up \in BOOLEAN /\ paused \in BOOLEAN
    /\ log \in Seq([src : Sources, sec : Secs]) /\ wal \subseteq DOMAIN log
    /\ flushedAt \in Secs \cup {Never} /\ inflight \in {0} \cup DOMAIN log
    /\ DOMAIN buckets = Sources /\ \A src \in Sources : DOMAIN buckets[src] = Secs
    /\ lastEntry \in [Secs -> {0} \cup DOMAIN log]
    /\ flush \in {Idle, Collected, Inserted} \cup [at : {"trimmed"}, sec : Secs]
    /\ DOMAIN bars = Secs /\ DOMAIN minutes = Minutes
BucketsTold ==
    \A src \in Sources, s \in Secs :
        InBucket(log, buckets[src][s], src, s) /\ inflight \notin Ticks(buckets[src][s])
TodoTold ==
    \A c \in todo : /\ c.src \in Sources /\ c.sec \in Secs /\ c.sec < now
                    /\ InBucket(log, c.ticks, c.src, c.sec) /\ c.ticks # <<>>
BarsTold == \A s \in Secs : InBar(log, bars[s], s)
MinutesTold ==
    \A m \in Minutes : DOMAIN minutes[m] \subseteq Secs /\ \A s \in DOMAIN minutes[m] : InBar(log, minutes[m][s], s)
LastTold == \A s \in Secs : lastEntry[s] # 0 => log[lastEntry[s]].sec = s
DownIsEmpty ==
    ~up \/ paused => /\ inflight = 0 /\ todo = {} /\ flush = Idle
                     /\ \A src \in Sources, s \in Secs : buckets[src][s] = <<>>

BarInv == BarTypes /\ BucketsTold /\ TodoTold /\ BarsTold /\ MinutesTold /\ LastTold /\ DownIsEmpty

\* A set of entries is listed completely and without repetition.
LEMMA ListedInOrder ==
    ASSUME NEW ids, log \in Seq([src : Sources, sec : Secs]), ids \subseteq DOMAIN log
    PROVE  InOrder(ids) \in Seq(ids) /\ Distinct(InOrder(ids)) /\ Ticks(InOrder(ids)) = ids
<1> DEFINE n == Cardinality(ids)
           upTo(i) == {j \in ids : j <= i}
           rank(i) == Cardinality(upTo(i))
<1>1. Len(log) \in Nat /\ DOMAIN log = 1..Len(log) /\ \A i \in ids : i \in Int
  BY LenProperties
<1>2. IsFiniteSet(ids)
  <2>1. IsFiniteSet(1..Len(log))
    BY <1>1, FS_Interval
  <2> QED
    BY <1>1, <2>1, FS_Subset
<1>3. n \in Nat
  BY <1>2, FS_CardinalityType
<1>4. ASSUME NEW i \in ids PROVE IsFiniteSet(upTo(i)) /\ rank(i) \in 1..n
  <2>1. upTo(i) \in SUBSET ids /\ i \in upTo(i)
    BY <1>1
  <2> HIDE DEF upTo
  <2>2. IsFiniteSet(upTo(i)) /\ Cardinality(upTo(i)) <= n
    BY <1>2, <2>1, FS_Subset
  <2>3. Cardinality(upTo(i)) \in Nat /\ Cardinality(upTo(i)) # 0
    BY <2>1, <2>2, FS_CardinalityType, FS_EmptySet
  <2> QED
    BY <1>3, <2>2, <2>3
<1>5. ASSUME NEW i \in ids, NEW k \in ids, i < k PROVE rank(i) # rank(k)
  <2>1. upTo(i) \in SUBSET upTo(k) /\ k \in upTo(k) /\ k \notin upTo(i)
    BY <1>1, <1>5
  <2>2. IsFiniteSet(upTo(k))
    BY <1>4
  <2> HIDE DEF upTo
  <2>3. Cardinality(upTo(i)) = Cardinality(upTo(k)) => upTo(i) = upTo(k)
    BY <2>1, <2>2, FS_Subset
  <2> QED
    BY <2>1, <2>3
<1> HIDE DEF rank, n
<1>6. ASSUME NEW i \in ids, NEW k \in ids, rank(i) = rank(k) PROVE i = k
  <2>1. i \in Int /\ k \in Int
    BY <1>1
  <2>2. ~(i < k) /\ ~(k < i)
    BY <1>5, <1>6
  <2> QED
    BY <2>1, <2>2
<1> DEFINE f == [i \in ids |-> rank(i)]
<1>7. f \in Injection(ids, 1..n)
  <2>1. f \in [ids -> 1..n]
    BY <1>4
  <2> QED
    BY <1>6, <2>1 DEF Injection, IsInjective
<1>8. f \in Surjection(ids, 1..n)
  <2>1. IsFiniteSet(1..n) /\ Cardinality(1..n) = n
    BY <1>3, FS_Interval
  <2>2. Cardinality(ids) = Cardinality(1..n)
    BY <2>1 DEF n
  <2> HIDE DEF f
  <2> QED
    BY <1>7, <2>1, <2>2, FS_Injection
<1>9. \A k \in 1..n : \E i \in ids : rank(i) = k
  BY <1>8 DEF Surjection
<1>10. InOrder(ids) = [k \in 1..n |-> CHOOSE i \in ids : rank(i) = k]
  BY DEF InOrder, rank, n
<1>11. \A k \in 1..n : InOrder(ids)[k] \in ids /\ rank(InOrder(ids)[k]) = k
  BY <1>9, <1>10
<1>12. InOrder(ids) \in Seq(ids) /\ DOMAIN InOrder(ids) = 1..n
  BY <1>3, <1>10, <1>11
<1>13. Distinct(InOrder(ids))
  BY <1>11, <1>12 DEF Distinct
<1>14. \A i \in ids : InOrder(ids)[rank(i)] = i
  BY <1>4, <1>6, <1>11 DEF rank
<1>15. Ticks(InOrder(ids)) = ids
  BY <1>4, <1>11, <1>12, <1>14 DEF Ticks, rank
<1> QED
  BY <1>12, <1>13, <1>15

\* A longer log says the same of the entries it had.
LEMMA LogGrows ==
    ASSUME NEW l \in Seq([src : Sources, sec : Secs]), NEW e \in [src : Sources, sec : Secs], NEW seq
    PROVE  /\ \A src, s : InBucket(l, seq, src, s) => InBucket(Append(l, e), seq, src, s)
           /\ \A s : InBar(l, seq, s) => InBar(Append(l, e), seq, s)
<1> DEFINE g == Append(l, e)
<1>1. /\ Len(l) \in Nat /\ DOMAIN l = 1..Len(l) /\ DOMAIN g = 1..(Len(l) + 1)
      /\ \A i \in DOMAIN l : g[i] = l[i]
  BY AppendProperties, LenProperties
<1>2. DOMAIN l \subseteq DOMAIN g
  BY <1>1
<1> HIDE DEF g
<1>3. seq \in Seq(DOMAIN l) => seq \in Seq(DOMAIN g) /\ \A i \in DOMAIN seq : g[seq[i]] = l[seq[i]]
  BY <1>1, <1>2
<1> QED
  BY <1>3 DEF InBucket, InBar, g

LEMMA BucketIsBar == \A l, seq, src, s : InBucket(l, seq, src, s) => InBar(l, seq, s)
  BY DEF InBucket, InBar

LEMMA EmptyTold == \A l, src, s : InBucket(l, <<>>, src, s) /\ InBar(l, <<>>, s) /\ Ticks(<<>>) = {}
  BY DEF InBucket, InBar, Distinct, Ticks

\* One more tick in a bucket.
LEMMA BucketGrows ==
    ASSUME NEW l, NEW seq, NEW src, NEW s, NEW i \in DOMAIN l,
           InBucket(l, seq, src, s), i \notin Ticks(seq), l[i] = [src |-> src, sec |-> s]
    PROVE  InBucket(l, Append(seq, i), src, s) /\ Ticks(Append(seq, i)) = Ticks(seq) \cup {i}
<1> DEFINE g == Append(seq, i)
<1>1. seq \in Seq(DOMAIN l)
  BY DEF InBucket
<1>2. /\ g \in Seq(DOMAIN l) /\ Len(seq) \in Nat /\ DOMAIN seq = 1..Len(seq) /\ DOMAIN g = 1..(Len(seq) + 1)
      /\ \A k \in 1..Len(seq) : g[k] = seq[k]
      /\ g[Len(seq) + 1] = i
  BY <1>1, AppendProperties, LenProperties
<1> HIDE DEF g
<1>3. \A k \in DOMAIN g : (k \in DOMAIN seq /\ g[k] = seq[k]) \/ (k = Len(seq) + 1 /\ g[k] = i)
  BY <1>2
<1>4. \A k \in DOMAIN seq : seq[k] # i
  BY DEF Ticks
<1>5. Distinct(g)
  BY <1>2, <1>3, <1>4 DEF Distinct, InBucket
<1>6. \A k \in DOMAIN g : l[g[k]] = [src |-> src, sec |-> s]
  BY <1>3 DEF InBucket
<1>7. Ticks(g) = Ticks(seq) \cup {i}
  BY <1>2, <1>3 DEF Ticks
<1> QED
  BY <1>2, <1>5, <1>6, <1>7 DEF InBucket, g

LEMMA BarsInitially == BarInit => BarInv
<1> SUFFICES ASSUME BarInit PROVE BarInv
  OBVIOUS
<1>1. /\ now = 0 /\ up = TRUE /\ log = <<>> /\ wal = {} /\ flushedAt = Never /\ inflight = 0
      /\ buckets = [src \in Sources |-> [s \in Secs |-> <<>>]]
      /\ lastEntry = [s \in Secs |-> 0] /\ flush = Idle /\ todo = {}
      /\ bars = [s \in Secs |-> <<>>] /\ minutes = [m \in Minutes |-> <<>>]
      /\ due = Minute /\ paused = FALSE /\ crashes = 0
  BY DEF BarInit, NoRow
<1>2. MaxTime \in Nat /\ MaxCrashes \in Nat /\ Minute \in Nat
  <2>1. Minute \in Nat \ {0}
    BY TimeAssumption
  <2> QED
    BY <2>1, BoundsAssumption
<1>3. BarTypes
  <2>1. log \in Seq([src : Sources, sec : Secs]) /\ wal \subseteq DOMAIN log
    BY ONLY <1>1, EmptySeq
  <2>2. now \in 0..MaxTime /\ due \in Nat /\ crashes \in 0..MaxCrashes
    BY ONLY <1>1, <1>2
  <2>3. up \in BOOLEAN /\ paused \in BOOLEAN /\ flushedAt \in Secs \cup {Never} /\ inflight \in {0} \cup DOMAIN log
    BY ONLY <1>1
  <2>4. DOMAIN buckets = Sources /\ \A src \in Sources : DOMAIN buckets[src] = Secs
    BY ONLY <1>1
  <2>5. lastEntry \in [Secs -> {0} \cup DOMAIN log]
    BY ONLY <1>1
  <2>6. DOMAIN bars = Secs /\ DOMAIN minutes = Minutes
    BY ONLY <1>1
  <2>7. flush \in {Idle, Collected, Inserted} \cup [at : {"trimmed"}, sec : Secs]
    BY ONLY <1>1
  <2> QED
    BY <2>1, <2>2, <2>3, <2>4, <2>5, <2>6, <2>7 DEF BarTypes
<1>4. \A src \in Sources, s \in Secs : buckets[src][s] = <<>>
  BY <1>1
<1>5. BucketsTold /\ DownIsEmpty
  BY <1>1, <1>4, EmptyTold DEF BucketsTold, DownIsEmpty
<1>6. TodoTold /\ LastTold
  BY <1>1 DEF TodoTold, LastTold
<1>7. BarsTold
  BY <1>1, EmptyTold DEF BarsTold
<1>8. MinutesTold
  <2>1. \A m \in Minutes : DOMAIN minutes[m] = {}
    BY <1>1
  <2> QED
    BY <2>1 DEF MinutesTold
<1> QED
  BY <1>3, <1>5, <1>6, <1>7, <1>8 DEF BarInv

LEMMA TicksKnown == \A l, seq, src, s : InBucket(l, seq, src, s) => Ticks(seq) \subseteq DOMAIN l
  BY DEF InBucket, Ticks

LEMMA LogTypes ==
    ASSUME BarTypes
    PROVE  /\ Len(log) \in Nat /\ DOMAIN log = 1..Len(log) /\ 0 \notin DOMAIN log
           /\ \A i \in DOMAIN log : /\ log[i].src \in Sources /\ log[i].sec \in Secs
                                     /\ log[i] = [src |-> log[i].src, sec |-> log[i].sec]
<1>1. log \in Seq([src : Sources, sec : Secs])
  BY DEF BarTypes
<1>2. Len(log) \in Nat /\ DOMAIN log = 1..Len(log)
  BY <1>1, LenProperties
<1>3. \A i \in DOMAIN log : log[i] \in [src : Sources, sec : Secs]
  BY <1>1, <1>2, ElementOfSeq
<1> QED
  BY <1>2, <1>3

LEMMA ReceiveStep == BarInv /\ (\E src \in Sources, sec \in Secs : Receive(src, sec)) => BarInv'
<1> SUFFICES ASSUME BarInv, NEW src \in Sources, NEW sec \in Secs, Receive(src, sec) PROVE BarInv'
  OBVIOUS
<1> DEFINE e == [src |-> src, sec |-> sec]
<1>1. /\ up /\ ~paused /\ log' = Append(log, e) /\ wal' = wal \cup {Len(log) + 1} /\ inflight' = Len(log) + 1
      /\ UNCHANGED <<now, flushedAt, buckets, lastEntry, flush, todo, up, paused, crashes, bars, minutes, due>>
  BY DEF Receive, flusher, service, tables
<1>2. BarTypes /\ BucketsTold /\ TodoTold /\ BarsTold /\ MinutesTold /\ LastTold
  BY DEF BarInv
<1>3. /\ Len(log) \in Nat /\ DOMAIN log = 1..Len(log) /\ log \in Seq([src : Sources, sec : Secs])
      /\ e \in [src : Sources, sec : Secs]
  BY <1>2, LogTypes DEF BarTypes
<1> HIDE DEF e
<1>4. /\ log' \in Seq([src : Sources, sec : Secs]) /\ DOMAIN log' = 1..(Len(log) + 1)
      /\ \A i \in DOMAIN log : log'[i] = log[i]
  BY <1>1, <1>3, AppendProperties
<1>5. /\ \A seq, r, s : InBucket(log, seq, r, s) => InBucket(log', seq, r, s)
      /\ \A seq, s : InBar(log, seq, s) => InBar(log', seq, s)
  BY <1>1, <1>3, LogGrows
<1>6. DOMAIN log \subseteq DOMAIN log' /\ inflight' \in DOMAIN log' /\ inflight' \notin DOMAIN log
  BY <1>1, <1>3, <1>4
<1>7. BarTypes'
  <2>1. wal' \subseteq DOMAIN log' /\ inflight' \in {0} \cup DOMAIN log'
    BY <1>1, <1>2, <1>6 DEF BarTypes
  <2>2. lastEntry' \in [Secs -> {0} \cup DOMAIN log']
    BY <1>1, <1>2, <1>6 DEF BarTypes
  <2> QED
    BY <1>1, <1>2, <1>4, <2>1, <2>2 DEF BarTypes
<1>8. BucketsTold'
  BY <1>1, <1>2, <1>5, <1>6, TicksKnown DEF BucketsTold
<1>9. TodoTold' /\ BarsTold' /\ MinutesTold'
  BY <1>1, <1>2, <1>5 DEF TodoTold, BarsTold, MinutesTold
<1>10. LastTold'
  BY <1>1, <1>2, <1>4 DEF LastTold, BarTypes
<1>11. DownIsEmpty'
  BY <1>1 DEF DownIsEmpty
<1> QED
  BY <1>7, <1>8, <1>9, <1>10, <1>11 DEF BarInv

LEMMA ApplyStep == BarInv /\ Apply => BarInv'
<1> SUFFICES ASSUME BarInv, Apply PROVE BarInv'
  OBVIOUS
<1> DEFINE e == log[inflight]
<1>1. /\ up /\ inflight # 0 /\ inflight' = 0
      /\ buckets' = [buckets EXCEPT ![e.src][e.sec] = Append(@, inflight)]
      /\ lastEntry' = [lastEntry EXCEPT ![e.sec] = inflight]
      /\ UNCHANGED <<now, log, wal, flushedAt, flush, todo, up, paused, crashes, bars, minutes, due>>
  BY DEF Apply, redis, flusher, service, tables
<1>2. BarTypes /\ BucketsTold /\ TodoTold /\ BarsTold /\ MinutesTold /\ LastTold /\ DownIsEmpty
  BY DEF BarInv
<1>3. inflight \in DOMAIN log /\ 0 \notin DOMAIN log
  BY <1>1, <1>2, LogTypes DEF BarTypes
<1>4. e.src \in Sources /\ e.sec \in Secs /\ e = [src |-> e.src, sec |-> e.sec]
  BY <1>2, <1>3, LogTypes
<1> HIDE DEF e
<1>5. DOMAIN buckets = Sources /\ \A src \in Sources : DOMAIN buckets[src] = Secs
  BY <1>2 DEF BarTypes
<1>6. DOMAIN buckets' = Sources /\ \A src \in Sources : DOMAIN buckets'[src] = Secs
  BY <1>1, <1>4, <1>5
<1>7. \A src \in Sources, s \in Secs :
         buckets'[src][s] = IF src = e.src /\ s = e.sec THEN Append(buckets[src][s], inflight) ELSE buckets[src][s]
  BY <1>1, <1>4, <1>5
<1>8. lastEntry' \in [Secs -> {0} \cup DOMAIN log] /\ \A s \in Secs : lastEntry'[s] = IF s = e.sec THEN inflight ELSE lastEntry[s]
  BY <1>1, <1>2, <1>3, <1>4 DEF BarTypes
<1>9. BarTypes'
  BY <1>1, <1>2, <1>6, <1>8 DEF BarTypes
<1>10. BucketsTold'
  <2> SUFFICES ASSUME NEW src \in Sources, NEW s \in Secs
               PROVE  InBucket(log, buckets'[src][s], src, s) /\ 0 \notin Ticks(buckets'[src][s])
    BY <1>1 DEF BucketsTold
  <2>1. InBucket(log, buckets[src][s], src, s) /\ inflight \notin Ticks(buckets[src][s])
    BY <1>2 DEF BucketsTold
  <2>2. InBucket(log, buckets'[src][s], src, s)
    <3>1. CASE src = e.src /\ s = e.sec
      <4>1. log[inflight] = [src |-> src, sec |-> s]
        BY <1>4, <3>1 DEF e
      <4>2. InBucket(log, Append(buckets[src][s], inflight), src, s)
        BY <1>3, <2>1, <4>1, BucketGrows
      <4> QED
        BY <1>7, <3>1, <4>2
    <3>2. CASE ~(src = e.src /\ s = e.sec)
      BY <1>7, <2>1, <3>2
    <3> QED
      BY <3>1, <3>2
  <2> QED
    BY <1>3, <2>2, TicksKnown
<1>11. TodoTold' /\ BarsTold' /\ MinutesTold'
  BY <1>1, <1>2 DEF TodoTold, BarsTold, MinutesTold
<1>12. LastTold'
  BY <1>1, <1>2, <1>8 DEF LastTold, e
<1>13. DownIsEmpty'
  BY <1>1, <1>2 DEF DownIsEmpty
<1> QED
  BY <1>9, <1>10, <1>11, <1>12, <1>13 DEF BarInv

\* What the flusher does: it empties buckets, forgets entries and writes rows.
LEMMA FlushStep ==
    ASSUME BarInv, up, ~paused, UNCHANGED <<now, log, inflight, up, paused, crashes, minutes, due>>,
           wal' \subseteq wal, flushedAt' \in Secs \cup {Never},
           flush' \in {Idle, Collected, Inserted} \cup [at : {"trimmed"}, sec : Secs],
           DOMAIN buckets' = Sources, \A src \in Sources : DOMAIN buckets'[src] = Secs,
           \A src \in Sources, s \in Secs : buckets'[src][s] \in {<<>>, buckets[src][s]},
           lastEntry' \in [Secs -> {0} \cup DOMAIN log], \A s \in Secs : lastEntry'[s] \in {0, lastEntry[s]},
           DOMAIN bars' = Secs, BarsTold', TodoTold'
    PROVE  BarInv'
<1>1. BarTypes /\ BucketsTold /\ MinutesTold /\ LastTold
  BY DEF BarInv
<1>2. BarTypes'
  BY <1>1 DEF BarTypes
<1>3. BucketsTold'
  <2> SUFFICES ASSUME NEW src \in Sources, NEW s \in Secs
               PROVE  InBucket(log, buckets'[src][s], src, s) /\ inflight \notin Ticks(buckets'[src][s])
    BY DEF BucketsTold
  <2>1. CASE buckets'[src][s] = <<>>
    BY <2>1, EmptyTold
  <2>2. CASE buckets'[src][s] = buckets[src][s]
    BY <1>1, <2>2 DEF BucketsTold
  <2> QED
    BY <2>1, <2>2
<1>4. MinutesTold' /\ LastTold' /\ DownIsEmpty'
  BY <1>1 DEF MinutesTold, LastTold, DownIsEmpty
<1> QED
  BY <1>2, <1>3, <1>4 DEF BarInv

LEMMA CollectStep == BarInv /\ FlushCollect => BarInv'
<1> SUFFICES ASSUME BarInv, FlushCollect PROVE BarInv'
  OBVIOUS
<1> DEFINE closed == {c \in Sources \X Secs : buckets[c[1]][c[2]] # <<>> /\ Closed(c[2])}
<1>1. /\ up /\ closed # {} /\ flush' = Collected
      /\ todo' = {[src |-> c[1], sec |-> c[2], ticks |-> buckets[c[1]][c[2]]] : c \in closed}
      /\ UNCHANGED <<now, log, wal, flushedAt, inflight, buckets, lastEntry, up, paused, crashes, bars, minutes, due>>
  BY DEF FlushCollect, redis, engine, service, tables
<1>2. BarTypes /\ BucketsTold /\ BarsTold /\ DownIsEmpty
  BY DEF BarInv
<1>3. ~paused
  BY <1>1, <1>2 DEF DownIsEmpty
<1>4. TodoTold'
  <2> SUFFICES ASSUME NEW c \in todo'
               PROVE  /\ c.src \in Sources /\ c.sec \in Secs /\ c.sec < now
                      /\ InBucket(log, c.ticks, c.src, c.sec) /\ c.ticks # <<>>
    BY <1>1 DEF TodoTold
  <2>1. PICK b \in closed : c = [src |-> b[1], sec |-> b[2], ticks |-> buckets[b[1]][b[2]]]
    BY <1>1
  <2>2. b[1] \in Sources /\ b[2] \in Secs /\ buckets[b[1]][b[2]] # <<>> /\ b[2] + 1 <= now
    BY DEF Closed
  <2>3. b[2] < now
    BY <1>2, <2>2, BoundsAssumption DEF BarTypes, Secs
  <2> QED
    BY <1>2, <2>1, <2>2, <2>3 DEF BucketsTold
<1>5. BarsTold'
  BY <1>1, <1>2 DEF BarsTold
<1> QED
  BY <1>1, <1>2, <1>3, <1>4, <1>5, FlushStep DEF BarTypes

LEMMA InsertStep == BarInv /\ FlushInsert => BarInv'
<1> SUFFICES ASSUME BarInv, FlushInsert PROVE BarInv'
  OBVIOUS
<1>1. /\ up /\ flush = Collected /\ flush' = Inserted
      /\ UNCHANGED <<now, log, wal, flushedAt, inflight, buckets, lastEntry, todo, up, paused, crashes, minutes, due>>
  BY DEF FlushInsert, redis, engine, service
<1>2. BarTypes /\ TodoTold /\ BarsTold /\ DownIsEmpty
  BY DEF BarInv
<1>3. ~paused
  BY <1>1, <1>2 DEF DownIsEmpty, Idle, Collected
<1>4. PICK first \in [{c.sec : c \in todo} -> todo] :
         /\ \A s \in DOMAIN first : first[s].sec = s
         /\ bars' = [s \in Secs |-> IF s \in DOMAIN first THEN Insert(bars[s], first[s].ticks) ELSE bars[s]]
  BY DEF FlushInsert
<1>5. DOMAIN bars' = Secs
  BY <1>4
<1>6. BarsTold'
  <2> SUFFICES ASSUME NEW s \in Secs PROVE InBar(log, bars'[s], s)
    BY <1>1 DEF BarsTold
  <2>1. InBar(log, bars[s], s)
    BY <1>2 DEF BarsTold
  <2>2. ASSUME s \in DOMAIN first PROVE InBar(log, first[s].ticks, s)
    <3>1. first[s] \in todo /\ first[s].sec = s
      BY <1>4, <2>2
    <3> QED
      BY <1>2, <3>1, BucketIsBar DEF TodoTold
  <2> QED
    BY <1>4, <2>1, <2>2 DEF Insert
<1>7. TodoTold'
  BY <1>1, <1>2 DEF TodoTold
<1> QED
  BY <1>1, <1>2, <1>3, <1>5, <1>6, <1>7, FlushStep DEF BarTypes

\* The buckets and entries of one candidate are forgotten.
LEMMA CandidateForgotten ==
    ASSUME BarTypes, TodoTold, NEW c \in todo, Forget(c)
    PROVE  /\ DOMAIN buckets' = Sources /\ \A src \in Sources : DOMAIN buckets'[src] = Secs
           /\ \A src \in Sources, s \in Secs :
                buckets'[src][s] = IF src = c.src /\ s = c.sec THEN <<>> ELSE buckets[src][s]
           /\ lastEntry' \in [Secs -> {0} \cup DOMAIN log]
           /\ \A s \in Secs : lastEntry'[s] = IF s = c.sec THEN 0 ELSE lastEntry[s]
<1>1. c.src \in Sources /\ c.sec \in Secs
  BY DEF TodoTold
<1>2. /\ DOMAIN buckets = Sources /\ \A src \in Sources : DOMAIN buckets[src] = Secs
      /\ lastEntry \in [Secs -> {0} \cup DOMAIN log]
  BY DEF BarTypes
<1>3. /\ buckets' = [buckets EXCEPT ![c.src][c.sec] = <<>>]
      /\ lastEntry' = [lastEntry EXCEPT ![c.sec] = 0]
  BY DEF Forget
<1> QED
  BY ONLY <1>1, <1>2, <1>3

LEMMA AckStep ==
    BarInv /\ (\E c \in todo : FlushAck(c) \/ FlushAckError(c)) => BarInv'
<1> SUFFICES ASSUME BarInv, NEW c \in todo, FlushAck(c) \/ FlushAckError(c) PROVE BarInv'
  OBVIOUS
<1>1. /\ up /\ flush = Inserted /\ Forget(c) /\ todo' \subseteq todo
      /\ UNCHANGED <<now, log, flushedAt, inflight, up, paused, crashes, bars, minutes, due>>
  BY DEF FlushAck, FlushAckError, redis, service, tables
<1>2. BarTypes /\ TodoTold /\ BarsTold /\ DownIsEmpty
  BY DEF BarInv
<1>3. ~paused
  BY <1>1, <1>2 DEF DownIsEmpty, Idle, Inserted
<1>4. wal' \subseteq wal
  BY DEF FlushAck, FlushAckError, Trimmed, redis
<1>5. flush' \in {Idle, Collected, Inserted} \cup [at : {"trimmed"}, sec : Secs]
  <2>1. c.sec \in Secs
    BY <1>2 DEF TodoTold
  <2>2. [at |-> "trimmed", sec |-> c.sec] \in [at : {"trimmed"}, sec : Secs]
    BY <2>1
  <2>3. flush' \in {Idle, Inserted, [at |-> "trimmed", sec |-> c.sec]}
    BY DEF FlushAck, FlushAckError, Rest
  <2> QED
    BY ONLY <2>2, <2>3
<1>6. /\ DOMAIN buckets' = Sources /\ \A src \in Sources : DOMAIN buckets'[src] = Secs
      /\ \A src \in Sources, s \in Secs : buckets'[src][s] \in {<<>>, buckets[src][s]}
      /\ lastEntry' \in [Secs -> {0} \cup DOMAIN log] /\ \A s \in Secs : lastEntry'[s] \in {0, lastEntry[s]}
  BY <1>1, <1>2, CandidateForgotten
<1>7. TodoTold'
  BY <1>1, <1>2 DEF TodoTold
<1>8. DOMAIN bars' = Secs /\ BarsTold' /\ flushedAt' \in Secs \cup {Never}
  BY <1>1, <1>2 DEF BarsTold, BarTypes
<1> QED
  BY <1>1, <1>3, <1>4, <1>5, <1>6, <1>7, <1>8, FlushStep

LEMMA MarkStep == BarInv /\ (FlushMark \/ FlushMarkError \/ FlushFail) => BarInv'
<1> SUFFICES ASSUME BarInv, FlushMark \/ FlushMarkError \/ FlushFail PROVE BarInv'
  OBVIOUS
<1>1. /\ up /\ flush # Idle /\ todo' \subseteq todo /\ flush' \in {Idle, Inserted}
      /\ flushedAt' \in {flushedAt, flush.sec} /\ (flushedAt' # flushedAt => flush.at = "trimmed")
      /\ UNCHANGED <<now, log, wal, inflight, buckets, lastEntry, up, paused, crashes, bars, minutes, due>>
  BY DEF FlushMark, FlushMarkError, FlushFail, Idle, Collected, Inserted, Rest, redis, engine, service, tables
<1>2. BarTypes /\ TodoTold /\ BarsTold /\ DownIsEmpty
  BY DEF BarInv
<1>3. ~paused
  BY <1>1, <1>2 DEF DownIsEmpty
<1>4. flushedAt' \in Secs \cup {Never}
  <2>1. flush.at = "trimmed" => flush.sec \in Secs
    BY <1>2 DEF BarTypes, Idle, Collected, Inserted
  <2> QED
    BY <1>1, <1>2, <2>1 DEF BarTypes
<1>5. TodoTold' /\ BarsTold'
  BY <1>1, <1>2 DEF TodoTold, BarsTold
<1>6. flush' \in {Idle, Collected, Inserted} \cup [at : {"trimmed"}, sec : Secs]
  BY <1>1
<1> QED
  BY <1>1, <1>2, <1>3, <1>4, <1>5, <1>6, FlushStep DEF BarTypes

LEMMA MinuteStep == BarInv /\ MinuteEmit => BarInv'
<1> SUFFICES ASSUME BarInv, MinuteEmit PROVE BarInv'
  OBVIOUS
<1> DEFINE minute == due \div Minute - 1
<1>1. /\ due' = (now \div Minute + 1) * Minute
      /\ UNCHANGED <<now, log, wal, flushedAt, inflight, buckets, lastEntry, flush, todo, up, paused, crashes, bars>>
  BY DEF MinuteEmit, redis, engine, flusher, service
<1>2. \/ UNCHANGED minutes
      \/ \E src \in Sources :
           minutes' = [minutes EXCEPT ![minute] = IF @ = NoRow THEN FoldMinute(src, minute) ELSE @]
  BY DEF MinuteEmit
<1> HIDE DEF minute
<1>3. BarTypes /\ BucketsTold /\ TodoTold /\ BarsTold /\ MinutesTold /\ LastTold /\ DownIsEmpty
  BY DEF BarInv
<1>4. due' \in Nat
  <2>1. Minute \in Nat \ {0} /\ MaxTime \in Nat
    BY TimeAssumption, BoundsAssumption
  <2>2. now \in Nat
    BY <1>3, <2>1 DEF BarTypes
  <2> QED
    BY <1>1, <2>1, <2>2
<1>5. DOMAIN minutes' = Minutes /\ MinutesTold'
  <2>1. CASE UNCHANGED minutes
    BY <1>1, <1>3, <2>1 DEF MinutesTold, BarTypes
  <2>2. ASSUME NEW src \in Sources,
               minutes' = [minutes EXCEPT ![minute] = IF @ = NoRow THEN FoldMinute(src, minute) ELSE @]
        PROVE  DOMAIN minutes' = Minutes /\ MinutesTold'
    <3>1. DOMAIN minutes' = Minutes /\ \A m \in Minutes : minutes'[m] \in {minutes[m], FoldMinute(src, minute)}
      BY <1>3, <2>2 DEF BarTypes
    <3>2. /\ DOMAIN FoldMinute(src, minute) \subseteq Secs
          /\ \A s \in DOMAIN FoldMinute(src, minute) : FoldMinute(src, minute)[s] = buckets[src][s]
      BY DEF FoldMinute, InMinute
    <3>3. \A s \in DOMAIN FoldMinute(src, minute) : InBar(log, FoldMinute(src, minute)[s], s)
      BY <1>3, <3>2, BucketIsBar DEF BucketsTold
    <3>4. \A m \in Minutes : /\ DOMAIN minutes'[m] \subseteq Secs
                             /\ \A s \in DOMAIN minutes'[m] : InBar(log, minutes'[m][s], s)
      BY <1>3, <3>1, <3>2, <3>3 DEF MinutesTold
    <3> QED
      BY <1>1, <3>1, <3>4 DEF MinutesTold
  <2> QED
    BY <1>2, <2>1, <2>2
<1>6. BarTypes'
  BY <1>1, <1>3, <1>4, <1>5 DEF BarTypes
<1>7. BucketsTold' /\ TodoTold' /\ BarsTold' /\ LastTold' /\ DownIsEmpty'
  BY <1>1, <1>3 DEF BucketsTold, TodoTold, BarsTold, LastTold, DownIsEmpty
<1> QED
  BY <1>5, <1>6, <1>7 DEF BarInv

LEMMA TickStep == BarInv /\ Tick => BarInv'
<1> SUFFICES ASSUME BarInv, Tick PROVE BarInv'
  OBVIOUS
<1>1. /\ now < MaxTime /\ now' = now + 1
      /\ UNCHANGED <<log, wal, flushedAt, inflight, buckets, lastEntry, flush, todo, up, paused, crashes,
                      bars, minutes, due>>
  BY DEF Tick, redis, engine, flusher, service, tables
<1>2. BarTypes /\ BucketsTold /\ TodoTold /\ BarsTold /\ MinutesTold /\ LastTold /\ DownIsEmpty
  BY DEF BarInv
<1>3. now \in Nat /\ now' \in 0..MaxTime
  BY <1>1, <1>2, BoundsAssumption DEF BarTypes
<1>4. BarTypes'
  BY <1>1, <1>2, <1>3 DEF BarTypes
<1>5. TodoTold'
  <2>1. \A c \in todo : c.sec \in Secs /\ c.sec < now => c.sec < now'
    BY <1>1, <1>3, BoundsAssumption DEF Secs
  <2> QED
    BY <1>1, <1>2, <2>1 DEF TodoTold
<1>6. BucketsTold' /\ BarsTold' /\ MinutesTold' /\ LastTold' /\ DownIsEmpty'
  BY <1>1, <1>2 DEF BucketsTold, BarsTold, MinutesTold, LastTold, DownIsEmpty
<1> QED
  BY <1>4, <1>5, <1>6 DEF BarInv

LEMMA CrashStep == BarInv /\ Crash => BarInv'
<1> SUFFICES ASSUME BarInv, Crash PROVE BarInv'
  OBVIOUS
<1>1. /\ crashes < MaxCrashes /\ crashes' = crashes + 1 /\ up' = FALSE /\ paused' = FALSE /\ inflight' = 0
      /\ buckets' = [src \in Sources |-> [s \in Secs |-> <<>>]]
      /\ lastEntry' = [s \in Secs |-> 0] /\ flush' = Idle /\ todo' = {}
      /\ UNCHANGED <<now, log, wal, flushedAt, bars, minutes, due>>
  BY DEF Crash, redis, tables
<1>2. BarTypes /\ BarsTold /\ MinutesTold
  BY DEF BarInv
<1>3. crashes' \in 0..MaxCrashes
  BY <1>1, <1>2, BoundsAssumption DEF BarTypes
<1>4. /\ DOMAIN buckets' = Sources /\ \A src \in Sources : DOMAIN buckets'[src] = Secs
      /\ \A src \in Sources, s \in Secs : buckets'[src][s] = <<>>
  BY <1>1
<1>5. lastEntry' \in [Secs -> {0} \cup DOMAIN log] /\ \A s \in Secs : lastEntry'[s] = 0
  BY <1>1
<1>6. BarTypes'
  BY <1>1, <1>2, <1>3, <1>4, <1>5 DEF BarTypes
<1>7. BucketsTold' /\ LastTold' /\ DownIsEmpty' /\ TodoTold'
  BY <1>1, <1>4, <1>5, EmptyTold DEF BucketsTold, LastTold, DownIsEmpty, TodoTold
<1>8. BarsTold' /\ MinutesTold'
  BY <1>1, <1>2 DEF BarsTold, MinutesTold
<1> QED
  BY <1>6, <1>7, <1>8 DEF BarInv

\* What replay puts into the buckets.
LEMMA ReplayedTold ==
    ASSUME BarTypes, NEW src, NEW s
    PROVE  /\ InBucket(log, Replayed(src, s), src, s)
           /\ Ticks(Replayed(src, s)) = {i \in wal : log[i] = [src |-> src, sec |-> s]}
<1> DEFINE ids == {i \in wal : log[i] = [src |-> src, sec |-> s]}
<1>1. log \in Seq([src : Sources, sec : Secs]) /\ ids \subseteq DOMAIN log
  BY DEF BarTypes
<1>2. Replayed(src, s) = InOrder(ids)
  BY DEF Replayed
<1>a. \A i \in ids : log[i] = [src |-> src, sec |-> s]
  OBVIOUS
<1> HIDE DEF ids
<1>3. InOrder(ids) \in Seq(ids) /\ Distinct(InOrder(ids)) /\ Ticks(InOrder(ids)) = ids
  BY <1>1, ListedInOrder
<1>4. InOrder(ids) \in Seq(DOMAIN log)
  BY <1>1, <1>3
<1>5. \A k \in DOMAIN InOrder(ids) : log[InOrder(ids)[k]] = [src |-> src, sec |-> s]
  BY <1>a, <1>3 DEF Ticks
<1> QED
  BY <1>2, <1>3, <1>4, <1>5 DEF InBucket, ids

LEMMA RestartStep == BarInv /\ Restart => BarInv'
<1> SUFFICES ASSUME BarInv, Restart PROVE BarInv'
  OBVIOUS
<1>1. PICK gap \in Gap :
        /\ paused' = gap
        /\ buckets' = IF gap THEN buckets ELSE [src \in Sources |-> [s \in Secs |-> Replayed(src, s)]]
  BY DEF Restart
<1>2. /\ ~up /\ up' = TRUE /\ due' = (now \div Minute + 1) * Minute
      /\ UNCHANGED <<now, log, wal, flushedAt, inflight, lastEntry, flush, todo, crashes, bars, minutes>>
  BY DEF Restart, redis, flusher
<1>3. BarTypes /\ BucketsTold /\ BarsTold /\ MinutesTold /\ LastTold /\ DownIsEmpty /\ TodoTold
  BY DEF BarInv
<1>4. gap \in BOOLEAN
  <2>1. \A a : \A g \in {lag > MaxLag : lag \in {a, a + 1}} : g \in BOOLEAN
    <3> SUFFICES ASSUME NEW lag PROVE (lag > MaxLag) \in BOOLEAN
      OBVIOUS
    <3> QED
      OBVIOUS
  <2>2. \/ Gap = {FALSE}
        \/ \E a : Gap = {lag > MaxLag : lag \in {a, a + 1}}
    BY DEF Gap
  <2> QED
    BY <2>1, <2>2
<1>5. due' \in Nat
  <2>1. Minute \in Nat \ {0} /\ MaxTime \in Nat
    BY TimeAssumption, BoundsAssumption
  <2>2. now \in Nat
    BY <1>3, <2>1 DEF BarTypes
  <2> QED
    BY <1>2, <2>1, <2>2
<1>6. inflight = 0 /\ todo = {} /\ flush = Idle /\ \A src \in Sources, s \in Secs : buckets[src][s] = <<>>
  BY <1>2, <1>3 DEF DownIsEmpty
<1>7. DOMAIN buckets' = Sources /\ \A src \in Sources : DOMAIN buckets'[src] = Secs
  BY <1>1, <1>3 DEF BarTypes
<1>8. BarTypes'
  BY <1>1, <1>2, <1>3, <1>4, <1>5, <1>7 DEF BarTypes
<1>9. BucketsTold'
  <2> SUFFICES ASSUME NEW src \in Sources, NEW s \in Secs
               PROVE  InBucket(log, buckets'[src][s], src, s) /\ 0 \notin Ticks(buckets'[src][s])
    BY <1>2, <1>6 DEF BucketsTold
  <2>1. InBucket(log, buckets'[src][s], src, s)
    <3>1. CASE gap
      <4>1. buckets'[src][s] = <<>>
        BY <1>1, <1>6, <3>1
      <4> QED
        BY <4>1, EmptyTold
    <3>2. CASE ~gap
      <4>1. buckets'[src][s] = Replayed(src, s)
        BY <1>1, <3>2
      <4> QED
        BY <1>3, <4>1, ReplayedTold
    <3> QED
      BY <3>1, <3>2
  <2> QED
    BY <1>3, <2>1, TicksKnown, LogTypes
<1>10. DownIsEmpty'
  BY <1>1, <1>2, <1>6 DEF DownIsEmpty
<1>11. BarsTold' /\ MinutesTold' /\ LastTold' /\ TodoTold'
  BY <1>2, <1>3 DEF BarsTold, MinutesTold, LastTold, TodoTold
<1> QED
  BY <1>8, <1>9, <1>10, <1>11 DEF BarInv

LEMMA BarsStep == BarInv /\ [BarNext]_barVars => BarInv'
<1> SUFFICES ASSUME BarInv, [BarNext]_barVars PROVE BarInv'
  OBVIOUS
<1>1. CASE Consumer
  BY <1>1, ReceiveStep, ApplyStep DEF Consumer
<1>2. CASE Flusher
  BY <1>2, CollectStep, InsertStep, AckStep, MarkStep DEF Flusher
<1>3. CASE MinuteEmit \/ Tick \/ Crash \/ Restart
  BY <1>3, MinuteStep, TickStep, CrashStep, RestartStep
<1>4. CASE UNCHANGED barVars
  <2>1. UNCHANGED <<now, log, wal, flushedAt, inflight, buckets, lastEntry, flush, todo, up, paused, crashes,
                    bars, minutes, due>>
    BY <1>4 DEF barVars, redis, engine, flusher, service, tables
  <2> QED
    BY <2>1 DEF BarInv, BarTypes, BucketsTold, TodoTold, BarsTold, MinutesTold, LastTold, DownIsEmpty
<1> QED
  BY <1>1, <1>2, <1>3, <1>4 DEF BarNext

\* No tick is in a bar twice, nor in two seconds of the bar of a minute: the
\* consumer, the flusher, the minute emitter, crashes and replay.
THEOREM TicksCountOnce == BarSpec => []NoTickCountedTwice
<1>1. BarInv => NoTickCountedTwice
  <2> SUFFICES ASSUME BarInv PROVE NoTickCountedTwice
    OBVIOUS
  <2>1. \A s \in Secs : Distinct(bars[s])
    BY DEF BarInv, BarsTold, InBar
  <2>2. ASSUME NEW m \in Minutes, NEW s \in DOMAIN minutes[m], NEW t \in DOMAIN minutes[m]
        PROVE  /\ Distinct(minutes[m][s])
               /\ s # t => Ticks(minutes[m][s]) \cap Ticks(minutes[m][t]) = {}
    <3>1. InBar(log, minutes[m][s], s) /\ InBar(log, minutes[m][t], t)
      BY DEF BarInv, MinutesTold
    <3>2. \A i \in Ticks(minutes[m][s]) : log[i].sec = s
      BY <3>1 DEF InBar, Ticks
    <3>3. \A i \in Ticks(minutes[m][t]) : log[i].sec = t
      BY <3>1 DEF InBar, Ticks
    <3> QED
      BY <3>1, <3>2, <3>3 DEF InBar
  <2> QED
    BY <2>1, <2>2 DEF NoTickCountedTwice
<1> QED
  BY <1>1, BarsInitially, BarsStep, PTL DEF BarSpec

\* No write takes a tick from the bar of a second: ON CONFLICT DO NOTHING.
THEOREM TicksAreKept == BarSpec => BarsKeepTicks
<1> DEFINE Kept == \A s \in Secs : Ticks(bars[s]) \subseteq Ticks(bars'[s])
<1>1. [BarNext]_barVars => [Kept]_barVars
  <2> SUFFICES ASSUME [BarNext]_barVars PROVE Kept
    OBVIOUS
  <2>1. CASE FlushInsert
    <3>1. \A s \in Secs : bars[s] # NoRow => bars'[s] = bars[s]
      BY <2>1 DEF FlushInsert, Insert
    <3>2. Ticks(NoRow) = {}
      BY DEF Ticks, NoRow
    <3> QED
      BY <3>1, <3>2
  <2>2. CASE UNCHANGED bars
    BY <2>2
  <2>3. FlushInsert \/ UNCHANGED bars
    BY DEF BarNext, Consumer, Flusher, Receive, Apply, FlushCollect, FlushFail, FlushAck, FlushAckError,
           FlushMark, FlushMarkError, MinuteEmit, Tick, Crash, Restart, tables, barVars
  <2> QED
    BY <2>1, <2>2, <2>3
<1> HIDE DEF Kept
<1>2. BarSpec => [][Kept]_barVars
  BY <1>1, PTL DEF BarSpec
<1> QED
  BY <1>2 DEF BarsKeepTicks, Kept

--------------------------------------------------------------------------------
(* Without late ticks the log is in the order of the seconds, so that a trim  *)
(* takes nothing of a later second.                                           *)

LogInOrder ==
    /\ \A i, j \in DOMAIN log : i <= j => log[i].sec <= log[j].sec
    /\ \A i \in DOMAIN log : log[i].sec <= now
    /\ inflight # 0 => inflight = Len(log)
UnwrittenInMemory ==
    up /\ ~paused => \A i \in DOMAIN log :
        bars[log[i].sec] = NoRow /\ i # inflight => i \in Ticks(buckets[log[i].src][log[i].sec])
\* What is not later than a candidate has its bar, or is a candidate itself.
FlushedBelow ==
    \A c \in todo, i \in DOMAIN log :
        log[i].sec <= c.sec /\ bars[log[i].sec] = NoRow => flush = Collected /\ \E d \in todo : d.sec = log[i].sec

WalInv == LogInOrder /\ UnwrittenIsRecoverable /\ UnwrittenInMemory /\ FlushedBelow

LEMMA Numbers ==
    ASSUME BarTypes
    PROVE  /\ now \in Nat /\ MaxTime \in Nat /\ Secs \subseteq Nat /\ DOMAIN log \subseteq Nat
           /\ \A i \in DOMAIN log : log[i].sec \in Nat
<1>1. MaxTime \in Nat
  BY BoundsAssumption
<1>2. now \in Nat /\ Secs \subseteq Nat
  BY <1>1 DEF BarTypes, Secs
<1>3. /\ Len(log) \in Nat /\ DOMAIN log = 1..Len(log)
      /\ \A i \in DOMAIN log : log[i].sec \in Secs
  BY LogTypes
<1>4. DOMAIN log \subseteq Nat
  BY ONLY <1>3
<1> QED
  BY ONLY <1>1, <1>2, <1>3, <1>4

LEMMA ReceiveWal ==
    ASSUME ~Late, BarInv, WalInv, \E src \in Sources, sec \in Secs : Receive(src, sec)
    PROVE  WalInv'
<1> SUFFICES ASSUME NEW src \in Sources, NEW sec \in Secs, Receive(src, sec) PROVE WalInv'
  OBVIOUS
<1> DEFINE e == [src |-> src, sec |-> sec]
           n == Len(log) + 1
<1>1. /\ sec = now /\ inflight = 0 /\ log' = Append(log, e) /\ wal' = wal \cup {n} /\ inflight' = n
      /\ UNCHANGED <<now, buckets, flush, todo, up, paused, bars>>
  BY DEF Receive, flusher, service, tables
<1>2. BarTypes /\ TodoTold /\ LogInOrder /\ UnwrittenIsRecoverable /\ UnwrittenInMemory /\ FlushedBelow
  BY DEF BarInv, WalInv
<1>3. /\ Len(log) \in Nat /\ DOMAIN log = 1..Len(log) /\ 0 \notin DOMAIN log /\ now \in Nat
      /\ \A i \in DOMAIN log : log[i].sec \in Nat
  BY <1>2, LogTypes, Numbers
<1>4. log \in Seq([src : Sources, sec : Secs]) /\ e \in [src : Sources, sec : Secs]
  BY <1>2 DEF BarTypes
<1>5. /\ Len(log') = n /\ DOMAIN log' = 1..n /\ log'[n] = e
      /\ \A i \in DOMAIN log : log'[i] = log[i]
  BY <1>1, <1>3, <1>4, AppendProperties
<1>6. e.sec = now
  BY <1>1
<1> HIDE DEF e
<1>7. \A i \in DOMAIN log' : (i \in DOMAIN log /\ log'[i] = log[i]) \/ (i = n /\ log'[i].sec = now)
  BY <1>3, <1>5, <1>6
<1>8. LogInOrder'
  <2>1. ASSUME NEW i \in DOMAIN log', NEW j \in DOMAIN log', i <= j PROVE log'[i].sec <= log'[j].sec
    <3>1. CASE j = n
      BY <1>2, <1>3, <1>5, <1>7, <3>1 DEF LogInOrder
    <3>2. CASE j # n
      <4>1. i # n
        BY <1>3, <1>5, <2>1, <3>2
      <4> QED
        BY <1>2, <1>7, <2>1, <3>2, <4>1 DEF LogInOrder
    <3> QED
      BY <3>1, <3>2
  <2>2. \A i \in DOMAIN log' : log'[i].sec <= now'
    BY <1>1, <1>2, <1>3, <1>7 DEF LogInOrder
  <2> QED
    BY <1>1, <1>5, <2>1, <2>2 DEF LogInOrder
<1>9. UnwrittenIsRecoverable'
  BY <1>1, <1>2, <1>7 DEF UnwrittenIsRecoverable
<1>10. UnwrittenInMemory'
  <2>1. ASSUME NEW i \in DOMAIN log', i # n PROVE i \in DOMAIN log /\ log'[i] = log[i] /\ i # inflight
    BY <1>1, <1>3, <1>7, <2>1
  <2> QED
    BY <1>1, <1>2, <2>1 DEF UnwrittenInMemory
<1>11. FlushedBelow'
  <2>1. ASSUME NEW c \in todo PROVE ~(now <= c.sec)
    <3>1. c.sec \in Nat /\ c.sec < now
      BY <1>2, Numbers DEF TodoTold
    <3> QED
      BY <1>3, <3>1
  <2> QED
    BY <1>1, <1>2, <1>7, <2>1 DEF FlushedBelow
<1> QED
  BY <1>8, <1>9, <1>10, <1>11 DEF WalInv

LEMMA ApplyWal == BarInv /\ WalInv /\ Apply => WalInv'
<1> SUFFICES ASSUME BarInv, WalInv, Apply PROVE WalInv'
  OBVIOUS
<1> DEFINE e == log[inflight]
<1>1. /\ inflight # 0 /\ inflight' = 0
      /\ buckets' = [buckets EXCEPT ![e.src][e.sec] = Append(@, inflight)]
      /\ UNCHANGED <<now, log, wal, flush, todo, up, paused, bars>>
  BY DEF Apply, redis, flusher, service, tables
<1>2. BarTypes /\ BucketsTold /\ LogInOrder /\ UnwrittenIsRecoverable /\ UnwrittenInMemory /\ FlushedBelow
  BY DEF BarInv, WalInv
<1>3. inflight \in DOMAIN log
  BY <1>1, <1>2 DEF BarTypes
<1>4. e.src \in Sources /\ e.sec \in Secs /\ e = [src |-> e.src, sec |-> e.sec]
  BY <1>2, <1>3, LogTypes
<1> HIDE DEF e
<1>5. DOMAIN buckets = Sources /\ \A src \in Sources : DOMAIN buckets[src] = Secs
  BY <1>2 DEF BarTypes
<1>6. \A src \in Sources, s \in Secs :
         buckets'[src][s] = IF src = e.src /\ s = e.sec THEN Append(buckets[src][s], inflight) ELSE buckets[src][s]
  BY <1>1, <1>4, <1>5
<1>7. Ticks(Append(buckets[e.src][e.sec], inflight)) = Ticks(buckets[e.src][e.sec]) \cup {inflight}
  <2>1. /\ InBucket(log, buckets[e.src][e.sec], e.src, e.sec) /\ inflight \notin Ticks(buckets[e.src][e.sec])
        /\ log[inflight] = [src |-> e.src, sec |-> e.sec]
    BY <1>2, <1>4 DEF BucketsTold, e
  <2> QED
    BY <1>3, <2>1, BucketGrows
<1>8. /\ \A src \in Sources, s \in Secs : Ticks(buckets[src][s]) \subseteq Ticks(buckets'[src][s])
      /\ inflight \in Ticks(buckets'[e.src][e.sec])
  BY <1>4, <1>6, <1>7
<1>9. UnwrittenInMemory'
  <2> SUFFICES ASSUME up, ~paused, NEW i \in DOMAIN log, bars[log[i].sec] = NoRow
               PROVE  i \in Ticks(buckets'[log[i].src][log[i].sec])
    BY <1>1 DEF UnwrittenInMemory
  <2>1. log[i].src \in Sources /\ log[i].sec \in Secs
    BY <1>2, LogTypes
  <2>2. CASE i = inflight
    BY <1>8, <2>2 DEF e
  <2>3. CASE i # inflight
    BY <1>2, <1>8, <2>1, <2>3 DEF UnwrittenInMemory
  <2> QED
    BY <2>2, <2>3
<1> QED
  BY <1>1, <1>2, <1>9 DEF WalInv, LogInOrder, UnwrittenIsRecoverable, FlushedBelow

LEMMA CollectWal == BarInv /\ WalInv /\ FlushCollect => WalInv'
<1> SUFFICES ASSUME BarInv, WalInv, FlushCollect PROVE WalInv'
  OBVIOUS
<1> DEFINE closed == {c \in Sources \X Secs : buckets[c[1]][c[2]] # <<>> /\ Closed(c[2])}
<1>1. /\ up /\ closed # {} /\ flush' = Collected
      /\ todo' = {[src |-> c[1], sec |-> c[2], ticks |-> buckets[c[1]][c[2]]] : c \in closed}
      /\ UNCHANGED <<now, log, wal, inflight, buckets, up, paused, bars>>
  BY DEF FlushCollect, redis, engine, service, tables
<1>2. /\ BarTypes /\ BucketsTold /\ DownIsEmpty /\ LogInOrder /\ UnwrittenIsRecoverable /\ UnwrittenInMemory
  BY DEF BarInv, WalInv
<1>3. ~paused
  BY <1>1, <1>2 DEF DownIsEmpty
<1>4. FlushedBelow'
  <2> SUFFICES ASSUME NEW c \in todo', NEW i \in DOMAIN log, log[i].sec <= c.sec, bars[log[i].sec] = NoRow
               PROVE  \E d \in todo' : d.sec = log[i].sec
    BY <1>1 DEF FlushedBelow
  <2>1. PICK b \in closed : c = [src |-> b[1], sec |-> b[2], ticks |-> buckets[b[1]][b[2]]]
    BY <1>1
  <2>2. /\ b[1] \in Sources /\ b[2] \in Secs /\ buckets[b[1]][b[2]] # <<>> /\ b[2] + 1 <= now
        /\ c.sec = b[2] /\ c \in todo'
    BY <2>1 DEF Closed
  <2>3. log[i].src \in Sources /\ log[i].sec \in Secs /\ log[i].sec \in Nat /\ b[2] \in Nat /\ now \in Nat
    BY <1>2, <2>2, LogTypes, Numbers
  <2>4. CASE i = inflight
    <3>1. InBucket(log, buckets[b[1]][b[2]], b[1], b[2])
      BY <1>2, <2>2 DEF BucketsTold
    <3>2. PICK k \in DOMAIN log : log[k].sec = b[2]
      <4>1. buckets[b[1]][b[2]] \in Seq(DOMAIN log) /\ 1 \in DOMAIN buckets[b[1]][b[2]]
        BY <2>2, <3>1 DEF InBucket
      <4>2. buckets[b[1]][b[2]][1] \in DOMAIN log /\ log[buckets[b[1]][b[2]][1]].sec = b[2]
        BY <3>1, <4>1 DEF InBucket
      <4> QED
        BY <4>2
    <3>3. k <= i
      BY <1>2, <2>4, LogTypes DEF LogInOrder
    <3>4. log[k].sec <= log[i].sec
      BY <1>2, <3>3 DEF LogInOrder
    <3>5. log[i].sec = c.sec
      BY <2>2, <2>3, <3>2, <3>4
    <3> QED
      BY <3>5
  <2>5. CASE i # inflight
    <3>1. i \in Ticks(buckets[log[i].src][log[i].sec])
      BY <1>1, <1>2, <1>3, <2>5 DEF UnwrittenInMemory
    <3>2. buckets[log[i].src][log[i].sec] # <<>>
      BY <3>1, EmptyTold
    <3>3. Closed(log[i].sec)
      BY <2>2, <2>3 DEF Closed
    <3>4. <<log[i].src, log[i].sec>> \in closed
      BY <2>3, <3>2, <3>3
    <3> DEFINE d == [src |-> log[i].src, sec |-> log[i].sec, ticks |-> buckets[log[i].src][log[i].sec]]
    <3>5. d \in todo' /\ d.sec = log[i].sec
      BY <1>1, <3>4
    <3> QED
      BY <3>5
  <2> QED
    BY <2>4, <2>5
<1> QED
  BY <1>1, <1>2, <1>4 DEF WalInv, LogInOrder, UnwrittenIsRecoverable, UnwrittenInMemory

LEMMA InsertWal == BarInv /\ WalInv /\ FlushInsert => WalInv'
<1> SUFFICES ASSUME BarInv, WalInv, FlushInsert PROVE WalInv'
  OBVIOUS
<1>1. /\ flush = Collected /\ flush' = Inserted
      /\ UNCHANGED <<now, log, wal, inflight, buckets, todo, up, paused>>
  BY DEF FlushInsert, redis, engine, service
<1>2. BarTypes /\ TodoTold /\ LogInOrder /\ UnwrittenIsRecoverable /\ UnwrittenInMemory /\ FlushedBelow
  BY DEF BarInv, WalInv
<1>3. PICK first \in [{c.sec : c \in todo} -> todo] :
         /\ \A s \in DOMAIN first : first[s].sec = s
         /\ bars' = [s \in Secs |-> IF s \in DOMAIN first THEN Insert(bars[s], first[s].ticks) ELSE bars[s]]
  BY DEF FlushInsert
<1>4. ASSUME NEW s \in Secs, bars'[s] = NoRow PROVE bars[s] = NoRow /\ \A d \in todo : d.sec # s
  <2>1. ASSUME NEW d \in todo, d.sec = s PROVE FALSE
    <3>1. s \in DOMAIN first
      BY <2>1
    <3>2. first[s] \in todo
      BY <3>1
    <3>3. first[s].ticks # NoRow
      BY <1>2, <3>2 DEF TodoTold, NoRow
    <3>4. bars'[s] = Insert(bars[s], first[s].ticks)
      BY <1>3, <3>1
    <3> QED
      BY <1>4, <3>3, <3>4 DEF Insert
  <2>2. bars[s] = NoRow
    BY <1>3, <1>4 DEF Insert
  <2> QED
    BY <2>1, <2>2
<1>5. \A i \in DOMAIN log : log[i].sec \in Secs
  BY <1>2, LogTypes
<1>6. UnwrittenIsRecoverable' /\ UnwrittenInMemory'
  BY <1>1, <1>2, <1>4, <1>5 DEF UnwrittenIsRecoverable, UnwrittenInMemory
<1>7. FlushedBelow'
  BY <1>1, <1>2, <1>4, <1>5 DEF FlushedBelow
<1> QED
  BY <1>1, <1>2, <1>6, <1>7 DEF WalInv, LogInOrder

LEMMA AckWal == BarInv /\ WalInv /\ (\E c \in todo : FlushAck(c) \/ FlushAckError(c)) => WalInv'
<1> SUFFICES ASSUME BarInv, WalInv, NEW c \in todo, FlushAck(c) \/ FlushAckError(c) PROVE WalInv'
  OBVIOUS
<1>1. /\ flush = Inserted /\ Forget(c) /\ todo' \subseteq todo
      /\ UNCHANGED <<now, log, inflight, up, paused, bars>>
      /\ wal' = wal \/ (lastEntry[c.sec] # 0 /\ wal' = Trimmed(lastEntry[c.sec]))
  BY DEF FlushAck, FlushAckError, redis, service, tables
<1>2. /\ BarTypes /\ TodoTold /\ LastTold
      /\ LogInOrder /\ UnwrittenIsRecoverable /\ UnwrittenInMemory /\ FlushedBelow
  BY DEF BarInv, WalInv
<1>3. \A i \in DOMAIN log : log[i].src \in Sources /\ log[i].sec \in Secs /\ log[i].sec \in Nat /\ i \in Nat
  BY <1>2, LogTypes, Numbers
<1>4. \A d \in todo, i \in DOMAIN log : log[i].sec <= d.sec => bars[log[i].sec] # NoRow
  BY <1>1, <1>2 DEF FlushedBelow, Collected, Inserted
<1>5. c.sec \in Secs
  BY <1>2 DEF TodoTold
<1>6. UnwrittenIsRecoverable'
  <2> SUFFICES ASSUME NEW i \in DOMAIN log, bars[log[i].sec] = NoRow PROVE i \in wal'
    BY <1>1 DEF UnwrittenIsRecoverable
  <2>1. i \in wal
    BY <1>2 DEF UnwrittenIsRecoverable
  <2>2. ASSUME lastEntry[c.sec] # 0 PROVE i >= lastEntry[c.sec]
    <3> DEFINE k == lastEntry[c.sec]
    <3>1. k \in DOMAIN log /\ log[k].sec = c.sec
      BY <1>2, <1>5, <2>2 DEF BarTypes, LastTold
    <3>2. CASE i <= k
      BY <1>2, <1>4, <3>1, <3>2 DEF LogInOrder
    <3>3. i <= k \/ i >= k
      BY <1>3, <3>1
    <3> QED
      BY <3>2, <3>3
  <2> QED
    BY <1>1, <2>1, <2>2 DEF Trimmed
<1>7. UnwrittenInMemory'
  <2>1. \A src \in Sources, s \in Secs : s # c.sec => buckets'[src][s] = buckets[src][s]
    BY <1>1, <1>2, CandidateForgotten
  <2>2. \A i \in DOMAIN log : bars[log[i].sec] = NoRow => log[i].sec # c.sec
    BY <1>3, <1>4
  <2> QED
    BY <1>1, <1>2, <1>3, <2>1, <2>2 DEF UnwrittenInMemory
<1>8. FlushedBelow'
  BY <1>1, <1>4 DEF FlushedBelow
<1> QED
  BY <1>1, <1>2, <1>6, <1>7, <1>8 DEF WalInv, LogInOrder

LEMMA MarkWal == BarInv /\ WalInv /\ (FlushMark \/ FlushMarkError \/ FlushFail) => WalInv'
<1> SUFFICES ASSUME BarInv, WalInv, FlushMark \/ FlushMarkError \/ FlushFail PROVE WalInv'
  OBVIOUS
<1>1. /\ todo' = {} \/ (flush.at = "trimmed" /\ todo' = todo)
      /\ UNCHANGED <<now, log, wal, inflight, buckets, up, paused, bars>>
  BY DEF FlushMark, FlushMarkError, FlushFail, redis, engine, service, tables
<1>2. FlushedBelow'
  <2>1. flush.at = "trimmed" => flush # Collected
    BY DEF Collected
  <2> QED
    BY <1>1, <2>1 DEF WalInv, FlushedBelow
<1> QED
  BY <1>1, <1>2 DEF WalInv, LogInOrder, UnwrittenIsRecoverable, UnwrittenInMemory

LEMMA ServiceWal == BarInv /\ WalInv /\ (MinuteEmit \/ Tick \/ Crash) => WalInv'
<1> SUFFICES ASSUME BarInv, WalInv, MinuteEmit \/ Tick \/ Crash PROVE WalInv'
  OBVIOUS
<1>1. BarTypes /\ LogInOrder /\ UnwrittenIsRecoverable /\ UnwrittenInMemory /\ FlushedBelow
  BY DEF BarInv, WalInv
<1>2. CASE MinuteEmit
  <2>1. UNCHANGED <<now, log, wal, inflight, buckets, flush, todo, up, paused, bars>>
    BY <1>2 DEF MinuteEmit, redis, engine, flusher, service
  <2> QED
    BY <1>1, <2>1 DEF WalInv, LogInOrder, UnwrittenIsRecoverable, UnwrittenInMemory, FlushedBelow
<1>3. CASE Tick
  <2>1. now' = now + 1 /\ UNCHANGED <<log, wal, inflight, buckets, flush, todo, up, paused, bars>>
    BY <1>3 DEF Tick, redis, engine, flusher, service, tables
  <2>2. \A i \in DOMAIN log : log[i].sec <= now'
    BY <1>1, <2>1, Numbers DEF LogInOrder
  <2> QED
    BY <1>1, <2>1, <2>2 DEF WalInv, LogInOrder, UnwrittenIsRecoverable, UnwrittenInMemory, FlushedBelow
<1>4. CASE Crash
  <2>1. up' = FALSE /\ inflight' = 0 /\ todo' = {} /\ UNCHANGED <<now, log, wal, bars>>
    BY <1>4 DEF Crash, redis, tables
  <2> QED
    BY <1>1, <2>1 DEF WalInv, LogInOrder, UnwrittenIsRecoverable, UnwrittenInMemory, FlushedBelow
<1> QED
  BY <1>2, <1>3, <1>4

LEMMA RestartWal == BarInv /\ WalInv /\ Restart => WalInv'
<1> SUFFICES ASSUME BarInv, WalInv, Restart PROVE WalInv'
  OBVIOUS
<1>1. PICK gap \in Gap :
        /\ paused' = gap
        /\ buckets' = IF gap THEN buckets ELSE [src \in Sources |-> [s \in Secs |-> Replayed(src, s)]]
  BY DEF Restart
<1>2. UNCHANGED <<now, log, wal, inflight, flush, todo, bars>>
  BY DEF Restart, redis, flusher
<1>3. BarTypes /\ LogInOrder /\ UnwrittenIsRecoverable /\ FlushedBelow
  BY DEF BarInv, WalInv
<1>4. UnwrittenInMemory'
  <2> SUFFICES ASSUME ~paused', NEW i \in DOMAIN log, bars[log[i].sec] = NoRow
               PROVE  i \in Ticks(buckets'[log[i].src][log[i].sec])
    BY <1>2 DEF UnwrittenInMemory
  <2>1. i \in wal
    BY <1>3 DEF UnwrittenIsRecoverable
  <2>2. /\ log[i].src \in Sources /\ log[i].sec \in Secs
        /\ log[i] = [src |-> log[i].src, sec |-> log[i].sec]
    BY <1>3, LogTypes
  <2>3. buckets'[log[i].src][log[i].sec] = Replayed(log[i].src, log[i].sec)
    BY <1>1, <2>2
  <2>4. Ticks(Replayed(log[i].src, log[i].sec)) = {k \in wal : log[k] = [src |-> log[i].src, sec |-> log[i].sec]}
    BY <1>3, ReplayedTold
  <2> QED
    BY ONLY <2>1, <2>2, <2>3, <2>4
<1> QED
  BY <1>2, <1>3, <1>4 DEF WalInv, LogInOrder, UnwrittenIsRecoverable, FlushedBelow

LEMMA WalStep == ~Late /\ BarInv /\ WalInv /\ [BarNext]_barVars => WalInv'
<1> SUFFICES ASSUME ~Late, BarInv, WalInv, [BarNext]_barVars PROVE WalInv'
  OBVIOUS
<1>1. CASE Consumer
  BY <1>1, ReceiveWal, ApplyWal DEF Consumer
<1>2. CASE Flusher
  BY <1>2, CollectWal, InsertWal, AckWal, MarkWal DEF Flusher
<1>3. CASE MinuteEmit \/ Tick \/ Crash \/ Restart
  BY <1>3, ServiceWal, RestartWal
<1>4. CASE UNCHANGED barVars
  <2>1. UNCHANGED <<now, log, wal, inflight, buckets, flush, todo, up, paused, bars>>
    BY <1>4 DEF barVars, redis, engine, flusher, service, tables
  <2> QED
    BY <2>1 DEF WalInv, LogInOrder, UnwrittenIsRecoverable, UnwrittenInMemory, FlushedBelow
<1> QED
  BY <1>1, <1>2, <1>3, <1>4 DEF BarNext

\* Unless ticks come late, a tick of a second that has no bar yet is in the
\* log, from which a restart takes it: ack_flushed trims up to the last entry of
\* the second it acknowledges.
THEOREM UnwrittenIsKept ==
    ASSUME Late = FALSE PROVE BarSpec => []UnwrittenIsRecoverable
<1>1. BarInit => WalInv
  <2> SUFFICES ASSUME BarInit PROVE WalInv
    OBVIOUS
  <2>1. log = <<>> /\ inflight = 0 /\ todo = {}
    BY DEF BarInit
  <2>2. DOMAIN log = {}
    BY <2>1
  <2> QED
    BY <2>1, <2>2 DEF WalInv, LogInOrder, UnwrittenIsRecoverable, UnwrittenInMemory, FlushedBelow
<1>2. BarInv /\ WalInv /\ [BarNext]_barVars => WalInv'
  BY WalStep
<1>3. WalInv => UnwrittenIsRecoverable
  BY DEF WalInv
<1> QED
  BY <1>1, <1>2, <1>3, BarsInitially, BarsStep, PTL DEF BarSpec
--------------------------------------------------------------------------------
(* The services together.  A behaviour is one of a single module and the      *)
(* others rest, so a step is a step of each or leaves it as it was.           *)

\* What the invariant of the bars says of the types.
LEMMA BarsTyped == BarInv => BarTypeOK
  BY DEF BarInv, BarTypes, BucketsTold, TodoTold, BarsTold, MinutesTold, InBucket, InBar, BarTypeOK, TicksOk

LEMMA ServicesStep ==
    ServicesNext => [BarNext]_barVars /\ [DiscovererNext]_<<broker, discovererVars>> /\ [AlertsNext]_alertVars
<1> SUFFICES ASSUME ServicesNext
             PROVE  [BarNext]_barVars /\ [DiscovererNext]_<<broker, discovererVars>> /\ [AlertsNext]_alertVars
  OBVIOUS
<1>1. /\ part # "bars" => UNCHANGED barVars
      /\ part # "discoverer" => UNCHANGED <<broker, discovererVars>>
      /\ part # "alerts" => UNCHANGED alertVars
  BY DEF ServicesNext, Rests
<1>2. \/ part = "bars" /\ BarNext
      \/ part = "discoverer" /\ DiscovererNext
      \/ part = "alerts" /\ AlertsNext
  BY DEF ServicesNext
<1> QED
  BY <1>1, <1>2

\* The aggregator's log, buckets, bars and flush, the sidecars' and accounts'
\* states, and the alerts' rows, index, rebuilds, queue and worker keep their
\* types; the queue of rules to evaluate keeps within its bound (_enqueue), and
\* the ticks of a bucket or bar are entries of the log of its own second.
THEOREM ServicesAreTyped == ServicesSpec => []ServicesTypeOK
<1> DEFINE Inv == BarInv /\ DiscovererInv /\ SilenceInv /\ AlertsTypeOK
<1>1. ServicesInit => Inv
  BY BarsInitially, DiscovererTyped, AlertsInitially, AlertsTyped DEF ServicesInit
<1>2. Inv /\ [ServicesNext]_servicesVars => Inv'
  <2> SUFFICES ASSUME Inv, [ServicesNext]_servicesVars PROVE Inv'
    OBVIOUS
  <2>1. [BarNext]_barVars /\ [DiscovererNext]_<<broker, discovererVars>> /\ [AlertsNext]_alertVars
    BY ServicesStep DEF servicesVars
  <2>2. BarInv'
    BY <2>1, BarsStep
  <2>3. DiscovererInv'
    BY <2>1, DiscovererTypes
  <2>4. SilenceInv' /\ AlertsTypeOK'
    BY <2>1, AlertsStep, AlertsTypes
  <2> QED
    BY <2>2, <2>3, <2>4
<1>3. Inv => ServicesTypeOK
  BY BarsTyped DEF DiscovererInv, ServicesTypeOK
<1> QED
  BY <1>1, <1>2, <1>3, PTL DEF ServicesSpec
================================================================================
