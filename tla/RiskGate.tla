------------------------------- MODULE RiskGate -------------------------------
(***************************************************************************)
(* The risk gate: the checks of RiskService on one order, as it is         *)
(* previewed, placed and later modified with the same terms, and the       *)
(* verdict made of them.                                                   *)
(*                                                                         *)
(* All that the checks read is a field of the record given, of the order   *)
(* and the world; Context is what each of the three callers passes on of   *)
(* it.  The active rows of risk_limits have one value per scope, for every *)
(* kind of limit: times the worth of the order, but half the buying power  *)
(* each as a buffer.                                                       *)
(***************************************************************************)
EXTENDS Integers, FiniteSets

CONSTANTS
    Fields,     \* what the checks read
    Values,     \* of each field: the values it may have
    Failed,     \* of each field: those it has when what it is read from fails
    Benign,     \* a case that every check passes
    NoLimit     \* no active row; no value known

\* What fails: the account's summary, Redis, the profit and loss, what the check
\* of the asset class asks, and the broker's margin preview.
ASSUME GateAssumption ==
    /\ Fields = {"accountRow", "brokerRow", "globalRow", "accountSwitch", "brokerSwitch", "warnAt",
                 "loss", "held", "side", "priced", "instrument", "classKnown", "summary", "redis",
                 "buyingPower", "dayTrades", "brokerTrades", "algo", "display", "margin", "class",
                 "opens", "asset", "assetError", "level", "disposed"}
    /\ Benign = [f \in Fields |-> Benign[f]] /\ \A f \in Fields : Benign[f] \in Values[f]
    /\ Values["class"] \subseteq {"STOCK", "OPTION", "FUTURE", "FOREX", "CRYPTO", "BOND",
                                  "MUTUAL_FUND", "CFD"}
    /\ Values["margin"] \subseteq {"accepted", "rejected", "late", "unimplemented", "unavailable"}
    /\ Failed["summary"] = {FALSE} /\ Failed["redis"] = {FALSE} /\ Failed["assetError"] = {TRUE}
    /\ Failed["loss"] = {NoLimit} /\ Failed["margin"] = {"late", "unimplemented", "unavailable"}
    /\ \A f \in Fields \ {"summary", "redis", "assetError", "loss", "margin"} : Failed[f] = {}

VARIABLES
    given,      \* the order and the world
    verdict     \* of each caller, "none" before

gateVars == <<given, verdict>>

Callers == {"preview", "place", "modify"}

\* The mode that the caller passes to evaluate.
Mode(c) == IF c = "preview" THEN "preview" ELSE "place_order"
-----------------------------------------------------------------------------
\* _resolve_limit: account, then broker, then global; the first active row.
ResolveLimit(w) ==
    IF w.accountRow # NoLimit THEN w.accountRow
    ELSE IF w.brokerRow # NoLimit THEN w.brokerRow
    ELSE w.globalRow

Capped(w) == ResolveLimit(w) # NoLimit

AccountKillSwitch(w) == IF w.accountSwitch THEN "block" ELSE "pass"
BrokerKillSwitch(w)  == IF w.brokerSwitch THEN "block" ELSE "pass"

\* Mutant: a missing or stale profit and loss passes.
MaxDailyLossStale(w) ==
    IF ~Capped(w) \/ w.loss = NoLimit THEN "pass"
    ELSE IF w.loss >= ResolveLimit(w) THEN "block"
    ELSE IF w.warnAt /\ 2 * w.loss >= ResolveLimit(w) THEN "warn" ELSE "pass"

\* _check_max_daily_loss, warn_at_pct being 50 if there is one.
MaxDailyLoss(w) ==
    IF ~Capped(w) THEN "pass"
    ELSE IF w.loss = NoLimit THEN "warn"
    ELSE IF w.loss >= ResolveLimit(w) THEN "block"
    ELSE IF w.warnAt /\ 2 * w.loss >= ResolveLimit(w) THEN "warn" ELSE "pass"

Abs(n) == IF n < 0 THEN -n ELSE n
Clip(w) == IF w.priced THEN 1 ELSE 0

\* _check_position_concentration: of all accounts, against the net value of one.
PositionConcentration(w) ==
    LET exposure == Abs(w.held + (IF w.side = "buy" THEN Clip(w) ELSE -Clip(w))) IN
    IF w.instrument = "none" \/ ~Capped(w) THEN "pass"
    ELSE IF ~w.summary THEN "raise"
    ELSE IF exposure >= ResolveLimit(w) THEN "block"
    ELSE IF w.warnAt /\ 2 * exposure >= ResolveLimit(w) THEN "warn" ELSE "pass"

\* _check_buying_power.  What the Redis client raises is none of the errors
\* caught here, nor in _check_pdt.
BuyingPowerCheck(w) ==
    IF w.side = "sell" \/ ~Capped(w) \/ ~w.priced THEN "pass"
    ELSE IF ~w.summary \/ ~w.redis THEN "raise"
    ELSE IF Clip(w) > w.buyingPower THEN "block"
    ELSE IF 2 * (w.buyingPower - Clip(w)) < ResolveLimit(w) * w.buyingPower THEN "warn" ELSE "pass"

\* _check_pdt: a count that is not in Redis is asked of the broker.
Pdt(w) ==
    IF ~Capped(w) THEN "pass"
    ELSE IF ~w.redis \/ (w.dayTrades = NoLimit /\ ~w.summary) THEN "raise"
    ELSE LET left == IF w.dayTrades = NoLimit THEN w.brokerTrades ELSE w.dayTrades IN
         IF left <= 0 THEN "block" ELSE IF left <= ResolveLimit(w) THEN "warn" ELSE "pass"

\* _check_algo_capability: an error of Redis passes.
AlgoCapability(w) == IF w.algo = "missing" /\ w.redis THEN "block" ELSE "pass"

\* _check_iceberg_display_size: absent, malformed, not positive, not below the
\* quantity; or below one.
IcebergDisplaySize(w) ==
    CASE w.display = "wrong" -> "block" [] w.display = "fraction" -> "warn" [] OTHER -> "pass"

\* BrokerSidecarClient.preview_order: every gRPC error, UNIMPLEMENTED too, is
\* raised as BrokerSidecarTimeout or BrokerSidecarUnavailable.
PreviewOrder(w) ==
    IF w.margin \in {"unimplemented", "unavailable"} THEN "raise" ELSE w.margin

\* _check_margin: without an answer it warns in a preview and blocks an order.
Margin(w, mode) ==
    LET unknown == IF mode = "preview" THEN "warn" ELSE "block" IN
    IF ~w.classKnown THEN unknown
    ELSE [accepted |-> "pass", rejected |-> "block", late |-> unknown, raise |-> "raise"][PreviewOrder(w)]

\* The options check: naked short, cash-secured put, cutoff, expiry today, risk
\* of assignment.  The query for the cash of a put names a column that positions
\* has not: its error is caught, but the transaction is lost, and every check
\* that comes after raises.
OptionsExposure(w) ==
    LET written == w.side = "sell" /\ w.opens
        known   == w.instrument # "none"
    IN IF w.assetError THEN "out"
       ELSE IF written /\ w.level < 3 /\ (w.asset = "uncovered" \/ ~known) THEN "block"
       ELSE IF ~known THEN "pass"
       ELSE IF written /\ w.asset = "put" /\ w.level = 2 THEN "raise"
       ELSE IF w.asset = "expired" THEN "block"
       ELSE IF w.asset = "lastDay" \/ (written /\ w.asset = "nearExpiry") THEN "warn" ELSE "pass"

\* The futures check blocks from the first notice day on, which no caller
\* passes: the field has its default of None.
FuturesExposure(w) == "pass"

\* The checks that follow pass when something raises in them outside the
\* database, assetError.  No caller passes the net value that their warnings of
\* concentration divide by.
ForexExposure(w) ==
    IF w.assetError THEN "pass"
    ELSE IF w.asset \in {"closed", "oversized"} THEN "block"
    ELSE IF w.held # 0 THEN "warn" ELSE "pass"

CryptoExposure(w) ==
    IF ~w.assetError /\ (w.asset = "closed" \/ (w.asset = "misstep" /\ w.instrument # "none"))
      THEN "block" ELSE "pass"

BondExposure(w) == IF ~w.assetError /\ w.asset = "oversized" THEN "block" ELSE "pass"

FundExposure(w) ==
    IF ~w.assetError /\ (w.asset = "oversized" \/ (w.asset = "small" /\ w.instrument # "none"))
      THEN "block" ELSE "pass"

\* A CFD of allowed size has its account's country looked up under a kind of
\* limit that the database's type has not; the transaction is lost as above.
CfdExposure(w) == IF w.asset = "oversized" THEN "block" ELSE "raise"

\* What evaluate does first.
AssetExposure(w) ==
    CASE w.class = "STOCK"       -> "pass"
      [] w.class = "OPTION"      -> OptionsExposure(w)
      [] w.class = "FUTURE"      -> FuturesExposure(w)
      [] w.class = "FOREX"       -> ForexExposure(w)
      [] w.class = "CRYPTO"      -> CryptoExposure(w)
      [] w.class = "BOND"        -> BondExposure(w)
      [] w.class = "MUTUAL_FUND" -> FundExposure(w)
      [] w.class = "CFD"         -> CfdExposure(w)

\* _check_bb_warning; errors pass.
BbWarning(w) == IF w.side = "buy" /\ w.instrument # "none" /\ w.class \notin {"FUTURE", "CFD"} /\ w.disposed
                  THEN "warn" ELSE "pass"

\* evaluate: a block of the asset class ends it; a check that raises blocks.
\* What the options check raises leaves evaluate.
Evaluate(w, mode) ==
    LET first == AssetExposure(w)
        found == {first, AccountKillSwitch(w), BrokerKillSwitch(w), MaxDailyLoss(w), Pdt(w),
                  PositionConcentration(w), BuyingPowerCheck(w), AlgoCapability(w),
                  IcebergDisplaySize(w), Margin(w, mode), BbWarning(w)}
    IN IF first = "out" THEN "out"
       ELSE IF first = "block" \/ found \cap {"block", "raise"} # {} THEN "block"
       ELSE IF "warn" \in found THEN "warn" ELSE "allow"
-----------------------------------------------------------------------------
\* The EvaluationContext of each caller.  A preview resolves the instrument
\* without creating it; only place_order passes the position effect; and a
\* modification passes no algo, and the class of the instrument only if its
\* table has it.
Context(w, c) ==
    [w EXCEPT
        !.instrument = IF c = "preview" /\ @ = "creatable" THEN "none" ELSE @,
        !.opens      = c = "place" /\ @,
        !.algo       = IF c = "modify" THEN "fine" ELSE @,
        !.display    = IF c = "modify" THEN "fine" ELSE @,
        !.classKnown = c # "modify" \/ @,
        !.class      = IF c = "modify" /\ ~w.classKnown THEN "STOCK" ELSE @]

\* One of the callers evaluates the order.
Judge(c) ==
    /\ verdict[c] = "none"
    /\ verdict' = [verdict EXCEPT ![c] = Evaluate(Context(given, c), Mode(c))]
    /\ UNCHANGED given

\* Cases that differ from the benign one in three fields at most.
RiskGateInit ==
    /\ \E f, g, h \in Fields : \E u \in Values[f], v \in Values[g], x \in Values[h] :
          given = [Benign EXCEPT ![f] = u, ![g] = v, ![h] = x]
    /\ verdict = [c \in Callers |-> "none"]

RiskGateNext == \E c \in Callers : Judge(c)

RiskGateSpec == RiskGateInit /\ [][RiskGateNext]_gateVars
-----------------------------------------------------------------------------
RiskGateTypeOK ==
    /\ \A f \in Fields : given[f] \in Values[f]
    /\ verdict \in [Callers -> {"none", "allow", "warn", "block", "out"}]

Judged(c) == verdict[c] # "none"
Refused(c) == verdict[c] \in {"block", "out"}

\* What the preview shows of an order holds when it is placed: what it refuses
\* is refused, and what it lets through is only refused for the margin check
\* that was late, for an instrument not yet known, or for an option sold to
\* open, which the preview is not told of.  A modification lets through what
\* cannot be placed only for such an option or for the algo, which it is not
\* told of.
CallersAgree ==
    /\ Judged("preview") /\ Judged("place") /\ Refused("preview") # Refused("place") =>
          /\ Refused("place")
          /\ \/ given.margin = "late"
             \/ given.instrument = "creatable"
             \/ given.class = "OPTION" /\ given.side = "sell" /\ given.opens
    /\ Judged("modify") /\ Judged("place") /\ Refused("place") /\ ~Refused("modify") =>
          \/ given.class = "OPTION" /\ given.side = "sell" /\ given.opens
          \/ given.algo = "missing" \/ given.display = "wrong"

\* A dependency that fails does not turn a refused order into one allowed
\* without a warning ("degraded gate is still a closed gate"), but where
\* failing open is the policy: for the algo capability, and for the checks of
\* the asset classes other than options.
FailureNeverAllows ==
    \A c \in Callers : verdict[c] = "allow" =>
        \A f \in {g \in Fields : given[g] \in Failed[g]} :
            \A v \in Values[f] \ Failed[f] :
                \/ Evaluate(Context([given EXCEPT ![f] = v], c), Mode(c)) # "block"
                \/ f = "redis" /\ given.algo = "missing"
                \/ f = "assetError" /\ given.class # "OPTION"

\* One gate for preview, placing and modifying, and a closed one when something
\* it asks fails (risk_service.py: evaluate).
GateHolds == RiskGateTypeOK /\ CallersAgree /\ FailureNeverAllows

\* "gRPC UNIMPLEMENTED (Alpaca and any future stub) always WARNs" (_check_margin).
UnimplementedWarns ==
    \A c \in Callers : given = [Benign EXCEPT !.margin = "unimplemented"] /\ Judged(c)
        => verdict[c] = "warn"
=============================================================================
