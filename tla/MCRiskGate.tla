------------------------------ MODULE MCRiskGate ------------------------------
(* An instance of RiskGate for TLC: small values of everything it reads.      *)
EXTENDS RiskGate

Cases ==
    [accountRow |-> {NoLimit, 1, 2}, brokerRow |-> {NoLimit, 1}, globalRow |-> {NoLimit, 2},
     accountSwitch |-> BOOLEAN, brokerSwitch |-> BOOLEAN, warnAt |-> BOOLEAN,
     loss |-> {NoLimit, 0, 1, 2}, held |-> -1 .. 1, side |-> {"buy", "sell"}, priced |-> BOOLEAN,
     instrument |-> {"known", "creatable", "none"}, classKnown |-> BOOLEAN,
     summary |-> BOOLEAN, redis |-> BOOLEAN, buyingPower |-> 0 .. 3,
     dayTrades |-> {NoLimit, 0, 1}, brokerTrades |-> {0, 1, 3},
     algo |-> {"fine", "missing"}, display |-> {"fine", "wrong", "fraction"},
     margin |-> {"accepted", "rejected", "late", "unimplemented", "unavailable"},
     class |-> {"STOCK", "OPTION", "FUTURE", "FOREX", "CRYPTO", "BOND", "MUTUAL_FUND", "CFD"}, opens |-> BOOLEAN,
     asset |-> {"fine", "uncovered", "put", "expired", "lastDay", "nearExpiry",
                "closed", "oversized", "misstep", "small"},
     assetError |-> BOOLEAN, level |-> 1 .. 3, disposed |-> BOOLEAN]

CaseFields == DOMAIN Cases

BenignCase ==
    [accountRow |-> NoLimit, brokerRow |-> NoLimit, globalRow |-> NoLimit,
     accountSwitch |-> FALSE, brokerSwitch |-> FALSE, warnAt |-> FALSE,
     loss |-> 0, held |-> 0, side |-> "buy", priced |-> TRUE,
     instrument |-> "known", classKnown |-> TRUE,
     summary |-> TRUE, redis |-> TRUE, buyingPower |-> 3, dayTrades |-> NoLimit, brokerTrades |-> 3,
     algo |-> "fine", display |-> "fine", margin |-> "accepted",
     class |-> "STOCK", opens |-> TRUE, asset |-> "fine", assetError |-> FALSE,
     level |-> 1, disposed |-> FALSE]

FailedCases ==
    [f \in CaseFields |->
        IF f \in {"summary", "redis"} THEN {FALSE}
        ELSE IF f = "loss" THEN {NoLimit}
        ELSE IF f = "assetError" THEN {TRUE}
        ELSE IF f = "margin" THEN {"late", "unimplemented", "unavailable"} ELSE {}]
=============================================================================
