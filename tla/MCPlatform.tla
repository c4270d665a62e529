------------------------------ MODULE MCPlatform ------------------------------
(* Instances for TLC of the modules about configuration, tokens, quotes and *)
(* the Telegram chat, which share no state.  A behaviour is one of a single  *)
(* module, named by part; the others stay in their initial states.           *)
EXTENDS ConfigCache, SchwabTokens, QuoteSubscriptions, TelegramOrders, TLC

CONSTANTS w1, w2, s1, s2

VARIABLE part

\* Worker processes, calls and connections are alike, and so are symbols.
Alike == Permutations({w1, w2}) \cup Permutations({s1, s2})

platformVars == <<part, configVars, schwabVars, quoteVars, telegramVars>>

Rests(p, v) == part # p => UNCHANGED v

PlatformInit ==
    /\ part \in {"config", "schwab", "quotes", "telegram"}
    /\ ConfigInit /\ SchwabInit /\ QuoteInit /\ TelegramInit
    /\ part # "telegram" => ~several /\ ~live

PlatformNext ==
    /\ UNCHANGED part
    /\ \/ part = "config" /\ ConfigNext
       \/ part = "schwab" /\ SchwabNext
       \/ part = "quotes" /\ QuoteNext
       \/ part = "telegram" /\ TelegramNext
    /\ Rests("config", configVars) /\ Rests("schwab", schwabVars)
    /\ Rests("quotes", quoteVars) /\ Rests("telegram", telegramVars)

PlatformSpec == PlatformInit /\ [][PlatformNext]_platformVars

=============================================================================
