---------------------------- MODULE TelegramOrders ----------------------------
(***************************************************************************)
(* Orders placed from one Telegram chat: /place_order, the number of an    *)
(* account, /confirm, /confirm LIVE and /cancel_order, each handled by a   *)
(* call of the webhook of its own, all of them concurrent.                 *)
(*                                                                         *)
(* Two Redis keys hold the conversation: the selection of an account and   *)
(* the pending order.  Each Redis command is an action; offered holds the  *)
(* number of the preview that wrote it.                                    *)
(***************************************************************************)
EXTENDS Naturals, Sequences, FiniteSets

CONSTANTS
    Texts,        \* the messages of the chat
    MaxPreviews,  \* bound: previews that write the pending order
    MaxReplays    \* bound: updates delivered again after 300 s, or expiries

VARIABLES
    several,  \* more than one account: the user is asked which
    live,     \* the account chosen is live
    stage,    \* what the handler of each message does next
    command,  \* what each message says
    holding,  \* the preview that a /confirm took from Redis, 0 for none
    choosing, \* telegram:acct_select:{chat}:{user} exists
    offered,  \* telegram:pending_order:{chat}:{user}; 0 for absent
    fate,     \* history: what became of each preview shown to the user
    replays

telegramVars == <<several, live, stage, command, holding, choosing, offered, fate, replays>>
talk == <<several, live, command, replays>>

Commands == {"place", "select", "confirm", "confirmLive", "cancel"}

\* The previews that the user may still confirm, but for those that a
\* /confirm holds.
Open == {w \in DOMAIN fate : fate[w] = "shown"} \ {holding[m] : m \in Texts}

\* They are closed: the user is told so, or shown another.
ClosedAs(how) == [w \in DOMAIN fate |-> IF w \in Open THEN how ELSE fate[w]]

GoTo(m, s) == stage' = [stage EXCEPT ![m] = s]
-----------------------------------------------------------------------------
(* The webhook.                                                            *)

\* SET NX of telegram:seen:{update}; without a dispatcher the update is lost,
\* for its repetition finds the key.
ReceiveText(m) ==
    /\ stage[m] = "unsent"
    /\ \E c \in Commands : command' = [command EXCEPT ![m] = c]
    /\ \E s \in {"start", "done"} : GoTo(m, s)
    /\ UNCHANGED <<several, live, holding, choosing, offered, fate, replays>>

\* The key expired after 300 s and Telegram delivers the update again.
Redeliver(m) ==
    /\ stage[m] = "done" /\ replays < MaxReplays
    /\ replays' = replays + 1
    /\ GoTo(m, "start")
    /\ UNCHANGED <<several, live, command, holding, choosing, offered, fate>>

\* The rate limiter refuses, an exception ends the handler, or the backend
\* restarts: what a /confirm holds is gone.
HandlerEnds(m) ==
    /\ stage[m] \notin {"unsent", "done"}
    /\ GoTo(m, "done")
    /\ holding' = [holding EXCEPT ![m] = 0]
    /\ UNCHANGED <<talk, choosing, offered, fate>>
-----------------------------------------------------------------------------
(* handle_place_order.                                                     *)

AfterClearing == IF several THEN "asks" ELSE "previews"

\* The GETs of both keys.
PlaceReads(m) ==
    /\ stage[m] = "start" /\ command[m] = "place"
    /\ GoTo(m, IF choosing \/ offered # 0 THEN "clears" ELSE AfterClearing)
    /\ UNCHANGED <<talk, holding, choosing, offered, fate>>

\* Mutant: only the selection is deleted.
ForgetSelection == choosing' = FALSE /\ UNCHANGED offered

\* DELETE of both keys.
ForgetKeys == choosing' = FALSE /\ offered' = 0

\* "Previous unconfirmed order cancelled."
PlaceClears(m) ==
    /\ stage[m] = "clears"
    /\ ForgetKeys
    /\ fate' = ClosedAs("cancelled")
    /\ GoTo(m, AfterClearing)
    /\ UNCHANGED <<talk, holding>>

AskAccount(m) ==
    /\ stage[m] = "asks"
    /\ choosing' = TRUE
    /\ GoTo(m, "done")
    /\ UNCHANGED <<talk, holding, offered, fate>>

\* handle_account_selection: GET, and later DELETE.
SelectReads(m) ==
    /\ stage[m] = "start" /\ command[m] = "select"
    /\ GoTo(m, IF choosing THEN "selects" ELSE "done")
    /\ UNCHANGED <<talk, holding, choosing, offered, fate>>

SelectClears(m) ==
    /\ stage[m] = "selects"
    /\ choosing' = FALSE
    /\ GoTo(m, "previews")
    /\ UNCHANGED <<talk, holding, offered, fate>>

\* _do_preview_and_write_pending.
Preview(m) ==
    /\ stage[m] = "previews" /\ Len(fate) < MaxPreviews
    /\ offered' = Len(fate) + 1
    /\ fate' = Append(ClosedAs("superseded"), "shown")
    /\ GoTo(m, "done")
    /\ UNCHANGED <<talk, holding, choosing>>
-----------------------------------------------------------------------------
(* handle_confirm.                                                         *)

\* What GETDEL leaves.
TakenAfter == 0

\* A preview that is taken to be placed; one that was closed would come back.
PlacedFate(w) == [fate EXCEPT ![w] = IF @ = "shown" THEN "placed" ELSE "revived"]

\* GETDEL of the pending order; unless LIVE is missing, place_order follows
\* with a nonce and a client_order_id of its own.
ConfirmTakes(m) ==
    /\ stage[m] = "start" /\ command[m] \in {"confirm", "confirmLive"}
    /\ offered' = TakenAfter
    /\ IF offered = 0 THEN /\ GoTo(m, "done")
                           /\ UNCHANGED <<holding, fate>>
       ELSE IF live /\ command[m] = "confirm"
            THEN /\ GoTo(m, "restores")
                 /\ holding' = [holding EXCEPT ![m] = offered]
                 /\ UNCHANGED fate
            ELSE /\ GoTo(m, "done")
                 /\ fate' = PlacedFate(offered)
                 /\ UNCHANGED holding
    /\ UNCHANGED <<talk, choosing>>

\* "reply /confirm LIVE": the order is put back, over one written since.
ConfirmRestores(m) ==
    /\ stage[m] = "restores"
    /\ offered' = holding[m]
    /\ fate' = ClosedAs("superseded")
    /\ holding' = [holding EXCEPT ![m] = 0]
    /\ GoTo(m, "done")
    /\ UNCHANGED <<talk, choosing>>
-----------------------------------------------------------------------------
\* handle_cancel_order, the GETs of which only count: "Pending order cancelled."
CancelOrder(m) ==
    /\ stage[m] = "start" /\ command[m] = "cancel"
    /\ ForgetKeys
    /\ fate' = ClosedAs("cancelled")
    /\ GoTo(m, "done")
    /\ UNCHANGED <<talk, holding>>

\* 120 s pass.
KeysExpire ==
    /\ choosing \/ offered # 0
    /\ replays < MaxReplays
    /\ replays' = replays + 1
    /\ ForgetKeys
    /\ fate' = ClosedAs("expired")
    /\ UNCHANGED <<several, live, stage, command, holding>>
-----------------------------------------------------------------------------
TelegramInit ==
    /\ several \in BOOLEAN /\ live \in BOOLEAN
    /\ stage = [m \in Texts |-> "unsent"]
    /\ command = [m \in Texts |-> "place"]
    /\ holding = [m \in Texts |-> 0]
    /\ choosing = FALSE /\ offered = 0
    /\ fate = <<>> /\ replays = 0

TelegramNext ==
    \/ KeysExpire
    \/ \E m \in Texts :
          \/ ReceiveText(m) \/ Redeliver(m) \/ HandlerEnds(m)
          \/ PlaceReads(m) \/ PlaceClears(m) \/ AskAccount(m)
          \/ SelectReads(m) \/ SelectClears(m) \/ Preview(m)
          \/ ConfirmTakes(m) \/ ConfirmRestores(m) \/ CancelOrder(m)

TelegramSpec == TelegramInit /\ [][TelegramNext]_telegramVars
-----------------------------------------------------------------------------
TelegramTypeOK ==
    /\ several \in BOOLEAN /\ live \in BOOLEAN /\ choosing \in BOOLEAN
    /\ stage \in [Texts -> {"unsent", "start", "clears", "asks", "selects", "previews", "restores", "done"}]
    /\ command \in [Texts -> Commands]
    /\ fate \in Seq({"shown", "placed", "cancelled", "superseded", "expired", "revived"})
    /\ offered \in 0 .. Len(fate) /\ holding \in [Texts -> 0 .. Len(fate)]
    /\ replays \in Nat

\* No preview is placed twice, and none that the user cancelled, replaced by a
\* later one or let expire is placed at all: whatever messages are handled at
\* once, put back or delivered again.  A preview that a /confirm without LIVE
\* holds at that moment is not reached by the cancellation (order_flow.py:640).
NoRevival == \A w \in DOMAIN fate : fate[w] # "revived"

\* Beside that, the types of the messages and of the previews.
TelegramHolds == TelegramTypeOK /\ NoRevival
=============================================================================
