---------------------------- MODULE HistoricalPacing ----------------------------
(***************************************************************************)
(* The token bucket that paces requests for historical bars at IBKR, and   *)
(* the handlers of GetHistoricalBars that wait at it.  Time is counted in  *)
(* ticks of the clock; a handler that sleeps wakes at its time or later.   *)
(***************************************************************************)
EXTENDS Integers, FiniteSets

CONSTANTS
    Handlers,      \* GetHistoricalBars calls, each used again when it has ended
    Capacity, Window, Reserved, Cooldown,
    LastTick,      \* bound: time
    MaxGrants      \* bound: requests sent to IBKR

ASSUME PacingAssumption == {Capacity, Reserved, Cooldown, LastTick} \subseteq Nat /\ Window \in Nat \ {0}

VARIABLES
    time,
    bucketTokens,  \* _tokens
    refilledAt,    \* _last_refill_at
    nextRefill,    \* _next_refill_at: only waits are reckoned from it
    cooldownUntil,
    handler,       \* what each handler does, with the time it sleeps until
    grants         \* history: when each request went out, to whom

pacingVars == <<time, bucketTokens, refilledAt, nextRefill, cooldownUntil, handler, grants>>

Larger(a, b) == IF a > b THEN a ELSE b
Smaller(a, b) == IF a < b THEN a ELSE b

Off == [at |-> "off", until |-> 0]
Sending == [at |-> "ibkr", until |-> 0]
-----------------------------------------------------------------------------
Passes ==
    /\ time < LastTick
    /\ time' = time + 1
    /\ UNCHANGED <<bucketTokens, refilledAt, nextRefill, cooldownUntil, handler, grants>>

Accrued == ((time - refilledAt) * Capacity) \div Window
Refilled == Smaller(Capacity, bucketTokens + Accrued)

\* Mutant: what has accrued is added again at the next look.
RefilledAgain == refilledAt

\* _refill_if_due: whole tokens only, and the fraction is lost with them.
RefillStamp == IF Accrued >= 1 THEN time ELSE refilledAt

\* acquire from its start, or from the end of its sleep, to the next await: take
\* a token, or sleep.  Only calls that are not for the prewarm may take the
\* reserved tokens.  The lock is never held over an await.
Acquire(h, reserve) ==
    /\ \/ handler[h] = Off
       \/ handler[h].at = IF reserve THEN "reserve" ELSE "prewarm"
    /\ time >= handler[h].until
    /\ refilledAt' = RefillStamp
    /\ nextRefill' = IF handler[h] = Off THEN nextRefill ELSE Smaller(nextRefill, time)
    /\ IF time >= cooldownUntil /\ Refilled > (IF reserve THEN 0 ELSE Reserved)
         THEN /\ Cardinality(grants) < MaxGrants
              /\ bucketTokens' = Refilled - 1
              /\ grants' = grants \cup {[n |-> Cardinality(grants) + 1, at |-> time]}
              /\ handler' = [handler EXCEPT ![h] = Sending]
         ELSE /\ bucketTokens' = Refilled
              /\ handler' = [handler EXCEPT ![h] =
                    [at |-> IF reserve THEN "reserve" ELSE "prewarm",
                     until |-> IF time < cooldownUntil THEN cooldownUntil ELSE Larger(nextRefill', time)]]
              /\ UNCHANGED grants
    /\ UNCHANGED <<time, cooldownUntil>>

IbkrAnswers(h) ==
    /\ handler[h] = Sending
    /\ handler' = [handler EXCEPT ![h] = Off]
    /\ UNCHANGED <<time, bucketTokens, refilledAt, nextRefill, cooldownUntil, grants>>

\* release_on_pacing_violation
IbkrRefuses(h) ==
    /\ handler[h] = Sending
    /\ handler' = [handler EXCEPT ![h] = Off]
    /\ bucketTokens' = 0 /\ cooldownUntil' = time + Cooldown /\ nextRefill' = time + Cooldown
    /\ UNCHANGED <<time, refilledAt, grants>>

\* A handler whose client gives up while it sleeps.
CallerLeaves(h) ==
    /\ handler[h].at \in {"reserve", "prewarm"}
    /\ handler' = [handler EXCEPT ![h] = Off]
    /\ UNCHANGED <<time, bucketTokens, refilledAt, nextRefill, cooldownUntil, grants>>
-----------------------------------------------------------------------------
PacingInit ==
    /\ time = 0 /\ bucketTokens = Capacity /\ refilledAt = 0 /\ nextRefill = Window /\ cooldownUntil = 0
    /\ handler = [h \in Handlers |-> Off] /\ grants = {}

PacingNext ==
    \/ Passes
    \/ \E h \in Handlers :
          \/ \E reserve \in BOOLEAN : Acquire(h, reserve)
          \/ IbkrAnswers(h) \/ IbkrRefuses(h) \/ CallerLeaves(h)

PacingSpec == PacingInit /\ [][PacingNext]_pacingVars
-----------------------------------------------------------------------------
PacingTypeOK ==
    /\ bucketTokens \in 0..Capacity /\ refilledAt \in 0..time
    /\ handler \in [Handlers -> [at : {"off", "ibkr", "reserve", "prewarm"},
                                 until : 0..(LastTick + Larger(Window, Cooldown))]]

SentIn(from, to) == Cardinality({g \in grants : from <= g.at /\ g.at < to})

\* Over any stretch of time IBKR is sent no more than a full bucket and what
\* accrues meanwhile, whoever sleeps, wakes and leaves in whatever order: twice
\* the capacity in a window, which is more than the 50 that the class names.
PacedOverall ==
    \A from \in 0..LastTick, length \in 1..(LastTick + 1) :
        SentIn(from, from + length) <= Capacity + (length * Capacity + Window - 1) \div Window

\* No handler sleeps for longer than a window.
SleepsAWindowAtMost ==
    \A h \in Handlers : handler[h].until <= time + Larger(Window, Cooldown)

\* The pace of historical requests.
PacingHolds == PacingTypeOK /\ PacedOverall /\ SleepsAWindowAtMost
=================================================================================
