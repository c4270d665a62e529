---------------------------- MODULE Platform_proofs ----------------------------
(***************************************************************************)
(* Theorems about the Telegram chat, the configuration cache, the tokens   *)
(* of the Schwab connection and the subscriptions of the quote engine, for *)
(* every number of messages, workers, calls, connections and faults.       *)
(***************************************************************************)
EXTENDS TelegramOrders, ConfigCache, SchwabTokens, QuoteSubscriptions,
        FiniteSetTheorems, SequenceTheorems, WellFoundedInduction, TLAPS

-----------------------------------------------------------------------------
(* The chat: a preview is closed before the key that could bring it back   *)
(* is written again.                                                       *)

\* What Redis holds, and what a /confirm has taken from it and may put back,
\* may still be placed, and no two of them are the same preview.
OfferStands == offered # 0 => fate[offered] = "shown"
HeldStands  == \A m \in Texts : holding[m] # 0 =>
                  fate[holding[m]] = "shown" /\ holding[m] # offered
HeldApart   == \A m, n \in Texts : holding[m] # 0 /\ holding[m] = holding[n] => m = n

TelegramInv == TelegramTypeOK /\ NoRevival /\ OfferStands /\ HeldStands /\ HeldApart

Fates == {"shown", "placed", "cancelled", "superseded", "expired", "revived"}

\* Closing what is open leaves alone what is held.
LEMMA ClosedKeepsHeld ==
    ASSUME TelegramInv, NEW how \in Fates \ {"shown", "revived"}
    PROVE  /\ ClosedAs(how) \in Seq(Fates) /\ Len(ClosedAs(how)) = Len(fate)
           /\ \A m \in Texts : holding[m] # 0 => ClosedAs(how)[holding[m]] = "shown"
           /\ \A w \in DOMAIN fate : ClosedAs(how)[w] # "revived"
<1>1. fate \in Seq(Fates) /\ Len(fate) \in Nat /\ DOMAIN fate = 1..Len(fate)
  BY DEF TelegramInv, TelegramTypeOK, Fates
<1> DEFINE of(w) == IF w \in Open THEN how ELSE fate[w]
<1>2. ClosedAs(how) = [w \in 1..Len(fate) |-> of(w)] /\ \A w \in 1..Len(fate) : of(w) \in Fates
  BY <1>1 DEF ClosedAs
<1>3. \A m \in Texts : holding[m] # 0 => holding[m] \in 1..Len(fate) /\ of(holding[m]) = "shown"
  BY <1>1 DEF TelegramInv, TelegramTypeOK, HeldStands, Open
<1>4. \A w \in 1..Len(fate) : of(w) # "revived"
  BY <1>1 DEF TelegramInv, NoRevival
<1> HIDE DEF of
<1> QED
  BY <1>1, <1>2, <1>3, <1>4

LEMMA TelegramInitially == TelegramInit => TelegramInv
<1> SUFFICES ASSUME TelegramInit PROVE TelegramInv
  OBVIOUS
<1> USE DEF TelegramInit
<1>1. TelegramTypeOK
  <2>1. fate \in Seq(Fates) /\ Len(fate) = 0
    OBVIOUS
  <2>2. holding \in [Texts -> 0..Len(fate)] /\ offered \in 0..Len(fate)
    BY <2>1
  <2>3. /\ stage \in [Texts -> {"unsent", "start", "clears", "asks", "selects", "previews",
                                "restores", "done"}]
        /\ command \in [Texts -> Commands]
    BY DEF Commands
  <2> QED
    BY <2>1, <2>2, <2>3 DEF TelegramTypeOK, Fates
<1> QED
  BY <1>1 DEF TelegramInv, NoRevival, OfferStands, HeldStands, HeldApart

LEMMA TelegramStep == TelegramInv /\ [TelegramNext]_telegramVars => TelegramInv'
<1> SUFFICES ASSUME TelegramInv, [TelegramNext]_telegramVars PROVE TelegramInv'
  OBVIOUS
<1>t. /\ fate \in Seq(Fates) /\ Len(fate) \in Nat /\ offered \in 0..Len(fate)
      /\ holding \in [Texts -> 0..Len(fate)] /\ TelegramTypeOK
  BY DEF TelegramInv, TelegramTypeOK, Fates
<1>z. 0 \in 0..Len(fate)
  BY <1>t
<1> DEFINE Stays == UNCHANGED <<holding, offered, fate>>
           Goes(m) == \E s \in {"unsent", "start", "clears", "asks", "selects", "previews",
                                "restores", "done"} : GoTo(m, s)
           TalkTypes == /\ several' \in BOOLEAN /\ live' \in BOOLEAN /\ choosing' \in BOOLEAN
                        /\ stage' \in [Texts -> {"unsent", "start", "clears", "asks", "selects",
                                                 "previews", "restores", "done"}]
                        /\ command' \in [Texts -> Commands] /\ replays' \in Nat
<1>g. ASSUME NEW m \in Texts, Goes(m)
      PROVE  stage' \in [Texts -> {"unsent", "start", "clears", "asks", "selects",
                                   "previews", "restores", "done"}]
  BY <1>g, <1>t DEF TelegramTypeOK, GoTo
<1>s. TalkTypes /\ Stays => TelegramInv'
  BY DEF TelegramInv, TelegramTypeOK, NoRevival, OfferStands, HeldStands, HeldApart
<1> DEFINE Closes(how) == /\ offered' = 0 /\ fate' = ClosedAs(how)
                          /\ UNCHANGED holding
<1>c. ASSUME TalkTypes, NEW how \in Fates \ {"shown", "revived"}, Closes(how)
      PROVE  TelegramInv'
  <2>1. /\ fate' \in Seq(Fates) /\ Len(fate') = Len(fate)
        /\ \A m \in Texts : holding[m] # 0 => fate'[holding[m]] = "shown"
        /\ \A w \in DOMAIN fate : fate'[w] # "revived"
    BY <1>c, ClosedKeepsHeld
  <2>2. TelegramTypeOK'
    BY <1>c, <1>t, <2>1 DEF TelegramTypeOK, Fates
  <2>3. NoRevival'
    BY <1>t, <2>1 DEF NoRevival
  <2> QED
    BY <1>c, <1>t, <2>1, <2>2, <2>3 DEF TelegramInv, OfferStands, HeldStands, HeldApart
<1>1. CASE KeysExpire
  <2>1. TalkTypes
    <3>1. /\ UNCHANGED <<several, live, stage, command>> /\ replays' = replays + 1
          /\ choosing' = FALSE
      BY <1>1 DEF KeysExpire, ForgetKeys
    <3>2. replays' \in Nat
      BY <1>t, <3>1 DEF TelegramTypeOK
    <3>3. choosing' \in BOOLEAN
      BY <3>1
    <3> QED
      BY <1>t, <3>1, <3>2, <3>3 DEF TelegramTypeOK
  <2>2. "expired" \in Fates \ {"shown", "revived"} /\ Closes("expired")
    BY <1>1 DEF KeysExpire, ForgetKeys, Fates
  <2> QED
    BY <1>c, <2>1, <2>2
<1>2. ASSUME NEW m \in Texts, ReceiveText(m) PROVE TelegramInv'
  BY <1>2, <1>t, <1>s, <1>g DEF ReceiveText, TelegramTypeOK
<1>3. ASSUME NEW m \in Texts, Redeliver(m) PROVE TelegramInv'
  BY <1>3, <1>t, <1>s, <1>g DEF Redeliver, TelegramTypeOK
<1>4. ASSUME NEW m \in Texts, HandlerEnds(m) PROVE TelegramInv'
  <2>1. TalkTypes
    BY <1>4, <1>t, <1>g DEF HandlerEnds, TelegramTypeOK, talk
  <2>2. /\ holding' = [holding EXCEPT ![m] = 0] /\ UNCHANGED <<offered, fate>>
        /\ holding' \in [Texts -> 0..Len(fate)]
    BY <1>4, <1>t, <1>z DEF HandlerEnds
  <2>3. TelegramTypeOK'
    BY <1>t, <2>1, <2>2 DEF TelegramTypeOK, Fates
  <2> QED
    BY <1>t, <2>2, <2>3 DEF TelegramInv, NoRevival, OfferStands, HeldStands, HeldApart
<1>5. ASSUME NEW m \in Texts, PlaceReads(m) PROVE TelegramInv'
  BY <1>5, <1>t, <1>s, <1>g DEF PlaceReads, TelegramTypeOK, talk, AfterClearing
<1>6. ASSUME NEW m \in Texts, PlaceClears(m) PROVE TelegramInv'
  BY <1>6, <1>t, <1>c, <1>g DEF PlaceClears, ForgetKeys, TelegramTypeOK, talk, AfterClearing, Fates
<1>7. ASSUME NEW m \in Texts, AskAccount(m) PROVE TelegramInv'
  BY <1>7, <1>t, <1>s, <1>g DEF AskAccount, TelegramTypeOK, talk
<1>8. ASSUME NEW m \in Texts, SelectReads(m) PROVE TelegramInv'
  BY <1>8, <1>t, <1>s, <1>g DEF SelectReads, TelegramTypeOK, talk
<1>9. ASSUME NEW m \in Texts, SelectClears(m) PROVE TelegramInv'
  BY <1>9, <1>t, <1>s, <1>g DEF SelectClears, TelegramTypeOK, talk
<1>10. ASSUME NEW m \in Texts, Preview(m) PROVE TelegramInv'
  <2>1. TalkTypes
    BY <1>10, <1>t, <1>g DEF Preview, TelegramTypeOK, talk
  <2> DEFINE closed == ClosedAs("superseded")
  <2>2. /\ closed \in Seq(Fates) /\ Len(closed) = Len(fate)
        /\ \A n \in Texts : holding[n] # 0 => closed[holding[n]] = "shown"
        /\ \A w \in DOMAIN fate : closed[w] # "revived"
    BY ClosedKeepsHeld DEF Fates
  <2>3. fate' = Append(closed, "shown") /\ offered' = Len(fate) + 1 /\ UNCHANGED holding
    BY <1>10 DEF Preview, talk
  <2> HIDE DEF closed
  <2>4. /\ fate' \in Seq(Fates) /\ Len(fate') = Len(fate) + 1
        /\ fate'[Len(fate) + 1] = "shown" /\ \A w \in 1..Len(fate) : fate'[w] = closed[w]
    <3>1. "shown" \in Fates
      BY DEF Fates
    <3> QED
      BY <1>t, <2>2, <2>3, <3>1
  <2>5. TelegramTypeOK'
    BY <1>t, <2>1, <2>3, <2>4 DEF TelegramTypeOK, Fates
  <2>6. NoRevival'
    BY <1>t, <2>2, <2>4 DEF NoRevival
  <2>7. OfferStands' /\ HeldStands' /\ HeldApart'
    BY <1>t, <2>2, <2>3, <2>4 DEF TelegramInv, OfferStands, HeldStands, HeldApart
  <2> QED
    BY <2>5, <2>6, <2>7 DEF TelegramInv
<1>11. ASSUME NEW m \in Texts, ConfirmTakes(m) PROVE TelegramInv'
  <2>1. TalkTypes
    BY <1>11, <1>t, <1>g DEF ConfirmTakes, TelegramTypeOK, talk
  <2>2. offered' = 0
    BY <1>11 DEF ConfirmTakes, TakenAfter
  <2>3. CASE offered = 0
    BY <1>11, <1>s, <2>1, <2>2, <2>3 DEF ConfirmTakes
  <2>4. CASE offered # 0 /\ live /\ command[m] = "confirm"
    <3>1. holding' = [holding EXCEPT ![m] = offered] /\ UNCHANGED fate
      BY <1>11, <2>4 DEF ConfirmTakes
    <3>2. TelegramTypeOK'
      BY <1>t, <2>1, <2>2, <3>1 DEF TelegramTypeOK, Fates
    <3> QED
      BY <1>t, <2>2, <2>4, <3>1, <3>2
      DEF TelegramInv, NoRevival, OfferStands, HeldStands, HeldApart
  <2>5. CASE offered # 0 /\ ~(live /\ command[m] = "confirm")
    <3>1. /\ UNCHANGED holding /\ fate' = [fate EXCEPT ![offered] = "placed"]
          /\ offered \in DOMAIN fate
      BY <1>11, <1>t, <2>5 DEF ConfirmTakes, PlacedFate, TelegramInv, OfferStands
    <3>2. fate' \in Seq(Fates) /\ Len(fate') = Len(fate)
      <4>1. "placed" \in Fates
        BY DEF Fates
      <4> QED
        BY <1>t, <3>1, <4>1
    <3>3. TelegramTypeOK'
      BY <1>t, <2>1, <2>2, <3>1, <3>2 DEF TelegramTypeOK, Fates
    <3>4. NoRevival'
      BY <1>t, <3>1, <3>2 DEF TelegramInv, NoRevival
    <3> QED
      BY <1>t, <2>2, <3>1, <3>3, <3>4 DEF TelegramInv, OfferStands, HeldStands, HeldApart
  <2> QED
    BY <2>3, <2>4, <2>5
<1>12. ASSUME NEW m \in Texts, ConfirmRestores(m) PROVE TelegramInv'
  <2>1. TalkTypes
    BY <1>12, <1>t, <1>g DEF ConfirmRestores, TelegramTypeOK, talk
  <2>2. /\ offered' = holding[m] /\ fate' = ClosedAs("superseded")
        /\ holding' = [holding EXCEPT ![m] = 0]
    BY <1>12 DEF ConfirmRestores
  <2>3. /\ fate' \in Seq(Fates) /\ Len(fate') = Len(fate)
        /\ \A n \in Texts : holding[n] # 0 => fate'[holding[n]] = "shown"
        /\ \A w \in DOMAIN fate : fate'[w] # "revived"
    BY <2>2, ClosedKeepsHeld DEF Fates
  <2>4. TelegramTypeOK'
    BY <1>t, <1>z, <2>1, <2>2, <2>3 DEF TelegramTypeOK, Fates
  <2>5. NoRevival'
    BY <1>t, <2>3 DEF NoRevival
  <2>6. OfferStands' /\ HeldStands' /\ HeldApart'
    BY <1>t, <2>2, <2>3 DEF TelegramInv, OfferStands, HeldStands, HeldApart
  <2> QED
    BY <2>4, <2>5, <2>6 DEF TelegramInv
<1>13. ASSUME NEW m \in Texts, CancelOrder(m) PROVE TelegramInv'
  BY <1>13, <1>t, <1>c, <1>g DEF CancelOrder, ForgetKeys, TelegramTypeOK, talk, Fates
<1>14. CASE UNCHANGED telegramVars
  BY <1>14, <1>t, <1>s DEF telegramVars, TelegramTypeOK
<1> QED
  BY <1>1, <1>2, <1>3, <1>4, <1>5, <1>6, <1>7, <1>8, <1>9, <1>10, <1>11, <1>12, <1>13, <1>14
  DEF TelegramNext

\* No preview is placed that was placed before, cancelled, superseded or left
\* to expire, however many messages are handled at once (order_flow.py).
THEOREM NothingRevived == TelegramSpec => []TelegramHolds
<1>1. TelegramInv => TelegramHolds
  BY DEF TelegramInv, TelegramHolds
<1> QED
  BY <1>1, TelegramInitially, TelegramStep, PTL DEF TelegramSpec

-----------------------------------------------------------------------------
(* The cache: what a worker has stale is due to be invalidated, or the     *)
(* reason is on record; and its age says since when it is stale.           *)

Busy == {x \in Workers : writing[x] # "idle"}

AgeWithin == clock \in 0..MaxClock /\ \A w \in Workers : entry[w].age <= clock

\* Each commit is published at most once.
SentByCommits == \A w \in Workers : pending[w] + Cardinality(Busy) <= version - 1

\* What is stale was put into the cache before it was replaced.
AgedSince == \A w \in Workers : Stale(w) => clock - supersededAt[w] <= entry[w].age

CacheInv == ConfigTypeOK /\ StaleHasReason /\ AgeWithin /\ SentByCommits /\ AgedSince

LEMMA BusyCounts ==
    ASSUME NEW w \in Workers, writing \in [Workers -> {"idle", "pop", "publish"}],
           writing' \in [Workers -> {"idle", "pop", "publish"}],
           \A x \in Workers \ {w} : writing'[x] = writing[x]
    PROVE  /\ Cardinality(Busy) \in Nat /\ Cardinality(Busy') \in Nat
           /\ writing[w] = "idle" /\ writing'[w] # "idle" =>
                Cardinality(Busy') = Cardinality(Busy) + 1
           /\ writing[w] # "idle" /\ writing'[w] = "idle" =>
                Cardinality(Busy') = Cardinality(Busy) - 1
           /\ (writing[w] = "idle" <=> writing'[w] = "idle") =>
                Cardinality(Busy') = Cardinality(Busy)
<1>1. IsFiniteSet(Busy) /\ IsFiniteSet(Busy')
  <2>1. Busy \in SUBSET Workers /\ Busy' \in SUBSET Workers
    BY DEF Busy
  <2> QED
    BY <2>1, FS_Subset, ConfigBoundsAssumption
<1>2. Cardinality(Busy) \in Nat /\ Cardinality(Busy') \in Nat
  BY <1>1, FS_CardinalityType
<1>3. CASE writing[w] = "idle" /\ writing'[w] # "idle"
  <2>1. Busy' = Busy \cup {w} /\ w \notin Busy
    BY <1>3 DEF Busy
  <2> QED
    BY <1>1, <1>2, <1>3, <2>1, FS_AddElement
<1>4. CASE writing[w] # "idle" /\ writing'[w] = "idle"
  <2>1. Busy' = Busy \ {w} /\ w \in Busy
    BY <1>4 DEF Busy
  <2> QED
    BY <1>1, <1>2, <1>4, <2>1, FS_RemoveElement
<1>5. CASE writing[w] = "idle" <=> writing'[w] = "idle"
  <2>1. Busy' = Busy
    BY <1>5 DEF Busy
  <2> QED
    BY <1>2, <1>5, <2>1
<1> QED
  BY <1>3, <1>4, <1>5

LEMMA CacheInitially == ConfigInit => CacheInv
<1> SUFFICES ASSUME ConfigInit PROVE CacheInv
  OBVIOUS
<1> USE DEF ConfigInit, NoEntry
<1>1. MaxVersions \in Nat \ {0} /\ MaxClock \in Nat
  BY ConfigBoundsAssumption
<1>2. Busy = {} /\ Cardinality(Busy) = 0
  BY FS_EmptySet DEF Busy
<1>3. ConfigTypeOK
  <2>1. version \in 1..MaxVersions /\ present \in BOOLEAN
    BY <1>1
  <2>2. entry \in [Workers -> [v : 0..MaxVersions, age : 0..MaxClock]]
    BY <1>1
  <2>3. /\ reading \in [Workers -> SUBSET (1..MaxVersions)]
        /\ writing \in [Workers -> {"idle", "pop", "publish"}]
        /\ listening \in [Workers -> BOOLEAN]
    OBVIOUS
  <2>4. pending \in [Workers -> 0..MaxVersions] /\ supersededAt \in [Workers -> 0..NotYet]
    BY <1>1 DEF NotYet
  <2> QED
    BY <2>1, <2>2, <2>3, <2>4 DEF ConfigTypeOK
<1>4. \A w \in Workers : ~Stale(w)
  BY DEF Stale
<1>5. AgeWithin /\ SentByCommits
  BY <1>1, <1>2 DEF AgeWithin, SentByCommits
<1> QED
  BY <1>3, <1>4, <1>5 DEF CacheInv, StaleHasReason, AgedSince

\* A worker's entry is dropped: nothing of it is stale.
LEMMA DropKeeps ==
    ASSUME CacheInv, NEW w \in Workers,
           entry' = [entry EXCEPT ![w] = NoEntry],
           excused' = excused \ {w},
           supersededAt' = [supersededAt EXCEPT ![w] = NotYet],
           UNCHANGED <<version, present, clock>>
    PROVE  /\ entry' \in [Workers -> [v : 0..MaxVersions, age : 0..MaxClock]]
           /\ excused' \in SUBSET Workers /\ supersededAt' \in [Workers -> 0..NotYet]
           /\ AgeWithin' /\ AgedSince'
           /\ ~Stale(w)'
           /\ \A x \in Workers \ {w} : Stale(x)' = Stale(x)
<1>1. MaxVersions \in Nat \ {0} /\ MaxClock \in Nat /\ clock \in Nat
  BY ConfigBoundsAssumption DEF CacheInv, AgeWithin
<1>2. NoEntry \in [v : 0..MaxVersions, age : 0..MaxClock] /\ NotYet \in 0..NotYet
      /\ NoEntry.age = 0
  BY <1>1 DEF NoEntry, NotYet
<1>3. entry' \in [Workers -> [v : 0..MaxVersions, age : 0..MaxClock]]
      /\ entry'[w] = NoEntry /\ \A x \in Workers \ {w} : entry'[x] = entry[x]
  BY <1>2 DEF CacheInv, ConfigTypeOK
<1>4. supersededAt' \in [Workers -> 0..NotYet]
      /\ \A x \in Workers \ {w} : supersededAt'[x] = supersededAt[x]
  BY <1>2 DEF CacheInv, ConfigTypeOK
<1>5. ~Stale(w)' /\ \A x \in Workers \ {w} : Stale(x)' = Stale(x)
  BY <1>3 DEF Stale
<1>6. AgeWithin'
  BY <1>1, <1>2, <1>3 DEF CacheInv, AgeWithin
<1>7. AgedSince'
  BY <1>3, <1>4, <1>5 DEF CacheInv, AgedSince
<1> QED
  BY <1>3, <1>4, <1>5, <1>6, <1>7 DEF CacheInv, ConfigTypeOK

LEMMA CacheStep == CacheInv /\ [ConfigNext]_configVars => CacheInv'
<1> SUFFICES ASSUME CacheInv, [ConfigNext]_configVars PROVE CacheInv'
  OBVIOUS
<1>b. MaxVersions \in Nat \ {0} /\ MaxClock \in Nat /\ Ttl \in Nat
  BY ConfigBoundsAssumption
<1>t. /\ version \in 1..MaxVersions /\ present \in BOOLEAN
      /\ entry \in [Workers -> [v : 0..MaxVersions, age : 0..MaxClock]]
      /\ reading \in [Workers -> SUBSET (1..MaxVersions)]
      /\ writing \in [Workers -> {"idle", "pop", "publish"}]
      /\ listening \in [Workers -> BOOLEAN]
      /\ pending \in [Workers -> 0..MaxVersions]
      /\ excused \in SUBSET Workers
      /\ supersededAt \in [Workers -> 0..NotYet]
      /\ clock \in 0..MaxClock
  BY DEF CacheInv, ConfigTypeOK, AgeWithin
<1>i. StaleHasReason /\ AgeWithin /\ SentByCommits /\ AgedSince
  BY DEF CacheInv
\* The same entries and rows.
<1> DEFINE Same == UNCHANGED <<version, present, entry, supersededAt, clock>>
<1>s. Same => AgeWithin' /\ AgedSince' /\ \A x \in Workers : Stale(x)' = Stale(x)
  BY <1>i DEF AgeWithin, AgedSince, Stale
<1>w. UNCHANGED <<writing, version, pending>> => SentByCommits'
  BY <1>i DEF SentByCommits, Busy
<1>1. ASSUME NEW w \in Workers, GetMisses(w) PROVE CacheInv'
  <2>1. /\ entry' \in [Workers -> [v : 0..MaxVersions, age : 0..MaxClock]]
        /\ excused' \in SUBSET Workers /\ supersededAt' \in [Workers -> 0..NotYet]
        /\ AgeWithin' /\ AgedSince' /\ ~Stale(w)'
        /\ \A x \in Workers \ {w} : Stale(x)' = Stale(x)
    BY <1>1, DropKeeps DEF GetMisses
  <2>2. reading' \in [Workers -> SUBSET (1..MaxVersions)]
    BY <1>1, <1>t DEF GetMisses
  <2>3. ConfigTypeOK'
    BY <1>1, <1>t, <2>1, <2>2 DEF GetMisses, ConfigTypeOK
  <2>4. StaleHasReason'
    BY <1>1, <1>i, <2>1 DEF GetMisses, StaleHasReason
  <2> QED
    BY <1>1, <1>w, <2>1, <2>3, <2>4 DEF GetMisses, CacheInv
<1>2. ASSUME NEW w \in Workers, NEW v \in reading[w], StoreFetched(w, v) PROVE CacheInv'
  <2> DEFINE late == ~present \/ v # version
             new == [v |-> v, age |-> 0]
  <2>1. /\ v \in 1..MaxVersions
        /\ new \in [v : 0..MaxVersions, age : 0..MaxClock] /\ new.age = 0 /\ new.v = v
    BY <1>b, <1>t
  <2>2. /\ entry' = [entry EXCEPT ![w] = new]
        /\ excused' = IF late THEN excused \cup {w} ELSE excused \ {w}
        /\ supersededAt' = [supersededAt EXCEPT ![w] = IF late THEN clock ELSE NotYet]
        /\ reading' = [reading EXCEPT ![w] = @ \ {v}]
        /\ UNCHANGED <<version, present, writing, listening, pending, losses, clock>>
    BY <1>2 DEF StoreFetched
  <2> HIDE DEF new
  <2>3. /\ entry' \in [Workers -> [v : 0..MaxVersions, age : 0..MaxClock]]
        /\ entry'[w] = new /\ \A x \in Workers \ {w} : entry'[x] = entry[x]
    BY <1>t, <2>1, <2>2
  <2>4. clock \in 0..NotYet /\ NotYet \in 0..NotYet
    BY <1>b, <1>t DEF NotYet
  <2>5. /\ supersededAt' \in [Workers -> 0..NotYet]
        /\ supersededAt'[w] = (IF late THEN clock ELSE NotYet)
        /\ \A x \in Workers \ {w} : supersededAt'[x] = supersededAt[x]
    BY <1>t, <2>2, <2>4
  <2>6. /\ Stale(w)' => late
        /\ \A x \in Workers \ {w} : Stale(x)' = Stale(x)
    BY <2>1, <2>2, <2>3 DEF Stale
  <2>7. excused' \in SUBSET Workers /\ reading' \in [Workers -> SUBSET (1..MaxVersions)]
    BY <1>t, <2>2
  <2>8. ConfigTypeOK'
    BY <1>t, <2>2, <2>3, <2>5, <2>7 DEF ConfigTypeOK
  <2>9. AgeWithin'
    BY <1>i, <1>t, <2>1, <2>2, <2>3 DEF AgeWithin
  <2>10. AgedSince'
    BY <1>i, <1>t, <2>1, <2>2, <2>3, <2>5, <2>6 DEF AgedSince
  <2>11. StaleHasReason'
    BY <1>i, <2>2, <2>6 DEF StaleHasReason
  <2> QED
    BY <1>w, <2>2, <2>8, <2>9, <2>10, <2>11 DEF CacheInv
<1>3. ASSUME NEW w \in Workers, NEW exists \in BOOLEAN, CommitValue(w, exists) PROVE CacheInv'
  <2>1. /\ version' = version + 1 /\ version + 1 \in 1..MaxVersions /\ present' = exists
        /\ writing[w] = "idle" /\ writing' = [writing EXCEPT ![w] = "pop"]
        /\ supersededAt' = Replaced
        /\ UNCHANGED <<entry, reading, listening, pending, losses, clock, excused>>
    BY <1>3, <1>b, <1>t DEF CommitValue, AfterCommit
  <2>2. /\ writing' \in [Workers -> {"idle", "pop", "publish"}] /\ writing'[w] = "pop"
        /\ \A x \in Workers \ {w} : writing'[x] = writing[x]
    BY <1>t, <2>1
  <2>3. Cardinality(Busy) \in Nat /\ Cardinality(Busy') = Cardinality(Busy) + 1
    BY <1>t, <2>1, <2>2, BusyCounts
  <2>4. SentByCommits'
    BY <1>i, <1>t, <2>1, <2>3 DEF SentByCommits
  <2>5. /\ supersededAt' \in [Workers -> 0..NotYet]
        /\ \A x \in Workers : supersededAt'[x] = IF entry[x] # NoEntry /\ ~Stale(x) THEN clock
                                                 ELSE supersededAt[x]
    <3>1. clock \in 0..NotYet
      BY <1>b, <1>t DEF NotYet
    <3>2. \A x \in Workers : (IF entry[x] # NoEntry /\ ~Stale(x) THEN clock ELSE supersededAt[x])
                             \in 0..NotYet
      BY <1>t, <3>1
    <3> QED
      BY <2>1, <3>2 DEF Replaced
  <2>6. AgedSince'
    <3> SUFFICES ASSUME NEW x \in Workers, Stale(x)'
                 PROVE  clock' - supersededAt'[x] <= entry'[x].age
      BY DEF AgedSince
    <3>1. entry[x] # NoEntry
      BY <2>1 DEF Stale
    <3>2. entry[x].age \in Nat /\ clock \in Nat
      BY <1>t
    <3>3. CASE Stale(x)
      BY <1>i, <2>1, <2>5, <3>3 DEF AgedSince
    <3>4. CASE ~Stale(x)
      BY <2>1, <2>5, <3>1, <3>2, <3>4
    <3> QED
      BY <3>3, <3>4
  <2>7. StaleHasReason'
    BY <2>2 DEF StaleHasReason
  <2>8. ConfigTypeOK'
    BY <1>t, <2>1, <2>2, <2>5 DEF ConfigTypeOK
  <2>9. AgeWithin'
    BY <1>i, <2>1 DEF AgeWithin
  <2> QED
    BY <2>4, <2>6, <2>7, <2>8, <2>9 DEF CacheInv
<1>4. ASSUME NEW w \in Workers, PopOwn(w) PROVE CacheInv'
  <2>1. /\ entry' \in [Workers -> [v : 0..MaxVersions, age : 0..MaxClock]]
        /\ excused' \in SUBSET Workers /\ supersededAt' \in [Workers -> 0..NotYet]
        /\ AgeWithin' /\ AgedSince' /\ ~Stale(w)'
        /\ \A x \in Workers \ {w} : Stale(x)' = Stale(x)
    BY <1>4, DropKeeps DEF PopOwn
  <2>2. /\ writing[w] = "pop" /\ writing' \in [Workers -> {"idle", "pop", "publish"}]
        /\ writing'[w] = "publish" /\ \A x \in Workers \ {w} : writing'[x] = writing[x]
    BY <1>4, <1>t DEF PopOwn
  <2>3. Cardinality(Busy') = Cardinality(Busy)
    BY <1>t, <2>2, BusyCounts
  <2>4. SentByCommits'
    BY <1>4, <1>i, <2>3 DEF PopOwn, SentByCommits
  <2>5. ConfigTypeOK'
    BY <1>4, <1>t, <2>1, <2>2 DEF PopOwn, ConfigTypeOK
  <2>6. StaleHasReason'
    BY <2>2 DEF StaleHasReason
  <2> QED
    BY <2>1, <2>4, <2>5, <2>6 DEF CacheInv
<1>5. ASSUME NEW w \in Workers, Publish(w) \/ PublishFails(w) PROVE CacheInv'
  <2>1. /\ writing[w] = "publish" /\ writing' \in [Workers -> {"idle", "pop", "publish"}]
        /\ writing'[w] = "idle" /\ \A x \in Workers \ {w} : writing'[x] = writing[x]
        /\ Same /\ UNCHANGED <<reading, listening>>
    BY <1>5, <1>t DEF Publish, PublishFails
  <2>2. Cardinality(Busy) \in Nat /\ Cardinality(Busy') \in Nat
        /\ Cardinality(Busy') = Cardinality(Busy) - 1
    BY <1>t, <2>1, BusyCounts
  <2>3. \A x \in Workers : pending'[x] \in {pending[x], pending[x] + 1}
    BY <1>5, <1>t DEF Publish, PublishFails
  <2>4. \A x \in Workers : pending[x] + 1 \in 0..MaxVersions
    BY <1>b, <1>i, <1>t, <2>2 DEF SentByCommits
  <2>5. pending' \in [Workers -> 0..MaxVersions]
    <3>1. CASE Publish(w)
      BY <1>t, <2>4, <3>1 DEF Publish
    <3>2. CASE PublishFails(w)
      BY <1>t, <3>2 DEF PublishFails
    <3> QED
      BY <1>5, <3>1, <3>2
  <2>6. SentByCommits'
    BY <1>i, <1>t, <2>1, <2>2, <2>3 DEF SentByCommits
  <2>7. excused' \in SUBSET Workers
    BY <1>5, <1>t DEF Publish, PublishFails
  <2>8. StaleHasReason'
    <3> SUFFICES ASSUME NEW x \in Workers, Stale(x) PROVE x \in excused' \/ pending'[x] > 0
      BY <1>s, <2>1 DEF StaleHasReason
    <3>1. CASE Publish(w)
      BY <1>t, <3>1 DEF Publish
    <3>2. CASE PublishFails(w)
      BY <3>2 DEF PublishFails
    <3> QED
      BY <1>5, <3>1, <3>2
  <2>9. ConfigTypeOK'
    BY <1>t, <2>1, <2>5, <2>7 DEF ConfigTypeOK
  <2> QED
    BY <1>s, <2>1, <2>6, <2>8, <2>9 DEF CacheInv
<1>6. ASSUME NEW w \in Workers, Deliver(w) PROVE CacheInv'
  <2>1. /\ entry' \in [Workers -> [v : 0..MaxVersions, age : 0..MaxClock]]
        /\ excused' \in SUBSET Workers /\ supersededAt' \in [Workers -> 0..NotYet]
        /\ AgeWithin' /\ AgedSince' /\ ~Stale(w)'
        /\ \A x \in Workers \ {w} : Stale(x)' = Stale(x)
    BY <1>6, DropKeeps DEF Deliver
  <2>2. /\ pending' \in [Workers -> 0..MaxVersions] /\ pending'[w] = pending[w] - 1
        /\ \A x \in Workers \ {w} : pending'[x] = pending[x]
    BY <1>6, <1>t, <1>b DEF Deliver
  <2>3. SentByCommits'
    <3>1. Cardinality(Busy) \in Nat /\ Busy' = Busy /\ version' = version
      BY <1>6, <1>t, BusyCounts DEF Deliver, Busy
    <3> QED
      BY <1>i, <1>t, <2>2, <3>1 DEF SentByCommits
  <2>4. ConfigTypeOK'
    BY <1>6, <1>t, <2>1, <2>2 DEF Deliver, ConfigTypeOK
  <2>5. StaleHasReason'
    BY <1>6, <1>i, <2>1, <2>2 DEF Deliver, StaleHasReason
  <2> QED
    BY <2>1, <2>3, <2>4, <2>5 DEF CacheInv
<1>7. ASSUME NEW w \in Workers, ListenerBreaks(w) PROVE CacheInv'
  <2>1. /\ pending' \in [Workers -> 0..MaxVersions] /\ pending'[w] = 0
        /\ \A x \in Workers \ {w} : pending'[x] = pending[x]
        /\ listening' \in [Workers -> BOOLEAN] /\ Same
    BY <1>7, <1>t, <1>b DEF ListenerBreaks
  <2>2. excused' \in SUBSET Workers
    BY <1>7, <1>t DEF ListenerBreaks
  <2>3. SentByCommits'
    <3>1. Cardinality(Busy) \in Nat /\ Busy' = Busy /\ version' = version
      BY <1>7, <1>t, BusyCounts DEF ListenerBreaks, Busy
    <3>2. \A x \in Workers : pending'[x] <= pending[x]
      BY <1>t, <2>1
    <3> QED
      BY <1>i, <1>t, <2>1, <3>1, <3>2 DEF SentByCommits
  <2>4. StaleHasReason'
    BY <1>7, <1>i, <1>s, <2>1 DEF ListenerBreaks, StaleHasReason
  <2>5. ConfigTypeOK'
    BY <1>7, <1>t, <2>1, <2>2 DEF ListenerBreaks, ConfigTypeOK
  <2> QED
    BY <1>s, <2>1, <2>3, <2>4, <2>5 DEF CacheInv
<1>8. ASSUME NEW w \in Workers, Resubscribe(w) PROVE CacheInv'
  <2>1. listening' \in [Workers -> BOOLEAN]
    BY <1>8, <1>t DEF Resubscribe
  <2>2. ConfigTypeOK'
    BY <1>8, <1>t, <2>1 DEF Resubscribe, ConfigTypeOK
  <2>3. StaleHasReason'
    BY <1>8, <1>i, <1>s DEF Resubscribe, StaleHasReason
  <2> QED
    BY <1>8, <1>s, <1>w, <2>2, <2>3 DEF Resubscribe, CacheInv
<1>9. CASE ClockTicks
  <2>1. /\ clock' = clock + 1 /\ clock + 1 \in 0..MaxClock
        /\ entry' = [w \in Workers |-> IF entry[w] = NoEntry THEN NoEntry
                                       ELSE [entry[w] EXCEPT !.age = @ + 1]]
        /\ UNCHANGED <<version, present, reading, writing, listening, pending, losses, excused,
                       supersededAt>>
    BY <1>9, <1>t, <1>b DEF ClockTicks
  <2>2. \A w \in Workers : /\ entry'[w].v = entry[w].v
                           /\ entry'[w].age = IF entry[w] = NoEntry THEN 0 ELSE entry[w].age + 1
                           /\ entry[w].age \in Nat /\ entry[w].age <= clock
                           /\ entry[w] = NoEntry => entry'[w] = NoEntry
    BY <1>i, <1>t, <2>1 DEF AgeWithin, NoEntry
  <2>3. entry' \in [Workers -> [v : 0..MaxVersions, age : 0..MaxClock]]
    <3>1. NoEntry \in [v : 0..MaxVersions, age : 0..MaxClock]
      BY <1>b DEF NoEntry
    <3>2. ASSUME NEW w \in Workers
          PROVE  [entry[w] EXCEPT !.age = @ + 1] \in [v : 0..MaxVersions, age : 0..MaxClock]
      <4>1. entry[w] \in [v : 0..MaxVersions, age : 0..MaxClock]
        BY <1>t
      <4>2. entry[w].age + 1 \in 0..MaxClock
        BY <1>b, <1>t, <2>1, <2>2
      <4> QED
        BY <4>1, <4>2
    <3> QED
      BY <2>1, <3>1, <3>2
  <2>4. AgeWithin'
    BY <1>t, <2>1, <2>2 DEF AgeWithin
  <2>5. \A w \in Workers : Stale(w)' => Stale(w)
    BY <2>1, <2>2 DEF Stale
  <2>6. AgedSince'
    <3> SUFFICES ASSUME NEW w \in Workers, Stale(w)'
                 PROVE  clock' - supersededAt'[w] <= entry'[w].age
      BY DEF AgedSince
    <3>1. clock - supersededAt[w] <= entry[w].age /\ entry[w] # NoEntry
      BY <1>i, <2>5 DEF AgedSince, Stale
    <3>2. clock \in Nat /\ supersededAt[w] \in Nat /\ entry[w].age \in Nat
      BY <1>t, <1>b DEF NotYet
    <3>3. clock' = clock + 1 /\ entry'[w].age = entry[w].age + 1
      BY <2>1, <2>2, <3>1
    <3>4. supersededAt'[w] = supersededAt[w]
      BY <2>1
    <3> QED
      BY <3>1, <3>2, <3>3, <3>4
  <2>7. StaleHasReason'
    BY <1>i, <2>1, <2>5 DEF StaleHasReason
  <2>8. ConfigTypeOK'
    BY <1>t, <2>1, <2>3 DEF ConfigTypeOK
  <2> QED
    BY <1>w, <2>1, <2>4, <2>6, <2>7, <2>8 DEF CacheInv
<1>10. CASE UNCHANGED configVars
  BY <1>10, <1>i, <1>t, <1>s, <1>w DEF configVars, CacheInv, ConfigTypeOK, StaleHasReason
<1> QED
  BY <1>1, <1>2, <1>3, <1>4, <1>5, <1>6, <1>7, <1>8, <1>9, <1>10 DEF ConfigNext

\* Whoever serves an old value of the configuration is about to be told, or
\* missed the message, or read before the write; and never serves it for longer
\* than the time to live (config_cache.py, config.py).
THEOREM StaleIsBounded == ConfigSpec => []CacheHolds
<1>1. CacheInv => CacheHolds
  <2> SUFFICES ASSUME CacheInv PROVE ServedWithinTtl
    BY DEF CacheInv, CacheHolds
  <2> SUFFICES ASSUME NEW w \in Workers, Stale(w), Fresh(entry[w])
               PROVE  clock - supersededAt[w] <= Ttl
    BY DEF ServedWithinTtl
  <2>1. clock - supersededAt[w] <= entry[w].age /\ entry[w].age <= Ttl
    BY DEF CacheInv, AgedSince, Fresh
  <2>2. /\ clock \in Nat /\ supersededAt[w] \in Nat /\ entry[w].age \in Nat /\ Ttl \in Nat
    BY ConfigBoundsAssumption DEF CacheInv, ConfigTypeOK, AgeWithin, NotYet
  <2> QED
    BY <2>1, <2>2
<1> QED
  BY <1>1, CacheInitially, CacheStep, PTL DEF ConfigSpec

-----------------------------------------------------------------------------
(* The tokens: whoever writes holds the lock, and the stamp read under the *)
(* lock tells which refresh token was stored.                              *)

Ats == InBackend \cup {"idle", "waiting", "replied", "raised", "served", "failed", "cancelled"}

Calls == [at : Ats, token : 0..MaxPairs, stamp : 0..MaxPairs, found : 0..MaxPairs,
          access : 0..MaxPairs, refresh : 0..MaxPairs, owner : Getters \cup {Nobody}]

SchwabTypes ==
    /\ minted \in 1..MaxPairs /\ usable \in SUBSET (1..MaxPairs)
    /\ stored \in [access : 0..MaxPairs, refresh : 0..MaxPairs, stamp : 0..MaxPairs]
    /\ cachedStamp \in -1..MaxPairs /\ statusRead \in -1..MaxPairs
    /\ advisory \in Getters \cup {Nobody, OAuth}
    /\ getter \in [Getters -> Calls]
    /\ oauth \in [at : {"idle", "minted", "access", "refresh", "stamp", "configure", "done",
                        "failed"},
                  pair : 0..MaxPairs]
    /\ wiping \in {"idle", "access", "refresh", "stamp", "done"}
    /\ side \in [fresh : BOOLEAN, flight : Getters \cup {Nobody}]
    /\ grantOf \in [1..MaxPairs -> 0..MaxPairs]

Holding == {"locked", "access", "refresh", "stamp"}

LockHeld ==
    /\ \A c \in Getters : getter[c].at \in Holding => advisory = c
    /\ oauth.at \in {"access", "refresh", "stamp"} => advisory = OAuth

\* What a writer is about to store was minted together.
Granted ==
    /\ \A c \in Getters : getter[c].at \in Holding \cup {"minted"} =>
          getter[c].access \in 1..minted /\ grantOf[getter[c].access] = getter[c].refresh
    /\ oauth.at \in {"minted", "access", "refresh", "stamp"} =>
          oauth.pair \in 1..minted /\ grantOf[oauth.pair] = oauth.pair

Match == grantOf[stored.access] = stored.refresh

\* What is stored, at each step of a writer.
Paired ==
    ~restarted /\ wiping = "idle" =>
       /\ stored.access \in 1..minted
       /\ advisory = Nobody => Match
       /\ \A c \in Getters :
             /\ getter[c].at \in {"locked", "access"} => Match
             /\ getter[c].at \in {"refresh", "stamp"} => stored.access = getter[c].access
             /\ getter[c].at = "stamp" => stored.refresh = getter[c].refresh
       /\ oauth.at \in {"refresh", "stamp"} => stored.access = oauth.pair
       /\ oauth.at = "stamp" => stored.refresh = oauth.pair

StampKnown == ~blind => cachedStamp \in {-1, stored.stamp}

\* The stamp is the number of the refresh token, but for the one a writer has
\* stored and not stamped yet; so the stamp that a refresh read tells which
\* refresh token it found, and the comparison that it is still there.
StampTells ==
    ~restarted /\ ~blind /\ wiping = "idle" =>
       /\ advisory = Nobody => stored.refresh = stored.stamp
       /\ \A c \in Getters :
             /\ getter[c].at \in {"locked", "access", "refresh"} => stored.refresh = stored.stamp
             /\ getter[c].at = "stamp" /\ getter[c].refresh = getter[c].token =>
                   stored.refresh = stored.stamp
             /\ getter[c].at \in {"has_stamp", "minted", "locked", "access", "refresh"} =>
                   getter[c].found = getter[c].stamp
             /\ getter[c].at \in {"access", "refresh"} => stored.refresh = getter[c].found

TokenFacts == LockHeld /\ Granted /\ Paired /\ StampKnown /\ StampTells

TokenInv == SchwabTypes /\ TokenFacts

LEMMA Moved ==
    ASSUME getter \in [Getters -> Calls], NEW c \in Getters, NEW at \in Ats, Moves(c, at)
    PROVE  /\ getter' \in [Getters -> Calls]
           /\ getter'[c].at = at
           /\ getter'[c].token = getter[c].token /\ getter'[c].stamp = getter[c].stamp
           /\ getter'[c].found = getter[c].found /\ getter'[c].access = getter[c].access
           /\ getter'[c].refresh = getter[c].refresh
           /\ \A d \in Getters \ {c} : getter'[d] = getter[d]
BY DEF Moves, Calls

LEMMA Ended ==
    ASSUME getter \in [Getters -> Calls], NEW c \in Getters, NEW at \in Ats, Ends(c, at)
    PROVE  /\ getter' \in [Getters -> Calls]
           /\ getter'[c].at = at
           /\ \A d \in Getters \ {c} : getter'[d] = getter[d]
<1>1. Quiet(at) \in Calls /\ Quiet(at).at = at
  BY SchwabBoundsAssumption DEF Quiet, Calls
<1> QED
  BY <1>1 DEF Ends

\* Steps of calls that neither hold a stamp nor write.
Idly ==
    /\ \A d \in Getters : \/ getter'[d] = getter[d]
                          \/ getter'[d].at \notin Holding \cup {"minted", "has_stamp"}
    /\ oauth' = oauth \/ oauth'.at \notin {"minted", "access", "refresh", "stamp"}
    /\ UNCHANGED <<minted, grantOf, stored, cachedStamp, advisory, wiping, restarted, blind>>

LEMMA IdlyKeeps == TokenInv /\ Idly => TokenFacts'
<1> SUFFICES ASSUME TokenInv, Idly PROVE TokenFacts'
  OBVIOUS
<1>1. LockHeld' /\ Granted'
  BY DEF TokenInv, TokenFacts, LockHeld, Granted, Idly, Holding
<1>2. Paired'
  BY DEF TokenInv, TokenFacts, Paired, Match, Idly, Holding
<1>3. StampKnown' /\ StampTells'
  BY DEF TokenInv, TokenFacts, StampKnown, StampTells, Idly, Holding
<1> QED
  BY <1>1, <1>2, <1>3 DEF TokenFacts

LEMMA SchwabInitially == SchwabInit => TokenInv
<1> SUFFICES ASSUME SchwabInit PROVE TokenInv
  OBVIOUS
<1> USE DEF SchwabInit
<1>b. MaxPairs \in Nat \ {0}
  BY SchwabBoundsAssumption
<1>1. getter \in [Getters -> Calls] /\ \A c \in Getters : getter[c].at = "idle"
  <2>1. Quiet("idle") \in Calls /\ Quiet("idle").at = "idle"
    BY <1>b DEF Quiet, Calls, Ats
  <2> QED
    BY <2>1
<1>2. grantOf \in [1..MaxPairs -> 0..MaxPairs] /\ grantOf[1] = 1
  BY <1>b
<1>3. stored \in [access : 0..MaxPairs, refresh : 0..MaxPairs, stamp : 0..MaxPairs]
      /\ stored.access = 1 /\ stored.refresh = 1 /\ stored.stamp = 1
  BY <1>b
<1>4. side \in [fresh : BOOLEAN, flight : Getters \cup {Nobody}]
  OBVIOUS
<1>5. oauth \in [at : {"idle", "minted", "access", "refresh", "stamp", "configure", "done",
                       "failed"}, pair : 0..MaxPairs]
      /\ oauth.at = "idle"
  BY <1>b
<1>6. SchwabTypes
  BY <1>b, <1>1, <1>2, <1>3, <1>4, <1>5 DEF SchwabTypes
<1>7. LockHeld /\ Granted /\ Paired
  BY <1>1, <1>2, <1>3, <1>5 DEF LockHeld, Granted, Paired, Match, Holding
<1>8. StampKnown /\ StampTells
  BY <1>1, <1>3 DEF StampKnown, StampTells
<1> QED
  BY <1>6, <1>7, <1>8 DEF TokenInv, TokenFacts

\* The steps that say of the types only: the frame of the others.
LEMMA TypesKept ==
    ASSUME SchwabTypes, getter' \in [Getters -> Calls],
           UNCHANGED <<minted, usable, grantOf, stored, statusRead, oauth, wiping>>,
           cachedStamp' \in -1..MaxPairs, advisory' \in Getters \cup {Nobody, OAuth},
           side' \in [fresh : BOOLEAN, flight : Getters \cup {Nobody}]
    PROVE  SchwabTypes'
BY DEF SchwabTypes

LEMMA SidecarStep ==
    ASSUME TokenInv, NEW c \in Getters,
           GetToken(c) \/ Woken(c) \/ WriteBack(c) \/ RefreshFailed(c)
    PROVE  TokenInv'
<1>t. /\ SchwabTypes /\ getter \in [Getters -> Calls] /\ cachedStamp \in -1..MaxPairs
      /\ advisory \in Getters \cup {Nobody, OAuth}
      /\ side \in [fresh : BOOLEAN, flight : Getters \cup {Nobody}]
  BY DEF TokenInv, SchwabTypes
<1>1. /\ UNCHANGED <<minted, usable, grantOf, stored, statusRead, oauth, wiping, cachedStamp,
                     advisory, restarted, blind>>
  BY DEF GetToken, Woken, WriteBack, RefreshFailed, pairVars, tableVars
<1>2. /\ getter' \in [Getters -> Calls]
      /\ \A d \in Getters : getter'[d] = getter[d] \/ getter'[d].at \in
                              {"served", "waiting", "asked", "failed"}
      /\ side' \in [fresh : BOOLEAN, flight : Getters \cup {Nobody}]
  <2>1. CASE GetToken(c)
    <3>1. CASE side.fresh /\ Moves(c, "served") /\ UNCHANGED side
      BY <1>t, <3>1, Moved DEF Ats
    <3>2. CASE /\ ~side.fresh /\ side.flight # Nobody
               /\ getter' = [getter EXCEPT ![c].at = "waiting", ![c].owner = side.flight]
               /\ UNCHANGED side
      <4> DEFINE new == [getter[c] EXCEPT !.at = "waiting", !.owner = side.flight]
      <4>1. new \in Calls /\ new.at = "waiting"
        <5>1. getter[c] \in Calls /\ "waiting" \in Ats /\ side.flight \in Getters \cup {Nobody}
          BY <1>t DEF Ats
        <5> QED
          BY <5>1 DEF Calls
      <4>2. getter' = [getter EXCEPT ![c] = new]
        BY <1>t, <3>2
      <4> HIDE DEF new
      <4> QED
        BY <1>t, <3>2, <4>1, <4>2
    <3>3. CASE /\ ~side.fresh /\ side.flight = Nobody
               /\ Moves(c, "asked") /\ side' = [side EXCEPT !.flight = c]
      <4>1. side' \in [fresh : BOOLEAN, flight : Getters \cup {Nobody}]
        BY <1>t, <3>3
      <4> QED
        BY <1>t, <3>3, <4>1, Moved DEF Ats, InBackend
    <3> QED
      BY <2>1, <3>1, <3>2, <3>3 DEF GetToken
  <2>2. CASE Woken(c)
    BY <1>t, <2>2, Ended DEF Woken, Ats
  <2>3. CASE WriteBack(c) \/ RefreshFailed(c)
    <3>1. side' \in [fresh : BOOLEAN, flight : Getters \cup {Nobody}]
      <4>1. [fresh |-> TRUE, flight |-> Nobody] \in [fresh : BOOLEAN, flight : Getters \cup {Nobody}]
            /\ [fresh |-> FALSE, flight |-> Nobody] \in [fresh : BOOLEAN, flight : Getters \cup {Nobody}]
        OBVIOUS
      <4> QED
        BY <1>t, <2>3, <4>1 DEF WriteBack, RefreshFailed, WritesBack
    <3>2. Ends(c, "served") \/ Ends(c, "failed")
      BY <2>3 DEF WriteBack, RefreshFailed
    <3> QED
      BY <1>t, <3>1, <3>2, Ended DEF Ats
  <2> QED
    BY <2>1, <2>2, <2>3
<1>3. Idly
  BY <1>1, <1>2 DEF Idly, Holding
<1>4. SchwabTypes'
  BY <1>t, <1>1, <1>2, TypesKept
<1> QED
  BY <1>3, <1>4, IdlyKeeps DEF TokenInv

\* The steps of a refresh that neither read the stamp, mint nor lock.
LEMMA AsksStep ==
    ASSUME TokenInv, NEW c \in Getters, ReadToken(c) \/ LockTimesOut(c) \/ MintFails(c)
    PROVE  TokenInv'
<1>t. /\ SchwabTypes /\ getter \in [Getters -> Calls] /\ cachedStamp \in -1..MaxPairs
      /\ advisory \in Getters \cup {Nobody, OAuth}
      /\ side \in [fresh : BOOLEAN, flight : Getters \cup {Nobody}]
      /\ stored.refresh \in 0..MaxPairs
  BY DEF TokenInv, SchwabTypes
<1>1. UNCHANGED <<minted, usable, grantOf, stored, statusRead, oauth, wiping, cachedStamp,
                  advisory, side, restarted, blind>>
  BY DEF ReadToken, LockTimesOut, MintFails, pairVars, tableVars
<1>2. /\ getter' \in [Getters -> Calls]
      /\ \A d \in Getters : getter'[d] = getter[d] \/ getter'[d].at \in {"has_token", "raised"}
  <2>1. CASE ReadToken(c)
    <3> DEFINE then == [getter[c] EXCEPT !.at = "has_token", !.token = stored.refresh]
    <3>1. getter' = [getter EXCEPT ![c] = then]
      BY <2>1 DEF ReadToken
    <3>2. then \in Calls /\ then.at = "has_token"
      BY <1>t DEF Calls, Ats, InBackend
    <3> QED
      BY <1>t, <3>1, <3>2
  <2>2. CASE LockTimesOut(c) \/ MintFails(c)
    BY <1>t, <2>2, Ended DEF LockTimesOut, MintFails, Ats
  <2> QED
    BY <2>1, <2>2
<1>3. Idly
  BY <1>1, <1>2 DEF Idly, Holding
<1>4. SchwabTypes'
  BY <1>t, <1>1, <1>2, TypesKept
<1> QED
  BY <1>3, <1>4, IdlyKeeps DEF TokenInv

LEMMA ReadStampStep ==
    ASSUME TokenInv, NEW c \in Getters, ReadStamp(c)
    PROVE  TokenInv'
<1>t. /\ SchwabTypes /\ getter \in [Getters -> Calls] /\ cachedStamp \in -1..MaxPairs
      /\ stored \in [access : 0..MaxPairs, refresh : 0..MaxPairs, stamp : 0..MaxPairs]
      /\ side \in [fresh : BOOLEAN, flight : Getters \cup {Nobody}]
      /\ advisory \in Getters \cup {Nobody, OAuth} /\ MaxPairs \in Nat
  BY SchwabBoundsAssumption DEF TokenInv, SchwabTypes
<1>1. /\ advisory = Nobody
      /\ getter' = [getter EXCEPT ![c].at = "has_stamp", ![c].stamp = Stamp, ![c].found = stored.refresh]
      /\ cachedStamp' = IF stored.stamp = 0 THEN cachedStamp ELSE Stamp
      /\ UNCHANGED <<minted, usable, grantOf, stored, statusRead, advisory, oauth, wiping, side,
                     restarted, blind>>
  BY DEF ReadStamp, pairVars
<1>2. Stamp \in 0..MaxPairs
  BY <1>t DEF Stamp
<1>3. /\ getter' \in [Getters -> Calls] /\ getter'[c].at = "has_stamp"
      /\ getter'[c].stamp = Stamp /\ getter'[c].found = stored.refresh
      /\ \A d \in Getters \ {c} : getter'[d] = getter[d]
  <2> DEFINE new == [getter[c] EXCEPT !.at = "has_stamp", !.stamp = Stamp, !.found = stored.refresh]
  <2>1. new \in Calls /\ new.at = "has_stamp" /\ new.stamp = Stamp /\ new.found = stored.refresh
    <3>1. getter[c] \in Calls /\ "has_stamp" \in Ats /\ stored.refresh \in 0..MaxPairs
      BY <1>t DEF Ats, InBackend
    <3> QED
      BY <1>2, <3>1 DEF Calls
  <2>2. getter' = [getter EXCEPT ![c] = new]
    BY <1>t, <1>1
  <2> HIDE DEF new
  <2> QED
    BY <1>t, <2>1, <2>2
<1>4. SchwabTypes'
  BY <1>t, <1>1, <1>2, <1>3, TypesKept
<1>5. LockHeld' /\ Granted' /\ Paired'
  BY <1>1, <1>3 DEF TokenInv, TokenFacts, LockHeld, Granted, Paired, Match, Holding
<1>6. ~blind => Stamp = stored.stamp
  BY <1>t DEF TokenInv, TokenFacts, StampKnown, Stamp
<1>7. StampKnown'
  BY <1>1, <1>6 DEF TokenInv, TokenFacts, StampKnown
<1>8. StampTells'
  BY <1>1, <1>3, <1>6 DEF TokenInv, TokenFacts, StampTells
<1> QED
  BY <1>4, <1>5, <1>7, <1>8 DEF TokenInv, TokenFacts

LEMMA MintStep ==
    ASSUME TokenInv, NEW c \in Getters, Mint(c)
    PROVE  TokenInv'
<1>t. /\ SchwabTypes /\ getter \in [Getters -> Calls] /\ minted \in 1..MaxPairs
      /\ grantOf \in [1..MaxPairs -> 0..MaxPairs] /\ MaxPairs \in Nat
      /\ usable \in SUBSET (1..MaxPairs)
  BY SchwabBoundsAssumption DEF TokenInv, SchwabTypes
<1>1. PICK rotates \in BOOLEAN :
         LET r == IF rotates THEN minted + 1 ELSE getter[c].token IN
         /\ usable' \in {usable \cup {r}, (usable \ {getter[c].token}) \cup {r}}
         /\ grantOf' = [grantOf EXCEPT ![minted + 1] = r]
         /\ getter' = [getter EXCEPT ![c].at = "minted", ![c].access = minted + 1,
                                     ![c].refresh = r]
  BY DEF Mint
<1> DEFINE r == IF rotates THEN minted + 1 ELSE getter[c].token
<1>2. /\ getter[c].at = "has_stamp" /\ getter[c].token \in usable
      /\ minted' = minted + 1 /\ minted + 1 \in 1..MaxPairs
      /\ UNCHANGED <<stored, cachedStamp, statusRead, advisory, oauth, wiping, side, restarted, blind>>
  BY <1>t DEF Mint, Going, tableVars
<1>3. r \in 1..MaxPairs
  BY <1>t, <1>2
<1> HIDE DEF r
<1>4. /\ usable' \in {usable \cup {r}, (usable \ {getter[c].token}) \cup {r}}
      /\ grantOf' = [grantOf EXCEPT ![minted + 1] = r]
      /\ getter' = [getter EXCEPT ![c].at = "minted", ![c].access = minted + 1, ![c].refresh = r]
  BY <1>1 DEF r
<1>5. /\ getter' \in [Getters -> Calls] /\ getter'[c].at = "minted"
      /\ getter'[c].access = minted + 1 /\ getter'[c].refresh = r
      /\ getter'[c].stamp = getter[c].stamp /\ getter'[c].found = getter[c].found
      /\ \A d \in Getters \ {c} : getter'[d] = getter[d]
  <2> DEFINE new == [getter[c] EXCEPT !.at = "minted", !.access = minted + 1, !.refresh = r]
  <2>1. /\ new \in Calls /\ new.at = "minted" /\ new.access = minted + 1 /\ new.refresh = r
        /\ new.stamp = getter[c].stamp /\ new.found = getter[c].found
    <3>1. getter[c] \in Calls /\ "minted" \in Ats /\ r \in 0..MaxPairs /\ minted + 1 \in 0..MaxPairs
      BY <1>t, <1>2, <1>3 DEF Ats, InBackend
    <3> QED
      BY <3>1 DEF Calls
  <2>2. getter' = [getter EXCEPT ![c] = new]
    BY <1>t, <1>4
  <2> HIDE DEF new
  <2> QED
    BY <1>t, <2>1, <2>2
<1>6. /\ grantOf' \in [1..MaxPairs -> 0..MaxPairs] /\ grantOf'[minted + 1] = r
      /\ \A n \in 1..minted : grantOf'[n] = grantOf[n] /\ n \in 1..minted'
      /\ minted + 1 \in 1..minted'
  BY <1>t, <1>2, <1>3, <1>4
<1>7. usable' \in SUBSET (1..MaxPairs)
  BY <1>t, <1>3, <1>4
<1>8. SchwabTypes'
  BY <1>t, <1>2, <1>5, <1>6, <1>7 DEF SchwabTypes
<1>9. LockHeld'
  BY <1>2, <1>5 DEF TokenInv, TokenFacts, LockHeld, Holding
<1>10. Granted'
  BY <1>2, <1>5, <1>6 DEF TokenInv, TokenFacts, Granted, Holding
<1>11. Paired'
  BY <1>2, <1>5, <1>6 DEF TokenInv, TokenFacts, Paired, Match
<1>12. StampKnown' /\ StampTells'
  BY <1>2, <1>5 DEF TokenInv, TokenFacts, StampKnown, StampTells
<1> QED
  BY <1>8, <1>9, <1>10, <1>11, <1>12 DEF TokenInv, TokenFacts

LEMMA CompareStep ==
    ASSUME TokenInv, NEW c \in Getters, Lock(c) \/ Compare(c)
    PROVE  TokenInv'
<1>t. /\ SchwabTypes /\ getter \in [Getters -> Calls] /\ cachedStamp \in -1..MaxPairs
      /\ stored \in [access : 0..MaxPairs, refresh : 0..MaxPairs, stamp : 0..MaxPairs]
      /\ side \in [fresh : BOOLEAN, flight : Getters \cup {Nobody}]
      /\ advisory \in Getters \cup {Nobody, OAuth} /\ MaxPairs \in Nat
      /\ Nobody \notin Getters /\ OAuth # Nobody
  BY SchwabBoundsAssumption, OwnersAssumption DEF TokenInv, SchwabTypes
<1>a. "locked" \in Ats /\ "access" \in Ats /\ "replied" \in Ats
  BY DEF Ats, InBackend
<1>1. CASE Lock(c)
  <2>1. /\ getter[c].at = "minted" /\ advisory = Nobody /\ advisory' = c /\ Moves(c, "locked")
        /\ UNCHANGED <<minted, usable, grantOf, stored, cachedStamp, statusRead, oauth, wiping, side,
                       restarted, blind>>
    BY <1>1 DEF Lock, Going, pairVars
  <2>2. /\ getter' \in [Getters -> Calls] /\ getter'[c].at = "locked"
        /\ getter'[c].stamp = getter[c].stamp /\ getter'[c].found = getter[c].found
        /\ getter'[c].access = getter[c].access /\ getter'[c].refresh = getter[c].refresh
        /\ \A d \in Getters \ {c} : getter'[d] = getter[d]
    BY <1>t, <1>a, <2>1, Moved
  <2>3. SchwabTypes'
    BY <1>t, <2>1, <2>2, TypesKept
  <2>4. LockHeld' /\ Granted'
    BY <1>t, <2>1, <2>2 DEF TokenInv, TokenFacts, LockHeld, Granted, Holding
  <2>5. Paired' /\ StampKnown'
    BY <1>t, <2>1, <2>2 DEF TokenInv, TokenFacts, Paired, Match, StampKnown
  <2>6. StampTells'
    BY <1>t, <2>1, <2>2 DEF TokenInv, TokenFacts, StampTells
  <2> QED
    BY <2>3, <2>4, <2>5, <2>6 DEF TokenInv, TokenFacts
<1>2. CASE Compare(c)
  <2>1. /\ getter[c].at = "locked" /\ advisory = c
        /\ cachedStamp' = IF stored.stamp = 0 THEN cachedStamp ELSE Stamp
        /\ UNCHANGED <<minted, usable, grantOf, stored, statusRead, oauth, wiping, side, restarted,
                       blind>>
    BY <1>2 DEF Compare, Going, pairVars, TokenInv, TokenFacts, LockHeld, Holding
  <2>2. Stamp \in 0..MaxPairs /\ (~blind => Stamp = stored.stamp)
    BY <1>t DEF Stamp, TokenInv, TokenFacts, StampKnown
  <2>3. StampKnown'
    BY <2>1, <2>2 DEF TokenInv, TokenFacts, StampKnown
  <2>4. CASE UnchangedSince(c)
    <3>1. Moves(c, "access") /\ UNCHANGED advisory
      BY <1>2, <2>4 DEF Compare
    <3>2. /\ getter' \in [Getters -> Calls] /\ getter'[c].at = "access"
          /\ getter'[c].stamp = getter[c].stamp /\ getter'[c].found = getter[c].found
          /\ getter'[c].access = getter[c].access /\ getter'[c].refresh = getter[c].refresh
          /\ \A d \in Getters \ {c} : getter'[d] = getter[d]
      BY <1>t, <1>a, <3>1, Moved
    <3>3. SchwabTypes'
      BY <1>t, <2>1, <2>2, <3>1, <3>2, TypesKept
    <3>4. LockHeld' /\ Granted'
      BY <2>1, <3>1, <3>2 DEF TokenInv, TokenFacts, LockHeld, Granted, Holding
    <3>5. Paired'
      BY <1>t, <2>1, <3>1, <3>2 DEF TokenInv, TokenFacts, Paired, Match
    <3>6. StampTells'
      BY <1>t, <2>1, <2>2, <2>4, <3>1, <3>2 DEF TokenInv, TokenFacts, StampTells, UnchangedSince
    <3> QED
      BY <2>3, <3>3, <3>4, <3>5, <3>6 DEF TokenInv, TokenFacts
  <2>5. CASE ~UnchangedSince(c)
    <3>1. Ends(c, "replied") /\ advisory' = Nobody
      BY <1>2, <2>5 DEF Compare
    <3>2. /\ getter' \in [Getters -> Calls] /\ getter'[c].at = "replied"
          /\ \A d \in Getters \ {c} : getter'[d] = getter[d] /\ getter[d].at \notin Holding
          /\ oauth.at \notin {"access", "refresh", "stamp"}
      BY <1>t, <1>a, <2>1, <3>1, Ended, OwnersAssumption DEF TokenInv, TokenFacts, LockHeld
    <3>3. SchwabTypes'
      BY <1>t, <2>1, <2>2, <3>1, <3>2, TypesKept
    <3>4. LockHeld' /\ Granted'
      BY <2>1, <3>1, <3>2 DEF TokenInv, TokenFacts, LockHeld, Granted, Holding
    <3>5. Paired'
      BY <1>t, <2>1, <3>1, <3>2 DEF TokenInv, TokenFacts, Paired, Match, Holding
    <3>6. StampTells'
      BY <1>t, <2>1, <3>1, <3>2 DEF TokenInv, TokenFacts, StampTells, Holding
    <3> QED
      BY <2>3, <3>3, <3>4, <3>5, <3>6 DEF TokenInv, TokenFacts
  <2> QED
    BY <2>4, <2>5
<1> QED
  BY <1>1, <1>2

\* The three writes of a refresh, in the lock.
LEMMA StoreStep ==
    ASSUME TokenInv, NEW c \in Getters, StoreAccess(c) \/ StoreRefresh(c) \/ StoreStamp(c)
    PROVE  TokenInv'
<1>t. /\ SchwabTypes /\ getter \in [Getters -> Calls] /\ cachedStamp \in -1..MaxPairs
      /\ stored \in [access : 0..MaxPairs, refresh : 0..MaxPairs, stamp : 0..MaxPairs]
      /\ side \in [fresh : BOOLEAN, flight : Getters \cup {Nobody}]
      /\ advisory \in Getters \cup {Nobody, OAuth} /\ MaxPairs \in Nat
      /\ Nobody \notin Getters /\ OAuth \notin Getters
      /\ getter[c].access \in 0..MaxPairs /\ getter[c].refresh \in 0..MaxPairs
  BY SchwabBoundsAssumption, OwnersAssumption DEF TokenInv, SchwabTypes, Calls
<1>a. "refresh" \in Ats /\ "stamp" \in Ats /\ "replied" \in Ats
  BY DEF Ats, InBackend
<1>l. getter[c].at \in Holding => /\ advisory = c /\ oauth.at \notin {"access", "refresh", "stamp"}
                                  /\ \A d \in Getters \ {c} : getter[d].at \notin Holding
  BY <1>t DEF TokenInv, TokenFacts, LockHeld
<1>1. CASE StoreAccess(c)
  <2>1. /\ getter[c].at = "access" /\ stored' = [stored EXCEPT !.access = getter[c].access]
        /\ Moves(c, "refresh")
        /\ UNCHANGED <<minted, usable, grantOf, cachedStamp, statusRead, advisory, oauth, wiping,
                       side, restarted, blind>>
    BY <1>1 DEF StoreAccess, Going, pairVars
  <2>2. /\ getter' \in [Getters -> Calls] /\ getter'[c].at = "refresh"
        /\ getter'[c].token = getter[c].token
        /\ getter'[c].stamp = getter[c].stamp /\ getter'[c].found = getter[c].found
        /\ getter'[c].access = getter[c].access /\ getter'[c].refresh = getter[c].refresh
        /\ \A d \in Getters \ {c} : getter'[d] = getter[d]
    BY <1>t, <1>a, <2>1, Moved
  <2>3. /\ stored' \in [access : 0..MaxPairs, refresh : 0..MaxPairs, stamp : 0..MaxPairs]
        /\ stored'.access = getter[c].access /\ stored'.refresh = stored.refresh
        /\ stored'.stamp = stored.stamp
    BY <1>t, <2>1
  <2>4. SchwabTypes'
    BY <1>t, <2>1, <2>2, <2>3 DEF SchwabTypes
  <2>5. advisory = c /\ LockHeld' /\ Granted'
    BY <1>l, <2>1, <2>2 DEF TokenInv, TokenFacts, LockHeld, Granted, Holding
  <2>6. Paired'
    BY <1>t, <1>l, <2>1, <2>2, <2>3, <2>5 DEF TokenInv, TokenFacts, Paired, Granted, Holding
  <2>7. StampKnown' /\ StampTells'
    BY <1>t, <2>1, <2>2, <2>3, <2>5 DEF TokenInv, TokenFacts, StampKnown, StampTells
  <2> QED
    BY <2>4, <2>5, <2>6, <2>7 DEF TokenInv, TokenFacts
<1>2. CASE StoreRefresh(c)
  <2>1. /\ getter[c].at = "refresh" /\ stored' = [stored EXCEPT !.refresh = getter[c].refresh]
        /\ blind' = (blind \/ (getter[c].refresh = getter[c].token /\ getter[c].token # stored.refresh))
        /\ Moves(c, "stamp")
        /\ UNCHANGED <<minted, usable, grantOf, cachedStamp, statusRead, advisory, oauth, wiping,
                       side, restarted>>
    BY <1>2 DEF StoreRefresh, Going, pairVars
  <2>2. /\ getter' \in [Getters -> Calls] /\ getter'[c].at = "stamp"
        /\ getter'[c].token = getter[c].token
        /\ getter'[c].access = getter[c].access /\ getter'[c].refresh = getter[c].refresh
        /\ \A d \in Getters \ {c} : getter'[d] = getter[d]
    BY <1>t, <1>a, <2>1, Moved
  <2>3. /\ stored' \in [access : 0..MaxPairs, refresh : 0..MaxPairs, stamp : 0..MaxPairs]
        /\ stored'.refresh = getter[c].refresh /\ stored'.access = stored.access
        /\ stored'.stamp = stored.stamp
    BY <1>t, <2>1
  <2>4. SchwabTypes'
    BY <1>t, <2>1, <2>2, <2>3 DEF SchwabTypes
  <2>5. advisory = c /\ LockHeld' /\ Granted'
    BY <1>l, <2>1, <2>2 DEF TokenInv, TokenFacts, LockHeld, Granted, Holding
  <2>6. Paired'
    BY <1>t, <1>l, <2>1, <2>2, <2>3, <2>5 DEF TokenInv, TokenFacts, Paired, Granted, Holding
  <2>7. StampKnown'
    BY <2>1, <2>3 DEF TokenInv, TokenFacts, StampKnown
  <2>8. ~blind' => /\ ~blind
                   /\ getter[c].refresh = getter[c].token => getter[c].refresh = stored.refresh
    BY <2>1
  <2>9. StampTells'
    BY <1>t, <1>l, <2>1, <2>2, <2>3, <2>5, <2>8 DEF TokenInv, TokenFacts, StampTells, Holding
  <2> QED
    BY <2>4, <2>5, <2>6, <2>7, <2>9 DEF TokenInv, TokenFacts
<1>3. CASE StoreStamp(c)
  <2>1. /\ getter[c].at = "stamp" /\ Ends(c, "replied") /\ advisory' = Nobody
        /\ UNCHANGED <<minted, usable, grantOf, statusRead, oauth, wiping, side, restarted, blind>>
    BY <1>3 DEF StoreStamp, Going, pairVars
  <2>2. /\ getter' \in [Getters -> Calls] /\ getter'[c].at = "replied"
        /\ \A d \in Getters \ {c} : getter'[d] = getter[d]
    BY <1>t, <1>a, <2>1, Ended
  <2>3. /\ stored' \in [access : 0..MaxPairs, refresh : 0..MaxPairs, stamp : 0..MaxPairs]
        /\ stored'.access = stored.access /\ stored'.refresh = stored.refresh
        /\ cachedStamp' \in -1..MaxPairs
        /\ \/ getter[c].refresh # getter[c].token /\ stored'.stamp = getter[c].refresh
              /\ cachedStamp' = -1
           \/ getter[c].refresh = getter[c].token /\ UNCHANGED <<stored, cachedStamp>>
    <3>1. CASE getter[c].refresh # getter[c].token
      <4>1. stored' = [stored EXCEPT !.stamp = getter[c].refresh] /\ cachedStamp' = -1
        BY <1>3, <3>1 DEF StoreStamp
      <4> QED
        BY <1>t, <3>1, <4>1
    <3>2. CASE getter[c].refresh = getter[c].token
      BY <1>t, <1>3, <3>2 DEF StoreStamp
    <3> QED
      BY <3>1, <3>2
  <2>4. SchwabTypes'
    BY <1>t, <2>1, <2>2, <2>3 DEF SchwabTypes
  <2>5. LockHeld' /\ Granted'
    BY <1>l, <2>1, <2>2 DEF TokenInv, TokenFacts, LockHeld, Granted, Holding
  <2>6. Paired'
    BY <1>t, <1>l, <2>1, <2>2, <2>3 DEF TokenInv, TokenFacts, Paired, Match, Granted, Holding
  <2>7. StampKnown'
    BY <2>1, <2>3 DEF TokenInv, TokenFacts, StampKnown
  <2>8. StampTells'
    <3>1. ~restarted /\ wiping = "idle" => stored.refresh = getter[c].refresh
      BY <2>1 DEF TokenInv, TokenFacts, Paired
    <3>2. ~restarted /\ ~blind /\ wiping = "idle" => stored'.refresh = stored'.stamp
      BY <2>1, <2>3, <3>1 DEF TokenInv, TokenFacts, StampTells
    <3> QED
      BY <1>t, <1>l, <2>1, <2>2, <2>3, <3>2 DEF TokenInv, TokenFacts, StampTells, Holding
  <2> QED
    BY <2>4, <2>5, <2>6, <2>7, <2>8 DEF TokenInv, TokenFacts
<1> QED
  BY <1>1, <1>2, <1>3

\* Everything but the calls of the sidecar.
LEMMA RestStep ==
    ASSUME TokenInv,
           \/ TokenAges \/ Exchange \/ OAuthLocks \/ OAuthTimesOut \/ OAuthStores \/ Configure
           \/ Wipe \/ StatusReads \/ StatusCaches \/ BackendRestarts
           \/ \E c \in Getters : GetterCancelled(c)
    PROVE  TokenInv'
<1>t. /\ SchwabTypes /\ getter \in [Getters -> Calls] /\ cachedStamp \in -1..MaxPairs
      /\ stored \in [access : 0..MaxPairs, refresh : 0..MaxPairs, stamp : 0..MaxPairs]
      /\ oauth \in [at : {"idle", "minted", "access", "refresh", "stamp", "configure", "done",
                          "failed"}, pair : 0..MaxPairs]
      /\ side \in [fresh : BOOLEAN, flight : Getters \cup {Nobody}]
      /\ advisory \in Getters \cup {Nobody, OAuth} /\ MaxPairs \in Nat \ {0}
      /\ Nobody \notin Getters /\ OAuth \notin Getters /\ Nobody # OAuth
      /\ minted \in 1..MaxPairs /\ grantOf \in [1..MaxPairs -> 0..MaxPairs]
  BY SchwabBoundsAssumption, OwnersAssumption DEF TokenInv, SchwabTypes
<1>f. LockHeld /\ Granted /\ Paired /\ StampKnown /\ StampTells
  BY DEF TokenInv, TokenFacts
<1>1. CASE TokenAges
  <2>1. side' \in [fresh : BOOLEAN, flight : Getters \cup {Nobody}]
    BY <1>1, <1>t DEF TokenAges
  <2>2. SchwabTypes'
    BY <1>1, <1>t, <2>1 DEF TokenAges, SchwabTypes, pairVars, tableVars
  <2>3. Idly
    BY <1>1 DEF TokenAges, Idly, pairVars, tableVars
  <2> QED
    BY <2>2, <2>3, IdlyKeeps DEF TokenInv
<1>2. CASE Exchange
  <2>1. /\ oauth.at = "idle" /\ minted' = minted + 1 /\ minted + 1 \in 1..MaxPairs
        /\ usable' = usable \cup {minted + 1}
        /\ grantOf' = [grantOf EXCEPT ![minted + 1] = minted + 1]
        /\ oauth' = [at |-> "minted", pair |-> minted + 1]
        /\ UNCHANGED <<stored, cachedStamp, statusRead, advisory, getter, wiping, side, restarted, blind>>
    BY <1>2, <1>t DEF Exchange, tableVars
  <2>2. /\ grantOf' \in [1..MaxPairs -> 0..MaxPairs] /\ grantOf'[minted + 1] = minted + 1
        /\ \A n \in 1..minted : grantOf'[n] = grantOf[n] /\ n \in 1..minted'
        /\ minted + 1 \in 1..minted' /\ minted + 1 \in 0..MaxPairs
    BY <1>t, <2>1
  <2>3. SchwabTypes'
    BY <1>t, <2>1, <2>2 DEF SchwabTypes
  <2>4. LockHeld' /\ Granted'
    BY <1>f, <2>1, <2>2 DEF LockHeld, Granted
  <2>5. Paired'
    BY <1>f, <2>1, <2>2 DEF Paired, Match
  <2>6. StampKnown' /\ StampTells'
    BY <1>f, <2>1 DEF StampKnown, StampTells
  <2> QED
    BY <2>3, <2>4, <2>5, <2>6 DEF TokenInv, TokenFacts
<1>3. CASE OAuthLocks
  <2>1. /\ oauth.at = "minted" /\ advisory = Nobody /\ advisory' = OAuth
        /\ oauth' = [oauth EXCEPT !.at = "access"]
        /\ UNCHANGED <<minted, usable, grantOf, stored, cachedStamp, statusRead, getter, wiping,
                       side, restarted, blind>>
    BY <1>3 DEF OAuthLocks, MayPersist, pairVars
  <2>2. /\ oauth' \in [at : {"idle", "minted", "access", "refresh", "stamp", "configure", "done",
                             "failed"}, pair : 0..MaxPairs]
        /\ oauth'.at = "access" /\ oauth'.pair = oauth.pair
    BY <1>t, <2>1
  <2>3. SchwabTypes'
    BY <1>t, <2>1, <2>2 DEF SchwabTypes
  <2>4. LockHeld' /\ Granted'
    BY <1>t, <1>f, <2>1, <2>2 DEF LockHeld, Granted
  <2>5. Paired' /\ StampKnown' /\ StampTells'
    BY <1>t, <1>f, <2>1, <2>2 DEF Paired, Match, StampKnown, StampTells
  <2> QED
    BY <2>3, <2>4, <2>5 DEF TokenInv, TokenFacts
<1>4. CASE OAuthTimesOut
  <2>1. /\ oauth' = [oauth EXCEPT !.at = "failed"]
        /\ UNCHANGED <<minted, usable, grantOf, stored, cachedStamp, statusRead, advisory, getter,
                       wiping, side, restarted, blind>>
    BY <1>4 DEF OAuthTimesOut, pairVars, tableVars
  <2>2. SchwabTypes' /\ oauth'.at = "failed"
    BY <1>t, <2>1 DEF SchwabTypes
  <2>3. Idly
    BY <2>1, <2>2 DEF Idly
  <2> QED
    BY <2>2, <2>3, IdlyKeeps DEF TokenInv
<1>5. CASE OAuthStores
  <2>1. UNCHANGED <<minted, usable, grantOf, statusRead, getter, wiping, side, restarted, blind>>
    BY <1>5 DEF OAuthStores, pairVars
  <2>2. oauth.at \in {"access", "refresh", "stamp"} /\ advisory = OAuth
        /\ \A c \in Getters : getter[c].at \notin Holding
    BY <1>5, <1>t, <1>f DEF OAuthStores, LockHeld
  <2>3. CASE /\ oauth.at = "access" /\ stored' = [stored EXCEPT !.access = oauth.pair]
             /\ oauth' = [oauth EXCEPT !.at = "refresh"] /\ UNCHANGED <<cachedStamp, advisory>>
    <3>1. /\ stored' \in [access : 0..MaxPairs, refresh : 0..MaxPairs, stamp : 0..MaxPairs]
          /\ stored'.access = oauth.pair /\ stored'.refresh = stored.refresh
          /\ stored'.stamp = stored.stamp
          /\ oauth' \in [at : {"idle", "minted", "access", "refresh", "stamp", "configure", "done",
                               "failed"}, pair : 0..MaxPairs]
          /\ oauth'.at = "refresh" /\ oauth'.pair = oauth.pair
      BY <1>t, <2>3
    <3>2. SchwabTypes'
      BY <1>t, <2>1, <2>3, <3>1 DEF SchwabTypes
    <3>3. LockHeld' /\ Granted'
      BY <1>f, <2>1, <2>2, <2>3, <3>1 DEF LockHeld, Granted
    <3>4. Paired' /\ StampKnown' /\ StampTells'
      BY <1>t, <1>f, <2>1, <2>2, <2>3, <3>1 DEF Paired, Granted, Holding, StampKnown, StampTells
    <3> QED
      BY <3>2, <3>3, <3>4 DEF TokenInv, TokenFacts
  <2>4. CASE /\ oauth.at = "refresh" /\ stored' = [stored EXCEPT !.refresh = oauth.pair]
             /\ oauth' = [oauth EXCEPT !.at = "stamp"] /\ UNCHANGED <<cachedStamp, advisory>>
    <3>1. /\ stored' \in [access : 0..MaxPairs, refresh : 0..MaxPairs, stamp : 0..MaxPairs]
          /\ stored'.refresh = oauth.pair /\ stored'.access = stored.access
          /\ stored'.stamp = stored.stamp
          /\ oauth' \in [at : {"idle", "minted", "access", "refresh", "stamp", "configure", "done",
                               "failed"}, pair : 0..MaxPairs]
          /\ oauth'.at = "stamp" /\ oauth'.pair = oauth.pair
      BY <1>t, <2>4
    <3>2. SchwabTypes'
      BY <1>t, <2>1, <2>4, <3>1 DEF SchwabTypes
    <3>3. LockHeld' /\ Granted'
      BY <1>f, <2>1, <2>2, <2>4, <3>1 DEF LockHeld, Granted
    <3>4. Paired' /\ StampKnown' /\ StampTells'
      BY <1>t, <1>f, <2>1, <2>2, <2>4, <3>1 DEF Paired, Granted, Holding, StampKnown, StampTells
    <3> QED
      BY <3>2, <3>3, <3>4 DEF TokenInv, TokenFacts
  <2>5. CASE /\ oauth.at = "stamp" /\ stored' = [stored EXCEPT !.stamp = oauth.pair]
             /\ oauth' = [oauth EXCEPT !.at = "configure"]
             /\ cachedStamp' = -1 /\ advisory' = Nobody
    <3>1. /\ stored' \in [access : 0..MaxPairs, refresh : 0..MaxPairs, stamp : 0..MaxPairs]
          /\ stored'.stamp = oauth.pair /\ stored'.access = stored.access
          /\ stored'.refresh = stored.refresh
          /\ oauth' \in [at : {"idle", "minted", "access", "refresh", "stamp", "configure", "done",
                               "failed"}, pair : 0..MaxPairs]
          /\ oauth'.at = "configure" /\ oauth'.pair = oauth.pair
      BY <1>t, <2>5
    <3>2. SchwabTypes'
      BY <1>t, <2>1, <2>5, <3>1 DEF SchwabTypes
    <3>3. LockHeld' /\ Granted'
      BY <1>f, <2>1, <2>2, <2>5, <3>1 DEF LockHeld, Granted, Holding
    <3>4. Paired' /\ StampKnown' /\ StampTells'
      BY <1>t, <1>f, <2>1, <2>2, <2>5, <3>1
      DEF Paired, Match, Granted, Holding, StampKnown, StampTells
    <3> QED
      BY <3>2, <3>3, <3>4 DEF TokenInv, TokenFacts
  <2> QED
    BY <1>5, <2>3, <2>4, <2>5 DEF OAuthStores
<1>6. CASE Configure
  <2>1. /\ \E young \in BOOLEAN : side' = [fresh |-> young, flight |-> Nobody]
        /\ oauth' = oauth \/ (oauth' = [oauth EXCEPT !.at = "done"])
        /\ UNCHANGED <<minted, usable, grantOf, stored, cachedStamp, statusRead, advisory, getter,
                       wiping, restarted, blind>>
    BY <1>6 DEF Configure, pairVars, tableVars
  <2>2. side' \in [fresh : BOOLEAN, flight : Getters \cup {Nobody}]
    BY <2>1
  <2>3. /\ oauth' \in [at : {"idle", "minted", "access", "refresh", "stamp", "configure", "done",
                             "failed"}, pair : 0..MaxPairs]
        /\ oauth' = oauth \/ oauth'.at = "done"
    BY <1>t, <2>1
  <2>4. SchwabTypes' /\ Idly
    BY <1>t, <2>1, <2>2, <2>3 DEF SchwabTypes, Idly
  <2> QED
    BY <2>4, IdlyKeeps DEF TokenInv
<1>7. CASE Wipe
  <2>1. UNCHANGED <<minted, usable, grantOf, statusRead, advisory, getter, oauth, side, restarted,
                    blind>>
    BY <1>7 DEF Wipe, pairVars
  <2>2. wiping' \in {"access", "refresh", "stamp", "done"}
    BY <1>7 DEF Wipe
  <2>3. /\ stored' \in [access : 0..MaxPairs, refresh : 0..MaxPairs, stamp : 0..MaxPairs]
        /\ cachedStamp' \in -1..MaxPairs
        /\ cachedStamp' = -1 \/ (cachedStamp' = cachedStamp /\ stored'.stamp = stored.stamp)
    <3>1. \/ UNCHANGED <<stored, cachedStamp>>
          \/ stored' = [stored EXCEPT !.access = 0] /\ UNCHANGED cachedStamp
          \/ stored' = [stored EXCEPT !.refresh = 0] /\ UNCHANGED cachedStamp
          \/ stored' = [stored EXCEPT !.stamp = 0] /\ cachedStamp' = -1
      BY <1>7 DEF Wipe
    <3>2. /\ stored \in [access : 0..MaxPairs, refresh : 0..MaxPairs, stamp : 0..MaxPairs]
          /\ cachedStamp \in -1..MaxPairs /\ 0 \in 0..MaxPairs
      BY <1>t
    <3>3. CASE UNCHANGED <<stored, cachedStamp>>
      BY <3>2, <3>3
    <3>4. CASE stored' = [stored EXCEPT !.access = 0] /\ UNCHANGED cachedStamp
      BY <3>2, <3>4
    <3>5. CASE stored' = [stored EXCEPT !.refresh = 0] /\ UNCHANGED cachedStamp
      BY <3>2, <3>5
    <3>6. CASE stored' = [stored EXCEPT !.stamp = 0] /\ cachedStamp' = -1
      <4>1. stored' \in [access : 0..MaxPairs, refresh : 0..MaxPairs, stamp : 0..MaxPairs]
        BY ONLY <3>2, <3>6
      <4>2. cachedStamp' = -1 /\ -1 \in -1..MaxPairs
        BY ONLY <3>6, SchwabBoundsAssumption
      <4> QED
        BY ONLY <4>1, <4>2
    <3> QED
      BY <3>1, <3>3, <3>4, <3>5, <3>6
  <2>4. SchwabTypes'
    BY <1>t, <2>1, <2>2, <2>3 DEF SchwabTypes
  <2>5. LockHeld' /\ Granted' /\ Paired' /\ StampTells'
    BY <1>f, <2>1, <2>2 DEF LockHeld, Granted, Paired, StampTells
  <2>6. StampKnown'
    BY <1>f, <2>1, <2>3 DEF StampKnown
  <2> QED
    BY <2>4, <2>5, <2>6 DEF TokenInv, TokenFacts
<1>8. CASE StatusReads
  <2>1. /\ statusRead' = stored.stamp
        /\ UNCHANGED <<minted, usable, grantOf, stored, cachedStamp, advisory, getter, oauth,
                       wiping, side, restarted, blind>>
    BY <1>8 DEF StatusReads, pairVars
  <2>2. statusRead' \in -1..MaxPairs
    BY <1>t, <2>1
  <2>3. SchwabTypes' /\ Idly
    BY <1>t, <2>1, <2>2 DEF SchwabTypes, Idly
  <2> QED
    BY <2>3, IdlyKeeps DEF TokenInv
<1>9. CASE StatusCaches
  <2>1. /\ cachedStamp' = statusRead /\ statusRead' = -1
        /\ blind' = (blind \/ statusRead # stored.stamp)
        /\ UNCHANGED <<minted, usable, grantOf, stored, advisory, getter, oauth, wiping, side,
                       restarted>>
    BY <1>9 DEF StatusCaches, pairVars
  <2>2. SchwabTypes'
    BY <1>t, <2>1 DEF SchwabTypes
  <2>3. LockHeld' /\ Granted' /\ Paired'
    BY <1>f, <2>1 DEF LockHeld, Granted, Paired, Match
  <2>4. StampKnown'
    BY <2>1 DEF StampKnown
  <2>5. ~blind' => ~blind
    BY <2>1
  <2>6. StampTells'
    BY <1>f, <2>1, <2>5 DEF StampTells
  <2> QED
    BY <2>2, <2>3, <2>4, <2>6 DEF TokenInv, TokenFacts
<1>10. CASE BackendRestarts
  <2>1. /\ restarted' = TRUE /\ advisory' = Nobody /\ cachedStamp' = -1 /\ statusRead' = -1
        /\ getter' = [c \in Getters |-> IF getter[c].at \in InBackend THEN Quiet("raised") ELSE getter[c]]
        /\ oauth' = IF oauth.at \in {"minted", "access", "refresh", "stamp", "configure"}
                      THEN [oauth EXCEPT !.at = "failed"] ELSE oauth
        /\ wiping' = IF wiping = "idle" THEN wiping ELSE "done"
        /\ UNCHANGED <<minted, usable, grantOf, stored, side, blind>>
    BY <1>10 DEF BackendRestarts, pairVars
  <2>2. /\ getter' \in [Getters -> Calls]
        /\ \A c \in Getters : getter'[c].at \notin Holding \cup {"minted"}
    <3>1. Quiet("raised") \in Calls /\ Quiet("raised").at = "raised"
      BY <1>t DEF Quiet, Calls, Ats
    <3> QED
      BY <1>t, <2>1, <3>1 DEF InBackend, Holding
  <2>3. /\ oauth' \in [at : {"idle", "minted", "access", "refresh", "stamp", "configure", "done",
                             "failed"}, pair : 0..MaxPairs]
        /\ oauth'.at \notin {"minted", "access", "refresh", "stamp"}
    BY <1>t, <2>1
  <2>4. SchwabTypes'
    BY <1>t, <2>1, <2>2, <2>3 DEF SchwabTypes
  <2>5. LockHeld' /\ Granted' /\ Paired' /\ StampKnown' /\ StampTells'
    BY <2>1, <2>2, <2>3 DEF LockHeld, Granted, Paired, StampKnown, StampTells
  <2> QED
    BY <2>4, <2>5 DEF TokenInv, TokenFacts
<1>11. ASSUME NEW c \in Getters, GetterCancelled(c) PROVE TokenInv'
  <2>1. /\ restarted' = TRUE /\ advisory' = Released(c) /\ Ends(c, "cancelled")
        /\ UNCHANGED <<minted, usable, grantOf, stored, cachedStamp, statusRead, oauth, wiping, side,
                       blind>>
    BY <1>11 DEF GetterCancelled, pairVars
  <2>2. /\ getter' \in [Getters -> Calls] /\ getter'[c].at = "cancelled"
        /\ \A d \in Getters \ {c} : getter'[d] = getter[d]
    <3>1. "cancelled" \in Ats
      BY DEF Ats
    <3> QED
      BY <1>t, <2>1, <3>1, Ended
  <2>3. SchwabTypes'
    BY <1>t, <2>1, <2>2 DEF SchwabTypes, Released
  <2>4. LockHeld' /\ Granted'
    BY <1>t, <1>f, <2>1, <2>2 DEF LockHeld, Granted, Released, Holding
  <2>5. Paired' /\ StampKnown' /\ StampTells'
    BY <1>f, <2>1 DEF Paired, StampKnown, StampTells
  <2> QED
    BY <2>3, <2>4, <2>5 DEF TokenInv, TokenFacts
<1> QED
  BY <1>1, <1>2, <1>3, <1>4, <1>5, <1>6, <1>7, <1>8, <1>9, <1>10, <1>11

LEMMA SchwabStep == TokenInv /\ [SchwabNext]_schwabVars => TokenInv'
<1> SUFFICES ASSUME TokenInv, [SchwabNext]_schwabVars PROVE TokenInv'
  OBVIOUS
<1>1. CASE UNCHANGED schwabVars
  <2>1. SchwabTypes' /\ Idly
    BY <1>1 DEF schwabVars, pairVars, tableVars, TokenInv, SchwabTypes, Idly
  <2> QED
    BY <2>1, IdlyKeeps DEF TokenInv
<1> QED
  BY <1>1, SidecarStep, AsksStep, ReadStampStep, MintStep, CompareStep, StoreStep, RestStep
  DEF SchwabNext

\* The stored tokens come from one answer of Schwab whenever no writer holds
\* the lock, whatever refreshes and callbacks overlap (schwab_oauth.py,
\* oauth.py).
THEOREM TokensMatch == SchwabSpec => []TokensHold
<1>1. TokenInv => TokensHold
  <2>1. TokenInv => SchwabTypeOK
    BY DEF TokenInv, SchwabTypes, SchwabTypeOK, Calls, Ats
  <2>2. TokenInv => PairMatches
    BY DEF TokenInv, TokenFacts, Paired, Match, PairMatches
  <2> QED
    BY <2>1, <2>2 DEF TokensHold
<1> QED
  BY <1>1, SchwabInitially, SchwabStep, PTL DEF SchwabSpec

\* The comparison of the stamps is enough: a refresh never replaces a refresh
\* token stored after it read the stamp (schwab_oauth.py:220).
THEOREM NewerIsKept == SchwabSpec => NewerTokenKept
<1> DEFINE Kept == \A c \in Getters :
       Going(c, "refresh") /\ getter'[c].at = "stamp" /\ wiping = "idle" /\ ~restarted /\ ~blind
          => stored.refresh = getter[c].found
<1>1. TokenInv /\ [SchwabNext]_schwabVars => [Kept]_schwabVars
  BY DEF TokenInv, TokenFacts, StampTells, Going
<1> HIDE DEF Kept
<1>2. SchwabSpec => [][Kept]_schwabVars
  BY <1>1, SchwabInitially, SchwabStep, PTL DEF SchwabSpec
<1> QED
  BY <1>2 DEF NewerTokenKept, Kept

-----------------------------------------------------------------------------
(* Quotes.  A symbol that is not muddled is asked for by the sidecar, once   *)
(* the frames in the queue have been sent, exactly if the registry routes it.*)

Sub(s) == [op |-> "sub", sym |-> s]
Unsub(s) == [op |-> "unsub", sym |-> s]
Frames == [op : {"sub", "unsub"}, sym : Symbols]

\* Whether s is asked for after the first k frames of q, if it was in before.
Asks(q, s, before, k) ==
    \/ \E j \in 1..k : q[j] = Sub(s) /\ \A i \in (j + 1)..k : q[i].sym # s
    \/ s \in before /\ \A j \in 1..k : q[j].sym # s

\* No frame asks for what is asked for, and at the end s is asked for if it is in after.
Leads(q, s, before, after) ==
    /\ \A k \in 1..Len(q) : q[k] = Sub(s) => ~Asks(q, s, before, k - 1)
    /\ Asks(q, s, before, Len(q)) <=> s \in after

\* The last that q says of s is to ask for it no more.
EndsIt(q, s) == \E j \in 1..Len(q) : q[j] = Unsub(s) /\ \A i \in (j + 1)..Len(q) : q[i].sym # s

RoutesWatched == \A s \in routed : Watched(s)
RoutesOnce ==
    \A w \in Conns : routing[w] # "" =>
        /\ routing[w] \in watch[w] /\ routing[w] \notin routed
        /\ \A x \in Conns \ {w} : routing[x] # routing[w]
EndedIsUnrouted == \A s \in routed : ~EndsIt(frames, s)
FreshSidecar ==
    ~sameSidecar => stream = "down" /\ ending = <<>> /\ \A s \in Symbols : requests[s] = 0
CountedOnce == stream = "down" => \A s \in Symbols \ muddled : requests[s] <= 1
UpIsTrue ==
    stream = "up" => \A s \in Symbols \ muddled :
        /\ Leads(frames, s, callSubs, routed)
        /\ requests[s] = IF s \in callSubs THEN 1 ELSE 0
        /\ \A k \in DOMAIN ending : s \notin ending[k]

QuoteInv ==
    /\ QuoteTypeOK /\ frames \in Seq(Frames) /\ muddled \subseteq Symbols
    /\ ending \in Seq(SUBSET Symbols)
    /\ RoutesWatched /\ RoutesOnce /\ EndedIsUnrouted
    /\ FreshSidecar /\ CountedOnce /\ UpIsTrue

-----------------------------------------------------------------------------
(* Queues of frames that are sent, lengthened and cut.                     *)

\* What k further frames leave is told by them and by what m frames left.
LEMMA AsksOn ==
    ASSUME NEW q, NEW r, NEW m \in Nat, NEW k \in Nat, \A i \in 1..k : r[i] = q[i + m],
           NEW s, NEW B, NEW C, s \in C <=> Asks(q, s, B, m)
    PROVE  Asks(r, s, C, k) <=> Asks(q, s, B, m + k)
<1>1. ASSUME Asks(r, s, C, k) PROVE Asks(q, s, B, m + k)
  <2>1. CASE \E j \in 1..k : r[j] = Sub(s) /\ \A i \in (j + 1)..k : r[i].sym # s
    <3>1. PICK j \in 1..k : r[j] = Sub(s) /\ \A i \in (j + 1)..k : r[i].sym # s
      BY <2>1
    <3>2. j + m \in 1..(m + k) /\ q[j + m] = Sub(s)
      BY <3>1
    <3>3. ASSUME NEW i \in (j + m + 1)..(m + k) PROVE q[i].sym # s
      <4>1. i - m \in (j + 1)..k /\ i - m \in 1..k /\ (i - m) + m = i
        OBVIOUS
      <4> QED
        BY <3>1, <4>1
    <3> QED
      BY <3>2, <3>3 DEF Asks
  <2>2. CASE s \in C /\ \A j \in 1..k : r[j].sym # s
    <3>1. ASSUME NEW i \in (m + 1)..(m + k) PROVE q[i].sym # s
      <4>1. i - m \in 1..k /\ (i - m) + m = i
        OBVIOUS
      <4> QED
        BY <2>2, <4>1
    <3>2. CASE \E j \in 1..m : q[j] = Sub(s) /\ \A i \in (j + 1)..m : q[i].sym # s
      <4>1. PICK j \in 1..m : q[j] = Sub(s) /\ \A i \in (j + 1)..m : q[i].sym # s
        BY <3>2
      <4>2. j \in 1..(m + k) /\ \A i \in (j + 1)..(m + k) : q[i].sym # s
        BY <4>1, <3>1
      <4> QED
        BY <4>1, <4>2 DEF Asks
    <3>3. CASE s \in B /\ \A j \in 1..m : q[j].sym # s
      <4>1. \A j \in 1..(m + k) : q[j].sym # s
        BY <3>1, <3>3
      <4> QED
        BY <3>3, <4>1 DEF Asks
    <3> QED
      BY <2>2, <3>2, <3>3 DEF Asks
  <2> QED
    BY <1>1, <2>1, <2>2 DEF Asks
<1>2. ASSUME Asks(q, s, B, m + k) PROVE Asks(r, s, C, k)
  <2>1. CASE \E j \in 1..(m + k) : q[j] = Sub(s) /\ \A i \in (j + 1)..(m + k) : q[i].sym # s
    <3>1. PICK j \in 1..(m + k) : q[j] = Sub(s) /\ \A i \in (j + 1)..(m + k) : q[i].sym # s
      BY <2>1
    <3>2. CASE j > m
      <4>1. j - m \in 1..k /\ (j - m) + m = j
        BY <3>2
      <4>2. ASSUME NEW i \in (j - m + 1)..k PROVE r[i].sym # s
        <5>1. i \in 1..k /\ i + m \in (j + 1)..(m + k)
          BY <4>1
        <5> QED
          BY <3>1, <5>1
      <4> QED
        BY <3>1, <4>1, <4>2 DEF Asks
    <3>3. CASE j <= m
      <4>1. \A i \in (j + 1)..m : q[i].sym # s
        BY <3>1, <3>3
      <4>2. s \in C
        BY <3>1, <3>3, <4>1 DEF Asks
      <4>3. ASSUME NEW i \in 1..k PROVE r[i].sym # s
        <5>1. i + m \in (j + 1)..(m + k)
          BY <3>3
        <5> QED
          BY <3>1, <5>1
      <4> QED
        BY <4>2, <4>3 DEF Asks
    <3> QED
      BY <3>2, <3>3
  <2>2. CASE s \in B /\ \A j \in 1..(m + k) : q[j].sym # s
    <3>1. s \in C
      BY <2>2 DEF Asks
    <3>2. ASSUME NEW i \in 1..k PROVE r[i].sym # s
      <4>1. i + m \in 1..(m + k)
        OBVIOUS
      <4> QED
        BY <2>2, <4>1
    <3> QED
      BY <3>1, <3>2 DEF Asks
  <2> QED
    BY <1>2, <2>1, <2>2 DEF Asks
<1> QED
  BY <1>1, <1>2

\* The rest of a queue, when m frames have been taken from its head.
LEMMA LeadsRest ==
    ASSUME NEW q, NEW r, Len(q) \in Nat, NEW m \in 0..Len(q), Len(r) = Len(q) - m,
           \A i \in 1..Len(r) : r[i] = q[i + m],
           NEW s, NEW B, NEW C, NEW D,
           Leads(q, s, B, D), s \in C <=> Asks(q, s, B, m)
    PROVE  Leads(r, s, C, D)
<1>1. ASSUME NEW k \in 0..Len(r) PROVE Asks(r, s, C, k) <=> Asks(q, s, B, m + k)
  <2>1. k \in Nat /\ m \in Nat /\ \A i \in 1..k : r[i] = q[i + m]
    OBVIOUS
  <2> QED
    BY <2>1, AsksOn
<1>2. Asks(r, s, C, Len(r)) <=> s \in D
  <2>1. Len(r) \in 0..Len(r) /\ m + Len(r) = Len(q)
    OBVIOUS
  <2> QED
    BY <1>1, <2>1 DEF Leads
<1>3. ASSUME NEW k \in 1..Len(r), r[k] = Sub(s) PROVE ~Asks(r, s, C, k - 1)
  <2>1. k - 1 \in 0..Len(r) /\ k + m \in 1..Len(q) /\ (k + m) - 1 = m + (k - 1)
    OBVIOUS
  <2>2. q[k + m] = Sub(s)
    BY <1>3
  <2>3. ~Asks(q, s, B, (k + m) - 1)
    BY <2>1, <2>2 DEF Leads
  <2> QED
    BY <1>1, <2>1, <2>3
<1> QED
  BY <1>2, <1>3 DEF Leads

\* One queue after another.
LEMMA LeadsJoined ==
    ASSUME NEW q, NEW u, NEW all, Len(q) \in Nat, Len(u) \in Nat, Len(all) = Len(q) + Len(u),
           \A i \in 1..Len(q) : all[i] = q[i], \A i \in 1..Len(u) : all[i + Len(q)] = u[i],
           NEW s, NEW B, NEW C, NEW D,
           Leads(q, s, B, C), Leads(u, s, C, D)
    PROVE  Leads(all, s, B, D)
<1> DEFINE n == Len(q)
<1>1. ASSUME NEW k \in 0..n PROVE Asks(q, s, B, k) <=> Asks(all, s, B, k)
  <2>1. \A i \in 1..k : q[i] = all[i]
    OBVIOUS
  <2>2. \A j \in 1..k : \A i \in (j + 1)..k : i \in 1..k
    OBVIOUS
  <2>3. \A j \in 1..k : (\A i \in (j + 1)..k : q[i].sym # s) <=> (\A i \in (j + 1)..k : all[i].sym # s)
    BY <2>1, <2>2
  <2> QED
    BY <2>1, <2>3 DEF Asks
<1>2. s \in C <=> Asks(all, s, B, n)
  BY <1>1 DEF Leads
<1>3. ASSUME NEW k \in 0..Len(u) PROVE Asks(u, s, C, k) <=> Asks(all, s, B, n + k)
  <2>1. k \in Nat /\ n \in Nat /\ \A i \in 1..k : u[i] = all[i + n]
    OBVIOUS
  <2> HIDE DEF n
  <2> QED
    BY <2>1, <1>2, AsksOn
<1>4. Asks(all, s, B, Len(all)) <=> s \in D
  <2>1. Len(u) \in 0..Len(u) /\ n + Len(u) = Len(all)
    OBVIOUS
  <2> QED
    BY <1>3, <2>1 DEF Leads
<1>5. ASSUME NEW k \in 1..Len(all), all[k] = Sub(s) PROVE ~Asks(all, s, B, k - 1)
  <2>1. CASE k <= n
    <3>1. k \in 1..n /\ k - 1 \in 0..n /\ q[k] = Sub(s)
      BY <2>1, <1>5
    <3> QED
      BY <1>1, <3>1 DEF Leads
  <2>2. CASE k > n
    <3>1. k - n \in 1..Len(u) /\ (k - n) - 1 \in 0..Len(u) /\ n + ((k - n) - 1) = k - 1 /\ (k - n) + n = k
      BY <2>2
    <3>2. u[k - n] = Sub(s)
      BY <3>1, <1>5
    <3>3. ~Asks(u, s, C, (k - n) - 1)
      BY <3>1, <3>2 DEF Leads
    <3> QED
      BY <1>3, <3>1, <3>3
  <2> QED
    BY <2>1, <2>2
<1> QED
  BY <1>4, <1>5 DEF Leads

LEMMA EndsJoined ==
    ASSUME NEW q, NEW u, NEW all, Len(q) \in Nat, Len(u) \in Nat, Len(all) = Len(q) + Len(u),
           \A i \in 1..Len(q) : all[i] = q[i], \A i \in 1..Len(u) : all[i + Len(q)] = u[i],
           NEW s, ~EndsIt(u, s), ~EndsIt(q, s) \/ \E i \in 1..Len(u) : u[i].sym = s
    PROVE  ~EndsIt(all, s)
<1> SUFFICES ASSUME NEW j \in 1..Len(all), all[j] = Unsub(s), \A i \in (j + 1)..Len(all) : all[i].sym # s
             PROVE  FALSE
  BY DEF EndsIt
<1>1. CASE j > Len(q)
  <2>1. j - Len(q) \in 1..Len(u) /\ (j - Len(q)) + Len(q) = j
    BY <1>1
  <2>2. u[j - Len(q)] = Unsub(s)
    BY <2>1
  <2>3. ASSUME NEW i \in (j - Len(q) + 1)..Len(u) PROVE u[i].sym # s
    <3>1. i \in 1..Len(u) /\ i + Len(q) \in (j + 1)..Len(all)
      BY <2>1
    <3> QED
      BY <3>1
  <2> QED
    BY <2>1, <2>2, <2>3 DEF EndsIt
<1>2. CASE j <= Len(q)
  <2>1. ASSUME NEW i \in 1..Len(u) PROVE u[i].sym # s
    <3>1. i + Len(q) \in (j + 1)..Len(all)
      BY <1>2
    <3> QED
      BY <3>1
  <2>2. j \in 1..Len(q) /\ q[j] = Unsub(s) /\ \A i \in (j + 1)..Len(q) : q[i].sym # s
    BY <1>2
  <2> QED
    BY <2>1, <2>2 DEF EndsIt
<1> QED
  BY <1>1, <1>2

LEMMA EndsRest ==
    ASSUME NEW q, NEW r, Len(q) \in Nat, NEW m \in 0..Len(q), Len(r) = Len(q) - m,
           \A i \in 1..Len(r) : r[i] = q[i + m], NEW s, EndsIt(r, s)
    PROVE  EndsIt(q, s)
<1>1. PICK j \in 1..Len(r) : r[j] = Unsub(s) /\ \A i \in (j + 1)..Len(r) : r[i].sym # s
  BY DEF EndsIt
<1>2. j + m \in 1..Len(q) /\ q[j + m] = Unsub(s)
  BY <1>1
<1>3. ASSUME NEW i \in (j + m + 1)..Len(q) PROVE q[i].sym # s
  <2>1. i - m \in 1..Len(r) /\ i - m \in (j + 1)..Len(r) /\ (i - m) + m = i
    OBVIOUS
  <2> QED
    BY <1>1, <2>1
<1> QED
  BY <1>2, <1>3 DEF EndsIt

\* A single frame, and several that end.
LEMMA OneFrame ==
    ASSUME NEW f \in Frames, NEW s, NEW C, NEW D
    PROVE  /\ f.sym # s => ~EndsIt(<<f>>, s)
           /\ f.sym # s /\ (s \in C <=> s \in D) => Leads(<<f>>, s, C, D)
           /\ f = Sub(s) => ~EndsIt(<<f>>, s)
           /\ f = Sub(s) /\ s \notin C /\ s \in D => Leads(<<f>>, s, C, D)
           /\ f = Unsub(s) /\ s \notin D => Leads(<<f>>, s, C, D)
<1>1. Len(<<f>>) = 1 /\ <<f>>[1] = f /\ 1..1 = {1} /\ 1..0 = {} /\ 2..1 = {} /\ 1 - 1 = 0 /\ 1 + 1 = 2
  OBVIOUS
<1>2. Sub(s).sym = s /\ Unsub(s).sym = s /\ Sub(s) # Unsub(s)
  BY DEF Sub, Unsub
<1>3. Asks(<<f>>, s, C, 0) <=> s \in C
  BY <1>1 DEF Asks
<1>4. Asks(<<f>>, s, C, 1) <=> (f = Sub(s) \/ (s \in C /\ f.sym # s))
  BY <1>1 DEF Asks
<1>5. EndsIt(<<f>>, s) <=> f = Unsub(s)
  BY <1>1 DEF EndsIt
<1>6. Leads(<<f>>, s, C, D) <=> /\ f = Sub(s) => s \notin C
                                /\ (f = Sub(s) \/ (s \in C /\ f.sym # s)) <=> s \in D
  BY <1>1, <1>3, <1>4 DEF Leads
<1> QED
  BY <1>2, <1>5, <1>6

LEMMA OnlyUnsubs ==
    ASSUME NEW u, Len(u) \in Nat, \A i \in 1..Len(u) : \E t : u[i] = Unsub(t), NEW s, NEW C, NEW D
    PROVE  /\ (s \in D <=> s \in C /\ \A i \in 1..Len(u) : u[i].sym # s) => Leads(u, s, C, D)
           /\ (\A i \in 1..Len(u) : u[i].sym # s) => ~EndsIt(u, s)
<1>1. \A t : Unsub(t) # Sub(s)
  BY DEF Sub, Unsub
<1>2. \A i \in 1..Len(u) : u[i] # Sub(s)
  BY <1>1
<1>3. Asks(u, s, C, Len(u)) <=> s \in C /\ \A i \in 1..Len(u) : u[i].sym # s
  BY <1>2 DEF Asks
<1>4. (\A i \in 1..Len(u) : u[i].sym # s) => ~EndsIt(u, s)
  <2>1. Unsub(s).sym = s
    BY DEF Unsub
  <2> QED
    BY <2>1 DEF EndsIt
<1> QED
  BY <1>2, <1>3, <1>4 DEF Leads

-----------------------------------------------------------------------------
(* What _enqueue and disconnect_ws do to the queue.                        *)

LEMMA CutQueue ==
    ASSUME NEW q \in Seq(Frames), NEW m \in 0..Len(q), NEW r, r \in Seq(Frames),
           Len(r) = Len(q) - m, \A i \in 1..Len(r) : r[i] = q[i + m],
           NEW s, \A i \in 1..m : q[i].sym # s
    PROVE  /\ \A C, D : Leads(q, s, C, D) => Leads(r, s, C, D)
           /\ EndsIt(r, s) => EndsIt(q, s)
<1>0. Len(q) \in Nat
  BY LenProperties
<1>1. EndsIt(r, s) => EndsIt(q, s)
  BY <1>0, EndsRest
<1>2. ASSUME NEW C, NEW D, Leads(q, s, C, D) PROVE Leads(r, s, C, D)
  <2>1. s \in C <=> Asks(q, s, C, m)
    <3>1. Sub(s).sym = s
      BY DEF Sub
    <3> QED
      BY <3>1 DEF Asks
  <2> QED
    BY <1>0, <1>2, <2>1, LeadsRest
<1> QED
  BY <1>1, <1>2

LEMMA EnqueueStep ==
    ASSUME frames \in Seq(Frames), Len(frames) <= PendingMax, muddled \subseteq Symbols,
           NEW f \in Frames, Enqueue(f)
    PROVE  /\ frames' \in Seq(Frames) /\ Len(frames') <= PendingMax
           /\ muddled \subseteq muddled' /\ muddled' \subseteq Symbols
           /\ \A s \in Symbols :
                /\ ~EndsIt(<<f>>, s) /\ (~EndsIt(frames, s) \/ f.sym = s) => ~EndsIt(frames', s)
                /\ s \notin muddled' => \A B, C, D :
                     Leads(frames, s, B, C) /\ Leads(<<f>>, s, C, D) => Leads(frames', s, B, D)
<1> DEFINE full == Len(frames) >= PendingMax
           q == IF full THEN Tail(frames) ELSE frames
           m == IF full THEN 1 ELSE 0
<1>0. Len(frames) \in Nat
  BY LenProperties
<1>1. PendingMax \in Nat /\ PendingMax >= 1 /\ Len(frames) \in Nat
  <2>1. PendingMax \in Nat \ {0}
    BY QuoteAssumption
  <2> QED
    BY <1>0, <2>1
<1>2. full => frames # <<>> /\ Head(frames) = frames[1] /\ Head(frames) \in Frames
  BY <1>1
<1>3. /\ q \in Seq(Frames) /\ Len(q) = Len(frames) - m /\ m \in 0..Len(frames)
      /\ \A i \in 1..Len(q) : q[i] = frames[i + m]
  BY <1>1, <1>2, HeadTailProperties
<1>4. frames' = Append(q, f) /\ muddled' = IF full THEN muddled \cup {Head(frames).sym} ELSE muddled
  BY DEF Enqueue
<1>5. /\ Len(q) \in Nat /\ Len(<<f>>) = 1 /\ Len(frames') = Len(q) + 1 /\ frames' \in Seq(Frames)
      /\ \A i \in 1..Len(q) : frames'[i] = q[i]
      /\ \A i \in 1..1 : frames'[i + Len(q)] = <<f>>[i]
  BY <1>3, <1>4
<1>6. Len(q) + 1 <= PendingMax
  BY <1>1, <1>3
<1>7. muddled \subseteq muddled' /\ muddled' \subseteq Symbols
  BY <1>2, <1>4 DEF Frames
<1> HIDE DEF q
<1>8. ASSUME NEW s \in Symbols, ~EndsIt(<<f>>, s), ~EndsIt(frames, s) \/ f.sym = s PROVE ~EndsIt(frames', s)
  <2>1. EndsIt(q, s) => EndsIt(frames, s)
    BY <1>3, <1>1, EndsRest
  <2>2. f.sym = s => \E i \in 1..1 : <<f>>[i].sym = s
    BY <1>5
  <2> QED
    BY <1>5, <1>8, <2>1, <2>2, EndsJoined
<1>9. ASSUME NEW s \in Symbols, s \notin muddled', NEW B, NEW C, NEW D, Leads(frames, s, B, C), Leads(<<f>>, s, C, D)
      PROVE  Leads(frames', s, B, D)
  <2>1. \A i \in 1..m : frames[i].sym # s
    BY <1>2, <1>4, <1>9
  <2>2. Leads(q, s, B, C)
    BY <1>3, <1>9, <2>1, CutQueue
  <2> QED
    BY <1>5, <1>9, <2>2, LeadsJoined
<1> QED
  BY <1>5, <1>6, <1>7, <1>8, <1>9

LEMMA SentStep ==
    ASSUME frames \in Seq(Frames), frames # <<>>, frames' = Tail(frames)
    PROVE  /\ frames' \in Seq(Frames) /\ Len(frames') = Len(frames) - 1
           /\ \A s \in Symbols : EndsIt(frames', s) => EndsIt(frames, s)
           /\ \A s \in Symbols : \A B, D :
                LET f == Head(frames) IN
                Leads(frames, s, B, D) =>
                    /\ f = Sub(s) => s \notin B
                    /\ Leads(frames', s, IF f = Sub(s) THEN {s} ELSE IF f = Unsub(s) THEN {} ELSE B, D)
<1>1. /\ frames' \in Seq(Frames) /\ Len(frames) \in Nat /\ Len(frames') = Len(frames) - 1
      /\ \A i \in 1..Len(frames') : frames'[i] = frames[i + 1]
      /\ 1 \in 0..Len(frames) /\ 1 \in 1..Len(frames) /\ Head(frames) = frames[1] /\ frames[1] \in Frames
  BY HeadTailProperties
<1>2. ASSUME NEW s \in Symbols PROVE EndsIt(frames', s) => EndsIt(frames, s)
  BY <1>1, EndsRest
<1>3. ASSUME NEW s \in Symbols, NEW B, NEW D, Leads(frames, s, B, D)
      PROVE  LET f == Head(frames) IN
             /\ f = Sub(s) => s \notin B
             /\ Leads(frames', s, IF f = Sub(s) THEN {s} ELSE IF f = Unsub(s) THEN {} ELSE B, D)
  <2> DEFINE f == Head(frames)
             C == IF f = Sub(s) THEN {s} ELSE IF f = Unsub(s) THEN {} ELSE B
  <2>1. 1..1 = {1} /\ 1..0 = {} /\ 2..1 = {} /\ 1 - 1 = 0 /\ 1 + 1 = 2
    OBVIOUS
  <2>2. f = Sub(s) => s \notin B
    <3>1. Asks(frames, s, B, 0) <=> s \in B
      BY <2>1 DEF Asks
    <3> QED
      BY <1>1, <1>3, <2>1, <3>1 DEF Leads
  <2>3. f.sym = s <=> f = Sub(s) \/ f = Unsub(s)
    BY <1>1 DEF Sub, Unsub, Frames
  <2>4. Sub(s) # Unsub(s)
    BY DEF Sub, Unsub
  <2>5. Asks(frames, s, B, 1) <=> (f = Sub(s) \/ (s \in B /\ f.sym # s))
    BY <1>1, <2>1 DEF Asks
  <2>6. s \in C <=> Asks(frames, s, B, 1)
    BY <2>3, <2>4, <2>5
  <2> HIDE DEF C
  <2>7. Leads(frames', s, C, D)
    BY <1>1, <1>3, <2>6, LeadsRest
  <2> QED
    BY <2>2, <2>7 DEF C
<1> QED
  BY <1>1, <1>2, <1>3

\* Each member of a finite set is in every sequence of its members.
LEMMA ToldInFull ==
    ASSUME NEW T, IsFiniteSet(T), NEW told \in SetToSeqs(T)
    PROVE  /\ told \in Seq(T) /\ Len(told) \in Nat /\ DOMAIN told = 1..Len(told)
           /\ \A t \in T : \E i \in 1..Len(told) : told[i] = t
<1> DEFINE n == Cardinality(T)
<1>1. n \in Nat
  BY FS_CardinalityType
<1>2. told \in [1..n -> T] /\ \A i, j \in 1..n : i # j => told[i] # told[j]
  BY DEF SetToSeqs
<1> HIDE DEF n
<1>3. told \in Seq(T) /\ Len(told) = n /\ DOMAIN told = 1..n
  BY <1>1, <1>2
<1>4. told \in Injection(1..n, T)
  BY <1>2 DEF Injection, IsInjective
<1>5. IsFiniteSet(1..n) /\ Cardinality(1..n) = n
  BY <1>1, FS_Interval
<1>6. Cardinality(1..n) = Cardinality(T) => told \in Surjection(1..n, T)
  BY <1>4, FS_Injection
<1>7. told \in Surjection(1..n, T)
  BY <1>5, <1>6 DEF n
<1>8. \A t \in T : \E i \in 1..n : told[i] = t
  BY <1>7 DEF Surjection
<1> QED
  BY <1>1, <1>3, <1>8

\* all is q and then frames that end each symbol of T; r is all but its first m frames.
Told(q, u, T, all, m, r) ==
    /\ q \in Seq(Frames) /\ u \in Seq(Frames)
    /\ \A i \in 1..Len(u) : \E t \in T : u[i] = Unsub(t)
    /\ \A t \in T : \E i \in 1..Len(u) : u[i] = Unsub(t)
    /\ all = q \o u
    /\ m = IF Len(all) > PendingMax THEN Len(all) - PendingMax ELSE 0
    /\ r = SubSeq(all, 1 + m, Len(all))

LEMMA ToldStep ==
    ASSUME NEW q, NEW u, NEW T, NEW all, NEW m, NEW r, Told(q, u, T, all, m, r)
    PROVE  /\ r \in Seq(Frames) /\ Len(r) <= PendingMax
           /\ \A k \in 1..m : all[k].sym \in Symbols
           /\ \A s : ~EndsIt(q, s) /\ s \notin T => ~EndsIt(r, s)
           /\ \A s, B, C, D :
                /\ \A k \in 1..m : all[k].sym # s
                /\ Leads(q, s, B, C) /\ (s \in D <=> s \in C /\ s \notin T)
                => Leads(r, s, B, D)
<1>0. /\ q \in Seq(Frames) /\ u \in Seq(Frames)
      /\ \A i \in 1..Len(u) : \E t \in T : u[i] = Unsub(t)
      /\ \A t \in T : \E i \in 1..Len(u) : u[i] = Unsub(t)
      /\ all = q \o u
      /\ m = IF Len(all) > PendingMax THEN Len(all) - PendingMax ELSE 0
      /\ r = SubSeq(all, 1 + m, Len(all))
  BY DEF Told
<1>7. /\ all \in Seq(Frames) /\ Len(q) \in Nat /\ Len(u) \in Nat /\ Len(all) = Len(q) + Len(u)
      /\ \A i \in 1..Len(q) : all[i] = q[i]
      /\ \A i \in 1..Len(u) : all[i + Len(q)] = u[i]
  <2>1. q \in Seq(Frames) /\ u \in Seq(Frames) /\ all = q \o u
    BY <1>0
  <2> QED
    BY ONLY <2>1
<1>8. PendingMax \in Nat /\ Len(all) \in Nat
  <2>1. PendingMax \in Nat \ {0}
    BY ONLY QuoteAssumption
  <2> QED
    BY ONLY <1>7, <2>1
<1>9. m \in 0..Len(all) /\ Len(all) - m <= PendingMax
  BY <1>0, <1>8
<1>10. r \in Seq(Frames) /\ Len(r) = Len(all) - m /\ \A i \in 1..Len(r) : r[i] = all[i + m]
  <2>1. r = SubSeq(all, 1 + m, Len(all))
    BY <1>0
  <2>2. 1 + m \in Int /\ Len(all) \in Int /\ \A i \in (1 + m)..Len(all) : all[i] \in Frames
    BY ONLY <1>7, <1>8, <1>9
  <2>3. /\ SubSeq(all, 1 + m, Len(all)) \in Seq(Frames)
        /\ Len(SubSeq(all, 1 + m, Len(all))) = IF 1 + m <= Len(all) THEN Len(all) - (1 + m) + 1 ELSE 0
        /\ \A i \in 1..(Len(all) - (1 + m) + 1) : SubSeq(all, 1 + m, Len(all))[i] = all[(1 + m) + i - 1]
    BY ONLY <2>2, SubSeqProperties
  <2>4. r \in Seq(Frames) /\ Len(r) = Len(all) - m
    BY ONLY <1>8, <1>9, <2>1, <2>3
  <2>5. ASSUME NEW i \in 1..Len(r) PROVE r[i] = all[i + m]
    <3>1. i \in 1..(Len(all) - (1 + m) + 1) /\ (1 + m) + i - 1 = i + m
      BY ONLY <1>8, <1>9, <2>4, i \in 1..Len(r)
    <3> QED
      BY ONLY <2>1, <2>3, <3>1
  <2> QED
    BY ONLY <2>4, <2>5
<1>11. \A k \in 1..m : all[k].sym \in Symbols
  <2>1. \A k \in 1..m : all[k] \in Frames
    BY ONLY <1>7, <1>8, <1>9
  <2> QED
    BY ONLY <2>1 DEF Frames
<1>12. \A t : Unsub(t).sym = t
  BY DEF Unsub
<1>13. \A s : s \in T <=> \E i \in 1..Len(u) : u[i].sym = s
  <2>1. /\ \A i \in 1..Len(u) : \E t \in T : u[i] = Unsub(t)
        /\ \A t \in T : \E i \in 1..Len(u) : u[i] = Unsub(t)
    BY <1>0
  <2>2. ASSUME NEW s \in T PROVE \E i \in 1..Len(u) : u[i].sym = s
    BY ONLY <1>12, <2>1, <2>2
  <2>3. ASSUME NEW i \in 1..Len(u) PROVE u[i].sym \in T
    <3>1. PICK t \in T : u[i] = Unsub(t)
      BY ONLY <2>1, <2>3
    <3> QED
      BY ONLY <1>12, <3>1
  <2> QED
    BY ONLY <2>2, <2>3
<1>14. \A i \in 1..Len(u) : \E t : u[i] = Unsub(t)
  BY <1>0
<1>15. ASSUME NEW s
       PROVE  /\ ~EndsIt(q, s) /\ (\A i \in 1..Len(u) : u[i].sym # s) => ~EndsIt(r, s)
              /\ (\A i \in 1..m : all[i].sym # s) => \A B, C, D :
                   Leads(q, s, B, C) /\ (s \in D <=> s \in C /\ \A i \in 1..Len(u) : u[i].sym # s)
                       => Leads(r, s, B, D)
  <2>1. all \in Seq(Frames) /\ r \in Seq(Frames) /\ u \in Seq(Frames) /\ Len(u) \in Nat /\ Len(all) \in Nat
    BY <1>0, <1>7, <1>8, <1>10
  <2>2. ASSUME ~EndsIt(q, s), \A i \in 1..Len(u) : u[i].sym # s PROVE ~EndsIt(r, s)
    <3>1. ~EndsIt(u, s)
      BY ONLY <1>14, <2>1, <2>2, OnlyUnsubs
    <3>2. ~EndsIt(all, s)
      BY ONLY <1>7, <2>2, <3>1, EndsJoined
    <3> QED
      BY ONLY <1>9, <1>10, <2>1, <3>2, EndsRest
  <2>3. ASSUME \A i \in 1..m : all[i].sym # s, NEW B, NEW C, NEW D, Leads(q, s, B, C),
               s \in D <=> s \in C /\ \A i \in 1..Len(u) : u[i].sym # s
        PROVE  Leads(r, s, B, D)
    <3>1. Leads(u, s, C, D)
      BY ONLY <1>14, <2>1, <2>3, OnlyUnsubs
    <3>2. Leads(all, s, B, D)
      BY ONLY <1>7, <2>3, <3>1, LeadsJoined
    <3> QED
      BY ONLY <1>9, <1>10, <2>1, <2>3, <3>2, CutQueue
  <2> QED
    BY ONLY <2>2, <2>3
<1>16. Len(r) <= PendingMax
  BY ONLY <1>9, <1>10
<1> QED
  BY ONLY <1>10, <1>11, <1>13, <1>15, <1>16

-----------------------------------------------------------------------------
(* The registry's steps.                                                   *)

LEMMA QuoteInitially == QuoteInit => QuoteInv
<1> SUFFICES ASSUME QuoteInit PROVE QuoteInv
  OBVIOUS
<1>1. /\ watch = [w \in Conns |-> {}] /\ hears = [w \in Conns |-> {}]
      /\ routing = [w \in Conns |-> ""] /\ routed = {}
      /\ healthy = FALSE /\ stream = "down" /\ frames = <<>> /\ sameSidecar = FALSE
      /\ requests = [s \in Symbols |-> 0] /\ callSubs = {} /\ ending = <<>>
      /\ muddled = {}
  BY DEF QuoteInit
<1>2. QuoteTypeOK
  <2>1. PendingMax \in Nat \ {0}
    BY QuoteAssumption
  <2>2. Len(frames) = 0 /\ Len(frames) <= PendingMax
    <3>1. Len(frames) = 0
      BY <1>1, EmptySeq
    <3> QED
      BY ONLY <2>1, <3>1
  <2>3. watch \in [Conns -> SUBSET Symbols] /\ hears \in [Conns -> SUBSET Symbols]
    BY ONLY <1>1
  <2>4. routing \in [Conns -> Symbols \cup {""}] /\ requests \in [Symbols -> Nat]
    BY ONLY <1>1
  <2>5. healthy \in BOOLEAN /\ sameSidecar \in BOOLEAN
    BY ONLY <1>1
  <2>6. routed \in SUBSET Symbols /\ callSubs \in SUBSET Symbols /\ stream \in {"down", "up"}
    BY ONLY <1>1
  <2> QED
    BY <2>2, <2>3, <2>4, <2>5, <2>6 DEF QuoteTypeOK
<1>3. RoutesWatched /\ RoutesOnce /\ FreshSidecar /\ CountedOnce
  <2>1. \A w \in Conns : routing[w] = ""
    BY <1>1
  <2>2. \A s \in Symbols : requests[s] = 0 /\ requests[s] <= 1
    <3>1. \A s \in Symbols : requests[s] = 0
      BY <1>1
    <3> QED
      BY ONLY <3>1
  <2>3. RoutesWatched /\ RoutesOnce
    BY <1>1, <2>1 DEF RoutesWatched, RoutesOnce
  <2>4. FreshSidecar /\ CountedOnce
    BY ONLY <1>1, <2>2 DEF FreshSidecar, CountedOnce
  <2> QED
    BY <2>3, <2>4
<1>4. EndedIsUnrouted /\ UpIsTrue
  BY <1>1 DEF EndedIsUnrouted, UpIsTrue
<1>5. frames \in Seq(Frames) /\ ending \in Seq(SUBSET Symbols) /\ muddled \subseteq Symbols
  BY ONLY <1>1, EmptySeq
<1> QED
  BY <1>2, <1>3, <1>4, <1>5 DEF QuoteInv

\* What the frames and the sidecar keep when the registry changes.
LEMMA RegistryStep ==
    ASSUME QuoteInv, UNCHANGED <<stream, sidecar>>, healthy' = healthy,
           watch' \in [Conns -> SUBSET Symbols], hears' \in [Conns -> SUBSET Symbols],
           routing' \in [Conns -> Symbols \cup {""}], routed' \in SUBSET Symbols,
           frames' \in Seq(Frames), Len(frames') <= PendingMax,
           muddled \subseteq muddled', muddled' \subseteq Symbols,
           RoutesWatched', RoutesOnce', EndedIsUnrouted',
           \A s \in Symbols \ muddled' :
               Leads(frames, s, callSubs, routed) => Leads(frames', s, callSubs, routed')
    PROVE  QuoteInv'
<1>1. QuoteTypeOK'
  BY DEF QuoteInv, QuoteTypeOK, sidecar
<1>2. ending' \in Seq(SUBSET Symbols) /\ FreshSidecar' /\ CountedOnce'
  BY DEF QuoteInv, FreshSidecar, CountedOnce, sidecar
<1>3. UpIsTrue'
  BY DEF QuoteInv, UpIsTrue, sidecar
<1> QED
  BY <1>1, <1>2, <1>3 DEF QuoteInv

LEMMA SubscribeStep == QuoteInv /\ (\E w \in Conns, s \in Symbols : Subscribe(w, s)) => QuoteInv'
<1> SUFFICES ASSUME QuoteInv, NEW w \in Conns, NEW s \in Symbols, Subscribe(w, s) PROVE QuoteInv'
  OBVIOUS
<1>1. /\ watch' = [watch EXCEPT ![w] = @ \cup {s}] /\ routing[w] = "" /\ s \notin watch[w]
      /\ UNCHANGED <<routed, healthy, stream, frames, sidecar, muddled>>
  BY DEF Subscribe
<1>2. \/ UNCHANGED <<hears, routing>>
      \/ /\ ~Watched(s) /\ hears' = [hears EXCEPT ![w] = @ \cup {s}]
         /\ routing' = [routing EXCEPT ![w] = s]
  BY DEF Subscribe
<1>3. QuoteTypeOK /\ RoutesWatched /\ RoutesOnce /\ EndedIsUnrouted
  BY DEF QuoteInv
<1>4. watch' \in [Conns -> SUBSET Symbols] /\ \A x \in Conns : watch[x] \subseteq watch'[x]
  BY <1>1, <1>3 DEF QuoteTypeOK
<1>5. hears' \in [Conns -> SUBSET Symbols] /\ routing' \in [Conns -> Symbols \cup {""}]
  <2>1. \A x \in Conns : hears[x] \subseteq Symbols
    BY <1>3 DEF QuoteTypeOK
  <2>2. hears \in [Conns -> SUBSET Symbols]
    BY <1>3 DEF QuoteTypeOK
  <2>3. hears[w] \cup {s} \in SUBSET Symbols
    BY <2>1
  <2>4. hears' \in [Conns -> SUBSET Symbols]
    BY ONLY <1>2, <2>2, <2>3
  <2> QED
    BY <1>2, <1>3, <2>4 DEF QuoteTypeOK
<1>6. RoutesWatched'
  BY <1>1, <1>3, <1>4 DEF RoutesWatched, Watched
<1>7. RoutesOnce'
  <2>1. CASE routing' = routing
    BY <1>1, <1>3, <1>4, <2>1 DEF RoutesOnce
  <2>2. CASE ~Watched(s) /\ routing' = [routing EXCEPT ![w] = s]
    <3>1. s \notin routed /\ s \in watch'[w] /\ \A x \in Conns : routing[x] # s
      BY <1>1, <1>3, <2>2, QuoteAssumption DEF RoutesWatched, RoutesOnce, Watched, QuoteTypeOK
    <3>2. routing'[w] = s /\ \A x \in Conns \ {w} : routing'[x] = routing[x]
      BY <1>3, <2>2 DEF QuoteTypeOK
    <3>3. /\ routed' = routed /\ \A x \in Conns : watch[x] \subseteq watch'[x]
          /\ \A x \in Conns : routing[x] # "" =>
                /\ routing[x] \in watch[x] /\ routing[x] \notin routed
                /\ \A y \in Conns \ {x} : routing[y] # routing[x]
      BY <1>1, <1>3, <1>4 DEF RoutesOnce
    <3> SUFFICES ASSUME NEW v \in Conns, routing'[v] # ""
                 PROVE  /\ routing'[v] \in watch'[v] /\ routing'[v] \notin routed'
                        /\ \A x \in Conns \ {v} : routing'[x] # routing'[v]
      BY DEF RoutesOnce
    <3>4. CASE v = w
      BY ONLY <3>1, <3>2, <3>3, <3>4
    <3>5. CASE v # w
      BY ONLY <3>1, <3>2, <3>3, <3>5, v \in Conns, w \in Conns, routing'[v] # ""
    <3> QED
      BY <3>4, <3>5
  <2> QED
    BY <1>2, <2>1, <2>2
<1>8. EndedIsUnrouted'
  BY <1>1, <1>3 DEF EndedIsUnrouted
<1> QED
  BY <1>1, <1>3, <1>4, <1>5, <1>6, <1>7, <1>8, RegistryStep DEF QuoteInv, QuoteTypeOK

LEMMA AssignStep == QuoteInv /\ (\E w \in Conns : AssignRoute(w)) => QuoteInv'
<1> SUFFICES ASSUME QuoteInv, NEW w \in Conns, AssignRoute(w) PROVE QuoteInv'
  OBVIOUS
<1> DEFINE s == routing[w]
           f == Sub(s)
<1>1. /\ s # "" /\ routing' = [routing EXCEPT ![w] = ""]
      /\ UNCHANGED <<watch, hears, healthy, stream, sidecar>>
  BY DEF AssignRoute
<1>2. /\ QuoteTypeOK /\ RoutesWatched /\ RoutesOnce /\ EndedIsUnrouted
      /\ frames \in Seq(Frames) /\ muddled \subseteq Symbols /\ Len(frames) <= PendingMax
  BY DEF QuoteInv, QuoteTypeOK
<1>3. s \in Symbols /\ s \in watch[w] /\ s \notin routed /\ \A x \in Conns \ {w} : routing[x] # s
  BY <1>1, <1>2 DEF QuoteTypeOK, RoutesOnce
<1>4. f \in Frames /\ f.sym = s
  BY <1>3 DEF Sub, Frames
<1>5. routing' \in [Conns -> Symbols \cup {""}] /\ \A x \in Conns : routing'[x] = IF x = w THEN "" ELSE routing[x]
  BY <1>1, <1>2 DEF QuoteTypeOK
<1>6. CASE UNCHANGED <<routed, frames, muddled>>
  <2>1. RoutesWatched' /\ EndedIsUnrouted'
    BY <1>1, <1>2, <1>6 DEF RoutesWatched, EndedIsUnrouted, Watched
  <2>2. RoutesOnce'
    BY <1>1, <1>2, <1>5, <1>6 DEF RoutesOnce
  <2> QED
    BY <1>1, <1>2, <1>5, <1>6, <2>1, <2>2, RegistryStep DEF QuoteTypeOK
<1>7. CASE routed' = routed \cup {s} /\ Enqueue(f)
  <2>1. /\ frames' \in Seq(Frames) /\ Len(frames') <= PendingMax
        /\ muddled \subseteq muddled' /\ muddled' \subseteq Symbols
        /\ \A t \in Symbols :
             /\ ~EndsIt(<<f>>, t) /\ (~EndsIt(frames, t) \/ f.sym = t) => ~EndsIt(frames', t)
             /\ t \notin muddled' => \A B, C, D :
                  Leads(frames, t, B, C) /\ Leads(<<f>>, t, C, D) => Leads(frames', t, B, D)
    BY <1>2, <1>4, <1>7, EnqueueStep
  <2>2. \A t : ~EndsIt(<<f>>, t)
    BY <1>4, OneFrame
  <2>3. ASSUME NEW t \in Symbols PROVE Leads(<<f>>, t, routed, routed')
    BY <1>3, <1>4, <1>7, OneFrame
  <2>4. RoutesWatched'
    BY <1>1, <1>2, <1>3, <1>7 DEF RoutesWatched, Watched
  <2>5. RoutesOnce'
    BY <1>1, <1>2, <1>3, <1>5, <1>7 DEF RoutesOnce
  <2>6. EndedIsUnrouted'
    BY <1>2, <1>3, <1>4, <1>7, <2>1, <2>2 DEF EndedIsUnrouted, QuoteTypeOK
  <2>7. routed' \in SUBSET Symbols
    BY <1>2, <1>3, <1>7 DEF QuoteTypeOK
  <2>8. \A t \in Symbols \ muddled' : Leads(frames, t, callSubs, routed) => Leads(frames', t, callSubs, routed')
    BY <2>1, <2>3
  <2> HIDE DEF f
  <2> QED
    BY <1>1, <1>2, <1>5, <2>1, <2>4, <2>5, <2>6, <2>7, <2>8, RegistryStep DEF QuoteTypeOK
<1> QED
  BY <1>6, <1>7 DEF AssignRoute, Sub

LEMMA UnsubscribeStep == QuoteInv /\ (\E w \in Conns, s \in Symbols : Unsubscribe(w, s)) => QuoteInv'
<1> SUFFICES ASSUME QuoteInv, NEW w \in Conns, NEW s \in Symbols, Unsubscribe(w, s) PROVE QuoteInv'
  OBVIOUS
<1> DEFINE f == Unsub(s)
<1>1. /\ routing[w] = "" /\ watch' = [watch EXCEPT ![w] = @ \ {s}]
      /\ UNCHANGED <<routing, healthy, stream, sidecar>>
  BY DEF Unsubscribe
<1>2. /\ QuoteTypeOK /\ RoutesWatched /\ RoutesOnce /\ EndedIsUnrouted
      /\ frames \in Seq(Frames) /\ muddled \subseteq Symbols /\ Len(frames) <= PendingMax
  BY DEF QuoteInv, QuoteTypeOK
<1>3. /\ watch' \in [Conns -> SUBSET Symbols]
      /\ \A x \in Conns \ {w} : watch'[x] = watch[x]
      /\ watch'[w] = watch[w] \ {s}
  BY <1>1, <1>2 DEF QuoteTypeOK
<1>4. f \in Frames /\ f.sym = s
  BY DEF Unsub, Frames
<1>5. CASE Others(w, s) /\ UNCHANGED <<hears, routed, frames, muddled>>
  <2>1. RoutesWatched'
    BY <1>2, <1>3, <1>5 DEF RoutesWatched, Watched, Others
  <2>2. RoutesOnce'
    BY <1>1, <1>2, <1>3, <1>5 DEF RoutesOnce
  <2>3. EndedIsUnrouted'
    BY <1>2, <1>5 DEF EndedIsUnrouted
  <2> QED
    BY <1>1, <1>2, <1>3, <1>5, <2>1, <2>2, <2>3, RegistryStep DEF QuoteTypeOK
<1>6. CASE /\ routed' = routed \ {s} /\ hears' = [hears EXCEPT ![w] = @ \ {s}]
           /\ IF s \in routed THEN Enqueue(f) ELSE UNCHANGED <<frames, muddled>>
  <2>1. RoutesWatched' /\ routed' \in SUBSET Symbols /\ hears' \in [Conns -> SUBSET Symbols]
    <3>1. \A x \in Conns : hears[x] \subseteq Symbols
      BY <1>2 DEF QuoteTypeOK
    <3>2. hears' \in [Conns -> SUBSET Symbols]
      BY <1>2, <1>6, <3>1 DEF QuoteTypeOK
    <3> QED
      BY <1>2, <1>3, <1>6, <3>2 DEF RoutesWatched, Watched, QuoteTypeOK
  <2>2. RoutesOnce'
    BY <1>1, <1>2, <1>3, <1>6 DEF RoutesOnce
  <2>3. CASE s \notin routed
    <3>1. routed' = routed /\ UNCHANGED <<frames, muddled>>
      BY <1>6, <2>3
    <3>2. EndedIsUnrouted'
      BY <1>2, <3>1 DEF EndedIsUnrouted
    <3> QED
      BY <1>1, <1>2, <1>3, <2>1, <2>2, <3>1, <3>2, RegistryStep DEF QuoteTypeOK
  <2>4. CASE s \in routed
    <3>1. /\ frames' \in Seq(Frames) /\ Len(frames') <= PendingMax
          /\ muddled \subseteq muddled' /\ muddled' \subseteq Symbols
          /\ \A t \in Symbols :
               /\ ~EndsIt(<<f>>, t) /\ (~EndsIt(frames, t) \/ f.sym = t) => ~EndsIt(frames', t)
               /\ t \notin muddled' => \A B, C, D :
                    Leads(frames, t, B, C) /\ Leads(<<f>>, t, C, D) => Leads(frames', t, B, D)
      BY <1>2, <1>4, <1>6, <2>4, EnqueueStep
    <3>2. \A t : t # s => ~EndsIt(<<f>>, t)
      BY <1>4, OneFrame
    <3>3. ASSUME NEW t \in Symbols PROVE Leads(<<f>>, t, routed, routed')
      BY <1>4, <1>6, OneFrame
    <3>4. EndedIsUnrouted'
      BY <1>2, <1>6, <3>1, <3>2 DEF EndedIsUnrouted, QuoteTypeOK
    <3>5. \A t \in Symbols \ muddled' : Leads(frames, t, callSubs, routed) => Leads(frames', t, callSubs, routed')
      BY <3>1, <3>3
    <3> HIDE DEF f
    <3> QED
      BY <1>1, <1>2, <1>3, <2>1, <2>2, <3>1, <3>4, <3>5, RegistryStep DEF QuoteTypeOK
  <2> QED
    BY <2>3, <2>4
<1> QED
  BY <1>5, <1>6 DEF Unsubscribe, RouteToRemove, Unsub

LEMMA DisconnectStep == QuoteInv /\ (\E w \in Conns : Disconnect(w)) => QuoteInv'
<1> SUFFICES ASSUME QuoteInv, NEW w \in Conns, Disconnect(w) PROVE QuoteInv'
  OBVIOUS
<1> DEFINE gone == {s \in watch[w] : ~Others(w, s)}
           T == {s \in gone \cap hears[w] : RouteToRemove(s)}
<1>1. /\ routing[w] = "" /\ watch' = [watch EXCEPT ![w] = {}] /\ hears' = [hears EXCEPT ![w] = {}]
      /\ UNCHANGED <<routing, healthy, stream, sidecar>>
  BY DEF Disconnect
<1>2. /\ QuoteTypeOK /\ RoutesWatched /\ RoutesOnce /\ EndedIsUnrouted
      /\ frames \in Seq(Frames) /\ muddled \subseteq Symbols
  BY DEF QuoteInv
<1>3. gone \subseteq Symbols /\ T \subseteq gone /\ \A s \in gone : s \notin T /\ s \in routed => s \in gone \ hears[w]
  BY <1>2 DEF QuoteTypeOK, RouteToRemove
<1>4. PICK told \in SetToSeqs(T) :
        LET all == frames \o [k \in DOMAIN told |-> [op |-> "unsub", sym |-> told[k]]]
            dropped == IF Len(all) > PendingMax THEN Len(all) - PendingMax ELSE 0
        IN /\ routed' = routed \ gone
           /\ frames' = SubSeq(all, 1 + dropped, Len(all))
           /\ muddled' = muddled \cup {s \in gone \ hears[w] : s \in routed}
                           \cup {all[k].sym : k \in 1..dropped}
  BY DEF Disconnect
<1> DEFINE u == [k \in DOMAIN told |-> [op |-> "unsub", sym |-> told[k]]]
<1>b. /\ u \in Seq(Frames)
      /\ \A i \in 1..Len(u) : \E t \in T : u[i] = Unsub(t)
      /\ \A t \in T : \E i \in 1..Len(u) : u[i] = Unsub(t)
  <2>1. IsFiniteSet(Symbols) /\ T \in SUBSET Symbols
    BY <1>3, QuoteAssumption
  <2>2. IsFiniteSet(T)
    BY ONLY <2>1, FS_Subset
  <2> HIDE DEF T
  <2>3. /\ told \in Seq(T) /\ Len(told) \in Nat /\ DOMAIN told = 1..Len(told)
        /\ \A t \in T : \E i \in 1..Len(told) : told[i] = t
    BY <2>2, ToldInFull
  <2>4. \A i \in 1..Len(told) : told[i] \in T /\ [op |-> "unsub", sym |-> told[i]] \in Frames
    BY <2>1, <2>3 DEF Frames
  <2>5. u \in Seq(Frames) /\ Len(u) = Len(told) /\ \A i \in 1..Len(told) : u[i] = Unsub(told[i])
    BY <2>3, <2>4 DEF Unsub
  <2> HIDE DEF u
  <2> QED
    BY ONLY <2>3, <2>4, <2>5
<1>c. \E all, dropped :
        /\ all = frames \o u
        /\ dropped = IF Len(all) > PendingMax THEN Len(all) - PendingMax ELSE 0
        /\ frames' = SubSeq(all, 1 + dropped, Len(all))
        /\ muddled' = muddled \cup {s \in gone \ hears[w] : s \in routed}
                        \cup {all[k].sym : k \in 1..dropped}
  BY <1>4
<1> HIDE DEF u
<1>a. PICK all, dropped :
        /\ all = frames \o u
        /\ dropped = IF Len(all) > PendingMax THEN Len(all) - PendingMax ELSE 0
        /\ frames' = SubSeq(all, 1 + dropped, Len(all))
        /\ muddled' = muddled \cup {s \in gone \ hears[w] : s \in routed}
                        \cup {all[k].sym : k \in 1..dropped}
  BY ONLY <1>c
<1>5. /\ frames' \in Seq(Frames) /\ Len(frames') <= PendingMax
      /\ \A k \in 1..dropped : all[k].sym \in Symbols
      /\ \A s : ~EndsIt(frames, s) /\ s \notin T => ~EndsIt(frames', s)
      /\ \A s, B, C, D :
           /\ \A k \in 1..dropped : all[k].sym # s
           /\ Leads(frames, s, B, C) /\ (s \in D <=> s \in C /\ s \notin T)
           => Leads(frames', s, B, D)
  <2> HIDE DEF T
  <2>1. Told(frames, u, T, all, dropped, frames')
    BY ONLY <1>2, <1>a, <1>b DEF Told
  <2> QED
    BY ONLY <2>1, ToldStep
<1> HIDE DEF T
<1>6. /\ routed' = routed \ gone
      /\ muddled' = muddled \cup {s \in gone \ hears[w] : s \in routed} \cup {all[k].sym : k \in 1..dropped}
  BY <1>4, <1>a
<1>7. muddled \subseteq muddled' /\ muddled' \subseteq Symbols
  BY <1>2, <1>3, <1>5, <1>6
<1>8. /\ watch' \in [Conns -> SUBSET Symbols] /\ hears' \in [Conns -> SUBSET Symbols]
      /\ watch'[w] = {} /\ \A x \in Conns \ {w} : watch'[x] = watch[x]
  BY <1>1, <1>2 DEF QuoteTypeOK
<1>9. routed' \in SUBSET Symbols /\ routed' \subseteq routed
  BY <1>2, <1>6 DEF QuoteTypeOK
<1>10. RoutesWatched'
  <2> SUFFICES ASSUME NEW s \in routed' PROVE \E x \in Conns : s \in watch'[x]
    BY DEF RoutesWatched, Watched
  <2>1. s \in routed /\ s \notin gone
    BY <1>6
  <2>2. PICK x \in Conns : s \in watch[x]
    BY <1>2, <2>1 DEF RoutesWatched, Watched
  <2>3. CASE x = w
    BY <1>8, <2>1, <2>2, <2>3 DEF Others
  <2>4. CASE x # w
    BY <1>8, <2>2, <2>4
  <2> QED
    BY <2>3, <2>4
<1>11. RoutesOnce'
  BY <1>1, <1>2, <1>8, <1>9 DEF RoutesOnce
<1>12. EndedIsUnrouted'
  BY <1>2, <1>3, <1>5, <1>6 DEF EndedIsUnrouted
<1>13. ASSUME NEW s \in Symbols \ muddled', Leads(frames, s, callSubs, routed)
       PROVE  Leads(frames', s, callSubs, routed')
  <2>1. \A k \in 1..dropped : all[k].sym # s
    BY <1>6, <1>13
  <2>2. s \in routed' <=> s \in routed /\ s \notin T
    BY <1>3, <1>6, <1>13
  <2> QED
    BY <1>5, <1>13, <2>1, <2>2
<1>14. routing' \in [Conns -> Symbols \cup {""}]
  BY <1>1, <1>2 DEF QuoteTypeOK
<1> HIDE DEF gone
<1> QED
  BY <1>1, <1>5, <1>7, <1>8, <1>9, <1>10, <1>11, <1>12, <1>13, <1>14, RegistryStep

-----------------------------------------------------------------------------
(* The stream's steps.                                                     *)

\* The connections, and what they are routed to, are left alone.
LEMMA StreamStep ==
    ASSUME QuoteInv, UNCHANGED registry,
           healthy' \in BOOLEAN, stream' \in {"down", "up"}, sameSidecar' \in BOOLEAN,
           requests' \in [Symbols -> Nat], callSubs' \in SUBSET Symbols,
           frames' \in Seq(Frames), Len(frames') <= PendingMax,
           \A s \in Symbols : EndsIt(frames', s) => EndsIt(frames, s),
           muddled' \subseteq Symbols, ending' \in Seq(SUBSET Symbols),
           FreshSidecar', CountedOnce', UpIsTrue'
    PROVE  QuoteInv'
<1>1. QuoteTypeOK'
  BY DEF QuoteInv, QuoteTypeOK, registry
<1>2. RoutesWatched' /\ RoutesOnce'
  BY DEF QuoteInv, RoutesWatched, RoutesOnce, Watched, registry
<1>3. EndedIsUnrouted'
  BY DEF QuoteInv, QuoteTypeOK, EndedIsUnrouted, registry
<1> QED
  BY <1>1, <1>2, <1>3 DEF QuoteInv

\* Some member of a set of positions is the last.
LEMMA LastOne ==
    ASSUME NEW n \in Nat, NEW S \in SUBSET (1..n), S # {}
    PROVE  \E j \in S : \A i \in S : i <= j
<1> DEFINE T == {n - j : j \in S}
<1>1. T \subseteq Nat /\ T # {}
  <2>1. \A j \in S : n - j \in Nat
    OBVIOUS
  <2>2. PICK j \in S : TRUE
    OBVIOUS
  <2>3. n - j \in T
    OBVIOUS
  <2> QED
    BY <2>1, <2>3
<1>2. PICK x \in T : \A y \in T : <<y, x>> \notin OpToRel(<, Nat)
  BY <1>1, NatLessThanWellFounded, WFMin
<1>3. \A y \in T : ~(y < x)
  BY <1>1, <1>2 DEF OpToRel
<1>4. PICK j \in S : x = n - j
  OBVIOUS
<1>5. \A i \in S : n - i \in T /\ ~(n - i < n - j)
  BY <1>3, <1>4
<1> QED
  BY <1>4, <1>5

\* Frames that do not end it and never ask for it say nothing of s.
LEMMA Unmentioned ==
    ASSUME NEW q \in Seq(Frames), NEW s, ~EndsIt(q, s), \A k \in 1..Len(q) : q[k] # Sub(s)
    PROVE  \A k \in 1..Len(q) : q[k].sym # s
<1> DEFINE S == {k \in 1..Len(q) : q[k].sym = s}
<1> SUFFICES ASSUME S # {} PROVE FALSE
  OBVIOUS
<1>1. Len(q) \in Nat
  BY LenProperties
<1>2. PICK j \in S : \A i \in S : i <= j
  BY <1>1, LastOne
<1>3. j \in 1..Len(q) /\ q[j].sym = s /\ q[j] \in Frames
  BY <1>1
<1>4. q[j] = Unsub(s)
  BY <1>3 DEF Sub, Unsub, Frames
<1>5. ASSUME NEW i \in (j + 1)..Len(q) PROVE q[i].sym # s
  BY <1>1, <1>2, <1>3
<1> QED
  BY <1>3, <1>4, <1>5 DEF EndsIt

LEMMA RoundOpensStep == QuoteInv /\ RoundOpens => QuoteInv'
<1> SUFFICES ASSUME QuoteInv, RoundOpens PROVE QuoteInv'
  OBVIOUS
<1> DEFINE Ending == UNION {ending[k] : k \in DOMAIN ending}
           Asking == {frames[k].sym : k \in {j \in DOMAIN frames : frames[j].op = "sub"}}
<1>1. /\ stream = "down" /\ stream' = "up" /\ healthy' = TRUE /\ sameSidecar' = TRUE
      /\ requests' = FirstFrame /\ callSubs' = routed
      /\ muddled' = muddled \cup Ending \cup Asking
      /\ UNCHANGED <<registry, frames, ending>>
  BY DEF RoundOpens
<1>2. /\ QuoteTypeOK /\ frames \in Seq(Frames) /\ muddled \subseteq Symbols
      /\ ending \in Seq(SUBSET Symbols) /\ EndedIsUnrouted /\ FreshSidecar /\ CountedOnce
  BY DEF QuoteInv
<1>3. requests \in [Symbols -> Nat] /\ routed \subseteq Symbols /\ Len(frames) <= PendingMax
  BY <1>2 DEF QuoteTypeOK
<1>4. /\ \A k \in DOMAIN frames : frames[k] \in Frames
      /\ \A k \in DOMAIN ending : ending[k] \subseteq Symbols
      /\ DOMAIN frames = 1..Len(frames)
  BY <1>2
<1>5. muddled' \subseteq Symbols
  <2>1. \A k \in DOMAIN frames : frames[k].sym \in Symbols
    BY <1>4 DEF Frames
  <2>2. Asking \subseteq Symbols
    BY ONLY <2>1
  <2>3. Ending \subseteq Symbols
    BY ONLY <1>4
  <2> HIDE DEF Asking, Ending
  <2> QED
    BY ONLY <1>1, <1>2, <2>2, <2>3
<1>6. requests' \in [Symbols -> Nat]
  BY <1>1, <1>3 DEF FirstFrame, Resync, Asked
<1>7. ASSUME NEW s \in Symbols \ muddled' PROVE requests'[s] = IF s \in routed THEN 1 ELSE 0
  <2>1. s \notin muddled /\ requests[s] \in Nat /\ requests[s] <= 1
    BY <1>1, <1>2, <1>3, <1>7 DEF CountedOnce
  <2>2. CASE sameSidecar
    BY <1>1, <2>1, <2>2 DEF FirstFrame, Resync
  <2>3. CASE ~sameSidecar
    <3>1. requests[s] = 0
      BY <1>2, <2>3 DEF FreshSidecar
    <3> QED
      BY <1>1, <2>3, <3>1 DEF FirstFrame, Asked
  <2> QED
    BY <2>2, <2>3
<1>8. ASSUME NEW s \in Symbols \ muddled' PROVE Leads(frames, s, routed, routed)
  <2>1. \A k \in 1..Len(frames) : frames[k] # Sub(s)
    <3> SUFFICES ASSUME NEW k \in 1..Len(frames), frames[k] = Sub(s) PROVE FALSE
      OBVIOUS
    <3>1. frames[k].op = "sub" /\ frames[k].sym = s
      BY DEF Sub
    <3>2. frames[k].sym \in Asking
      BY <1>4, <3>1
    <3> HIDE DEF Asking
    <3>3. frames[k].sym \in muddled'
      BY ONLY <1>1, <3>2
    <3> QED
      BY <1>8, <3>1, <3>3
  <2>2. s \in routed => \A k \in 1..Len(frames) : frames[k].sym # s
    BY <1>2, <2>1, Unmentioned DEF EndedIsUnrouted
  <2>3. Asks(frames, s, routed, Len(frames)) <=> s \in routed
    BY <2>1, <2>2 DEF Asks
  <2> QED
    BY <2>1, <2>3 DEF Leads
<1>9. \A s \in Symbols \ muddled' : \A k \in DOMAIN ending : s \notin ending[k]
  BY <1>1
<1>10. UpIsTrue'
  BY <1>1, <1>7, <1>8, <1>9 DEF UpIsTrue, registry
<1>11. FreshSidecar' /\ CountedOnce'
  BY <1>1 DEF FreshSidecar, CountedOnce
<1> QED
  BY <1>1, <1>2, <1>3, <1>5, <1>6, <1>10, <1>11, StreamStep

LEMMA SendFrameStep == QuoteInv /\ SendFrame => QuoteInv'
<1> SUFFICES ASSUME QuoteInv, SendFrame PROVE QuoteInv'
  OBVIOUS
<1> DEFINE f == Head(frames)
<1>1. /\ stream = "up" /\ frames # <<>> /\ frames' = Tail(frames)
      /\ requests' = IF f.op = "sub" THEN Asked({f.sym}) ELSE Given({f.sym})
      /\ callSubs' = IF f.op = "sub" THEN callSubs \cup {f.sym} ELSE callSubs \ {f.sym}
      /\ UNCHANGED <<registry, healthy, stream, sameSidecar, ending, muddled>>
  BY DEF SendFrame
<1>2. /\ QuoteTypeOK /\ frames \in Seq(Frames) /\ muddled \subseteq Symbols
      /\ ending \in Seq(SUBSET Symbols) /\ FreshSidecar /\ UpIsTrue
  BY DEF QuoteInv
<1>3. /\ requests \in [Symbols -> Nat] /\ callSubs \subseteq Symbols
      /\ PendingMax \in Int /\ Len(frames) <= PendingMax /\ Len(frames) \in Nat
      /\ healthy \in BOOLEAN /\ sameSidecar \in BOOLEAN
  <2>1. PendingMax \in Nat \ {0}
    BY QuoteAssumption
  <2>2. Len(frames) \in Nat
    BY <1>2, LenProperties
  <2>3. PendingMax \in Int
    BY ONLY <2>1
  <2> QED
    BY ONLY <1>2, <2>2, <2>3 DEF QuoteTypeOK
<1>4. f \in Frames
  BY <1>1, <1>2, HeadTailProperties
<1>5. \A s : (f = Sub(s) <=> f.op = "sub" /\ f.sym = s) /\ (f = Unsub(s) <=> f.op # "sub" /\ f.sym = s)
  BY <1>4 DEF Sub, Unsub, Frames
<1>6. /\ frames' \in Seq(Frames) /\ Len(frames') = Len(frames) - 1
      /\ \A s \in Symbols : EndsIt(frames', s) => EndsIt(frames, s)
      /\ \A s \in Symbols : \A B, D :
           Leads(frames, s, B, D) =>
               /\ f = Sub(s) => s \notin B
               /\ Leads(frames', s, IF f = Sub(s) THEN {s} ELSE IF f = Unsub(s) THEN {} ELSE B, D)
  BY <1>1, <1>2, SentStep
<1>7. requests' \in [Symbols -> Nat] /\ callSubs' \in SUBSET Symbols
  <2>1. f.sym \in Symbols
    BY <1>4 DEF Frames
  <2> QED
    BY <1>1, <1>3, <2>1 DEF Asked, Given
<1> HIDE DEF f
<1>8. ASSUME NEW s \in Symbols \ muddled'
      PROVE  /\ Leads(frames', s, callSubs', routed)
             /\ requests'[s] = IF s \in callSubs' THEN 1 ELSE 0
             /\ \A k \in DOMAIN ending : s \notin ending[k]
  <2> DEFINE B == IF f = Sub(s) THEN {s} ELSE IF f = Unsub(s) THEN {} ELSE callSubs
  <2>1. /\ Leads(frames, s, callSubs, routed) /\ requests[s] = IF s \in callSubs THEN 1 ELSE 0
        /\ \A k \in DOMAIN ending : s \notin ending[k]
    BY <1>1, <1>2, <1>8 DEF UpIsTrue
  <2>2. (f = Sub(s) => s \notin callSubs) /\ Leads(frames', s, B, routed)
    BY <1>6, <2>1
  <2>3. s \in B <=> s \in callSubs'
    BY <1>1, <1>5
  <2> HIDE DEF B
  <2>4. Leads(frames', s, callSubs', routed)
    BY <2>2, <2>3 DEF Leads, Asks
  <2>5. requests'[s] = IF s \in callSubs' THEN 1 ELSE 0
    <3>1. CASE f.op = "sub"
      <4>1. requests'[s] = IF s = f.sym THEN requests[s] + 1 ELSE requests[s]
        BY <1>1, <3>1 DEF Asked
      <4> QED
        BY <1>1, <1>5, <2>1, <2>2, <3>1, <4>1
    <3>2. CASE f.op # "sub"
      <4>1. requests'[s] = IF s = f.sym /\ requests[s] > 0 THEN requests[s] - 1 ELSE requests[s]
        BY <1>1, <3>2 DEF Given
      <4> QED
        BY <1>1, <2>1, <3>2, <4>1
    <3> QED
      BY <3>1, <3>2
  <2> QED
    BY <2>1, <2>4, <2>5
<1>9. UpIsTrue'
  BY <1>1, <1>8 DEF UpIsTrue, registry
<1>10. FreshSidecar' /\ CountedOnce'
  BY <1>1, <1>2 DEF FreshSidecar, CountedOnce
<1>11. Len(frames') <= PendingMax
  BY ONLY <1>3, <1>6
<1>12. healthy' \in BOOLEAN /\ stream' \in {"down", "up"} /\ sameSidecar' \in BOOLEAN
  BY ONLY <1>1, <1>3
<1>13. UNCHANGED registry /\ muddled' \subseteq Symbols /\ ending' \in Seq(SUBSET Symbols)
  BY ONLY <1>1, <1>2
<1> QED
  BY <1>6, <1>7, <1>9, <1>10, <1>11, <1>12, <1>13, StreamStep

LEMMA RoundBreaksStep == QuoteInv /\ (\E error \in BOOLEAN : RoundBreaks(error)) => QuoteInv'
<1> SUFFICES ASSUME QuoteInv, NEW error \in BOOLEAN, RoundBreaks(error) PROVE QuoteInv'
  OBVIOUS
<1>1. /\ stream = "up" /\ stream' = "down" /\ healthy' = ~error
      /\ ending' = Append(ending, callSubs) /\ callSubs' = {}
      /\ frames' \in {frames} \cup (IF frames = <<>> THEN {} ELSE {Tail(frames)})
      /\ UNCHANGED <<registry, sameSidecar, requests, muddled>>
  BY DEF RoundBreaks
<1>2. /\ QuoteTypeOK /\ frames \in Seq(Frames) /\ muddled \subseteq Symbols
      /\ ending \in Seq(SUBSET Symbols) /\ FreshSidecar /\ UpIsTrue
  BY DEF QuoteInv
<1>3. /\ requests \in [Symbols -> Nat] /\ callSubs \subseteq Symbols
      /\ PendingMax \in Int /\ Len(frames) <= PendingMax /\ Len(frames) \in Nat
      /\ healthy' \in BOOLEAN /\ sameSidecar \in BOOLEAN
  <2>1. PendingMax \in Nat \ {0}
    BY QuoteAssumption
  <2>2. Len(frames) \in Nat
    BY <1>2, LenProperties
  <2>3. PendingMax \in Int
    BY ONLY <2>1
  <2>4. healthy' \in BOOLEAN
    BY ONLY <1>1
  <2> QED
    BY ONLY <1>2, <2>2, <2>3, <2>4 DEF QuoteTypeOK
<1>4. /\ frames' \in Seq(Frames) /\ Len(frames') <= PendingMax
      /\ \A s \in Symbols : EndsIt(frames', s) => EndsIt(frames, s)
  <2>1. CASE frames' = frames
    BY <1>2, <1>3, <2>1
  <2>2. CASE frames # <<>> /\ frames' = Tail(frames)
    <3>1. /\ frames' \in Seq(Frames) /\ Len(frames') = Len(frames) - 1
          /\ \A s \in Symbols : EndsIt(frames', s) => EndsIt(frames, s)
      BY <1>2, <2>2, SentStep
    <3> QED
      BY <1>3, <3>1
  <2> QED
    BY <1>1, <2>1, <2>2
<1>5. ending' \in Seq(SUBSET Symbols)
  BY <1>1, <1>2, <1>3
<1>6. CountedOnce'
  BY <1>1, <1>2 DEF CountedOnce, UpIsTrue
<1>7. FreshSidecar' /\ UpIsTrue'
  BY <1>1, <1>2 DEF FreshSidecar, UpIsTrue
<1> QED
  BY <1>1, <1>2, <1>3, <1>4, <1>5, <1>6, <1>7, StreamStep

LEMMA OldCallEndsStep == QuoteInv /\ OldCallEnds => QuoteInv'
<1> SUFFICES ASSUME QuoteInv, OldCallEnds PROVE QuoteInv'
  OBVIOUS
<1>1. /\ ending # <<>> /\ requests' = Given(Head(ending)) /\ ending' = Tail(ending)
      /\ UNCHANGED <<registry, healthy, stream, frames, callSubs, sameSidecar, muddled>>
  BY DEF OldCallEnds
<1>2. /\ QuoteTypeOK /\ frames \in Seq(Frames) /\ muddled \subseteq Symbols
      /\ ending \in Seq(SUBSET Symbols) /\ FreshSidecar /\ CountedOnce /\ UpIsTrue
  BY DEF QuoteInv
<1>3. /\ requests \in [Symbols -> Nat] /\ callSubs \in SUBSET Symbols /\ Len(frames) <= PendingMax
      /\ healthy \in BOOLEAN /\ sameSidecar \in BOOLEAN /\ stream \in {"down", "up"}
  BY <1>2 DEF QuoteTypeOK
<1>4. /\ ending' \in Seq(SUBSET Symbols) /\ 1 \in DOMAIN ending /\ Head(ending) = ending[1]
      /\ \A k \in DOMAIN ending' : k + 1 \in DOMAIN ending /\ ending'[k] = ending[k + 1]
  BY <1>1, <1>2
<1>5. /\ requests' \in [Symbols -> Nat]
      /\ \A s \in Symbols : requests'[s] <= requests[s]
      /\ \A s \in Symbols : s \notin ending[1] => requests'[s] = requests[s]
  BY <1>1, <1>3, <1>4 DEF Given
<1>6. CountedOnce'
  <2> SUFFICES ASSUME stream = "down", NEW s \in Symbols \ muddled PROVE requests'[s] <= 1
    BY <1>1 DEF CountedOnce
  <2>1. requests[s] <= 1 /\ requests[s] \in Nat /\ requests'[s] \in Nat /\ requests'[s] <= requests[s]
    BY <1>2, <1>3, <1>5 DEF CountedOnce
  <2> QED
    BY <2>1
<1>7. FreshSidecar'
  BY <1>1, <1>2 DEF FreshSidecar
<1>8. UpIsTrue'
  <2> SUFFICES ASSUME stream = "up", NEW s \in Symbols \ muddled
               PROVE  /\ Leads(frames, s, callSubs, routed)
                      /\ requests'[s] = IF s \in callSubs THEN 1 ELSE 0
                      /\ \A k \in DOMAIN ending' : s \notin ending'[k]
    BY <1>1 DEF UpIsTrue, registry
  <2>1. /\ Leads(frames, s, callSubs, routed) /\ requests[s] = IF s \in callSubs THEN 1 ELSE 0
        /\ \A k \in DOMAIN ending : s \notin ending[k]
    BY <1>2 DEF UpIsTrue
  <2> QED
    BY <1>4, <1>5, <2>1
<1> QED
  BY <1>1, <1>2, <1>3, <1>4, <1>5, <1>6, <1>7, <1>8, StreamStep

LEMMA SidecarRestartsStep == QuoteInv /\ SidecarRestarts => QuoteInv'
<1> SUFFICES ASSUME QuoteInv, SidecarRestarts PROVE QuoteInv'
  OBVIOUS
<1>1. /\ requests' = [s \in Symbols |-> 0] /\ callSubs' = {} /\ ending' = <<>>
      /\ sameSidecar' = FALSE /\ stream' = "down" /\ healthy' = FALSE /\ muddled' = {}
      /\ UNCHANGED <<registry, frames>>
  BY DEF SidecarRestarts
<1>2. frames \in Seq(Frames) /\ Len(frames) <= PendingMax
  BY DEF QuoteInv, QuoteTypeOK
<1>3. requests' \in [Symbols -> Nat] /\ \A s \in Symbols : requests'[s] = 0
  BY <1>1
<1>4. ending' \in Seq(SUBSET Symbols)
  BY <1>1
<1>5. FreshSidecar' /\ CountedOnce' /\ UpIsTrue'
  BY <1>1, <1>3 DEF FreshSidecar, CountedOnce, UpIsTrue
<1> QED
  BY <1>1, <1>2, <1>3, <1>4, <1>5, StreamStep

LEMMA QuoteStep == QuoteInv /\ [QuoteNext]_quoteVars => QuoteInv'
<1> SUFFICES ASSUME QuoteInv, [QuoteNext]_quoteVars PROVE QuoteInv'
  OBVIOUS
<1>1. CASE \E w \in Conns : AssignRoute(w)
  BY <1>1, AssignStep
<1>2. CASE \E w \in Conns : Disconnect(w)
  BY <1>2, DisconnectStep
<1>3. CASE \E w \in Conns, s \in Symbols : Subscribe(w, s)
  BY <1>3, SubscribeStep
<1>4. CASE \E w \in Conns, s \in Symbols : Unsubscribe(w, s)
  BY <1>4, UnsubscribeStep
<1>5. CASE RoundOpens \/ SendFrame \/ OldCallEnds \/ SidecarRestarts
  BY <1>5, RoundOpensStep, SendFrameStep, OldCallEndsStep, SidecarRestartsStep
<1>6. CASE \E error \in BOOLEAN : RoundBreaks(error)
  BY <1>6, RoundBreaksStep
<1>7. CASE UNCHANGED quoteVars
  BY <1>7 DEF quoteVars, registry, sidecar, QuoteInv, QuoteTypeOK, RoutesWatched, RoutesOnce, Watched,
              EndedIsUnrouted, FreshSidecar, CountedOnce, UpIsTrue
<1> QED
  BY <1>1, <1>2, <1>3, <1>4, <1>5, <1>6, <1>7 DEF QuoteNext

LEMMA QuotesQuiet == QuoteInv => QuotesHold
<1> SUFFICES ASSUME QuoteInv, stream = "up", frames = <<>>, NEW s \in Symbols \ muddled
             PROVE  requests[s] > 0 <=> s \in routed /\ Watched(s)
  BY DEF QuotesHold, QuietMeansSame, QuoteInv
<1>1. Leads(<<>>, s, callSubs, routed) /\ requests[s] = IF s \in callSubs THEN 1 ELSE 0
  BY DEF QuoteInv, UpIsTrue
<1>2. s \in callSubs <=> s \in routed
  <2>1. Len(<<>>) = 0 /\ 1..0 = {}
    OBVIOUS
  <2> QED
    BY <1>1, <2>1 DEF Leads, Asks
<1>3. s \in routed => Watched(s)
  BY DEF QuoteInv, RoutesWatched
<1> QED
  BY <1>1, <1>2, <1>3

\* When the stream is up and nothing is queued or under way, the sidecar asks
\* the market for the symbols that are watched and routed and for no others,
\* but for those whose frames were dropped, repeated or overtaken: the registry
\* and SidecarStream of the quote engine and StreamQuotes of the sidecar.
THEOREM WatchedIsAsked == QuoteSpec => []QuotesHold
<1>1. QuoteInit => QuoteInv
  BY QuoteInitially
<1>2. QuoteInv /\ [QuoteNext]_quoteVars => QuoteInv'
  BY QuoteStep
<1>3. QuoteInv => QuotesHold
  BY QuotesQuiet
<1> QED
  BY <1>1, <1>2, <1>3, PTL DEF QuoteSpec
=============================================================================
