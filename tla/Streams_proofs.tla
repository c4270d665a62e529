---------------------------- MODULE Streams_proofs ----------------------------
(***************************************************************************)
(* Theorems about streams: the quotes of the Schwab, Futu and Alpaca       *)
(* sidecars, the events of orders, the crypto book and the quotes sent to a*)
(* connection, for every number of symbols, calls, frames, failures, tokens,*)
(* events and arrivals.                                                    *)
(***************************************************************************)
EXTENDS SchwabStream, FutuStream, AlpacaStream, OrderStream, CoinbaseBook, QuoteSocket,
        FiniteSetTheorems, SequenceTheorems, NaturalsInduction, WellFoundedInduction, TLAPS

-----------------------------------------------------------------------------
(* StreamCall: commands, the table, and what an operation leaves.               *)

Cmds == [cmd : {"sub", "unsub"}, syms : SUBSET Symbols]
StreamCall == [open : BOOLEAN, subs : SUBSET Symbols, todo : Seq(Cmds), then : SUBSET Symbols]

\* What the call will have asked for when its operation is done.
Will(c) == IF c.todo = <<>> THEN c.subs ELSE c.then

\* The symbols of a set, one after the other.
LEMMA SeqOfSet ==
    ASSUME NEW S, IsFiniteSet(S)
    PROVE  /\ Cardinality(S) \in Nat /\ SetToSeq(S) \in [1..Cardinality(S) -> S]
           /\ \A x \in S : \E k \in 1..Cardinality(S) : SetToSeq(S)[k] = x
<1> DEFINE n == Cardinality(S)
           D == 1..n
<1>1. n \in Nat /\ ExistsBijection(1..n, S)
  BY FS_CardinalityType
<1>2. \E f \in [D -> S] : IsInjective(f)
  <2>1. PICK f : f \in Bijection(D, S)
    BY <1>1 DEF ExistsBijection
  <2> QED
    BY <2>1 DEF Bijection, Injection
<1>3. SetToSeq(S) \in [D -> S] /\ IsInjective(SetToSeq(S))
  BY <1>2 DEF SetToSeq
<1>4. SetToSeq(S) \in Injection(D, S)
  BY <1>3 DEF Injection
<1>5. Cardinality(D) = n
  BY <1>1, FS_Interval
<1>6. SetToSeq(S) \in Surjection(D, S)
  <2> HIDE DEF D
  <2> QED
    BY <1>4, <1>5, FS_Injection
<1> QED
  BY <1>1, <1>3, <1>6 DEF Surjection

\* One command for each symbol names the symbols.
LEMMA CommandsAre ==
    ASSUME NEW c \in {"sub", "unsub"}, NEW S \in SUBSET Symbols
    PROVE  /\ Commands(c, S) \in Seq(Cmds) /\ Named(Commands(c, S)) = S
           /\ \A k \in DOMAIN Commands(c, S) : Commands(c, S)[k].cmd = c
<1> DEFINE n == Cardinality(S)
           q == SetToSeq(S)
           C == Commands(c, S)
<1>1. IsFiniteSet(S)
  BY CallsAssumption, FS_Subset
<1>2. n \in Nat /\ q \in [1..n -> S] /\ \A x \in S : \E k \in 1..n : q[k] = x
  BY <1>1, SeqOfSet
<1>3. C = [k \in 1..n |-> [cmd |-> c, syms |-> {q[k]}]]
  BY DEF Commands
<1> HIDE DEF n, q, C
<1>4. \A k \in 1..n : [cmd |-> c, syms |-> {q[k]}] \in Cmds
  BY <1>2 DEF Cmds
<1>5. C \in [1..n -> Cmds] /\ \A k \in 1..n : C[k].cmd = c /\ C[k].syms = {q[k]}
  BY <1>3, <1>4
<1>6. DOMAIN C = 1..n /\ C \in Seq(Cmds)
  BY <1>2, <1>5
<1>7. Named(C) = S
  BY <1>2, <1>5, <1>6 DEF Named
<1> QED
  BY <1>5, <1>6, <1>7 DEF C

\* The symbols of joined commands, and of the first and the others.
LEMMA JoinedNames ==
    ASSUME NEW a \in Seq(Cmds), NEW b \in Seq(Cmds)
    PROVE  /\ a \o b \in Seq(Cmds) /\ Named(a \o b) = Named(a) \cup Named(b)
           /\ \A k \in DOMAIN (a \o b) : (\E j \in DOMAIN a : (a \o b)[k] = a[j]) \/ \E j \in DOMAIN b : (a \o b)[k] = b[j]
<1> DEFINE m == Len(a)
           n == Len(b)
           j == a \o b
<1>1. /\ m \in Nat /\ n \in Nat /\ DOMAIN a = 1..m /\ DOMAIN b = 1..n /\ DOMAIN j = 1..(m + n) /\ j \in Seq(Cmds)
      /\ (\A k \in 1..m : j[k] = a[k]) /\ \A k \in 1..n : j[m + k] = b[k]
  OBVIOUS
<1> HIDE DEF j, m, n
<1>2. \A k \in 1..(m + n) : k \in 1..m \/ \E l \in 1..n : k = m + l
  <2> SUFFICES ASSUME NEW k \in 1..(m + n), ~(k \in 1..m) PROVE \E l \in 1..n : k = m + l
    OBVIOUS
  <2>1. k - m \in 1..n /\ k = m + (k - m)
    BY <1>1
  <2> QED
    BY <2>1
<1>3. (\A k \in 1..m : k \in 1..(m + n)) /\ \A k \in 1..n : m + k \in 1..(m + n)
  BY <1>1
<1>4. \A k \in DOMAIN j : (\E i \in DOMAIN a : j[k] = a[i]) \/ \E i \in DOMAIN b : j[k] = b[i]
  <2> SUFFICES ASSUME NEW k \in 1..(m + n) PROVE (\E i \in DOMAIN a : j[k] = a[i]) \/ \E i \in DOMAIN b : j[k] = b[i]
    BY <1>1
  <2>1. CASE k \in 1..m
    BY <1>1, <2>1
  <2>2. CASE \E l \in 1..n : k = m + l
    BY <1>1, <2>2
  <2> QED
    BY <1>2, <2>1, <2>2
<1>5. \A i \in DOMAIN a : \E k \in DOMAIN j : j[k] = a[i]
  BY <1>1, <1>3
<1>6. \A i \in DOMAIN b : \E k \in DOMAIN j : j[k] = b[i]
  BY <1>1, <1>3
<1>7. Named(j) = Named(a) \cup Named(b)
  <2>1. \A x : x \in Named(j) => x \in Named(a) \cup Named(b)
    BY <1>4 DEF Named
  <2>2. \A x : x \in Named(a) \cup Named(b) => x \in Named(j)
    BY <1>5, <1>6 DEF Named
  <2> QED
    BY <2>1, <2>2
<1> QED
  BY <1>1, <1>4, <1>7 DEF j

LEMMA FirstNames ==
    ASSUME NEW a \in Seq(Cmds), a # <<>>
    PROVE  /\ Head(a) \in Cmds /\ Tail(a) \in Seq(Cmds) /\ Named(a) = Head(a).syms \cup Named(Tail(a))
           /\ \A k \in DOMAIN Tail(a) : \E j \in DOMAIN a : Tail(a)[k] = a[j]
           /\ 1 \in DOMAIN a /\ Head(a) = a[1]
<1>1. /\ Head(a) \in Cmds /\ Tail(a) \in Seq(Cmds) /\ 1 \in DOMAIN a /\ Head(a) = a[1]
      /\ \A k \in DOMAIN Tail(a) : k + 1 \in DOMAIN a /\ Tail(a)[k] = a[k + 1]
      /\ \A k \in DOMAIN a : k = 1 \/ (k - 1 \in DOMAIN Tail(a) /\ Tail(a)[k - 1] = a[k])
  OBVIOUS
<1>2. \A x : x \in Named(a) => x \in Head(a).syms \cup Named(Tail(a))
  <2> SUFFICES ASSUME NEW k \in DOMAIN a PROVE a[k].syms \subseteq Head(a).syms \cup Named(Tail(a))
    BY DEF Named
  <2>1. CASE k = 1
    BY <1>1, <2>1
  <2>2. CASE k - 1 \in DOMAIN Tail(a) /\ Tail(a)[k - 1] = a[k]
    BY <2>2 DEF Named
  <2> QED
    BY <1>1, <2>1, <2>2
<1>3. \A x : x \in Head(a).syms \cup Named(Tail(a)) => x \in Named(a)
  BY <1>1 DEF Named
<1> QED
  BY <1>1, <1>2, <1>3

LEMMA NoneNamed == Named(<<>>) = {}
BY DEF Named

LEMMA NamedSymbols == ASSUME NEW a \in Seq(Cmds) PROVE Named(a) \subseteq Symbols
<1>1. \A k \in DOMAIN a : a[k] \in Cmds
  OBVIOUS
<1>2. \A k \in DOMAIN a : a[k].syms \subseteq Symbols
  BY <1>1 DEF Cmds
<1> QED
  BY <1>2 DEF Named

\* What a call is after an operation's step.
LEMMA ProceedsIs ==
    ASSUME NEW c \in StreamCall, NEW todo \in Seq(Cmds), NEW subs \in SUBSET Symbols
    PROVE  /\ Proceeds(c, todo, subs) \in StreamCall /\ Proceeds(c, todo, subs).open = c.open
           /\ Proceeds(c, todo, subs).todo = todo /\ Will(Proceeds(c, todo, subs)) = subs
<1>1. CASE todo = <<>>
  <2>1. [c EXCEPT !.todo = todo, !.subs = subs] \in StreamCall
    BY DEF StreamCall
  <2> QED
    BY <1>1, <2>1 DEF Proceeds, Will, StreamCall
<1>2. CASE todo # <<>>
  <2>1. [c EXCEPT !.todo = todo, !.then = subs] \in StreamCall
    BY DEF StreamCall
  <2> QED
    BY <1>2, <2>1 DEF Proceeds, Will, StreamCall
<1> QED
  BY <1>1, <1>2

LEMMA AbortedIs ==
    ASSUME NEW c \in StreamCall
    PROVE  /\ Aborted(c) \in StreamCall /\ Aborted(c).open = c.open
           /\ Aborted(c).todo = <<>> /\ Will(Aborted(c)) = c.subs
<1>0. <<>> \in Seq(Cmds)
  OBVIOUS
<1>1. [c EXCEPT !.todo = <<>>] \in StreamCall
  BY <1>0 DEF StreamCall
<1> QED
  BY <1>1 DEF Aborted, Will, StreamCall

LEMMA ClosingIs ==
    ASSUME old \in StreamCall, NEW todo \in Seq(Cmds)
    PROVE  /\ Closing(todo) \in StreamCall /\ Closing(todo).todo = todo
           /\ todo # <<>> => Closing(todo).open = old.open
           /\ todo = <<>> => ~Closing(todo).open
<1>1. [old EXCEPT !.todo = todo] \in StreamCall /\ ClosedCall \in StreamCall
  BY DEF StreamCall, ClosedCall
<1> QED
  BY <1>1 DEF Closing, StreamCall, ClosedCall

\* The symbols of the table after a change of it.
LEMMA TableIs ==
    ASSUME table \in [Symbols -> Nat], NEW S \in SUBSET Symbols
    PROVE  /\ Counted(S) \in [Symbols -> Nat] /\ Given(S) \in [Symbols -> Nat] /\ Resynced(S) \in [Symbols -> Nat]
           /\ Leaving(S) \subseteq Held
           /\ table' = Counted(S) => Held' = Held \cup S
           /\ table' = Given(S) => Held' = Held \ Leaving(S)
           /\ table' = Resynced(S) => Held' = S
<1>1. Counted(S) \in [Symbols -> Nat] /\ Given(S) \in [Symbols -> Nat] /\ Resynced(S) \in [Symbols -> Nat]
  BY DEF Counted, Given, Resynced
<1>2. Leaving(S) \subseteq Held
  BY DEF Leaving, Held
<1>3. ASSUME table' = Counted(S) PROVE Held' = Held \cup S
  BY <1>3 DEF Held, Counted
<1>4. ASSUME table' = Given(S) PROVE Held' = Held \ Leaving(S)
  BY <1>4 DEF Held, Given, Leaving
<1>5. ASSUME table' = Resynced(S) PROVE Held' = S
  BY <1>5 DEF Held, Resynced
<1> QED
  BY <1>1, <1>2, <1>3, <1>4, <1>5

LEMMA ClosedIs ==
    LET opened == [ClosedCall EXCEPT !.open = TRUE]
    IN /\ ClosedCall \in StreamCall /\ ClosedCall.todo = <<>> /\ ~ClosedCall.open
       /\ opened \in StreamCall /\ opened.todo = <<>> /\ opened.subs = {} /\ opened.open
<1>1. <<>> \in Seq(Cmds) /\ FALSE \in BOOLEAN /\ TRUE \in BOOLEAN /\ {} \in SUBSET Symbols
  OBVIOUS
<1>2. ClosedCall = [open |-> FALSE, subs |-> {}, todo |-> <<>>, then |-> {}]
  BY DEF ClosedCall
<1>3. ClosedCall \in StreamCall
  BY <1>1, <1>2 DEF StreamCall
<1>4. [ClosedCall EXCEPT !.open = TRUE] \in StreamCall
  BY <1>1, <1>3 DEF StreamCall
<1> QED
  BY <1>2, <1>3, <1>4

\* The calls and the table.
CallsInv ==
    /\ current \in StreamCall /\ old \in StreamCall
    /\ current.todo # <<>> => current.open
    /\ old.todo # <<>> => old.open
    /\ table \in [Symbols -> Nat]
    /\ ops \in 0..MaxOps /\ ends \in 0..MaxEnds /\ failures \in 0..MaxFailures

LEMMA CallsInvTypes == CallsInv => CallsTypeOK
BY CallsAssumption DEF CallsInv, CallsTypeOK, StreamCall

LEMMA CallsInitially == CallsInit => CallsInv /\ Held = {} /\ current.todo = <<>> /\ old.todo = <<>> /\ current.subs = {} /\ ~old.open
<1> SUFFICES ASSUME CallsInit
             PROVE CallsInv /\ Held = {} /\ current.todo = <<>> /\ old.todo = <<>> /\ current.subs = {} /\ ~old.open
  OBVIOUS
<1>1. /\ current = [ClosedCall EXCEPT !.open = TRUE] /\ old = ClosedCall
      /\ table = [s \in Symbols |-> 0] /\ ops = 0 /\ ends = 0 /\ failures = 0
  BY DEF CallsInit
<1>2. current \in StreamCall /\ old \in StreamCall /\ current.todo = <<>> /\ old.todo = <<>> /\ current.subs = {} /\ ~old.open
  BY <1>1, ClosedIs
<1>3. Held = {} /\ table \in [Symbols -> Nat]
  BY <1>1 DEF Held
<1> QED
  BY <1>1, <1>2, <1>3, CallsAssumption DEF CallsInv

-----------------------------------------------------------------------------
(* Schwab: the connection was asked for what the table holds, the table    *)
(* holds what the calls want, and the connection has the newest token.     *)

\* The symbols with a command under way.
Pending == Named(current.todo) \cup Named(old.todo)

\* What the finally clause of the call before has still to give up.
ToGiveUp == IF old.open /\ old.todo = <<>> THEN old.subs ELSE {}

\* The socket, its reader and the token it connected with.
ReaderInv ==
    /\ conn \in {"none", "login", "live", "dead", "junk"} /\ reader \in {"reads", "pauses", "connects"}
    /\ conn \in {"none", "dead", "junk"} => upstream = {}
    /\ token \in Nat /\ connToken \in Nat /\ connToken <= token
    /\ refreshed \in BOOLEAN
    /\ reader = "pauses" => conn = "none"
    /\ reader = "connects" => conn \in {"none", "login"}
    /\ conn = "login" => reader = "connects"
    /\ (conn \in {"login", "live"} \/ reader = "connects") /\ ~refreshed => connToken = token

SchwabSettled ==
    \A s \in Symbols \ (crossed \cup Pending) :
        /\ conn = "live" => (s \in upstream <=> s \in Held)
        /\ conn = "login" => (s \in upstream => s \in Held)

Accounted ==
    \A s \in Symbols \ marred :
        /\ table[s] <= 1
        /\ s \in Held <=> s \in Will(current) \cup ToGiveUp
        /\ s \notin Will(current) \cap ToGiveUp

SchwabInv ==
    /\ CallsInv /\ (~current.open => current.subs = {})
    /\ upstream \subseteq Symbols
    /\ ReaderInv /\ SchwabSettled /\ Accounted

\* The first command of some goes out: what the connection is asked for, and
\* that it still agrees with the table.
LEMMA CommandGoesOut ==
    ASSUME SchwabInv, NEW cmds \in Seq(Cmds), Sends(cmds), crossed \subseteq crossed',
           NEW F, F = (IF cmds = <<>> THEN {} ELSE Head(cmds).syms),
           cmds # <<>> => \A s \in F \ crossed' : (Head(cmds).cmd = "sub") <=> s \in Held',
           conn # "dead" => Pending \subseteq crossed' \cup Pending' \cup F,
           \A s \in Symbols : s \in crossed' \cup Pending' \cup F \/ (s \in Held' <=> s \in Held)
    PROVE  upstream' \in SUBSET Symbols /\ ReaderInv' /\ SchwabSettled'
<1>1. /\ upstream' = IF cmds = <<>> THEN upstream ELSE AfterCommand(Head(cmds))
      /\ UNCHANGED <<conn, reader, connToken, token, refreshed>>
  BY DEF Sends, tokens
<1>2. F \subseteq Symbols /\ upstream \subseteq Symbols
  <2>1. cmds # <<>> => Head(cmds) \in Cmds
    BY FirstNames
  <2> QED
    BY <2>1 DEF SchwabInv, Cmds
<1>3. conn \in {"none", "dead", "junk"} => upstream' = upstream
  BY <1>1 DEF AfterCommand
<1>4. cmds = <<>> => upstream' = upstream
  BY <1>1
<1>5. ASSUME conn \in {"login", "live"}, cmds # <<>>
      PROVE upstream' = IF Head(cmds).cmd = "sub" THEN upstream \cup F ELSE upstream \ F
  BY <1>1, <1>5 DEF AfterCommand
<1>6. conn \in {"none", "login", "live", "dead", "junk"}
  BY DEF SchwabInv, ReaderInv
<1>7. upstream' \in SUBSET Symbols
  BY <1>2, <1>3, <1>4, <1>5, <1>6
<1>8. ReaderInv'
  BY <1>1, <1>3 DEF SchwabInv, ReaderInv
<1>9. SchwabSettled'
  <2> SUFFICES ASSUME NEW s \in Symbols \ (crossed' \cup Pending'), conn \in {"login", "live"}
               PROVE  /\ conn = "live" => (s \in upstream' <=> s \in Held')
                      /\ conn = "login" => (s \in upstream' => s \in Held')
    BY <1>1 DEF SchwabSettled
  <2>1. CASE s \in F
    <3>1. cmds # <<>> /\ ((Head(cmds).cmd = "sub") <=> s \in Held')
      BY <2>1
    <3> QED
      BY <1>5, <2>1, <3>1
  <2>2. CASE s \notin F
    <3>1. s \in Symbols \ (crossed \cup Pending) /\ (s \in Held' <=> s \in Held)
      BY <2>2
    <3>2. s \in upstream' <=> s \in upstream
      BY <1>4, <1>5, <2>2
    <3> QED
      BY <3>1, <3>2 DEF SchwabInv, SchwabSettled
  <2> QED
    BY <2>1, <2>2
<1> QED
  BY <1>7, <1>8, <1>9

\* A frame: its commands say what the table becomes, and the table becomes what
\* the calls want.
LEMMA SchwabTakes ==
    ASSUME SchwabInv, NEW cmds \in Seq(Cmds), NEW subs \in SUBSET Symbols, NEW mars,
           Carries(cmds, subs, mars), table' \in [Symbols -> Nat],
           \A k \in DOMAIN cmds : \A s \in cmds[k].syms : (cmds[k].cmd = "sub") <=> s \in Held',
           \A s \in Symbols \ Named(cmds) : s \in Held' <=> s \in Held,
           \A s \in Symbols \ (marred \cup mars) :
               table'[s] <= 1 /\ (s \in Held' <=> s \in subs \cup ToGiveUp) /\ s \notin subs \cap ToGiveUp
    PROVE  SchwabInv'
<1>t. /\ CallsInv /\ Accounted /\ current \in StreamCall /\ current.subs \in SUBSET Symbols
  BY DEF SchwabInv, CallsInv, StreamCall
<1>1. /\ current.open /\ current.todo = <<>> /\ ops < MaxOps /\ ops' = ops + 1
      /\ current' = Sent(current, cmds, subs)
      /\ marred' = marred \cup mars \cup (IF cmds # <<>> /\ conn = "dead" THEN Named(cmds) ELSE {})
      /\ Sends(cmds) /\ UNCHANGED <<old, ends, crossed, failures>>
  BY DEF Carries, TakesFrame, Sends
<1>2. /\ current' \in StreamCall /\ current'.open
      /\ current'.todo = IF cmds = <<>> \/ conn = "dead" THEN <<>> ELSE Tail(cmds)
      /\ Will(current') = IF cmds # <<>> /\ conn = "dead" THEN current.subs ELSE subs
  <2>1. CASE cmds = <<>>
    BY <1>t, <1>1, <2>1, ProceedsIs DEF Sent
  <2>2. CASE cmds # <<>> /\ conn = "dead"
    BY <1>t, <1>1, <2>2, AbortedIs DEF Sent
  <2>3. CASE cmds # <<>> /\ conn # "dead"
    BY <1>t, <1>1, <2>3, FirstNames, ProceedsIs DEF Sent
  <2> QED
    BY <2>1, <2>2, <2>3
<1>3. CallsInv'
  BY <1>1, <1>2, <1>t, CallsAssumption DEF CallsInv
<1> DEFINE F == IF cmds = <<>> THEN {} ELSE Head(cmds).syms
<1>4. /\ cmds # <<>> => Named(cmds) = F \cup Named(Tail(cmds))
      /\ cmds = <<>> => Named(cmds) = {} /\ F = {}
      /\ cmds # <<>> => 1 \in DOMAIN cmds /\ Head(cmds) = cmds[1]
  BY FirstNames, NoneNamed
<1>5. cmds # <<>> => \A s \in F : (Head(cmds).cmd = "sub") <=> s \in Held'
  BY <1>4
<1> HIDE DEF F
<1>6. Pending' = Named(old.todo) \cup (IF cmds = <<>> \/ conn = "dead" THEN {} ELSE Named(Tail(cmds)))
  BY <1>1, <1>2, NoneNamed DEF Pending
<1>7. Pending = Named(old.todo)
  BY <1>1, NoneNamed DEF Pending
<1>8. upstream' \in SUBSET Symbols /\ ReaderInv' /\ SchwabSettled'
  <2>1. CASE conn # "dead"
    <3>1. \A s \in Symbols : s \in crossed' \cup Pending' \cup F \/ (s \in Held' <=> s \in Held)
      BY <1>4, <1>6, <2>1
    <3>2. F = (IF cmds = <<>> THEN {} ELSE Head(cmds).syms)
      BY DEF F
    <3> QED
      BY <1>1, <1>5, <1>6, <1>7, <3>1, <3>2, CommandGoesOut
  <2>2. CASE conn = "dead"
    <3>1. upstream' = upstream /\ UNCHANGED <<conn, reader, connToken, token, refreshed>>
      BY <1>1, <2>2 DEF Sends, AfterCommand, tokens
    <3> QED
      BY <2>2, <3>1 DEF SchwabInv, ReaderInv, SchwabSettled
  <2> QED
    BY <2>1, <2>2
<1>9. Accounted'
  <2>0. ToGiveUp' = ToGiveUp
    BY <1>1 DEF ToGiveUp
  <2>1. Will(current) = current.subs
    BY <1>1 DEF Will
  <2> SUFFICES ASSUME NEW s \in Symbols \ marred'
               PROVE  /\ table'[s] <= 1 /\ (s \in Held' <=> s \in Will(current') \cup ToGiveUp)
                      /\ s \notin Will(current') \cap ToGiveUp
    BY <2>0 DEF Accounted, Will
  <2>2. CASE cmds # <<>> /\ conn = "dead"
    <3>1. s \in Symbols \ marred /\ s \in Symbols \ (marred \cup mars) /\ (s \in Held' <=> s \in Held)
      BY <1>1, <2>2
    <3>2. (s \in Held <=> s \in current.subs \cup ToGiveUp) /\ s \notin current.subs \cap ToGiveUp
      BY <1>t, <2>1, <3>1 DEF Accounted
    <3> QED
      BY <1>2, <2>2, <3>1, <3>2
  <2>3. CASE ~(cmds # <<>> /\ conn = "dead")
    <3>1. s \in Symbols \ (marred \cup mars) /\ Will(current') = subs
      BY <1>1, <1>2, <2>3
    <3> QED
      BY <3>1
  <2> QED
    BY <2>2, <2>3
<1> QED
  BY <1>2, <1>3, <1>8, <1>9 DEF SchwabInv

\* One command for several symbols, or none.
LEMMA OneCommand ==
    ASSUME NEW c \in {"sub", "unsub"}, NEW S \in SUBSET Symbols, NEW m, m = [cmd |-> c, syms |-> S]
    PROVE  <<m>> \in Seq(Cmds) /\ Named(<<m>>) = S /\ \A k \in DOMAIN <<m>> : <<m>>[k].cmd = c /\ <<m>>[k].syms = S
<1>1. m \in Cmds /\ m.cmd = c /\ m.syms = S
  BY DEF Cmds
<1>2. <<m>> \in Seq(Cmds) /\ DOMAIN <<m>> = {1} /\ <<m>>[1] = m
  BY <1>1
<1> QED
  BY <1>1, <1>2 DEF Named

LEMMA SubIs ==
    ASSUME NEW S \in SUBSET Symbols
    PROVE  Sub(S) \in Seq(Cmds) /\ Named(Sub(S)) = S /\ \A k \in DOMAIN Sub(S) : Sub(S)[k].cmd = "sub" /\ Sub(S)[k].syms = S
<1>1. CASE S = {}
  BY <1>1, NoneNamed DEF Sub
<1>2. CASE S # {}
  <2>1. Sub(S) = <<[cmd |-> "sub", syms |-> S]>>
    BY <1>2 DEF Sub
  <2> QED
    BY <2>1, OneCommand
<1> QED
  BY <1>1, <1>2

LEMMA UnsubIs ==
    ASSUME NEW S \in SUBSET Symbols
    PROVE  /\ Unsub(S) \in Seq(Cmds) /\ Named(Unsub(S)) = S
           /\ \A k \in DOMAIN Unsub(S) : Unsub(S)[k].cmd = "unsub" /\ Unsub(S)[k].syms = S
<1>1. CASE S = {}
  BY <1>1, NoneNamed DEF Unsub
<1>2. CASE S # {}
  <2>1. Unsub(S) = <<[cmd |-> "unsub", syms |-> S]>>
    BY <1>2 DEF Unsub
  <2> QED
    BY <2>1, OneCommand
<1> QED
  BY <1>1, <1>2

\* The frames.
LEMMA SchwabFrames ==
    ASSUME SchwabInv, NEW S \in SUBSET Symbols, SchwabSubscribe(S) \/ SchwabUnsubscribe(S) \/ SchwabResync(S)
    PROVE  SchwabInv'
<1>t. /\ table \in [Symbols -> Nat] /\ Accounted /\ current.subs \in SUBSET Symbols /\ Held \subseteq Symbols
      /\ Held = {s \in Symbols : table[s] > 0}
  BY DEF SchwabInv, CallsInv, StreamCall, Held
<1>r. \A cmds, subs, mars : Carries(cmds, subs, mars) => Will(current) = current.subs
  BY DEF Carries, TakesFrame, Will
<1>1. CASE SchwabSubscribe(S)
  <2> DEFINE cmds == Commands("sub", S \ Held)
             subs == current.subs \cup S
             mars == S \cap Held
  <2>1. table' = Counted(S) /\ Carries(cmds, subs, mars)
    BY <1>1 DEF SchwabSubscribe
  <2>2. table' \in [Symbols -> Nat] /\ Held' = Held \cup S
    BY <1>t, <2>1, TableIs
  <2>3. cmds \in Seq(Cmds) /\ Named(cmds) = S \ Held /\ \A k \in DOMAIN cmds : cmds[k].cmd = "sub"
    BY CommandsAre
  <2>4. subs \in SUBSET Symbols
    BY <1>t
  <2>5. \A s \in Symbols \ (marred \cup mars) :
            table'[s] <= 1 /\ (s \in Held' <=> s \in subs \cup ToGiveUp) /\ s \notin subs \cap ToGiveUp
    <3> SUFFICES ASSUME NEW s \in Symbols \ (marred \cup mars)
                 PROVE  table'[s] <= 1 /\ (s \in Held' <=> s \in subs \cup ToGiveUp) /\ s \notin subs \cap ToGiveUp
      OBVIOUS
    <3>1. /\ table[s] <= 1 /\ (s \in Held <=> s \in current.subs \cup ToGiveUp) /\ s \notin current.subs \cap ToGiveUp
          /\ (s \in S => s \notin Held)
      BY <1>t, <1>r, <2>1 DEF Accounted
    <3>2. table'[s] = IF s \in S THEN table[s] + 1 ELSE table[s]
      BY <2>1 DEF Counted
    <3>3. table'[s] <= 1
      BY <1>t, <3>1, <3>2
    <3> QED
      BY <2>2, <3>1, <3>3
  <2>6. \A k \in DOMAIN cmds : \A s \in cmds[k].syms : (cmds[k].cmd = "sub") <=> s \in Held'
    BY <2>2, <2>3 DEF Named
  <2>7. \A s \in Symbols \ Named(cmds) : s \in Held' <=> s \in Held
    BY <2>2, <2>3
  <2> HIDE DEF cmds, subs, mars
  <2> QED
    BY <2>1, <2>2, <2>3, <2>4, <2>5, <2>6, <2>7, SchwabTakes
<1>2. CASE SchwabUnsubscribe(S)
  <2> DEFINE cmds == Commands("unsub", Leaving(S))
             subs == current.subs \ S
             mars == S \ current.subs
  <2>1. table' = Given(S) /\ Carries(cmds, subs, mars)
    BY <1>2 DEF SchwabUnsubscribe
  <2>2. table' \in [Symbols -> Nat] /\ Held' = Held \ Leaving(S) /\ Leaving(S) \in SUBSET Symbols
    BY <1>t, <2>1, TableIs
  <2>3. cmds \in Seq(Cmds) /\ Named(cmds) = Leaving(S) /\ \A k \in DOMAIN cmds : cmds[k].cmd = "unsub"
    BY <2>2, CommandsAre
  <2>4. subs \in SUBSET Symbols
    BY <1>t
  <2>5. \A s \in Symbols \ (marred \cup mars) :
            table'[s] <= 1 /\ (s \in Held' <=> s \in subs \cup ToGiveUp) /\ s \notin subs \cap ToGiveUp
    <3> SUFFICES ASSUME NEW s \in Symbols \ (marred \cup mars)
                 PROVE  table'[s] <= 1 /\ (s \in Held' <=> s \in subs \cup ToGiveUp) /\ s \notin subs \cap ToGiveUp
      OBVIOUS
    <3>1. /\ table[s] <= 1 /\ (s \in Held <=> s \in current.subs \cup ToGiveUp) /\ s \notin current.subs \cap ToGiveUp
          /\ (s \in S => s \in current.subs) /\ s \in Symbols /\ table[s] \in Nat
      BY <1>t, <1>r, <2>1 DEF Accounted
    <3>2. table'[s] = IF s \in S /\ table[s] > 0 THEN table[s] - 1 ELSE table[s]
      BY <2>1 DEF Given
    <3>3. table'[s] <= 1
      BY <3>1, <3>2
    <3>4. s \in Held => table[s] = 1
      BY <1>t, <3>1
    <3>5. s \in S => s \notin Held'
      BY <2>2, <3>4 DEF Leaving
    <3>6. s \notin S => (s \in Held' <=> s \in Held)
      BY <2>2 DEF Leaving
    <3> QED
      BY <3>1, <3>3, <3>5, <3>6
  <2>6. \A k \in DOMAIN cmds : \A s \in cmds[k].syms : (cmds[k].cmd = "sub") <=> s \in Held'
    BY <2>2, <2>3 DEF Named
  <2>7. \A s \in Symbols \ Named(cmds) : s \in Held' <=> s \in Held
    BY <2>2, <2>3
  <2> HIDE DEF cmds, subs, mars
  <2> QED
    BY <2>1, <2>2, <2>3, <2>4, <2>5, <2>6, <2>7, SchwabTakes
<1>3. CASE SchwabResync(S)
  <2> DEFINE cmds == Sub(S \ Held) \o Unsub(Held \ S)
             mars == {s \in Symbols : s \in old.subs \/ table[s] > 1}
  <2>1. table' = Resynced(S) /\ Carries(cmds, S, mars)
    BY <1>3 DEF SchwabResync
  <2>2. table' \in [Symbols -> Nat] /\ Held' = S
    BY <1>t, <2>1, TableIs
  <2>3. /\ cmds \in Seq(Cmds) /\ Named(cmds) = (S \ Held) \cup (Held \ S)
        /\ \A k \in DOMAIN cmds : \A s \in cmds[k].syms : (cmds[k].cmd = "sub") <=> s \in S
    <3> DEFINE a == Sub(S \ Held)
               b == Unsub(Held \ S)
    <3>1. a \in Seq(Cmds) /\ Named(a) = S \ Held /\ \A k \in DOMAIN a : a[k].cmd = "sub" /\ a[k].syms = S \ Held
      BY SubIs
    <3>2. b \in Seq(Cmds) /\ Named(b) = Held \ S /\ \A k \in DOMAIN b : b[k].cmd = "unsub" /\ b[k].syms = Held \ S
      <4>1. Held \ S \in SUBSET Symbols
        BY <1>t
      <4> QED
        BY <4>1, UnsubIs
    <3> HIDE DEF a, b
    <3>3. /\ a \o b \in Seq(Cmds) /\ Named(a \o b) = Named(a) \cup Named(b)
          /\ \A k \in DOMAIN (a \o b) : (\E j \in DOMAIN a : (a \o b)[k] = a[j]) \/ \E j \in DOMAIN b : (a \o b)[k] = b[j]
      BY <3>1, <3>2, JoinedNames
    <3>4. \A k \in DOMAIN (a \o b) : \A s \in (a \o b)[k].syms : ((a \o b)[k].cmd = "sub") <=> s \in S
      BY <3>1, <3>2, <3>3
    <3> QED
      BY <3>1, <3>2, <3>3, <3>4 DEF a, b
  <2>5. \A s \in Symbols \ (marred \cup mars) :
            table'[s] <= 1 /\ (s \in Held' <=> s \in S \cup ToGiveUp) /\ s \notin S \cap ToGiveUp
    <3> SUFFICES ASSUME NEW s \in Symbols \ (marred \cup mars)
                 PROVE  table'[s] <= 1 /\ (s \in Held' <=> s \in S \cup ToGiveUp) /\ s \notin S \cap ToGiveUp
      OBVIOUS
    <3>1. table[s] \in Nat /\ ~(table[s] > 1) /\ s \notin old.subs
      BY <1>t
    <3>2. table'[s] = IF s \notin S THEN 0 ELSE IF table[s] = 0 THEN 1 ELSE table[s]
      BY <2>1 DEF Resynced
    <3>3. table'[s] <= 1
      BY <3>1, <3>2
    <3>4. s \notin ToGiveUp
      BY <3>1 DEF ToGiveUp
    <3> QED
      BY <2>2, <3>3, <3>4
  <2>6. \A s \in Symbols \ Named(cmds) : s \in Held' <=> s \in Held
    BY <2>2, <2>3
  <2> HIDE DEF cmds, mars
  <2> QED
    BY <2>1, <2>2, <2>3, <2>5, <2>6, SchwabTakes
<1> QED
  BY <1>1, <1>2, <1>3

\* A call goes on with its operation, or the finally clause with its own.
LEMMA SchwabGoesOn ==
    ASSUME SchwabInv, SchwabContinues \/ SchwabClosingContinues
    PROVE  SchwabInv'
<1>t. /\ CallsInv /\ Accounted /\ current \in StreamCall /\ old \in StreamCall
      /\ current.todo \in Seq(Cmds) /\ old.todo \in Seq(Cmds)
      /\ current.subs \in SUBSET Symbols /\ current.then \in SUBSET Symbols
      /\ (current.todo # <<>> => current.open) /\ (old.todo # <<>> => old.open)
      /\ table \in [Symbols -> Nat]
  BY DEF SchwabInv, CallsInv, StreamCall
<1>1. CASE SchwabContinues
  <2> DEFINE F == Head(current.todo).syms
  <2>1. /\ current.todo # <<>> /\ Sends(current.todo) /\ current' = Sent(current, current.todo, current.then)
        /\ crossed' = crossed \cup Crosses(Head(current.todo))
        /\ marred' = IF conn = "dead" THEN marred \cup Named(current.todo) \cup current.then \cup current.subs ELSE marred
        /\ UNCHANGED <<old, table, ops, ends, failures>>
    BY <1>1 DEF SchwabContinues, Continues, Sends
  <2>2. /\ current' \in StreamCall /\ current'.open
        /\ current'.todo = IF conn = "dead" THEN <<>> ELSE Tail(current.todo)
        /\ Will(current') = IF conn = "dead" THEN current.subs ELSE current.then
    <3>1. CASE conn = "dead"
      BY <1>t, <2>1, <3>1, AbortedIs DEF Sent
    <3>2. CASE conn # "dead"
      <4>1. Tail(current.todo) \in Seq(Cmds)
        BY <1>t, <2>1, FirstNames
      <4>2. current' = Proceeds(current, Tail(current.todo), current.then)
        BY <2>1, <3>2 DEF Sent
      <4>3. current' \in StreamCall /\ current'.open /\ current'.todo = Tail(current.todo) /\ Will(current') = current.then
        <5>1. LET p == Proceeds(current, Tail(current.todo), current.then)
              IN p \in StreamCall /\ p.open = current.open /\ p.todo = Tail(current.todo) /\ Will(p) = current.then
          BY <1>t, <4>1, ProceedsIs
        <5> QED
          BY <1>t, <2>1, <4>2, <5>1
      <4> QED
        BY <3>2, <4>3, Zenon
    <3> QED
      BY <3>1, <3>2, Zenon
  <2>3. CallsInv' /\ Held' = Held
    BY <1>t, <2>1, <2>2 DEF CallsInv, Held
  <2>4. Named(current.todo) = F \cup Named(Tail(current.todo))
    BY <1>t, <2>1, FirstNames
  <2>5. Crosses(Head(current.todo)) = {s \in F : (Head(current.todo).cmd = "sub") # (s \in Held)}
    BY DEF Crosses
  <2>6. \A s \in F \ crossed' : (Head(current.todo).cmd = "sub") <=> s \in Held'
    BY <2>1, <2>3, <2>5
  <2> HIDE DEF F
  <2>7. conn # "dead" => Pending \subseteq crossed' \cup Pending' \cup F
    BY <2>1, <2>2, <2>4 DEF Pending
  <2>8. upstream' \in SUBSET Symbols /\ ReaderInv' /\ SchwabSettled'
    <3>1. F = (IF current.todo = <<>> THEN {} ELSE Head(current.todo).syms)
      BY <2>1 DEF F
    <3> QED
      BY <1>t, <2>1, <2>3, <2>6, <2>7, <3>1, CommandGoesOut
  <2>9. Accounted'
    <3>0. ToGiveUp' = ToGiveUp /\ Will(current) = current.then
      BY <2>1 DEF ToGiveUp, Will
    <3> SUFFICES ASSUME NEW s \in Symbols \ marred'
                 PROVE  /\ table[s] <= 1 /\ (s \in Held <=> s \in Will(current') \cup ToGiveUp)
                        /\ s \notin Will(current') \cap ToGiveUp
      BY <2>1, <2>3, <3>0 DEF Accounted, Will
    <3>1. s \in Will(current') <=> s \in current.then
      BY <2>1, <2>2
    <3>2. s \in Symbols \ marred
      BY <2>1
    <3> QED
      BY <1>t, <3>0, <3>1, <3>2 DEF Accounted
  <2> QED
    BY <2>2, <2>3, <2>8, <2>9 DEF SchwabInv
<1>2. CASE SchwabClosingContinues
  <2> DEFINE F == Head(old.todo).syms
             rest == IF conn = "dead" THEN <<>> ELSE Tail(old.todo)
  <2>1. /\ old.todo # <<>> /\ Sends(old.todo) /\ old' = Closing(rest)
        /\ crossed' = crossed \cup Crosses(Head(old.todo))
        /\ marred' = IF conn = "dead" THEN marred \cup Named(old.todo) \cup old.then \cup old.subs ELSE marred
        /\ UNCHANGED <<current, table, ops, ends, failures>>
    BY <1>2 DEF SchwabClosingContinues, Continues, Sends
  <2>2. Tail(old.todo) \in Seq(Cmds) /\ Named(old.todo) = F \cup Named(Tail(old.todo)) /\ rest \in Seq(Cmds)
    BY <1>t, <2>1, FirstNames
  <2>5. Crosses(Head(old.todo)) = {s \in F : (Head(old.todo).cmd = "sub") # (s \in Held)}
    BY DEF Crosses
  <2>a. conn # "dead" => rest = Tail(old.todo)
    OBVIOUS
  <2>b. F = (IF old.todo = <<>> THEN {} ELSE Head(old.todo).syms)
    BY <2>1
  <2> HIDE DEF F, rest
  <2>3. /\ old' \in StreamCall /\ old'.todo = rest /\ (rest # <<>> => old'.open) /\ (rest = <<>> => ~old'.open)
    BY <1>t, <2>1, <2>2, ClosingIs
  <2>4. CallsInv' /\ Held' = Held
    BY <1>t, <2>1, <2>3 DEF CallsInv, Held
  <2>6. \A s \in F \ crossed' : (Head(old.todo).cmd = "sub") <=> s \in Held'
    BY <2>1, <2>4, <2>5
  <2>7. conn # "dead" => Pending \subseteq crossed' \cup Pending' \cup F
    BY <2>1, <2>2, <2>3, <2>a DEF Pending
  <2>8. upstream' \in SUBSET Symbols /\ ReaderInv' /\ SchwabSettled'
    BY <1>t, <2>1, <2>4, <2>6, <2>7, <2>b, CommandGoesOut
  <2>9. Accounted'
    <3>1. ToGiveUp = {} /\ ToGiveUp' = {}
      BY <2>1, <2>3 DEF ToGiveUp
    <3>2. \A s \in Symbols \ marred' : s \in Symbols \ marred
      BY <2>1
    <3> QED
      BY <1>t, <2>1, <2>4, <3>1, <3>2 DEF Accounted
  <2> QED
    BY <2>1, <2>4, <2>8, <2>9 DEF SchwabInv
<1> QED
  BY <1>1, <1>2

\* A call opens, breaks, or its finally clause gives up what it had asked for.
LEMMA SchwabCalls ==
    ASSUME SchwabInv, SchwabCallOpens \/ SchwabCallBreaks \/ SchwabCloses
    PROVE  SchwabInv'
<1>t. /\ CallsInv /\ Accounted /\ ReaderInv /\ SchwabSettled /\ current \in StreamCall /\ old \in StreamCall
      /\ current.todo \in Seq(Cmds) /\ old.todo \in Seq(Cmds)
      /\ current.subs \in SUBSET Symbols /\ old.subs \in SUBSET Symbols
      /\ (current.todo # <<>> => current.open) /\ (old.todo # <<>> => old.open)
      /\ (~current.open => current.subs = {}) /\ upstream \subseteq Symbols
      /\ table \in [Symbols -> Nat] /\ Held = {s \in Symbols : table[s] > 0}
  BY DEF SchwabInv, CallsInv, StreamCall, Held
<1>c. /\ ClosedCall \in StreamCall /\ ClosedCall.todo = <<>> /\ ~ClosedCall.open /\ ClosedCall.subs = {}
      /\ LET opened == [ClosedCall EXCEPT !.open = TRUE]
         IN opened \in StreamCall /\ opened.todo = <<>> /\ opened.subs = {} /\ opened.open
  BY ClosedIs DEF ClosedCall
<1>1. CASE SchwabCallOpens
  <2>1. /\ ~current.open /\ current' = [ClosedCall EXCEPT !.open = TRUE]
        /\ UNCHANGED <<old, table, ops, ends, failures, conn, upstream, reader, connToken, token, refreshed, marred, crossed>>
    BY <1>1 DEF SchwabCallOpens, CallOpens, socket, tokens
  <2>2. /\ current.todo = <<>> /\ current.subs = {}
        /\ current'.todo = <<>> /\ current' \in StreamCall /\ current'.subs = {} /\ current'.open
    BY <1>c, <1>t, <2>1
  <2>3. Pending' = Pending /\ Held' = Held /\ Will(current) = Will(current') /\ ToGiveUp' = ToGiveUp
    BY <2>1, <2>2 DEF Pending, Held, Will, ToGiveUp
  <2>4. CallsInv' /\ ReaderInv'
    BY <1>t, <2>1, <2>2 DEF CallsInv, ReaderInv
  <2>5. SchwabSettled'
    BY <1>t, <2>1, <2>3 DEF SchwabSettled
  <2>6. Accounted'
    <3>1. \A s \in Symbols \ marred : table[s] <= 1 /\ (s \in Held <=> s \in Will(current') \cup ToGiveUp)
              /\ s \notin Will(current') \cap ToGiveUp
      BY <1>t, <2>3 DEF Accounted
    <3> QED
      BY <2>1, <2>3, <3>1 DEF Accounted, Will
  <2> QED
    BY <1>t, <2>1, <2>2, <2>4, <2>5, <2>6 DEF SchwabInv
<1>2. CASE SchwabCallBreaks
  <2>1. /\ current.open /\ ~old.open /\ ends < MaxEnds /\ ends' = ends + 1
        /\ old' = [current EXCEPT !.todo = <<>>, !.then = {}] /\ current' = ClosedCall
        /\ marred' = marred \cup (IF current.todo = <<>> THEN {} ELSE Named(current.todo) \cup current.then \cup current.subs)
        /\ crossed' = crossed \cup Named(current.todo)
        /\ UNCHANGED <<table, ops, failures, conn, upstream, reader, connToken, token, refreshed>>
    BY <1>2 DEF SchwabCallBreaks, CallBreaks, socket, tokens
  <2>2. /\ old' \in StreamCall /\ old'.todo = <<>> /\ old'.open /\ old'.subs = current.subs
        /\ current' \in StreamCall /\ current'.todo = <<>> /\ current'.subs = {} /\ old.todo = <<>>
    <3>1. <<>> \in Seq(Cmds)
      OBVIOUS
    <3> QED
      BY <1>c, <1>t, <2>1, <3>1 DEF StreamCall
  <2>3. CallsInv' /\ ReaderInv'
    BY <1>t, <2>1, <2>2, CallsAssumption DEF CallsInv, ReaderInv
  <2>4. Held' = Held /\ Pending = Named(current.todo) /\ Pending' = {}
    BY <2>1, <2>2, NoneNamed DEF Held, Pending
  <2>5. SchwabSettled'
    BY <1>t, <2>1, <2>4 DEF SchwabSettled
  <2>6. Will(current') = {} /\ ToGiveUp = {} /\ ToGiveUp' = current.subs
    BY <2>1, <2>2 DEF Will, ToGiveUp
  <2>7. \A s \in Symbols \ marred' : s \in Symbols \ marred /\ (s \in Will(current) <=> s \in current.subs)
    BY <2>1 DEF Will
  <2>8. Accounted'
    <3>1. \A s \in Symbols \ marred' : table[s] <= 1 /\ (s \in Held <=> s \in current.subs)
      BY <1>t, <2>6, <2>7 DEF Accounted
    <3> QED
      BY <2>1, <2>4, <2>6, <3>1 DEF Accounted, Will
  <2>9. upstream' = upstream
    BY <2>1
  <2> QED
    BY <1>t, <2>2, <2>3, <2>5, <2>8, <2>9 DEF SchwabInv
<1>3. CASE SchwabCloses
  <2> DEFINE cmds == Commands("unsub", Leaving(old.subs))
             F == IF cmds = <<>> THEN {} ELSE Head(cmds).syms
             rest == IF cmds = <<>> \/ conn = "dead" THEN <<>> ELSE Tail(cmds)
  <2>1. /\ old.open /\ old.todo = <<>> /\ table' = Given(old.subs) /\ old' = Closing(rest) /\ Sends(cmds)
        /\ marred' = marred \cup (IF current.open THEN old.subs \cap (current.subs \cup current.then) ELSE {})
        /\ UNCHANGED <<current, ops, ends, failures, crossed>>
    BY <1>3 DEF SchwabCloses, Sends
  <2>2. table' \in [Symbols -> Nat] /\ Held' = Held \ Leaving(old.subs) /\ Leaving(old.subs) \in SUBSET Symbols
    <3>1. Leaving(old.subs) \subseteq Held
      BY <1>t, TableIs
    <3> QED
      BY <1>t, <2>1, <3>1, TableIs
  <2>3. cmds \in Seq(Cmds) /\ Named(cmds) = Leaving(old.subs) /\ \A k \in DOMAIN cmds : cmds[k].cmd = "unsub"
    BY <2>2, CommandsAre
  <2>f. F = IF cmds = <<>> THEN {} ELSE Head(cmds).syms
    OBVIOUS
  <2>r. rest = IF cmds = <<>> \/ conn = "dead" THEN <<>> ELSE Tail(cmds)
    OBVIOUS
  <2> HIDE DEF cmds, F, rest
  <2>4. /\ cmds = <<>> => Leaving(old.subs) = {} /\ F = {} /\ rest = <<>>
        /\ cmds # <<>> => /\ Head(cmds).cmd = "unsub" /\ Tail(cmds) \in Seq(Cmds)
                          /\ Leaving(old.subs) = F \cup Named(Tail(cmds))
    BY <2>3, <2>f, <2>r, FirstNames, NoneNamed
  <2>5. rest \in Seq(Cmds)
    BY <2>4, <2>r
  <2>6. /\ old' \in StreamCall /\ old'.todo = rest /\ (rest # <<>> => old'.open) /\ (rest = <<>> => ~old'.open)
    BY <1>t, <2>1, <2>5, ClosingIs
  <2>7. CallsInv'
    BY <1>t, <2>1, <2>2, <2>6 DEF CallsInv
  <2>8. upstream' \in SUBSET Symbols /\ ReaderInv' /\ SchwabSettled'
    <3>1. CASE conn # "dead"
      <4>1. cmds # <<>> => \A s \in F \ crossed' : (Head(cmds).cmd = "sub") <=> s \in Held'
        BY <2>2, <2>4
      <4>2. Pending' = Named(current.todo) \cup Named(rest) /\ Pending = Named(current.todo)
        BY <2>1, <2>6, NoneNamed DEF Pending
      <4>3. \A s \in Symbols : s \in crossed' \cup Pending' \cup F \/ (s \in Held' <=> s \in Held)
        BY <2>2, <2>4, <2>r, <3>1, <4>2
      <4> QED
        BY <2>1, <2>3, <2>f, <4>1, <4>2, <4>3, CommandGoesOut
    <3>2. CASE conn = "dead"
      <4>1. upstream' = upstream /\ UNCHANGED <<conn, reader, connToken, token, refreshed>>
        BY <2>1, <3>2 DEF Sends, AfterCommand, tokens
      <4> QED
        BY <1>t, <3>2, <4>1 DEF ReaderInv, SchwabSettled
    <3> QED
      BY <3>1, <3>2
  <2>9. Accounted'
    <3>1. ToGiveUp = old.subs /\ ToGiveUp' = {} /\ Will(current') = Will(current)
      BY <2>1, <2>6 DEF ToGiveUp, Will
    <3>2. \A s \in Symbols \ marred' : table'[s] <= 1 /\ (s \in Held' <=> s \in Will(current))
      <4> SUFFICES ASSUME NEW s \in Symbols \ marred' PROVE table'[s] <= 1 /\ (s \in Held' <=> s \in Will(current))
        OBVIOUS
      <4>1. /\ s \in Symbols \ marred /\ table[s] <= 1 /\ table[s] \in Nat
            /\ (s \in Held <=> s \in Will(current) \cup old.subs) /\ s \notin Will(current) \cap old.subs
        BY <1>t, <2>1, <3>1 DEF Accounted
      <4>2. table'[s] = IF s \in old.subs /\ table[s] > 0 THEN table[s] - 1 ELSE table[s]
        BY <2>1 DEF Given
      <4>3. table'[s] <= 1
        BY <4>1, <4>2
      <4>4. s \in Held => table[s] = 1
        BY <1>t, <4>1
      <4>5. s \in old.subs => s \notin Held' /\ s \notin Will(current)
        BY <2>2, <4>1, <4>4 DEF Leaving
      <4>6. s \notin old.subs => (s \in Held' <=> s \in Held)
        BY <2>2 DEF Leaving
      <4> QED
        BY <4>1, <4>3, <4>5, <4>6
    <3> QED
      BY <3>1, <3>2 DEF Accounted, Will
  <2>10. current' = current
    BY <2>1
  <2> QED
    BY <1>t, <2>7, <2>8, <2>9, <2>10 DEF SchwabInv
<1> QED
  BY <1>1, <1>2, <1>3

\* The steps of the reader, of Schwab and of the token cache leave calls and
\* table alone.
LEMMA SchwabReads ==
    ASSUME SchwabInv, UNCHANGED <<current, old, table, ops, marred>>, ends' \in 0..MaxEnds, failures' \in 0..MaxFailures,
           upstream' \subseteq Symbols, ReaderInv', SchwabSettled'
    PROVE  SchwabInv'
<1>1. CallsInv'
  BY DEF SchwabInv, CallsInv
<1>2. Accounted'
  BY DEF SchwabInv, Accounted, Will, ToGiveUp, Held
<1> QED
  BY <1>1, <1>2 DEF SchwabInv

LEMMA SchwabConnection ==
    ASSUME SchwabInv,
           \/ \E b \in BOOLEAN : ReaderLeaves(b) \/ Connects(b) \/ LoginAnswered(b)
           \/ SchwabHangsUp \/ TakesToken \/ TokenRefreshed \/ TokenGrowsStale \/ CacheReplaced
    PROVE  SchwabInv'
<1>t. /\ CallsInv /\ ReaderInv /\ SchwabSettled /\ upstream \subseteq Symbols
      /\ ends \in 0..MaxEnds /\ failures \in 0..MaxFailures /\ MaxEnds \in Nat /\ MaxFailures \in Nat /\ Held \subseteq Symbols
  BY CallsAssumption DEF SchwabInv, CallsInv, Held
<1>u. ASSUME UNCHANGED <<current, old, table>> PROVE Pending' = Pending /\ Held' = Held
  BY <1>u DEF Pending, Held
<1>1. ASSUME NEW b \in BOOLEAN, ReaderLeaves(b) PROVE SchwabInv'
  <2>1. /\ UNCHANGED <<current, old, table, ops, failures, token, connToken, marred, crossed>>
        /\ conn' = "none" /\ upstream' = {} /\ reader' = "pauses" /\ refreshed' \in BOOLEAN
    BY <1>1, <1>t DEF ReaderLeaves, Cleared, ReaderInv
  <2>2. ends' \in 0..MaxEnds
    BY <1>1, <1>t DEF ReaderLeaves
  <2>3. ReaderInv' /\ SchwabSettled'
    BY <1>t, <2>1 DEF ReaderInv, SchwabSettled
  <2> QED
    BY <1>t, <2>1, <2>2, <2>3, SchwabReads
<1>2. ASSUME NEW b \in BOOLEAN, Connects(b) PROVE SchwabInv'
  <2>1. /\ reader = "connects" /\ conn = "none" /\ failures' \in 0..MaxFailures
        /\ UNCHANGED <<current, old, table, ops, ends, upstream, connToken, token, refreshed, marred>>
        /\ conn' = (IF b THEN "login" ELSE "none") /\ reader' = IF b THEN "connects" ELSE "reads"
    BY <1>2, <1>t DEF Connects, tokens
  <2>2. upstream = {}
    BY <1>t, <2>1 DEF ReaderInv
  <2>3. ReaderInv'
    BY <1>t, <2>1 DEF ReaderInv
  <2>4. SchwabSettled'
    BY <2>1, <2>2 DEF SchwabSettled
  <2> QED
    BY <1>t, <2>1, <2>3, <2>4, SchwabReads
<1>3. ASSUME NEW b \in BOOLEAN, LoginAnswered(b) PROVE SchwabInv'
  <2>1. /\ conn = "login" /\ failures' \in 0..MaxFailures
        /\ UNCHANGED <<current, old, table, ops, ends, connToken, token, refreshed, marred, crossed>>
        /\ conn' = (IF b THEN "live" ELSE "junk") /\ reader' = "reads"
        /\ upstream' = IF b THEN upstream \cup Held ELSE {}
    BY <1>3, <1>t DEF LoginAnswered, tokens, Replayed
  <2>3. ReaderInv'
    BY <1>t, <2>1 DEF ReaderInv
  <2>4. SchwabSettled'
    BY <1>t, <1>u, <2>1 DEF SchwabSettled
  <2> QED
    BY <1>t, <2>1, <2>3, <2>4, SchwabReads
<1>4. CASE SchwabHangsUp
  <2>1. /\ conn \in {"live", "junk"} /\ ends' \in 0..MaxEnds /\ conn' = "dead" /\ upstream' = {}
        /\ UNCHANGED <<current, old, table, ops, failures, reader, connToken, token, refreshed, marred, crossed>>
    BY <1>4, <1>t DEF SchwabHangsUp, tokens
  <2>2. ReaderInv' /\ SchwabSettled'
    BY <1>t, <2>1 DEF ReaderInv, SchwabSettled
  <2> QED
    BY <1>t, <2>1, <2>2, SchwabReads
<1>5. CASE TakesToken
  <2>1. /\ reader = "pauses" /\ failures' \in 0..MaxFailures
        /\ UNCHANGED <<current, old, table, ops, ends, conn, upstream, marred, crossed>>
        /\ \/ connToken' = token /\ reader' = "connects" /\ token' = token /\ refreshed' = refreshed
           \/ token' = token + 1 /\ refreshed' = TRUE /\ connToken' = token + 1 /\ reader' = "connects"
           \/ reader' = "reads" /\ token' = token /\ refreshed' = refreshed /\ connToken' = connToken
    BY <1>5, <1>t DEF TakesToken
  <2>2. conn = "none"
    BY <1>t, <2>1 DEF ReaderInv
  <2>3. token \in Nat /\ connToken \in Nat /\ connToken <= token /\ refreshed \in BOOLEAN /\ upstream = {}
    BY <1>t, <2>2 DEF ReaderInv
  <2>5. /\ token' \in Nat /\ connToken' \in Nat /\ connToken' <= token'
        /\ reader' = "reads" \/ (reader' = "connects" /\ connToken' = token')
    BY <2>1, <2>3
  <2>6. refreshed' \in BOOLEAN
    BY <2>1, <2>3, Zenon
  <2>7. ReaderInv'
    BY <2>1, <2>2, <2>3, <2>5, <2>6 DEF ReaderInv
  <2>4. SchwabSettled'
    BY <2>1, <2>2 DEF SchwabSettled
  <2> QED
    BY <1>t, <2>1, <2>4, <2>7, SchwabReads
<1>6. CASE TokenRefreshed \/ TokenGrowsStale \/ CacheReplaced
  <2>1. /\ UNCHANGED <<current, old, table, ops, ends, failures, conn, upstream, reader, connToken, marred, crossed>>
        /\ \/ token' = token + 1 /\ refreshed' = TRUE
           \/ token' = token /\ refreshed' = refreshed
    BY <1>6 DEF TokenRefreshed, TokenGrowsStale, CacheReplaced, streamCalls, socket
  <2>a. token' \in Nat /\ connToken' \in Nat /\ connToken' <= token'
    BY <1>t, <2>1 DEF ReaderInv
  <2>b. /\ (conn' \in {"login", "live"} \/ reader' = "connects") /\ ~refreshed' => connToken' = token'
        /\ refreshed' \in BOOLEAN
    BY <1>t, <2>1, Zenon DEF ReaderInv
  <2>2. ReaderInv'
    BY <1>t, <2>1, <2>a, <2>b DEF ReaderInv
  <2>3. SchwabSettled'
    BY <1>t, <1>u, <2>1 DEF SchwabSettled
  <2> QED
    BY <1>t, <2>1, <2>2, <2>3, SchwabReads
<1> QED
  BY <1>1, <1>2, <1>3, <1>4, <1>5, <1>6

LEMMA SchwabInitially == SchwabStreamInit => SchwabInv
<1> SUFFICES ASSUME SchwabStreamInit PROVE SchwabInv
  OBVIOUS
<1>1. /\ CallsInv /\ Held = {} /\ current.todo = <<>> /\ old.todo = <<>> /\ current.subs = {} /\ ~old.open
  BY CallsInitially DEF SchwabStreamInit
<1>2. /\ conn = "live" /\ upstream = {} /\ reader = "reads" /\ connToken = 0 /\ token = 0
      /\ refreshed = FALSE /\ marred = {} /\ crossed = {} /\ table = [s \in Symbols |-> 0]
  BY DEF SchwabStreamInit, CallsInit
<1>a. refreshed \in BOOLEAN
  BY <1>2, Zenon
<1>b. token \in Nat /\ connToken \in Nat /\ connToken <= token /\ connToken = token
  BY <1>2
<1>3. ReaderInv
  BY <1>2, <1>a, <1>b DEF ReaderInv
<1>4. SchwabSettled
  BY <1>1, <1>2 DEF SchwabSettled
<1>5. Accounted
  BY <1>1, <1>2 DEF Accounted, Will, ToGiveUp
<1> QED
  BY <1>1, <1>2, <1>3, <1>4, <1>5 DEF SchwabInv

LEMMA SchwabStep == SchwabInv /\ [SchwabStreamNext]_<<streamCalls, schwabStreamVars>> => SchwabInv'
<1> SUFFICES ASSUME SchwabInv, [SchwabStreamNext]_<<streamCalls, schwabStreamVars>> PROVE SchwabInv'
  OBVIOUS
<1>1. CASE UNCHANGED <<streamCalls, schwabStreamVars>>
  <2>1. UNCHANGED <<current, old, table, ops, ends, failures, conn, upstream, reader, connToken, token, refreshed, marred, crossed>>
    BY <1>1 DEF streamCalls, schwabStreamVars, socket, tokens
  <2>2. Held' = Held /\ Pending' = Pending
    BY <2>1 DEF Held, Pending
  <2>3. ReaderInv' /\ SchwabSettled' /\ ends' \in 0..MaxEnds /\ failures' \in 0..MaxFailures /\ upstream' \subseteq Symbols
    BY <2>1, <2>2 DEF SchwabInv, CallsInv, ReaderInv, SchwabSettled
  <2> QED
    BY <2>1, <2>3, SchwabReads
<1>2. CASE SchwabStreamNext
  <2>1. CASE (\E S \in SUBSET Symbols \ {{}} : SchwabSubscribe(S) \/ SchwabUnsubscribe(S))
             \/ \E S \in SUBSET Symbols : SchwabResync(S)
    BY <2>1, SchwabFrames
  <2>2. CASE SchwabContinues \/ SchwabClosingContinues
    BY <2>2, SchwabGoesOn
  <2>3. CASE SchwabCallOpens \/ SchwabCallBreaks \/ SchwabCloses
    BY <2>3, SchwabCalls
  <2>4. CASE \/ \E b \in BOOLEAN : ReaderLeaves(b) \/ Connects(b) \/ LoginAnswered(b)
             \/ SchwabHangsUp \/ TakesToken \/ TokenRefreshed \/ TokenGrowsStale \/ CacheReplaced
    BY <2>4, SchwabConnection
  <2> QED
    BY <1>2, <2>1, <2>2, <2>3, <2>4 DEF SchwabStreamNext
<1> QED
  BY <1>1, <1>2

LEMMA SchwabInvHolds == SchwabInv => SchwabStreamHolds
<1> SUFFICES ASSUME SchwabInv PROVE SchwabStreamHolds
  OBVIOUS
<1>1. SchwabStreamTypeOK
  BY CallsInvTypes DEF SchwabInv, ReaderInv, SchwabStreamTypeOK
<1>2. CallsRest => Pending = {} /\ ToGiveUp = {} /\ Will(current) = current.subs
  BY NoneNamed DEF CallsRest, Pending, ToGiveUp, Will, SchwabInv, CallsInv
<1>3. AskedIsWanted
  BY <1>2 DEF AskedIsWanted, SchwabInv, SchwabSettled
<1>4. WantedIsCalled
  BY <1>2 DEF WantedIsCalled, SchwabInv, Accounted
<1>5. ConnectionHasNewestToken
  BY DEF ConnectionHasNewestToken, SchwabInv, ReaderInv
<1> QED
  BY <1>1, <1>3, <1>4, <1>5 DEF SchwabStreamHolds

-----------------------------------------------------------------------------
(* Futu: the gateway was asked for what the table holds.                   *)

\* The symbols with a command under way.
Mentioned == Named(current.todo) \cup Named(old.todo) \cup UNION {c.syms : c \in adrift}

NothingOdd == Held \cap Odd = {} /\ asked \cap Odd = {} /\ Mentioned \cap Odd = {}
FutuSettled == \A s \in Symbols \ (doubtful \cup Mentioned) : s \in asked <=> s \in Held

FutuInv ==
    /\ CallsInv /\ adrift \subseteq Cmds /\ known \subseteq Symbols
    /\ NothingOdd /\ Held \subseteq known /\ FutuSettled

\* A frame: what it changes of the table, a command names.
LEMMA FutuTakes ==
    ASSUME FutuInv, NEW cmds \in Seq(Cmds), NEW subs \in SUBSET Symbols, Starts(cmds, subs),
           table' \in [Symbols -> Nat], known' \subseteq Symbols, Held' \subseteq known',
           Held' \cap Odd = {}, Named(cmds) \cap Odd = {}, doubtful \subseteq doubtful',
           \A s \in Symbols \ (doubtful' \cup Named(cmds)) : s \in Held' <=> s \in Held
    PROVE  FutuInv'
<1>t. CallsInv /\ NothingOdd /\ FutuSettled /\ adrift \subseteq Cmds
  BY DEF FutuInv
<1>1. /\ current.open /\ current.todo = <<>> /\ current' = Proceeds(current, cmds, subs)
      /\ ops < MaxOps /\ ops' = ops + 1 /\ UNCHANGED <<old, adrift, asked, ends, failures>>
  BY DEF Starts, TakesFrame
<1>2. current' \in StreamCall /\ current'.open /\ current'.todo = cmds
  BY <1>1, <1>t, ProceedsIs DEF CallsInv
<1>3. CallsInv'
  BY <1>1, <1>2, <1>t, CallsAssumption DEF CallsInv
<1>4. Mentioned' = Mentioned \cup Named(cmds)
  BY <1>1, <1>2, NoneNamed DEF Mentioned
<1>5. NothingOdd'
  BY <1>1, <1>4, <1>t DEF NothingOdd
<1>6. FutuSettled'
  BY <1>1, <1>4, <1>t DEF FutuSettled
<1> QED
  BY <1>1, <1>3, <1>5, <1>6, <1>t DEF FutuInv

\* A command is carried out, and is no longer under way.
LEMMA CommandRuns ==
    ASSUME FutuInv, NEW c \in Cmds, Runs(c), c.syms \subseteq Mentioned,
           Mentioned' \subseteq Mentioned, Mentioned \subseteq Mentioned' \cup c.syms
    PROVE  NothingOdd' /\ Held' \subseteq known' /\ known' \subseteq Symbols /\ FutuSettled'
<1>1. /\ asked' = IF c.cmd = "sub" THEN asked \cup c.syms ELSE asked \ c.syms
      /\ doubtful' = doubtful \cup Crosses(c) /\ UNCHANGED <<table, known>>
  BY DEF Runs
<1>2. Held' = Held
  BY <1>1 DEF Held
<1>3. NothingOdd'
  BY <1>1, <1>2 DEF FutuInv, NothingOdd
<1>4. FutuSettled'
  <2> SUFFICES ASSUME NEW s \in Symbols \ (doubtful' \cup Mentioned') PROVE s \in asked' <=> s \in Held
    BY <1>2 DEF FutuSettled
  <2>1. CASE s \in c.syms
    <3>1. (c.cmd = "sub") <=> s \in Held
      BY <1>1, <2>1 DEF Crosses
    <3> QED
      BY <1>1, <2>1, <3>1
  <2>2. CASE s \notin c.syms
    <3>1. s \in Symbols \ (doubtful \cup Mentioned)
      BY <1>1, <2>2
    <3> QED
      BY <1>1, <2>2, <3>1 DEF FutuInv, FutuSettled
  <2> QED
    BY <2>1, <2>2
<1> QED
  BY <1>1, <1>2, <1>3, <1>4 DEF FutuInv

\* A command is refused; what else is given up is doubtful.
LEMMA CommandRefused ==
    ASSUME FutuInv, NEW c \in Cmds, NEW rest, Refused(c, rest),
           Mentioned' \subseteq Mentioned,
           Mentioned \subseteq Mentioned' \cup c.syms \cup (IF c.cmd = "sub" THEN Named(rest) ELSE {})
    PROVE  /\ NothingOdd' /\ Held' \subseteq known' /\ known' \subseteq Symbols /\ FutuSettled'
           /\ table' \in [Symbols -> Nat] /\ failures' \in 0..MaxFailures
<1>1. /\ failures < MaxFailures /\ failures' = failures + 1
      /\ table' = IF c.cmd = "sub" THEN EntryPopped(c.syms) ELSE table
      /\ doubtful' = doubtful \cup (IF c.cmd = "unsub" THEN c.syms
                                    ELSE Named(rest) \cup {s \in c.syms : table[s] # 1 \/ s \in asked})
      /\ UNCHANGED <<asked, known>>
  BY DEF Refused
<1>2. c.cmd \in {"sub", "unsub"} /\ c.syms \subseteq Symbols /\ table \in [Symbols -> Nat]
  BY DEF Cmds, FutuInv, CallsInv
<1>3. failures' \in 0..MaxFailures
  BY <1>1, CallsAssumption DEF FutuInv, CallsInv
<1>4. CASE c.cmd = "unsub"
  <2>1. Held' = Held /\ table' = table
    BY <1>1, <1>4 DEF Held
  <2>2. NothingOdd'
    BY <1>1, <2>1 DEF FutuInv, NothingOdd
  <2>3. FutuSettled'
    BY <1>1, <1>4, <2>1 DEF FutuInv, FutuSettled
  <2> QED
    BY <1>1, <1>2, <1>3, <2>1, <2>2, <2>3 DEF FutuInv
<1>5. CASE c.cmd = "sub"
  <2>1. table' = [s \in Symbols |-> IF s \in c.syms THEN 0 ELSE table[s]]
    BY <1>1, <1>5 DEF EntryPopped
  <2>2. table' \in [Symbols -> Nat] /\ Held' = Held \ c.syms
    BY <1>2, <2>1 DEF Held
  <2>3. NothingOdd'
    BY <1>1, <2>2 DEF FutuInv, NothingOdd
  <2>4. FutuSettled'
    <3> SUFFICES ASSUME NEW s \in Symbols \ (doubtful' \cup Mentioned') PROVE s \in asked' <=> s \in Held'
      BY DEF FutuSettled
    <3>1. CASE s \in c.syms
      BY <1>1, <1>5, <2>2, <3>1
    <3>2. CASE s \notin c.syms
      <4>1. s \in Symbols \ (doubtful \cup Mentioned)
        BY <1>1, <1>5, <3>2
      <4> QED
        BY <1>1, <2>2, <3>2, <4>1 DEF FutuInv, FutuSettled
    <3> QED
      BY <3>1, <3>2
  <2> QED
    BY <1>1, <1>3, <2>2, <2>3, <2>4 DEF FutuInv
<1> QED
  BY <1>2, <1>4, <1>5

\* The frames.
LEMMA FutuFrames ==
    ASSUME FutuInv, NEW S \in SUBSET Symbols,
           FutuSubscribe(S) \/ FutuUnsubscribe(S) \/ FutuResync(S) \/ \E before \in SUBSET S : FutuSubscribeRaises(S, before)
    PROVE  FutuInv'
<1>t. /\ table \in [Symbols -> Nat] /\ known \subseteq Symbols /\ Held \subseteq known /\ Held \cap Odd = {}
      /\ current.subs \subseteq Symbols /\ Held \subseteq Symbols
  BY DEF FutuInv, CallsInv, StreamCall, NothingOdd, Held
<1>1. CASE FutuSubscribe(S)
  <2>1. /\ S \cap Odd = {} /\ table' = Counted(S) /\ known' = known \cup (S \ Held) /\ doubtful' = doubtful
        /\ Starts(Commands("sub", S \ Held), current.subs \cup S)
    BY <1>1 DEF FutuSubscribe
  <2>2. table' \in [Symbols -> Nat] /\ Held' = Held \cup S
    BY <1>t, <2>1, TableIs
  <2>3. Commands("sub", S \ Held) \in Seq(Cmds) /\ Named(Commands("sub", S \ Held)) = S \ Held
    BY CommandsAre
  <2> DEFINE cmds == Commands("sub", S \ Held)
             subs == current.subs \cup S
  <2>4. cmds \in Seq(Cmds) /\ subs \in SUBSET Symbols /\ Named(cmds) = S \ Held /\ Starts(cmds, subs)
    BY <1>t, <2>1, <2>3
  <2> HIDE DEF cmds, subs
  <2>5. /\ known' \subseteq Symbols /\ Held' \subseteq known' /\ Held' \cap Odd = {} /\ Named(cmds) \cap Odd = {}
        /\ \A s \in Symbols \ (doubtful' \cup Named(cmds)) : s \in Held' <=> s \in Held
    BY <1>t, <2>1, <2>2, <2>4
  <2> QED
    BY <2>1, <2>2, <2>4, <2>5, FutuTakes
<1>2. CASE FutuUnsubscribe(S)
  <2>1. /\ table' = Given(S) /\ known' = known \ Leaving(S) /\ doubtful' = doubtful
        /\ Starts(Commands("unsub", Leaving(S)), current.subs \ S)
    BY <1>2 DEF FutuUnsubscribe
  <2>2. table' \in [Symbols -> Nat] /\ Held' = Held \ Leaving(S) /\ Leaving(S) \subseteq Held
    BY <1>t, <2>1, TableIs
  <2>3. Commands("unsub", Leaving(S)) \in Seq(Cmds) /\ Named(Commands("unsub", Leaving(S))) = Leaving(S)
    BY <1>t, <2>2, CommandsAre
  <2> DEFINE cmds == Commands("unsub", Leaving(S))
             subs == current.subs \ S
  <2>4. cmds \in Seq(Cmds) /\ subs \in SUBSET Symbols /\ Named(cmds) = Leaving(S) /\ Starts(cmds, subs)
    BY <1>t, <2>1, <2>3
  <2> HIDE DEF cmds, subs
  <2>5. /\ known' \subseteq Symbols /\ Held' \subseteq known' /\ Held' \cap Odd = {} /\ Named(cmds) \cap Odd = {}
        /\ \A s \in Symbols \ (doubtful' \cup Named(cmds)) : s \in Held' <=> s \in Held
    BY <1>t, <2>1, <2>2, <2>4
  <2> QED
    BY <2>1, <2>2, <2>4, <2>5, FutuTakes
<1>3. CASE FutuResync(S)
  <2> DEFINE a == Commands("sub", S \ Held)
             b == Commands("unsub", Held \ S)
  <2>1. /\ S \cap Odd = {} /\ table' = Resynced(S) /\ known' = (known \ (Held \ S)) \cup (S \ Held) /\ doubtful' = doubtful
        /\ Starts(a \o b, S)
    BY <1>3 DEF FutuResync
  <2>2. table' \in [Symbols -> Nat] /\ Held' = S
    BY <1>t, <2>1, TableIs
  <2>3. a \in Seq(Cmds) /\ Named(a) = S \ Held /\ b \in Seq(Cmds) /\ Named(b) = Held \ S
    BY <1>t, CommandsAre
  <2> HIDE DEF a, b
  <2> DEFINE cmds == a \o b
  <2>4. cmds \in Seq(Cmds) /\ Named(cmds) = (S \ Held) \cup (Held \ S)
    BY <2>3, JoinedNames
  <2>5. Starts(cmds, S)
    BY <2>1
  <2> HIDE DEF cmds
  <2>6. /\ known' \subseteq Symbols /\ Held' \subseteq known' /\ Held' \cap Odd = {} /\ Named(cmds) \cap Odd = {}
        /\ \A s \in Symbols \ (doubtful' \cup Named(cmds)) : s \in Held' <=> s \in Held
    BY <1>t, <2>1, <2>2, <2>4
  <2> QED
    BY <2>1, <2>2, <2>4, <2>5, <2>6, FutuTakes
<1>4. ASSUME NEW before \in SUBSET S, FutuSubscribeRaises(S, before) PROVE FutuInv'
  <2>1. /\ before \subseteq S \ Odd /\ table' = Counted(before) /\ known' = known \cup (before \ Held)
        /\ doubtful' = doubtful \cup (before \ Held) /\ Starts(<<>>, current.subs)
    BY <1>4 DEF FutuSubscribeRaises
  <2>2. table' \in [Symbols -> Nat] /\ Held' = Held \cup before
    BY <1>t, <2>1, TableIs
  <2>3. <<>> \in Seq(Cmds) /\ Named(<<>>) = {}
    BY NoneNamed
  <2>4. /\ known' \subseteq Symbols /\ Held' \subseteq known' /\ Held' \cap Odd = {} /\ Named(<<>>) \cap Odd = {}
        /\ \A s \in Symbols \ (doubtful' \cup Named(<<>>)) : s \in Held' <=> s \in Held
    BY <1>t, <2>1, <2>2, <2>3
  <2> QED
    BY <1>t, <2>1, <2>2, <2>3, <2>4, FutuTakes
<1> QED
  BY <1>1, <1>2, <1>3, <1>4

\* The gateway carries out a command of a call or one nobody waits for, or refuses it.
LEMMA FutuCommands ==
    ASSUME FutuInv, FutuRuns \/ FutuRefused \/ FutuClosingRuns \/ \E c \in adrift : AdriftRuns(c)
    PROVE  FutuInv'
<1>t. CallsInv /\ adrift \subseteq Cmds
  BY DEF FutuInv
<1>1. CASE FutuRuns \/ FutuRefused
  <2> DEFINE c == Head(current.todo)
             rest == Tail(current.todo)
  <2>1. current.todo # <<>> /\ UNCHANGED <<old, adrift>> /\ current.open /\ current.todo \in Seq(Cmds)
        /\ current.then \in SUBSET Symbols /\ current \in StreamCall
    BY <1>1, <1>t DEF FutuRuns, FutuRefused, CallsInv, StreamCall
  <2>2. c \in Cmds /\ rest \in Seq(Cmds) /\ Named(current.todo) = c.syms \cup Named(rest)
    BY <2>1, FirstNames
  <2>3. CASE FutuRuns
    <3>1. Runs(c) /\ current' = Proceeds(current, rest, current.then)
      BY <2>3 DEF FutuRuns
    <3> HIDE DEF c, rest
    <3>2. current' \in StreamCall /\ current'.open /\ current'.todo = rest
      BY <2>1, <2>2, <3>1, ProceedsIs
    <3>3. c.syms \subseteq Mentioned /\ Mentioned' \subseteq Mentioned /\ Mentioned \subseteq Mentioned' \cup c.syms
      BY <2>1, <2>2, <3>2 DEF Mentioned
    <3>4. CallsInv'
      BY <1>t, <2>1, <3>1, <3>2 DEF CallsInv, Runs
    <3> QED
      BY <1>t, <2>1, <2>2, <3>1, <3>3, <3>4, CommandRuns DEF FutuInv
  <2>4. CASE FutuRefused
    <3>1. Refused(c, rest) /\ current' = IF c.cmd = "sub" THEN Aborted(current) ELSE Proceeds(current, rest, current.then)
      BY <2>4 DEF FutuRefused
    <3> HIDE DEF c, rest
    <3>2. /\ current' \in StreamCall /\ current'.open
          /\ current'.todo = IF c.cmd = "sub" THEN <<>> ELSE rest
      <4>1. CASE c.cmd = "sub"
        BY <2>1, <3>1, <4>1, AbortedIs
      <4>2. CASE c.cmd # "sub"
        BY <2>1, <2>2, <3>1, <4>2, ProceedsIs
      <4> QED
        BY <4>1, <4>2
    <3>3. /\ Mentioned' \subseteq Mentioned
          /\ Mentioned \subseteq Mentioned' \cup c.syms \cup (IF c.cmd = "sub" THEN Named(rest) ELSE {})
      BY <2>1, <2>2, <3>2, NoneNamed DEF Mentioned
    <3>4. /\ NothingOdd' /\ Held' \subseteq known' /\ known' \subseteq Symbols /\ FutuSettled'
          /\ table' \in [Symbols -> Nat] /\ failures' \in 0..MaxFailures
      BY <2>2, <3>1, <3>3, CommandRefused
    <3>5. CallsInv'
      BY <1>t, <2>1, <3>1, <3>2, <3>4 DEF CallsInv, Refused
    <3> QED
      BY <1>t, <2>1, <3>4, <3>5 DEF FutuInv
  <2> QED
    BY <1>1, <2>3, <2>4
<1>2. CASE FutuClosingRuns
  <2> DEFINE c == Head(old.todo)
             rest == Tail(old.todo)
  <2>1. /\ old.todo # <<>> /\ UNCHANGED <<current, adrift>> /\ old.open /\ old.todo \in Seq(Cmds) /\ old \in StreamCall
        /\ old' = Closing(rest) /\ (Runs(c) \/ Refused(c, <<>>))
    BY <1>2, <1>t DEF FutuClosingRuns, CallsInv, StreamCall
  <2>2. c \in Cmds /\ rest \in Seq(Cmds) /\ Named(old.todo) = c.syms \cup Named(rest)
    BY <2>1, FirstNames
  <2> HIDE DEF c, rest
  <2>3. old' \in StreamCall /\ old'.todo = rest /\ (rest # <<>> => old'.open)
    BY <2>1, <2>2, ClosingIs
  <2>4. c.syms \subseteq Mentioned /\ Mentioned' \subseteq Mentioned /\ Mentioned \subseteq Mentioned' \cup c.syms
    BY <2>1, <2>2, <2>3 DEF Mentioned
  <2>5. CASE Runs(c)
    <3>1. CallsInv'
      BY <1>t, <2>1, <2>3, <2>5 DEF CallsInv, Runs
    <3> QED
      BY <1>t, <2>1, <2>2, <2>4, <2>5, <3>1, CommandRuns DEF FutuInv
  <2>6. CASE Refused(c, <<>>)
    <3>1. /\ NothingOdd' /\ Held' \subseteq known' /\ known' \subseteq Symbols /\ FutuSettled'
          /\ table' \in [Symbols -> Nat] /\ failures' \in 0..MaxFailures
      BY <2>2, <2>4, <2>6, NoneNamed, CommandRefused
    <3>2. CallsInv'
      BY <1>t, <2>1, <2>3, <2>6, <3>1 DEF CallsInv, Refused
    <3> QED
      BY <1>t, <2>1, <3>1, <3>2 DEF FutuInv
  <2> QED
    BY <2>1, <2>5, <2>6
<1>3. ASSUME NEW c \in adrift, AdriftRuns(c) PROVE FutuInv'
  <2>1. c \in Cmds /\ adrift' = adrift \ {c} /\ Runs(c) /\ UNCHANGED <<current, old>>
    BY <1>3, <1>t DEF AdriftRuns
  <2>2. c.syms \subseteq Mentioned /\ Mentioned' \subseteq Mentioned /\ Mentioned \subseteq Mentioned' \cup c.syms
    BY <2>1 DEF Mentioned
  <2>3. CallsInv'
    BY <1>t, <2>1 DEF CallsInv, Runs
  <2> QED
    BY <1>t, <2>1, <2>2, <2>3, CommandRuns DEF FutuInv
<1> QED
  BY <1>1, <1>2, <1>3

\* A call opens, breaks or closes.
LEMMA FutuCalls ==
    ASSUME FutuInv, FutuCallOpens \/ FutuCallBreaks \/ FutuCloses
    PROVE  FutuInv'
<1>t. CallsInv /\ adrift \subseteq Cmds /\ NothingOdd /\ FutuSettled /\ known \subseteq Symbols /\ Held \subseteq known
      /\ current \in StreamCall /\ old \in StreamCall /\ current.todo \in Seq(Cmds)
  BY DEF FutuInv, CallsInv, StreamCall
<1>c. ClosedCall \in StreamCall /\ [ClosedCall EXCEPT !.open = TRUE] \in StreamCall
      /\ ClosedCall.todo = <<>> /\ [ClosedCall EXCEPT !.open = TRUE].todo = <<>>
  BY ClosedIs
<1>1. CASE FutuCallOpens
  <2>1. /\ ~current.open /\ current' = [ClosedCall EXCEPT !.open = TRUE]
        /\ UNCHANGED <<old, table, ops, ends, failures, adrift, known, asked, doubtful>>
    BY <1>1 DEF FutuCallOpens, CallOpens
  <2>2. current.todo = <<>> /\ current'.todo = <<>> /\ current' \in StreamCall
    BY <1>c, <1>t, <2>1 DEF CallsInv
  <2>3. Mentioned' = Mentioned /\ Held' = Held
    BY <2>1, <2>2 DEF Mentioned, Held
  <2>4. CallsInv'
    BY <1>t, <2>1, <2>2 DEF CallsInv
  <2> QED
    BY <1>t, <2>1, <2>3, <2>4 DEF FutuInv, NothingOdd, FutuSettled
<1>2. CASE FutuCallBreaks
  <2>1. /\ current.open /\ ~old.open /\ ends < MaxEnds /\ ends' = ends + 1
        /\ old' = [current EXCEPT !.todo = <<>>, !.then = {}] /\ current' = ClosedCall
        /\ UNCHANGED <<table, ops, failures, known, asked>>
        /\ adrift' = adrift \cup {current.todo[k] : k \in DOMAIN current.todo \cap {1}}
        /\ doubtful' = doubtful \cup (IF current.todo = <<>> THEN {} ELSE Named(Tail(current.todo)))
    BY <1>2 DEF FutuCallBreaks, CallBreaks
  <2>2. old' \in StreamCall /\ old'.todo = <<>> /\ old'.open /\ current' \in StreamCall /\ current'.todo = <<>> /\ old.todo = <<>>
    <3>1. <<>> \in Seq(Cmds)
      OBVIOUS
    <3> QED
      BY <1>c, <1>t, <2>1, <3>1 DEF StreamCall, CallsInv
  <2>3. CallsInv'
    BY <1>t, <2>1, <2>2, CallsAssumption DEF CallsInv
  <2>4. Held' = Held
    BY <2>1 DEF Held
  <2>5. adrift' \subseteq Cmds
    BY <1>t, <2>1
  <2>6. Mentioned' \subseteq Mentioned /\ Mentioned \subseteq Mentioned' \cup (doubtful' \ doubtful) \cup doubtful
    <3>1. CASE current.todo = <<>>
      BY <2>1, <2>2, <3>1, NoneNamed DEF Mentioned
    <3>2. CASE current.todo # <<>>
      <4> DEFINE c == Head(current.todo)
      <4>1. /\ Named(current.todo) = c.syms \cup Named(Tail(current.todo))
            /\ 1 \in DOMAIN current.todo /\ c = current.todo[1]
        BY <1>t, <3>2, FirstNames
      <4> HIDE DEF c
      <4>2. adrift' = adrift \cup {c} /\ doubtful' = doubtful \cup Named(Tail(current.todo))
        BY <2>1, <3>2, <4>1
      <4> QED
        BY <2>2, <4>1, <4>2, NoneNamed DEF Mentioned
    <3> QED
      BY <3>1, <3>2
  <2>7. NothingOdd' /\ FutuSettled'
    BY <1>t, <2>1, <2>4, <2>6 DEF NothingOdd, FutuSettled
  <2> QED
    BY <1>t, <2>1, <2>3, <2>4, <2>5, <2>7 DEF FutuInv
<1>3. CASE FutuCloses
  <2> DEFINE cmds == Commands("unsub", Leaving(old.subs))
  <2>1. /\ old.open /\ old.todo = <<>> /\ table' = Given(old.subs) /\ known' = known \ Leaving(old.subs)
        /\ old' = Closing(cmds) /\ UNCHANGED <<current, adrift, asked, ops, ends, failures, doubtful>>
    BY <1>3 DEF FutuCloses
  <2>2. table' \in [Symbols -> Nat] /\ Held' = Held \ Leaving(old.subs) /\ Leaving(old.subs) \subseteq Held
    <3>1. table \in [Symbols -> Nat] /\ old.subs \in SUBSET Symbols
      BY <1>t DEF CallsInv, StreamCall
    <3> QED
      BY <2>1, <3>1, TableIs
  <2>3. cmds \in Seq(Cmds) /\ Named(cmds) = Leaving(old.subs)
    <3>1. Leaving(old.subs) \in SUBSET Symbols
      BY <2>2 DEF Held
    <3> QED
      BY <3>1, CommandsAre
  <2> HIDE DEF cmds
  <2>4. old' \in StreamCall /\ old'.todo = cmds /\ (cmds # <<>> => old'.open)
    BY <1>t, <2>1, <2>3, ClosingIs
  <2>5. CallsInv'
    BY <1>t, <2>1, <2>2, <2>4 DEF CallsInv
  <2>6. Mentioned' = Mentioned \cup Leaving(old.subs)
    BY <2>1, <2>3, <2>4, NoneNamed DEF Mentioned
  <2>7. NothingOdd' /\ FutuSettled'
    BY <1>t, <2>1, <2>2, <2>6 DEF NothingOdd, FutuSettled
  <2> QED
    BY <1>t, <2>1, <2>2, <2>5, <2>7 DEF FutuInv
<1> QED
  BY <1>1, <1>2, <1>3

LEMMA FutuInitially == FutuStreamInit => FutuInv
BY CallsInitially, NoneNamed DEF FutuStreamInit, FutuInv, NothingOdd, FutuSettled, Mentioned

LEMMA FutuStep == FutuInv /\ [FutuStreamNext]_<<streamCalls, futuStreamVars>> => FutuInv'
<1> SUFFICES ASSUME FutuInv, [FutuStreamNext]_<<streamCalls, futuStreamVars>> PROVE FutuInv'
  OBVIOUS
<1>1. CASE UNCHANGED <<streamCalls, futuStreamVars>>
  <2>1. UNCHANGED <<current, old, table, ops, ends, failures, adrift, known, asked, doubtful>>
    BY <1>1 DEF streamCalls, futuStreamVars
  <2>2. Held' = Held /\ Mentioned' = Mentioned
    BY <2>1 DEF Held, Mentioned
  <2> QED
    BY <2>1, <2>2 DEF FutuInv, CallsInv, NothingOdd, FutuSettled
<1>2. CASE FutuStreamNext
  BY <1>2, FutuFrames, FutuCommands, FutuCalls DEF FutuStreamNext
<1> QED
  BY <1>1, <1>2

LEMMA FutuInvHolds == FutuInv => FutuStreamHolds
<1> SUFFICES ASSUME FutuInv PROVE FutuStreamHolds
  OBVIOUS
<1>1. FutuStreamTypeOK
  <2>1. \A s \in Odd : table[s] = 0
    BY OddAssumption DEF FutuInv, CallsInv, NothingOdd, Held
  <2> QED
    BY <2>1, CallsInvTypes DEF FutuStreamTypeOK, FutuInv, NothingOdd
<1>2. GatewayAsksWanted
  <2>1. CallsRest /\ adrift = {} => Mentioned = {}
    BY NoneNamed DEF CallsRest, Mentioned, FutuInv, CallsInv
  <2> QED
    BY <2>1 DEF GatewayAsksWanted, FutuInv, FutuSettled
<1> QED
  BY <1>1, <1>2 DEF FutuStreamHolds, TicksHaveNames, FutuInv

-----------------------------------------------------------------------------
(* Alpaca: what is subscribed is what is active, whatever was rejected.    *)

Rejections == [sym : Pairs, named : BOOLEAN]
Rejected == {errors[k].sym : k \in DOMAIN errors}

AlpacaInv ==
    /\ AlpacaStreamTypeOK /\ NoneSilent
    /\ errors \in Seq(Rejections)
    /\ \A s \in subscribed \ misjudged : s \in active
    /\ loop = "live" => \A s \in active \ subscribed : s \in cleanups \cup Rejected \cup misjudged

\* The invariant, its sets one by one.
Tables ==
    /\ active \subseteq Pairs /\ pending \subseteq Pairs /\ subscribed \subseteq Pairs /\ cleanups \subseteq Pairs
    /\ wanted \subseteq Pairs /\ told \subseteq Pairs /\ misjudged \subseteq Pairs
    /\ Cardinality(active) <= Cap

LEMMA TablesAre ==
    AlpacaStreamTypeOK <=> /\ Tables /\ loop \in {"starts", "login", "live", "dead", "sleeps"}
                           /\ subscribed # {} => HasSocket
BY DEF AlpacaStreamTypeOK, Tables

\* Fewer symbols are no more than the cap.
LEMMA FewerFit ==
    ASSUME NEW A \in SUBSET Pairs, Cardinality(A) <= Cap, NEW B \in SUBSET A
    PROVE  Cardinality(B) <= Cap
<1>1. IsFiniteSet(A) /\ IsFiniteSet(B)
  BY AlpacaAssumption, FS_Subset
<1>2. Cardinality(B) <= Cardinality(A) /\ Cardinality(A) \in Nat /\ Cardinality(B) \in Nat
  BY <1>1, FS_Subset, FS_CardinalityType
<1> QED
  BY <1>2, AlpacaAssumption

\* An empty streamer.
LEMMA StreamerBegins ==
    ASSUME NewStreamer
    PROVE  AlpacaInv'
<1>1. Cardinality(active') <= Cap
  BY FS_EmptySet, AlpacaAssumption DEF NewStreamer
<1>2. /\ active' = {} /\ loop' = "starts" /\ pending' = {} /\ subscribed' = {} /\ errors' = <<>>
      /\ cleanups' = {} /\ wanted' = {} /\ told' = {} /\ misjudged' = {}
  BY DEF NewStreamer
<1>3. AlpacaStreamTypeOK'
  BY <1>1, <1>2 DEF AlpacaStreamTypeOK
<1> QED
  BY <1>2, <1>3 DEF AlpacaInv, NoneSilent

\* A command's answer: all of its symbols, or all but one, which is rejected.
LEMMA AlpacaAnswers ==
    ASSUME AlpacaInv, NEW S \in SUBSET Pairs, Answers(S)
    PROVE  /\ subscribed' \subseteq S /\ errors' \in Seq(Rejections)
           /\ Rejected \subseteq Rejected' /\ S \subseteq subscribed' \cup Rejected'
<1>t. errors \in Seq(Rejections)
  BY DEF AlpacaInv
<1>1. CASE subscribed' = S /\ errors' = errors
  BY <1>1, <1>t DEF Rejected
<1>2. CASE \E s \in S \ subscribed, named \in BOOLEAN :
             subscribed' = S \ {s} /\ errors' = Append(errors, [sym |-> s, named |-> named])
  <2>1. PICK s \in S \ subscribed, named \in BOOLEAN :
               subscribed' = S \ {s} /\ errors' = Append(errors, [sym |-> s, named |-> named])
    BY <1>2
  <2> DEFINE e == [sym |-> s, named |-> named]
  <2>2. e \in Rejections /\ e.sym = s
    BY <2>1 DEF Rejections
  <2>3. errors' = Append(errors, e)
    BY <2>1
  <2> HIDE DEF e
  <2>4. /\ errors' \in Seq(Rejections) /\ DOMAIN errors' = 1..(Len(errors) + 1) /\ Len(errors) \in Nat
        /\ errors'[Len(errors) + 1] = e /\ \A k \in DOMAIN errors : k \in DOMAIN errors' /\ errors'[k] = errors[k]
    BY <1>t, <2>2, <2>3
  <2>5. s \in Rejected' /\ Rejected \subseteq Rejected'
    BY <2>2, <2>4 DEF Rejected
  <2> QED
    BY <2>1, <2>4, <2>5
<1> QED
  BY <1>1, <1>2 DEF Answers

\* A frame of the backend.
LEMMA AlpacaFrame ==
    ASSUME AlpacaInv, NEW S \in SUBSET Pairs, AlpacaSubscribe(S) \/ AlpacaUnsubscribe(S) \/ AlpacaResync(S)
    PROVE  AlpacaInv'
<1>t. /\ Tables /\ loop \in {"starts", "login", "live", "dead", "sleeps"} /\ (subscribed # {} => HasSocket)
      /\ NoneSilent /\ errors \in Seq(Rejections)
      /\ (\A s \in subscribed \ misjudged : s \in active)
      /\ loop = "live" => \A s \in active \ subscribed : s \in cleanups \cup Rejected \cup misjudged
  BY TablesAre DEF AlpacaInv
<1>1. CASE EndsCall
  BY <1>1, StreamerBegins DEF EndsCall
<1>2. CASE AlpacaSubscribe(S) /\ ~EndsCall
  <2>1. PICK new \in Fits(S \ active, active) :
          /\ active' = active \cup new
          /\ wanted' = wanted \cup S /\ told' = told \cup ((S \ active) \ new)
          /\ pending' = IF HasSocket THEN pending \cup new ELSE pending
          /\ UNCHANGED <<streaming, cleanups, misjudged>>
          /\ IF new # {} THEN loop' = "starts" /\ subscribed' = {} /\ errors' = <<>>
             ELSE UNCHANGED <<loop, subscribed, errors>>
    BY <1>2 DEF AlpacaSubscribe
  <2>2. new \subseteq S \ active /\ Cardinality(new \cup active) <= Cap
    BY <2>1 DEF Fits
  <2>3. active' = new \cup active
    BY <2>1
  <2>4. Tables' /\ NoneSilent'
    <3>1. active' \subseteq Pairs /\ pending' \subseteq Pairs /\ subscribed' \subseteq Pairs /\ cleanups' \subseteq Pairs
      BY <1>t, <2>1, <2>2 DEF Tables
    <3>2. wanted' \subseteq Pairs /\ told' \subseteq Pairs /\ misjudged' \subseteq Pairs
      BY <1>t, <2>1, <2>2 DEF Tables
    <3>3. Cardinality(active') <= Cap
      BY <2>2, <2>3
    <3>4. NoneSilent'
      BY <1>t, <2>1, <2>2 DEF NoneSilent
    <3> QED
      BY <3>1, <3>2, <3>3, <3>4 DEF Tables
  <2>5. CASE new # {}
    <3>1. loop' = "starts" /\ subscribed' = {} /\ errors' = <<>>
      BY <2>1, <2>5
    <3>2. AlpacaStreamTypeOK'
      BY <2>4, <3>1 DEF AlpacaStreamTypeOK, Tables
    <3> QED
      BY <2>4, <3>1, <3>2 DEF AlpacaInv
  <2>6. CASE new = {}
    <3>1. active' = active /\ UNCHANGED <<loop, subscribed, errors, cleanups, misjudged>>
      BY <2>1, <2>6
    <3> QED
      BY <1>t, <2>4, <3>1 DEF AlpacaInv, AlpacaStreamTypeOK, Tables, HasSocket, Rejected
  <2> QED
    BY <2>5, <2>6
<1>3. CASE AlpacaUnsubscribe(S) /\ ~EndsCall
  <2>1. /\ active' = active \ S /\ wanted' = wanted \ S /\ subscribed' = subscribed \ S
        /\ told' = told \ S
        /\ UNCHANGED <<loop, pending, errors, cleanups, misjudged>>
    BY <1>3 DEF AlpacaUnsubscribe
  <2>2. Cardinality(active') <= Cap
    BY <1>t, <2>1, FewerFit DEF Tables
  <2>3. AlpacaStreamTypeOK'
    BY <1>t, <2>1, <2>2 DEF AlpacaStreamTypeOK, Tables, HasSocket
  <2>4. NoneSilent'
    BY <1>t, <2>1 DEF NoneSilent
  <2> QED
    BY <1>t, <2>1, <2>3, <2>4 DEF AlpacaInv, Rejected
<1>4. CASE AlpacaResync(S) /\ ~EndsCall
  <2>1. PICK fit \in Fits(S, {}) :
          /\ active' = fit /\ wanted' = S /\ told' = S \ fit
          /\ pending' = IF HasSocket THEN pending \cup (fit \ active) ELSE pending
          /\ IF HasSocket THEN Answers((subscribed \cup (fit \ active)) \ (active \ fit))
                          ELSE UNCHANGED <<subscribed, errors, rejections>>
          /\ UNCHANGED <<loop, cleanups, misjudged>>
    BY <1>4 DEF AlpacaResync
  <2>2. fit \subseteq S /\ Cardinality(fit) <= Cap
    <3>1. fit \subseteq S /\ Cardinality(fit \cup {}) <= Cap /\ fit \cup {} = fit
      BY <2>1 DEF Fits
    <3> QED
      BY <3>1
  <2>3. NoneSilent'
    BY <2>1, <2>2 DEF NoneSilent
  <2> DEFINE asks == (subscribed \cup (fit \ active)) \ (active \ fit)
  <2>4. asks \in SUBSET Pairs
    BY <1>t, <2>2 DEF Tables
  <2>5. CASE HasSocket
    <3>1. /\ subscribed' \subseteq asks /\ errors' \in Seq(Rejections)
          /\ Rejected \subseteq Rejected' /\ asks \subseteq subscribed' \cup Rejected'
      BY <2>1, <2>4, <2>5, AlpacaAnswers
    <3>2. AlpacaStreamTypeOK'
      BY <1>t, <2>1, <2>2, <2>4, <2>5, <3>1 DEF AlpacaStreamTypeOK, Tables, HasSocket
    <3>3. \A s \in subscribed' \ misjudged' : s \in active'
      BY <1>t, <2>1, <3>1
    <3>4. loop' = "live" => \A s \in active' \ subscribed' : s \in cleanups' \cup Rejected' \cup misjudged'
      BY <1>t, <2>1, <3>1
    <3> QED
      BY <2>3, <3>1, <3>2, <3>3, <3>4 DEF AlpacaInv
  <2>6. CASE ~HasSocket
    <3>1. subscribed' = {} /\ errors' = errors /\ loop' # "live" /\ loop' = loop
      BY <1>t, <2>1, <2>6 DEF HasSocket
    <3>2. AlpacaStreamTypeOK'
      BY <1>t, <2>1, <2>2, <3>1, <2>6 DEF AlpacaStreamTypeOK, Tables, HasSocket
    <3> QED
      BY <1>t, <2>3, <3>1, <3>2 DEF AlpacaInv
  <2> QED
    BY <2>5, <2>6
<1> QED
  BY <1>1, <1>2, <1>3, <1>4

\* The connection comes, goes and is told again.
LEMMA AlpacaConnection ==
    ASSUME AlpacaInv,
           AlpacaCallEnds \/ AlpacaCallBegins \/ AlpacaConnects \/ AlpacaLoses \/ AlpacaHangsUp \/ AlpacaWakes
             \/ AlpacaLoggedIn \/ FrameArrives
    PROVE  AlpacaInv'
<1>t. /\ Tables /\ loop \in {"starts", "login", "live", "dead", "sleeps"} /\ (subscribed # {} => HasSocket)
      /\ NoneSilent /\ errors \in Seq(Rejections)
      /\ (\A s \in subscribed \ misjudged : s \in active)
      /\ loop = "live" => \A s \in active \ subscribed : s \in cleanups \cup Rejected \cup misjudged
  BY TablesAre DEF AlpacaInv
<1>1. CASE AlpacaCallEnds \/ AlpacaCallBegins
  BY <1>1, StreamerBegins DEF AlpacaCallEnds, AlpacaCallBegins, EndsCall
<1>2. CASE AlpacaConnects \/ AlpacaLoses \/ AlpacaHangsUp \/ AlpacaWakes
  <2>1. /\ UNCHANGED <<active, pending, cleanups, wanted, told, misjudged>>
        /\ loop' \in {"starts", "login", "dead", "sleeps"}
        /\ \/ subscribed' = {} /\ errors' = <<>>
           \/ subscribed' = subscribed /\ errors' = errors /\ ~HasSocket
    BY <1>2 DEF AlpacaConnects, AlpacaLoses, AlpacaHangsUp, AlpacaWakes, KeepsTables, HasSocket
  <2>2. subscribed' = {} /\ errors' \in Seq(Rejections)
    <3>1. CASE subscribed' = {} /\ errors' = <<>>
      BY <3>1
    <3>2. CASE subscribed' = subscribed /\ errors' = errors /\ ~HasSocket
      BY <1>t, <3>2
    <3> QED
      BY <2>1, <3>1, <3>2
  <2>3. AlpacaStreamTypeOK'
    BY <1>t, <2>1, <2>2 DEF AlpacaStreamTypeOK, Tables
  <2> QED
    BY <1>t, <2>1, <2>2, <2>3 DEF AlpacaInv, NoneSilent
<1>3. CASE AlpacaLoggedIn
  <2>1. /\ UNCHANGED <<active, cleanups, wanted, told, misjudged>> /\ pending' = pending \cup active
        /\ loop' = "live" /\ Answers(ReplayedActive)
    BY <1>3 DEF AlpacaLoggedIn
  <2>2. ReplayedActive = subscribed \cup active /\ ReplayedActive \in SUBSET Pairs
    BY <1>t DEF ReplayedActive, Tables
  <2>3. /\ subscribed' \subseteq ReplayedActive /\ errors' \in Seq(Rejections)
        /\ Rejected \subseteq Rejected' /\ ReplayedActive \subseteq subscribed' \cup Rejected'
    BY <2>1, <2>2, AlpacaAnswers
  <2>4. AlpacaStreamTypeOK'
    BY <1>t, <2>1, <2>2, <2>3 DEF AlpacaStreamTypeOK, Tables, HasSocket
  <2>5. /\ \A s \in subscribed' \ misjudged' : s \in active'
        /\ \A s \in active' \ subscribed' : s \in cleanups' \cup Rejected' \cup misjudged'
    BY <1>t, <2>1, <2>2, <2>3
  <2> QED
    BY <1>t, <2>1, <2>3, <2>4, <2>5 DEF AlpacaInv, NoneSilent
<1>4. CASE FrameArrives
  <2>1. /\ UNCHANGED <<active, loop, subscribed, errors, cleanups, wanted, told, misjudged>> /\ pending' = {}
    BY <1>4 DEF FrameArrives
  <2>2. AlpacaStreamTypeOK'
    BY <1>t, <2>1 DEF AlpacaStreamTypeOK, Tables, HasSocket
  <2> QED
    BY <1>t, <2>1, <2>2 DEF AlpacaInv, NoneSilent, Rejected
<1> QED
  BY <1>1, <1>2, <1>3, <1>4

\* A rejection is read, and cleaned up after.
LEMMA AlpacaRejects ==
    ASSUME AlpacaInv, ErrorArrives \/ \E s \in cleanups : CleansUp(s)
    PROVE  AlpacaInv'
<1>t. /\ Tables /\ loop \in {"starts", "login", "live", "dead", "sleeps"} /\ (subscribed # {} => HasSocket)
      /\ NoneSilent /\ errors \in Seq(Rejections)
      /\ (\A s \in subscribed \ misjudged : s \in active)
      /\ loop = "live" => \A s \in active \ subscribed : s \in cleanups \cup Rejected \cup misjudged
  BY TablesAre DEF AlpacaInv
<1>1. CASE ErrorArrives
  <2> DEFINE e == Head(errors)
  <2>1. /\ UNCHANGED <<active, loop, subscribed, wanted, told>> /\ errors # <<>> /\ errors' = Tail(errors)
        /\ \/ misjudged' = misjudged \cup {e.sym} /\ pending' = pending /\ cleanups' = cleanups
           \/ \E s \in Suspects(e) :
              /\ cleanups' = cleanups \cup {s} /\ pending' \subseteq pending
              /\ misjudged' = IF s = e.sym THEN misjudged ELSE misjudged \cup {s, e.sym}
    BY <1>1 DEF ErrorArrives
  <2>2. e \in Rejections /\ errors' \in Seq(Rejections)
    BY <1>t, <2>1
  <2>3. Rejected \subseteq Rejected' \cup {e.sym}
    <3>1. \A k \in DOMAIN errors : k = 1 \/ (k - 1 \in DOMAIN errors' /\ errors'[k - 1] = errors[k])
      BY <1>t, <2>1
    <3>2. e = errors[1]
      BY <1>t, <2>1
    <3> HIDE DEF e
    <3> QED
      BY <3>1, <3>2 DEF Rejected
  <2>4. e.sym \in Pairs /\ Suspects(e) \subseteq Pairs
    BY <1>t, <2>2 DEF Suspects, Tables, Rejections
  <2> HIDE DEF e
  <2>5. /\ cleanups \subseteq cleanups' /\ cleanups' \subseteq Pairs /\ misjudged \subseteq misjudged' /\ misjudged' \subseteq Pairs
        /\ pending' \subseteq Pairs /\ e.sym \in cleanups' \cup misjudged'
    BY <1>t, <2>1, <2>4 DEF Tables
  <2>6. AlpacaStreamTypeOK'
    BY <1>t, <2>1, <2>5 DEF AlpacaStreamTypeOK, Tables, HasSocket
  <2>7. /\ \A s \in subscribed' \ misjudged' : s \in active'
        /\ loop' = "live" => \A s \in active' \ subscribed' : s \in cleanups' \cup Rejected' \cup misjudged'
    BY <1>t, <2>1, <2>3, <2>5
  <2> QED
    BY <1>t, <2>1, <2>2, <2>6, <2>7 DEF AlpacaInv, NoneSilent
<1>2. ASSUME NEW s \in cleanups, CleansUp(s) PROVE AlpacaInv'
  <2>1. /\ cleanups' = cleanups \ {s} /\ active' = active \ {s} /\ told' = told \cup {s}
        /\ misjudged' = IF s \in subscribed THEN misjudged \cup {s} ELSE misjudged
        /\ UNCHANGED <<loop, pending, subscribed, errors, wanted>>
    BY <1>2 DEF CleansUp
  <2>2. Cardinality(active') <= Cap
    BY <1>t, <2>1, FewerFit DEF Tables
  <2>3. AlpacaStreamTypeOK'
    BY <1>t, <2>1, <2>2 DEF AlpacaStreamTypeOK, Tables, HasSocket
  <2>4. NoneSilent'
    BY <1>t, <2>1 DEF NoneSilent
  <2> QED
    BY <1>t, <2>1, <2>3, <2>4 DEF AlpacaInv, Rejected
<1> QED
  BY <1>1, <1>2

LEMMA AlpacaInitially == AlpacaStreamInit => AlpacaInv
<1> SUFFICES ASSUME AlpacaStreamInit PROVE AlpacaInv
  OBVIOUS
<1>1. Cardinality(active) <= Cap
  BY FS_EmptySet, AlpacaAssumption DEF AlpacaStreamInit
<1> QED
  BY <1>1 DEF AlpacaStreamInit, AlpacaInv, AlpacaStreamTypeOK, NoneSilent

LEMMA AlpacaStep == AlpacaInv /\ [AlpacaStreamNext]_alpacaStreamVars => AlpacaInv'
<1> SUFFICES ASSUME AlpacaInv, [AlpacaStreamNext]_alpacaStreamVars PROVE AlpacaInv'
  OBVIOUS
<1>1. CASE UNCHANGED alpacaStreamVars
  BY <1>1 DEF alpacaStreamVars, AlpacaInv, AlpacaStreamTypeOK, NoneSilent, HasSocket, Rejected
<1> QED
  BY <1>1, AlpacaFrame, AlpacaConnection, AlpacaRejects DEF AlpacaStreamNext

LEMMA AlpacaInvHolds == AlpacaInv => AlpacaStreamHolds
BY DEF AlpacaInv, AlpacaStreamHolds, SubscribedIsActive, Rejected, AlpacaStreamTypeOK

-----------------------------------------------------------------------------
(* The stream of order events.                                             *)

\* The ids that the sequence has given out.
GivenIds == 1..Len(accountOf)

\* An event that is committed and not yet on its account's channel.
Unaired(a) == writer[a] \in {"committed", "announced"}

StreamTypes ==
    /\ writer \in [Streams -> {"rest", "inserted", "committed", "announced"}]
    /\ event \in [Streams -> Nat] /\ accountOf \in Seq(Streams \cup {0})
    /\ stored \subseteq GivenIds /\ seen \subseteq GivenIds /\ missed \subseteq GivenIds /\ backlog \subseteq GivenIds
    /\ aired \in [Channels -> SUBSET Nat] /\ \A c \in Channels : aired[c] \subseteq GivenIds
    /\ scope \in Channels /\ link \in {"closed", "replaying", "live"}
    /\ outbox \in Seq(Nat) /\ Len(outbox) <= QueueSlots
    /\ \A i \in 1..Len(outbox) : outbox[i] = 0 \/ outbox[i] \in GivenIds
    /\ lastId = 0 \/ lastId \in GivenIds

\* A consumer has one event at a time, the newest of its account.
EventsInTurn ==
    \A a \in Streams :
       /\ writer[a] # "rest" => event[a] \in GivenIds /\ accountOf[event[a]] = a
       /\ writer[a] = "inserted" => event[a] \notin stored
       /\ Unaired(a) => event[a] \in stored /\ event[a] \notin aired[a]
       /\ \A id \in stored : accountOf[id] = a => id <= event[a]

\* What is stored was published on its account's channel, or is about to be, or
\* was missed.
AiredOrMissed ==
    \A a \in Streams :
       /\ \A id \in aired[a] : id \in stored /\ accountOf[id] = a
       /\ \A id \in stored : accountOf[id] = a =>
             id \in aired[a] \cup missed \/ (Unaired(a) /\ id = event[a])

\* The stored events that a client of one account asks for.
Mine(id) == id \in stored /\ accountOf[id] = scope

\* The replay and the queue go up from the last id sent, and what the replay did
\* not find came after it.
ClientInTurn ==
    scope # Fleet =>
      /\ lastId # 0 => Mine(lastId)
      /\ link # "replaying" => backlog = {}
      /\ link # "live" => outbox = <<>>
      /\ \A id \in backlog : Mine(id) /\ id > lastId
      /\ \A id \in stored \ backlog : Mine(id) /\ id > lastId => \A other \in backlog : other < id
      /\ \A i \in 1..Len(outbox) : outbox[i] # 0 =>
            /\ outbox[i] \in aired[scope] /\ lastId <= outbox[i]
            /\ \A j \in 1..(i - 1) : outbox[j] < outbox[i]

\* While nothing was dropped, what a live client was not sent is in its queue.
LiveCovers ==
    scope # Fleet /\ link = "live" /\ ~full =>
       \A id \in stored : Mine(id) => \/ id \in seen \cup missed
                                      \/ Unaired(scope) /\ id = event[scope]
                                      \/ \E i \in 1..Len(outbox) : outbox[i] = id

StreamInv ==
    /\ StreamTypes /\ EventsInTurn /\ AiredOrMissed /\ ClientInTurn /\ LiveCovers
    /\ ResumeSkipsNothing

\* Nothing is stored yet.
LEMMA StreamInitially == OrderStreamInit => StreamInv
<1> SUFFICES ASSUME OrderStreamInit PROVE StreamInv
  OBVIOUS
<1>1. StreamTypes
  BY StreamBoundAssumption DEF OrderStreamInit, StreamTypes, GivenIds, Channels
<1>2. EventsInTurn /\ AiredOrMissed
  BY DEF OrderStreamInit, EventsInTurn, AiredOrMissed, Unaired, Channels
<1>3. ClientInTurn /\ LiveCovers /\ ResumeSkipsNothing
  BY DEF OrderStreamInit, ClientInTurn, LiveCovers, ResumeSkipsNothing, Channels
<1> QED
  BY <1>1, <1>2, <1>3 DEF StreamInv

\* The consumers' steps that leave the client alone.
LEMMA InsertEventKeeps ==
    ASSUME StreamInv, NEW a \in Streams, InsertEvent(a) PROVE StreamInv'
<1>1. /\ writer' = [writer EXCEPT ![a] = "inserted"] /\ event' = [event EXCEPT ![a] = Len(accountOf) + 1]
      /\ accountOf' = Append(accountOf, a) /\ writer[a] = "rest"
      /\ UNCHANGED <<stored, aired, scope, link, backlog, outbox, full, lastId, seen, missed>>
  BY DEF InsertEvent, client
<1>2. StreamTypes /\ accountOf \in Seq(Streams \cup {0}) /\ Len(accountOf) \in Nat
  BY DEF StreamInv, StreamTypes
<1>3. /\ accountOf' \in Seq(Streams \cup {0}) /\ Len(accountOf') = Len(accountOf) + 1
      /\ accountOf'[Len(accountOf) + 1] = a
      /\ GivenIds \subseteq GivenIds' /\ \A id \in GivenIds : accountOf'[id] = accountOf[id]
  BY <1>1, <1>2 DEF GivenIds
<1>4. StreamTypes'
  BY <1>1, <1>2, <1>3 DEF StreamTypes
<1>5. /\ stored \subseteq GivenIds
      /\ \A id \in stored : accountOf'[id] = accountOf[id] /\ id \in Nat /\ id <= Len(accountOf)
  <2>1. stored \subseteq GivenIds
    BY <1>2 DEF StreamTypes
  <2>2. \A id \in GivenIds : id \in Nat /\ id <= Len(accountOf)
    BY <1>2 DEF GivenIds
  <2> QED
    BY <1>3, <2>1, <2>2
<1>6. EventsInTurn'
  <2> SUFFICES ASSUME NEW b \in Streams
               PROVE  /\ writer'[b] # "rest" => event'[b] \in GivenIds' /\ accountOf'[event'[b]] = b
                      /\ writer'[b] = "inserted" => event'[b] \notin stored
                      /\ Unaired(b)' => event'[b] \in stored /\ event'[b] \notin aired[b]
                      /\ \A id \in stored : accountOf[id] = b => id <= event'[b]
    <3>1. stored' = stored /\ aired' = aired /\ \A id \in stored : accountOf'[id] = accountOf[id]
      BY <1>1, <1>5
    <3> QED
      BY <3>1 DEF EventsInTurn
  <2>1. CASE b = a
    <3>1. writer'[b] = "inserted" /\ event'[b] = Len(accountOf) + 1
      BY <1>1, <1>2, <2>1 DEF StreamTypes
    <3>2. event'[b] \in GivenIds' /\ accountOf'[event'[b]] = b
      BY <1>2, <1>3, <2>1, <3>1 DEF GivenIds
    <3>3. event'[b] \notin stored /\ \A id \in stored : id <= event'[b]
      BY <1>2, <1>5, <3>1
    <3> QED
      BY <3>1, <3>2, <3>3 DEF Unaired
  <2>2. CASE b # a
    <3>1. writer'[b] = writer[b] /\ event'[b] = event[b]
      BY <1>1, <1>2, <2>2 DEF StreamTypes
    <3> QED
      BY <1>3, <3>1 DEF StreamInv, EventsInTurn, Unaired
  <2> QED
    BY <2>1, <2>2
<1>7. AiredOrMissed'
  <2> SUFFICES ASSUME NEW b \in Streams
               PROVE  /\ \A id \in aired[b] : id \in stored /\ accountOf'[id] = b
                      /\ \A id \in stored : accountOf'[id] = b =>
                            id \in aired[b] \cup missed \/ (Unaired(b)' /\ id = event'[b])
    BY <1>1 DEF AiredOrMissed
  <2>1. Unaired(b) => Unaired(b)' /\ event'[b] = event[b]
    BY <1>1, <1>2 DEF Unaired, StreamTypes
  <2> QED
    BY <1>5, <2>1 DEF StreamInv, AiredOrMissed
<1>8. \A id : Mine(id)' <=> Mine(id)
  BY <1>1, <1>5 DEF Mine
<1>9. ClientInTurn'
  BY <1>1, <1>8 DEF StreamInv, ClientInTurn
<1>10. LiveCovers'
  <2>1. \A b \in Streams : Unaired(b) => Unaired(b)' /\ event'[b] = event[b]
    BY <1>1, <1>2 DEF Unaired, StreamTypes
  <2>2. scope # Fleet => scope \in Streams
    BY <1>2 DEF StreamTypes, Channels
  <2> QED
    BY <1>1, <1>8, <2>1, <2>2 DEF StreamInv, LiveCovers
<1>11. ResumeSkipsNothing'
  BY <1>1, <1>5 DEF StreamInv, ResumeSkipsNothing, InScope
<1> QED
  BY <1>4, <1>6, <1>7, <1>9, <1>10, <1>11 DEF StreamInv
\* What is committed is newer than all that its account's client was sent.
LEMMA CommitEventKeeps ==
    ASSUME StreamInv, NEW a \in Streams, CommitEvent(a) PROVE StreamInv'
<1>1. /\ writer[a] = "inserted" /\ stored' = stored \cup {event[a]}
      /\ \/ writer' = [writer EXCEPT ![a] = "committed"] /\ missed' = missed
         \/ writer' = [writer EXCEPT ![a] = "rest"] /\ missed' = missed \cup {event[a]}
      /\ UNCHANGED <<event, accountOf, aired, scope, link, backlog, outbox, full, lastId, seen>>
  BY DEF CommitEvent, client
<1>2. StreamTypes
  BY DEF StreamInv
<1>3. event[a] \in GivenIds /\ accountOf[event[a]] = a /\ event[a] \notin stored /\ event[a] \in Nat
  BY <1>1 DEF StreamInv, EventsInTurn, GivenIds
<1>4. /\ writer'[a] \in {"committed", "rest"}
      /\ writer' \in [Streams -> {"rest", "inserted", "committed", "announced"}]
      /\ \A b \in Streams : b # a => writer'[b] = writer[b]
      /\ missed \subseteq missed' /\ missed' \subseteq missed \cup {event[a]}
      /\ writer'[a] = "rest" => event[a] \in missed'
  BY <1>1, <1>2 DEF StreamTypes
<1>5. StreamTypes'
  BY <1>1, <1>2, <1>3, <1>4 DEF StreamTypes, GivenIds
<1>6. /\ event[a] \notin aired[a]
      /\ \A id \in stored : id \in Nat /\ (accountOf[id] = a => id < event[a])
  <2>1. event[a] \notin aired[a]
    BY <1>3 DEF StreamInv, AiredOrMissed
  <2>2. \A id \in stored : id \in Nat
    BY <1>2 DEF StreamTypes, GivenIds
  <2>3. \A id \in stored : accountOf[id] = a => id <= event[a]
    BY DEF StreamInv, EventsInTurn
  <2> QED
    BY <1>3, <2>1, <2>2, <2>3
<1>7. EventsInTurn'
  <2> SUFFICES ASSUME NEW b \in Streams
               PROVE  /\ writer'[b] # "rest" => event[b] \in GivenIds /\ accountOf[event[b]] = b
                      /\ writer'[b] = "inserted" => event[b] \notin stored'
                      /\ Unaired(b)' => event[b] \in stored' /\ event[b] \notin aired[b]
                      /\ \A id \in stored' : accountOf[id] = b => id <= event[b]
    BY <1>1 DEF EventsInTurn, GivenIds
  <2>1. CASE b = a
    <3>1. writer'[a] # "inserted" /\ event[a] \in stored'
      BY <1>1, <1>4
    <3>2. \A id \in stored' : accountOf[id] = a => id <= event[a]
      BY <1>1, <1>3, <1>6
    <3> QED
      BY <1>3, <1>6, <2>1, <3>1, <3>2
  <2>2. CASE b # a
    <3>1. /\ writer'[b] # "rest" => event[b] \in GivenIds /\ accountOf[event[b]] = b
          /\ writer'[b] = "inserted" => event[b] \notin stored
          /\ Unaired(b)' => event[b] \in stored /\ event[b] \notin aired[b]
          /\ \A id \in stored : accountOf[id] = b => id <= event[b]
      BY <1>4, <2>2 DEF Unaired, StreamInv, EventsInTurn
    <3>2. writer'[b] # "rest" => event[b] # event[a]
      BY <1>3, <2>2, <3>1
    <3> QED
      BY <1>1, <1>3, <2>2, <3>1, <3>2
  <2> QED
    BY <2>1, <2>2
<1>8. AiredOrMissed'
  <2> SUFFICES ASSUME NEW b \in Streams
               PROVE  /\ \A id \in aired[b] : id \in stored' /\ accountOf[id] = b
                      /\ \A id \in stored' : accountOf[id] = b =>
                            id \in aired[b] \cup missed' \/ (Unaired(b)' /\ id = event[b])
    BY <1>1 DEF AiredOrMissed
  <2>1. \A id \in aired[b] : id \in stored' /\ accountOf[id] = b
    BY <1>1 DEF StreamInv, AiredOrMissed
  <2>2. ASSUME NEW id \in stored', accountOf[id] = b
        PROVE  id \in aired[b] \cup missed' \/ (Unaired(b)' /\ id = event[b])
    <3>1. CASE id = event[a]
      BY <1>3, <1>4, <2>2, <3>1 DEF Unaired
    <3>2. CASE id # event[a]
      <4>1. id \in stored
        BY <1>1, <3>2
      <4>2. id \in aired[b] \cup missed \/ (Unaired(b) /\ id = event[b])
        BY <2>2, <4>1 DEF StreamInv, AiredOrMissed
      <4>3. Unaired(b) => Unaired(b)'
        BY <1>1, <1>4 DEF Unaired
      <4> QED
        BY <1>4, <4>2, <4>3
    <3> QED
      BY <3>1, <3>2
  <2> QED
    BY <2>1, <2>2
<1>9. ClientInTurn'
  <2> SUFFICES ASSUME scope # Fleet PROVE ClientInTurn'
    BY <1>1 DEF ClientInTurn
  <2>1. \A id : Mine(id)' <=> Mine(id) \/ (id = event[a] /\ accountOf[id] = scope)
    BY <1>1 DEF Mine
  <2>2. \A id : Mine(id) /\ accountOf[event[a]] = scope => id \in Nat /\ id < event[a]
    BY <1>2, <1>3, <1>6 DEF Mine, StreamTypes, GivenIds
  <2>3. \A id \in stored \ backlog : Mine(id) /\ id > lastId => \A other \in backlog : other < id
    BY DEF StreamInv, ClientInTurn
  <2>4. \A id \in backlog : Mine(id)
    BY DEF StreamInv, ClientInTurn
  <2>5. \A id \in stored' \ backlog : Mine(id)' /\ id > lastId => \A other \in backlog : other < id
    <3> SUFFICES ASSUME NEW id \in stored' \ backlog, Mine(id)', id > lastId, NEW other \in backlog
                 PROVE  other < id
      OBVIOUS
    <3>1. CASE Mine(id)
      BY <2>3, <3>1 DEF Mine
    <3>2. CASE id = event[a] /\ accountOf[id] = scope
      BY <2>2, <2>4, <3>2
    <3> QED
      BY <2>1, <3>1, <3>2
  <2> QED
    BY <1>1, <2>1, <2>5 DEF StreamInv, ClientInTurn
<1>10. LiveCovers'
  <2> SUFFICES ASSUME scope # Fleet, link = "live", ~full, NEW id \in stored', Mine(id)'
               PROVE  \/ id \in seen \cup missed'
                      \/ Unaired(scope)' /\ id = event[scope]
                      \/ \E i \in 1..Len(outbox) : outbox[i] = id
    BY <1>1 DEF LiveCovers
  <2>1. scope \in Streams
    BY <1>2 DEF StreamTypes, Channels
  <2>2. CASE id = event[a]
    <3>1. scope = a
      BY <1>1, <1>3, <2>2 DEF Mine
    <3> QED
      BY <1>1, <1>4, <2>2, <3>1 DEF Unaired
  <2>3. CASE id # event[a]
    <3>1. Mine(id) /\ id \in stored
      BY <1>1, <2>3 DEF Mine
    <3>2. \/ id \in seen \cup missed
          \/ Unaired(scope) /\ id = event[scope]
          \/ \E i \in 1..Len(outbox) : outbox[i] = id
      BY <3>1 DEF StreamInv, LiveCovers
    <3>3. Unaired(scope) => Unaired(scope)'
      BY <1>1, <1>4, <2>1 DEF Unaired
    <3> QED
      BY <1>4, <3>2, <3>3
  <2> QED
    BY <2>2, <2>3
<1>11. ResumeSkipsNothing'
  <2> SUFFICES ASSUME scope # Fleet, NEW id \in stored', InScope(id), id <= lastId
               PROVE  id \in seen \cup missed'
    BY <1>1 DEF ResumeSkipsNothing, InScope
  <2>1. CASE id \in stored
    BY <1>4, <2>1 DEF StreamInv, ResumeSkipsNothing
  <2>2. CASE id \notin stored
    <3>1. id = event[a] /\ scope = a
      BY <1>1, <1>3, <2>2 DEF InScope
    <3>2. lastId = 0 \/ (lastId \in Nat /\ lastId < event[a])
      BY <1>2, <1>6, <3>1 DEF StreamInv, ClientInTurn, Mine, StreamTypes, GivenIds
    <3>3. event[a] > 0
      BY <1>3 DEF GivenIds
    <3> QED
      BY <1>3, <3>1, <3>2, <3>3
  <2> QED
    BY <2>1, <2>2
<1> QED
  BY <1>5, <1>7, <1>8, <1>9, <1>10, <1>11 DEF StreamInv

\* What was not committed is no event; what was, is missed.
LEMMA WriterFailsKeeps ==
    ASSUME StreamInv, NEW a \in Streams, WriterFails(a) PROVE StreamInv'
<1>1. /\ writer[a] # "rest" /\ writer' = [writer EXCEPT ![a] = "rest"]
      /\ accountOf' = [accountOf EXCEPT ![event[a]] = IF writer[a] = "inserted" THEN 0 ELSE @]
      /\ missed' = IF writer[a] = "inserted" THEN missed ELSE missed \cup {event[a]}
      /\ UNCHANGED <<event, stored, aired, scope, link, backlog, outbox, full, lastId, seen>>
  BY DEF WriterFails, client
<1>2. StreamTypes
  BY DEF StreamInv
<1>3. event[a] \in GivenIds /\ accountOf[event[a]] = a
  BY <1>1 DEF StreamInv, EventsInTurn
<1>4. /\ writer'[a] = "rest" /\ writer' \in [Streams -> {"rest", "inserted", "committed", "announced"}]
      /\ \A b \in Streams : b # a => writer'[b] = writer[b]
      /\ missed \subseteq missed' /\ missed' \subseteq missed \cup {event[a]}
      /\ Unaired(a) => event[a] \in missed'
  BY <1>1, <1>2 DEF StreamTypes, Unaired
<1>5. accountOf' \in Seq(Streams \cup {0}) /\ Len(accountOf') = Len(accountOf) /\ GivenIds' = GivenIds
  BY <1>1, <1>2, <1>3 DEF StreamTypes, GivenIds
<1>6. \A id \in GivenIds : (id # event[a] \/ writer[a] # "inserted") => accountOf'[id] = accountOf[id]
  BY <1>1, <1>2 DEF StreamTypes, GivenIds
<1>7. StreamTypes'
  BY <1>1, <1>2, <1>3, <1>4, <1>5 DEF StreamTypes
<1>8. \A id \in stored : accountOf'[id] = accountOf[id]
  <2>1. stored \subseteq GivenIds
    BY <1>2 DEF StreamTypes
  <2>2. writer[a] = "inserted" => event[a] \notin stored
    BY DEF StreamInv, EventsInTurn
  <2> QED
    BY <1>6, <2>1, <2>2
<1>9. EventsInTurn'
  <2> SUFFICES ASSUME NEW b \in Streams
               PROVE  /\ writer'[b] # "rest" => event[b] \in GivenIds /\ accountOf'[event[b]] = b
                      /\ writer'[b] = "inserted" => event[b] \notin stored
                      /\ Unaired(b)' => event[b] \in stored /\ event[b] \notin aired[b]
                      /\ \A id \in stored : accountOf'[id] = b => id <= event[b]
    BY <1>1, <1>5 DEF EventsInTurn
  <2>1. CASE b = a
    BY <1>4, <1>8, <2>1 DEF Unaired, StreamInv, EventsInTurn
  <2>2. CASE b # a
    <3>1. writer'[b] # "rest" => event[b] \in GivenIds /\ accountOf[event[b]] = b
      BY <1>4, <2>2 DEF StreamInv, EventsInTurn
    <3>2. writer'[b] # "rest" => accountOf'[event[b]] = b
      BY <1>3, <1>6, <2>2, <3>1
    <3> QED
      BY <1>4, <1>8, <2>2, <3>1, <3>2 DEF Unaired, StreamInv, EventsInTurn
  <2> QED
    BY <2>1, <2>2
<1>10. AiredOrMissed'
  <2> SUFFICES ASSUME NEW b \in Streams
               PROVE  /\ \A id \in aired[b] : id \in stored /\ accountOf'[id] = b
                      /\ \A id \in stored : accountOf'[id] = b =>
                            id \in aired[b] \cup missed' \/ (Unaired(b)' /\ id = event[b])
    BY <1>1 DEF AiredOrMissed
  <2>1. b # a /\ Unaired(b) => Unaired(b)'
    BY <1>4 DEF Unaired
  <2>2. /\ \A id \in aired[b] : id \in stored /\ accountOf[id] = b
        /\ \A id \in stored : accountOf[id] = b =>
              id \in aired[b] \cup missed \/ (Unaired(b) /\ id = event[b])
    BY DEF StreamInv, AiredOrMissed
  <2> QED
    BY <1>4, <1>8, <2>1, <2>2
<1>11. \A id : Mine(id)' <=> Mine(id)
  BY <1>1, <1>8 DEF Mine
<1>12. ClientInTurn'
  BY <1>1, <1>11 DEF StreamInv, ClientInTurn
<1>13. LiveCovers'
  <2>1. \A b \in Streams : b # a /\ Unaired(b) => Unaired(b)'
    BY <1>4 DEF Unaired
  <2>2. scope # Fleet => scope \in Streams
    BY <1>2 DEF StreamTypes, Channels
  <2> QED
    BY <1>1, <1>4, <1>11, <2>1, <2>2 DEF StreamInv, LiveCovers
<1>14. ResumeSkipsNothing'
  BY <1>1, <1>4, <1>8 DEF StreamInv, ResumeSkipsNothing, InScope
<1> QED
  BY <1>7, <1>9, <1>10, <1>12, <1>13, <1>14 DEF StreamInv
\* A frame for a client's queue: a message of its channel, or a heartbeat.
LEMMA PumpedKeeps ==
    ASSUME StreamInv, NEW id \in Nat, Pumped(id)
    PROVE  /\ outbox' \in Seq(Nat) /\ Len(outbox') <= QueueSlots
           /\ \A i \in 1..Len(outbox) : i \in 1..Len(outbox') /\ outbox'[i] = outbox[i]
           /\ \A i \in 1..Len(outbox') : i \in 1..Len(outbox) \/ (i = Len(outbox) + 1 /\ outbox'[i] = id)
           /\ ~full' => ~full /\ \E i \in 1..Len(outbox') : outbox'[i] = id
<1>1. outbox \in Seq(Nat) /\ Len(outbox) <= QueueSlots /\ QueueSlots \in Nat
  BY StreamBoundAssumption DEF StreamInv, StreamTypes
<1>2. CASE full
  BY <1>1, <1>2 DEF Pumped
<1>3. CASE ~full /\ Len(outbox) < QueueSlots
  <2>1. outbox' = Append(outbox, id) /\ full' = full
    BY <1>3 DEF Pumped
  <2>2. /\ outbox' \in Seq(Nat) /\ Len(outbox') = Len(outbox) + 1 /\ Len(outbox) \in Nat
        /\ outbox'[Len(outbox) + 1] = id
        /\ \A i \in 1..Len(outbox) : outbox'[i] = outbox[i]
    BY <1>1, <2>1
  <2>3. Len(outbox) + 1 \in 1..Len(outbox')
    BY <2>2
  <2> QED
    BY <1>1, <1>3, <2>1, <2>2, <2>3
<1>4. CASE ~full /\ ~(Len(outbox) < QueueSlots)
  BY <1>1, <1>4 DEF Pumped
<1> QED
  BY <1>2, <1>3, <1>4

\* A heartbeat has no id.
LEMMA HeartbeatKeeps ==
    ASSUME StreamInv, Heartbeat PROVE StreamInv'
<1>1. /\ Pumped(0) /\ link = "live"
      /\ UNCHANGED <<writer, event, accountOf, stored, aired, scope, link, backlog, lastId, seen, missed>>
  BY DEF Heartbeat, writers
<1>2. /\ outbox' \in Seq(Nat) /\ Len(outbox') <= QueueSlots
      /\ \A i \in 1..Len(outbox) : i \in 1..Len(outbox') /\ outbox'[i] = outbox[i]
      /\ \A i \in 1..Len(outbox') : i \in 1..Len(outbox) \/ (i = Len(outbox) + 1 /\ outbox'[i] = 0)
      /\ ~full' => ~full
  BY <1>1, PumpedKeeps
<1>3. StreamTypes'
  BY <1>1, <1>2 DEF StreamInv, StreamTypes, GivenIds
<1>4. EventsInTurn' /\ AiredOrMissed' /\ ResumeSkipsNothing'
  BY <1>1 DEF StreamInv, EventsInTurn, AiredOrMissed, ResumeSkipsNothing, InScope, Unaired, GivenIds
<1>5. \A id : Mine(id)' <=> Mine(id)
  BY <1>1 DEF Mine
<1>6. ClientInTurn'
  <2> SUFFICES ASSUME scope # Fleet, NEW i \in 1..Len(outbox'), outbox'[i] # 0
               PROVE  /\ outbox'[i] \in aired[scope] /\ lastId <= outbox'[i]
                      /\ \A j \in 1..(i - 1) : outbox'[j] < outbox'[i]
    BY <1>1, <1>5 DEF StreamInv, ClientInTurn
  <2>1. i \in 1..Len(outbox) /\ outbox'[i] = outbox[i] /\ outbox[i] # 0
    BY <1>2
  <2>2. \A j \in 1..(i - 1) : outbox'[j] = outbox[j]
    BY <1>2, <2>1
  <2> QED
    BY <2>1, <2>2 DEF StreamInv, ClientInTurn
<1>7. LiveCovers'
  <2> SUFFICES ASSUME scope # Fleet, ~full, NEW id \in stored, Mine(id)
               PROVE  \/ id \in seen \cup missed
                      \/ Unaired(scope) /\ id = event[scope]
                      \/ \E i \in 1..Len(outbox') : outbox'[i] = id
    BY <1>1, <1>2, <1>5 DEF LiveCovers, Unaired
  <2> QED
    BY <1>1, <1>2 DEF StreamInv, LiveCovers
<1> QED
  BY <1>3, <1>4, <1>6, <1>7 DEF StreamInv

\* PUBLISH on a channel, of the event that the account's consumer has.
LEMMA PublishFleetKeeps ==
    ASSUME StreamInv, NEW a \in Streams, PublishFleet(a) PROVE StreamInv'
<1>1. /\ writer[a] = "committed" /\ writer' = [writer EXCEPT ![a] = "announced"]
      /\ aired' = [aired EXCEPT ![Fleet] = @ \cup {event[a]}]
      /\ IF link = "live" /\ scope = Fleet THEN Pumped(event[a]) ELSE UNCHANGED <<outbox, full>>
      /\ UNCHANGED <<event, accountOf, stored, scope, link, backlog, lastId, seen, missed>>
  BY DEF PublishFleet, Publish
<1>2. StreamTypes /\ Fleet \notin Streams /\ Fleet \in Channels /\ Streams \subseteq Channels
  BY StreamScopesAssumption DEF StreamInv, Channels
<1>3. event[a] \in GivenIds /\ event[a] \in Nat
  BY <1>1 DEF StreamInv, EventsInTurn, GivenIds
<1>4. /\ aired' \in [Channels -> SUBSET Nat] /\ \A b \in Streams : aired'[b] = aired[b]
      /\ \A c \in Channels : aired'[c] \subseteq GivenIds
  BY <1>1, <1>2, <1>3 DEF StreamTypes
<1>5. /\ writer' \in [Streams -> {"rest", "inserted", "committed", "announced"}]
      /\ \A b \in Streams : (writer'[b] = writer[b]) \/ (b = a /\ writer'[b] = "announced")
      /\ \A b \in Streams : Unaired(b)' <=> Unaired(b)
  BY <1>1, <1>2 DEF StreamTypes, Unaired
<1>6. /\ outbox' \in Seq(Nat) /\ Len(outbox') <= QueueSlots
      /\ \A i \in 1..Len(outbox') : outbox'[i] = 0 \/ outbox'[i] \in GivenIds
      /\ scope # Fleet => outbox' = outbox /\ full' = full
  <2>1. CASE link = "live" /\ scope = Fleet
    BY <1>1, <1>2, <1>3, <2>1, PumpedKeeps DEF StreamTypes
  <2>2. CASE ~(link = "live" /\ scope = Fleet)
    BY <1>1, <1>2, <2>2 DEF StreamTypes
  <2> QED
    BY <2>1, <2>2
<1>7. StreamTypes'
  BY <1>1, <1>2, <1>4, <1>5, <1>6 DEF StreamTypes, GivenIds
<1>8. EventsInTurn' /\ AiredOrMissed'
  <2>1. EventsInTurn'
    BY <1>1, <1>4, <1>5 DEF StreamInv, EventsInTurn, GivenIds
  <2>2. AiredOrMissed'
    BY <1>1, <1>4, <1>5 DEF StreamInv, AiredOrMissed
  <2> QED
    BY <2>1, <2>2
<1>9. scope # Fleet => scope \in Streams
  BY <1>2 DEF StreamTypes, Channels
<1>10. ClientInTurn'
  BY <1>1, <1>4, <1>6, <1>9 DEF StreamInv, ClientInTurn, Mine
<1>11. LiveCovers'
  BY <1>1, <1>5, <1>6, <1>9 DEF StreamInv, LiveCovers, Mine
<1>12. ResumeSkipsNothing'
  BY <1>1 DEF StreamInv, ResumeSkipsNothing, InScope
<1> QED
  BY <1>7, <1>8, <1>10, <1>11, <1>12 DEF StreamInv

\* What is published goes to the end of the queue, behind what is older.
LEMMA PublishAccountKeeps ==
    ASSUME StreamInv, NEW a \in Streams, PublishAccount(a) PROVE StreamInv'
<1>1. /\ writer[a] = "announced" /\ writer' = [writer EXCEPT ![a] = "rest"]
      /\ aired' = [aired EXCEPT ![a] = @ \cup {event[a]}]
      /\ IF link = "live" /\ scope = a THEN Pumped(event[a]) ELSE UNCHANGED <<outbox, full>>
      /\ UNCHANGED <<event, accountOf, stored, scope, link, backlog, lastId, seen, missed>>
  BY DEF PublishAccount, Publish
<1>2. StreamTypes /\ Fleet \notin Streams /\ Streams \subseteq Channels
  BY StreamScopesAssumption DEF StreamInv, Channels
<1>3. /\ event[a] \in GivenIds /\ event[a] \in Nat /\ event[a] # 0 /\ accountOf[event[a]] = a
      /\ event[a] \in stored /\ event[a] \notin aired[a]
      /\ \A id \in stored : accountOf[id] = a => id <= event[a]
  BY <1>1 DEF StreamInv, EventsInTurn, GivenIds, Unaired
<1>4. /\ aired' \in [Channels -> SUBSET Nat] /\ \A c \in Channels : aired'[c] \subseteq GivenIds
      /\ aired'[a] = aired[a] \cup {event[a]}
      /\ \A b \in Streams : b # a => aired'[b] = aired[b]
  BY <1>1, <1>2, <1>3 DEF StreamTypes
<1>5. /\ writer' \in [Streams -> {"rest", "inserted", "committed", "announced"}]
      /\ writer'[a] = "rest" /\ ~Unaired(a)'
      /\ \A b \in Streams : b # a => writer'[b] = writer[b] /\ (Unaired(b)' <=> Unaired(b))
  BY <1>1, <1>2 DEF StreamTypes, Unaired
<1>6. /\ outbox' \in Seq(Nat) /\ Len(outbox') <= QueueSlots
      /\ \A i \in 1..Len(outbox) : i \in 1..Len(outbox') /\ outbox'[i] = outbox[i]
      /\ \A i \in 1..Len(outbox') : \/ i \in 1..Len(outbox)
                                    \/ i = Len(outbox) + 1 /\ outbox'[i] = event[a] /\ scope = a /\ link = "live"
      /\ link # "live" => outbox' = outbox
      /\ ~full' => ~full
      /\ ~full' /\ scope = a /\ link = "live" => \E i \in 1..Len(outbox') : outbox'[i] = event[a]
  <2>1. CASE link = "live" /\ scope = a
    BY <1>1, <1>2, <1>3, <2>1, PumpedKeeps DEF StreamTypes
  <2>2. CASE ~(link = "live" /\ scope = a)
    BY <1>1, <1>2, <2>2 DEF StreamTypes
  <2> QED
    BY <2>1, <2>2
<1>7. StreamTypes'
  <2>1. \A i \in 1..Len(outbox') : outbox'[i] = 0 \/ outbox'[i] \in GivenIds
    BY <1>2, <1>3, <1>6 DEF StreamTypes
  <2> QED
    BY <1>1, <1>2, <1>4, <1>5, <1>6, <2>1 DEF StreamTypes, GivenIds
<1>8. EventsInTurn'
  <2> SUFFICES ASSUME NEW b \in Streams
               PROVE  /\ writer'[b] # "rest" => event[b] \in GivenIds /\ accountOf[event[b]] = b
                      /\ writer'[b] = "inserted" => event[b] \notin stored
                      /\ Unaired(b)' => event[b] \in stored /\ event[b] \notin aired'[b]
                      /\ \A id \in stored : accountOf[id] = b => id <= event[b]
    BY <1>1 DEF EventsInTurn, GivenIds
  <2>1. CASE b = a
    BY <1>3, <1>5, <2>1
  <2>2. CASE b # a
    BY <1>4, <1>5, <2>2 DEF StreamInv, EventsInTurn
  <2> QED
    BY <2>1, <2>2
<1>9. AiredOrMissed'
  <2> SUFFICES ASSUME NEW b \in Streams
               PROVE  /\ \A id \in aired'[b] : id \in stored /\ accountOf[id] = b
                      /\ \A id \in stored : accountOf[id] = b =>
                            id \in aired'[b] \cup missed \/ (Unaired(b)' /\ id = event[b])
    BY <1>1 DEF AiredOrMissed
  <2>1. CASE b = a
    BY <1>3, <1>4, <2>1 DEF StreamInv, AiredOrMissed
  <2>2. CASE b # a
    BY <1>4, <1>5, <2>2 DEF StreamInv, AiredOrMissed
  <2> QED
    BY <2>1, <2>2
<1>10. \A id : Mine(id)' <=> Mine(id)
  BY <1>1 DEF Mine
<1>11. scope # Fleet => scope \in Streams /\ aired[scope] \subseteq aired'[scope]
  BY <1>2, <1>4 DEF StreamTypes, Channels
<1>12. ClientInTurn'
  <2> SUFFICES ASSUME scope # Fleet, NEW i \in 1..Len(outbox'), outbox'[i] # 0
               PROVE  /\ outbox'[i] \in aired'[scope] /\ lastId <= outbox'[i]
                      /\ \A j \in 1..(i - 1) : outbox'[j] < outbox'[i]
    BY <1>1, <1>6, <1>10 DEF StreamInv, ClientInTurn
  <2>1. CASE i \in 1..Len(outbox)
    <3>1. outbox'[i] = outbox[i] /\ \A j \in 1..(i - 1) : outbox'[j] = outbox[j]
      BY <1>6, <2>1
    <3> QED
      BY <1>11, <2>1, <3>1 DEF StreamInv, ClientInTurn
  <2>2. CASE i = Len(outbox) + 1 /\ outbox'[i] = event[a] /\ scope = a
    <3>1. Len(outbox) \in Nat /\ outbox \in Seq(Nat)
      BY <1>2 DEF StreamTypes
    <3>2. lastId <= event[a]
      <4>1. lastId = 0 \/ Mine(lastId)
        BY DEF StreamInv, ClientInTurn
      <4> QED
        BY <1>3, <2>2, <4>1 DEF Mine
    <3>3. ASSUME NEW j \in 1..(i - 1) PROVE outbox'[j] < event[a]
      <4>0. j \in 1..Len(outbox)
        BY <2>2, <3>1
      <4>1. j \in 1..Len(outbox) /\ outbox'[j] = outbox[j] /\ outbox[j] \in Nat
        BY <1>6, <3>1, <4>0
      <4>2. outbox[j] = 0 \/ outbox[j] \in aired[a]
        BY <2>2, <4>1 DEF StreamInv, ClientInTurn
      <4>3. \A id \in aired[a] : id <= event[a] /\ id # event[a]
        BY <1>3 DEF StreamInv, AiredOrMissed
      <4> QED
        BY <1>3, <4>1, <4>2, <4>3
    <3> QED
      BY <1>4, <2>2, <3>2, <3>3
  <2> QED
    BY <1>6, <2>1, <2>2
<1>13. LiveCovers'
  <2> SUFFICES ASSUME scope # Fleet, link = "live", ~full', NEW id \in stored, Mine(id)
               PROVE  \/ id \in seen \cup missed
                      \/ Unaired(scope)' /\ id = event[scope]
                      \/ \E i \in 1..Len(outbox') : outbox'[i] = id
    BY <1>1, <1>10 DEF LiveCovers
  <2>1. \/ id \in seen \cup missed
        \/ Unaired(scope) /\ id = event[scope]
        \/ \E i \in 1..Len(outbox) : outbox[i] = id
    BY <1>6 DEF StreamInv, LiveCovers
  <2>2. CASE Unaired(scope) /\ id = event[scope]
    <3>1. CASE scope = a
      BY <1>6, <2>2, <3>1
    <3>2. CASE scope # a
      <4>1. Unaired(scope)'
        BY <1>1, <1>5, <1>11, <2>2, <3>2 DEF Unaired
      <4> QED
        BY <2>2, <4>1
    <3> QED
      BY <3>1, <3>2
  <2> QED
    BY <1>6, <2>1, <2>2
<1>14. ResumeSkipsNothing'
  BY <1>1 DEF StreamInv, ResumeSkipsNothing, InScope
<1> QED
  BY <1>7, <1>8, <1>9, <1>12, <1>13, <1>14 DEF StreamInv
\* The client's steps leave the consumers' part as it was.
LEMMA WritersStand ==
    ASSUME StreamInv, UNCHANGED writers, UNCHANGED scope, missed \subseteq missed'
    PROVE  /\ EventsInTurn' /\ AiredOrMissed' /\ GivenIds' = GivenIds /\ \A id : Mine(id)' <=> Mine(id)
           /\ \A a \in Streams : Unaired(a)' <=> Unaired(a)
<1>1. UNCHANGED <<writer, event, accountOf, stored, aired, scope>>
  BY DEF writers
<1>2. EventsInTurn'
  BY <1>1 DEF StreamInv, EventsInTurn, Unaired, GivenIds
<1>3. AiredOrMissed'
  BY <1>1 DEF StreamInv, AiredOrMissed, Unaired
<1> QED
  BY <1>1, <1>2, <1>3 DEF Mine, Unaired, GivenIds

\* The replay has all that is stored and was not sent.
LEMMA ConnectKeeps ==
    ASSUME StreamInv, Connect PROVE StreamInv'
<1>1. /\ UNCHANGED writers /\ UNCHANGED scope /\ missed' = missed
      /\ link = "closed" /\ link' = "replaying" /\ backlog' = Missing
      /\ UNCHANGED <<outbox, full, lastId, seen>>
  BY DEF Connect
<1>2. EventsInTurn' /\ AiredOrMissed' /\ GivenIds' = GivenIds /\ \A id : Mine(id)' <=> Mine(id)
  BY <1>1, WritersStand
<1>3. UNCHANGED <<writer, event, accountOf, stored, aired, scope>>
  BY <1>1 DEF writers
<1>4. StreamTypes'
  BY <1>1, <1>2, <1>3 DEF StreamInv, StreamTypes, Missing
<1>5. scope # Fleet => \A id : id \in Missing <=> Mine(id) /\ id > lastId
  BY DEF Missing, InScope, Mine
<1>6. ClientInTurn'
  BY <1>1, <1>2, <1>3, <1>5 DEF StreamInv, ClientInTurn
<1>7. LiveCovers' /\ ResumeSkipsNothing'
  BY <1>1, <1>3 DEF StreamInv, LiveCovers, ResumeSkipsNothing, InScope
<1> QED
  BY <1>2, <1>4, <1>6, <1>7 DEF StreamInv

\* Of the replay the oldest is sent.
LEMMA SendReplayedKeeps ==
    ASSUME StreamInv, SendReplayed PROVE StreamInv' /\ (scope # Fleet => lastId' >= lastId)
<1>1. PICK id \in backlog :
        /\ NextRow(id)
        /\ lastId' = id /\ seen' = seen \cup {id} /\ backlog' = backlog \ {id}
  BY DEF SendReplayed
<1>2. /\ UNCHANGED writers /\ UNCHANGED scope /\ missed' = missed
      /\ link = "replaying" /\ UNCHANGED <<link, outbox, full>>
  BY DEF SendReplayed
<1>3. EventsInTurn' /\ AiredOrMissed' /\ GivenIds' = GivenIds /\ \A n : Mine(n)' <=> Mine(n)
  BY <1>2, WritersStand
<1>4. UNCHANGED <<writer, event, accountOf, stored, aired, scope>>
  BY <1>2 DEF writers
<1>5. StreamTypes'
  BY <1>1, <1>2, <1>3, <1>4 DEF StreamInv, StreamTypes
<1>6. /\ stored \subseteq Nat /\ backlog \subseteq Nat /\ lastId \in Nat /\ id \in Nat
  BY <1>1 DEF StreamInv, StreamTypes, GivenIds
<1>7. \A other \in backlog : id <= other
  BY <1>1 DEF NextRow
<1>8. scope # Fleet => /\ Mine(id) /\ id > lastId
                       /\ \A other \in backlog : Mine(other) /\ other > lastId
                       /\ \A n \in stored \ backlog :
                             Mine(n) /\ n > lastId => \A other \in backlog : other < n
                       /\ outbox = <<>>
  BY <1>1, <1>2 DEF StreamInv, ClientInTurn
<1>9. ClientInTurn'
  <2> SUFFICES ASSUME scope # Fleet PROVE ClientInTurn'
    BY <1>4 DEF ClientInTurn
  <2>1. \A n \in backlog' : Mine(n) /\ n > lastId'
    BY <1>1, <1>6, <1>7, <1>8
  <2>2. ASSUME NEW n \in stored \ backlog', Mine(n), n > lastId', NEW other \in backlog'
        PROVE  other < n
    <3>1. n # id /\ n \notin backlog /\ n > lastId /\ other \in backlog
      BY <1>1, <1>6, <1>8, <2>2
    <3> QED
      BY <1>8, <2>2, <3>1
  <2> QED
    BY <1>1, <1>2, <1>3, <1>4, <1>8, <2>1, <2>2 DEF ClientInTurn
<1>10. LiveCovers'
  BY <1>2 DEF LiveCovers
<1>11. ResumeSkipsNothing'
  <2> SUFFICES ASSUME scope # Fleet, NEW n \in stored, Mine(n), n <= id
               PROVE  n \in seen' \cup missed
    BY <1>1, <1>2, <1>4 DEF ResumeSkipsNothing, InScope, Mine
  <2>1. CASE n <= lastId
    BY <1>1, <2>1 DEF StreamInv, ResumeSkipsNothing, InScope, Mine
  <2>2. CASE ~(n <= lastId)
    <3>1. n \in Nat /\ n > lastId
      BY <1>6, <2>2
    <3>2. n \in backlog
      BY <1>1, <1>6, <1>8, <3>1
    <3>3. n = id
      BY <1>6, <1>7, <3>1, <3>2
    <3> QED
      BY <1>1, <3>3
  <2> QED
    BY <2>1, <2>2
<1>12. scope # Fleet => lastId' >= lastId
  BY <1>1, <1>6, <1>8
<1> QED
  BY <1>3, <1>5, <1>9, <1>10, <1>11, <1>12 DEF StreamInv

\* What was published during the replay is missed; the rest is still to come.
LEMMA SubscribeKeeps ==
    ASSUME StreamInv, Subscribe PROVE StreamInv'
<1>1. /\ UNCHANGED writers /\ UNCHANGED scope /\ missed' = missed \cup (aired[scope] \ seen)
      /\ link = "replaying" /\ backlog = {} /\ link' = "live"
      /\ UNCHANGED <<backlog, outbox, full, lastId, seen>>
  BY DEF Subscribe
<1>2. EventsInTurn' /\ AiredOrMissed' /\ GivenIds' = GivenIds /\ \A id : Mine(id)' <=> Mine(id)
  BY <1>1, WritersStand
<1>3. UNCHANGED <<writer, event, accountOf, stored, aired, scope>>
  BY <1>1 DEF writers
<1>4. StreamTypes'
  BY <1>1, <1>2, <1>3 DEF StreamInv, StreamTypes
<1>5. ClientInTurn'
  BY <1>1, <1>2, <1>3 DEF StreamInv, ClientInTurn
<1>6. LiveCovers'
  <2> SUFFICES ASSUME scope # Fleet, NEW id \in stored, Mine(id)
               PROVE  id \in seen \cup missed' \/ (Unaired(scope) /\ id = event[scope])
    BY <1>1, <1>2, <1>3 DEF LiveCovers, Unaired
  <2>1. scope \in Streams
    BY DEF StreamInv, StreamTypes, Channels
  <2>2. id \in aired[scope] \cup missed \/ (Unaired(scope) /\ id = event[scope])
    BY <2>1 DEF StreamInv, AiredOrMissed, Mine
  <2> QED
    BY <1>1, <2>2
<1>7. ResumeSkipsNothing'
  BY <1>1, <1>3 DEF StreamInv, ResumeSkipsNothing, InScope
<1> QED
  BY <1>2, <1>4, <1>5, <1>6, <1>7 DEF StreamInv

\* Of the queue the oldest is sent, and all before it was.
LEMMA SendQueuedKeeps ==
    ASSUME StreamInv, SendQueued PROVE StreamInv' /\ (scope # Fleet => lastId' >= lastId)
<1>1. /\ UNCHANGED writers /\ UNCHANGED scope /\ missed' = missed
      /\ link = "live" /\ ~full /\ outbox # <<>> /\ outbox' = Tail(outbox)
      /\ UNCHANGED <<link, backlog, full>>
      /\ Head(outbox) = 0 => lastId' = lastId /\ seen' = seen
      /\ Head(outbox) # 0 => lastId' = Head(outbox) /\ seen' = seen \cup {Head(outbox)}
  BY DEF SendQueued
<1>2. /\ EventsInTurn' /\ AiredOrMissed' /\ GivenIds' = GivenIds /\ \A n : Mine(n)' <=> Mine(n)
      /\ \A a \in Streams : Unaired(a)' <=> Unaired(a)
  BY <1>1, WritersStand
<1>3. UNCHANGED <<writer, event, accountOf, stored, aired, scope>>
  BY <1>1 DEF writers
<1>4. StreamTypes
  BY DEF StreamInv
<1>5. /\ outbox' \in Seq(Nat) /\ Len(outbox') = Len(outbox) - 1 /\ Len(outbox) \in Nat /\ Len(outbox) > 0
      /\ Head(outbox) = outbox[1] /\ outbox[1] \in Nat
      /\ \A i \in 1..Len(outbox') : outbox'[i] = outbox[i + 1] /\ i + 1 \in 1..Len(outbox)
  BY <1>1, <1>4 DEF StreamTypes
<1>6. outbox[1] = 0 \/ outbox[1] \in GivenIds
  BY <1>4, <1>5 DEF StreamTypes
<1>7. StreamTypes'
  <2>1. \A i \in 1..Len(outbox') : outbox'[i] = 0 \/ outbox'[i] \in GivenIds
    BY <1>4, <1>5 DEF StreamTypes
  <2>2. Len(outbox') <= QueueSlots
    BY <1>4, <1>5, StreamBoundAssumption DEF StreamTypes
  <2>3. (lastId' = 0 \/ lastId' \in GivenIds) /\ seen' \subseteq GivenIds
    BY <1>1, <1>4, <1>5, <1>6 DEF StreamTypes
  <2> QED
    BY <1>1, <1>2, <1>3, <1>4, <1>5, <2>1, <2>2, <2>3 DEF StreamTypes
<1>8. stored \subseteq Nat /\ lastId \in Nat
  BY <1>4 DEF StreamTypes, GivenIds
<1>9. scope # Fleet =>
        /\ scope \in Streams /\ backlog = {}
        /\ outbox[1] # 0 => outbox[1] \in aired[scope] /\ lastId <= outbox[1]
        /\ \A i \in 1..Len(outbox') : outbox'[i] # 0 =>
              /\ outbox'[i] \in aired[scope] /\ lastId <= outbox'[i] /\ outbox[1] < outbox'[i]
              /\ \A j \in 1..(i - 1) : outbox'[j] < outbox'[i]
  <2> SUFFICES ASSUME scope # Fleet
               PROVE  /\ scope \in Streams /\ backlog = {}
                      /\ outbox[1] # 0 => outbox[1] \in aired[scope] /\ lastId <= outbox[1]
                      /\ \A i \in 1..Len(outbox') : outbox'[i] # 0 =>
                            /\ outbox'[i] \in aired[scope] /\ lastId <= outbox'[i] /\ outbox[1] < outbox'[i]
                            /\ \A j \in 1..(i - 1) : outbox'[j] < outbox'[i]
    OBVIOUS
  <2>1. \A i \in 1..Len(outbox) : outbox[i] # 0 =>
            /\ outbox[i] \in aired[scope] /\ lastId <= outbox[i]
            /\ \A j \in 1..(i - 1) : outbox[j] < outbox[i]
    BY DEF StreamInv, ClientInTurn
  <2>2. scope \in Streams /\ backlog = {}
    BY <1>1, <1>4 DEF StreamInv, ClientInTurn, StreamTypes, Channels
  <2>3. ASSUME NEW i \in 1..Len(outbox'), outbox'[i] # 0
        PROVE  /\ outbox'[i] \in aired[scope] /\ lastId <= outbox'[i] /\ outbox[1] < outbox'[i]
               /\ \A j \in 1..(i - 1) : outbox'[j] < outbox'[i]
    <3>1. i + 1 \in 1..Len(outbox) /\ outbox'[i] = outbox[i + 1] /\ 1 \in 1..((i + 1) - 1)
      BY <1>5
    <3>2. ASSUME NEW j \in 1..(i - 1) PROVE j + 1 \in 1..((i + 1) - 1) /\ outbox'[j] = outbox[j + 1]
      <4>1. j \in 1..Len(outbox') /\ j + 1 \in 1..((i + 1) - 1)
        BY <1>5
      <4> QED
        BY <1>5, <4>1
    <3> QED
      BY <2>1, <2>3, <3>1, <3>2
  <2> QED
    BY <1>5, <2>1, <2>2, <2>3
<1>10. scope # Fleet => /\ lastId' >= lastId /\ (lastId' # 0 => Mine(lastId'))
                        /\ lastId' = lastId \/ lastId' = outbox[1]
  <2>1. scope # Fleet => \A n \in aired[scope] : Mine(n)
    BY <1>9 DEF StreamInv, AiredOrMissed, Mine
  <2>2. scope # Fleet => (lastId # 0 => Mine(lastId))
    BY DEF StreamInv, ClientInTurn
  <2> QED
    BY <1>1, <1>5, <1>8, <1>9, <2>1, <2>2
<1>11. ClientInTurn'
  <2> SUFFICES ASSUME scope # Fleet PROVE ClientInTurn'
    BY <1>3 DEF ClientInTurn
  <2>1. \A i \in 1..Len(outbox') : outbox'[i] # 0 =>
            /\ outbox'[i] \in aired[scope] /\ lastId' <= outbox'[i]
            /\ \A j \in 1..(i - 1) : outbox'[j] < outbox'[i]
    <3> SUFFICES ASSUME NEW i \in 1..Len(outbox'), outbox'[i] # 0
                 PROVE  /\ outbox'[i] \in aired[scope] /\ lastId' <= outbox'[i]
                        /\ \A j \in 1..(i - 1) : outbox'[j] < outbox'[i]
      OBVIOUS
    <3>1. outbox'[i] \in Nat
      BY <1>5
    <3> QED
      BY <1>5, <1>9, <1>10, <3>1
  <2> QED
    BY <1>1, <1>2, <1>3, <1>9, <1>10, <2>1 DEF ClientInTurn
<1>12. LiveCovers'
  <2> SUFFICES ASSUME scope # Fleet, NEW id \in stored, Mine(id)
               PROVE  \/ id \in seen' \cup missed
                      \/ Unaired(scope) /\ id = event[scope]
                      \/ \E i \in 1..Len(outbox') : outbox'[i] = id
    BY <1>1, <1>2, <1>3, <1>9 DEF LiveCovers
  <2>1. \/ id \in seen \cup missed
        \/ Unaired(scope) /\ id = event[scope]
        \/ \E i \in 1..Len(outbox) : outbox[i] = id
    BY <1>1 DEF StreamInv, LiveCovers
  <2>2. id # 0
    BY <1>4 DEF StreamTypes, GivenIds
  <2>3. ASSUME NEW i \in 1..Len(outbox), outbox[i] = id
        PROVE  id \in seen' \/ \E k \in 1..Len(outbox') : outbox'[k] = id
    <3>1. CASE i = 1
      BY <1>1, <1>5, <2>2, <2>3, <3>1
    <3>2. CASE i # 1
      <4>1. i - 1 \in 1..Len(outbox') /\ (i - 1) + 1 = i
        BY <1>5, <3>2
      <4>2. outbox'[i - 1] = outbox[i]
        BY <1>5, <4>1
      <4> QED
        BY <2>3, <4>1, <4>2
    <3> QED
      BY <3>1, <3>2
  <2> QED
    BY <1>1, <2>1, <2>3
<1>13. ResumeSkipsNothing'
  <2> SUFFICES ASSUME scope # Fleet, NEW id \in stored, Mine(id), id <= lastId'
               PROVE  id \in seen' \cup missed
    BY <1>1, <1>3 DEF ResumeSkipsNothing, InScope, Mine
  <2>1. CASE id <= lastId
    BY <1>1, <2>1 DEF StreamInv, ResumeSkipsNothing, InScope, Mine
  <2>2. CASE ~(id <= lastId)
    <3>1. lastId' = outbox[1] /\ outbox[1] # 0 /\ seen' = seen \cup {outbox[1]} /\ id \in Nat
      BY <1>1, <1>5, <1>8, <2>2
    <3>2. outbox[1] \in aired[scope] /\ scope \in Streams
      BY <1>9, <3>1
    <3>3. ~(Unaired(scope) /\ id = event[scope])
      <4>1. Unaired(scope) => event[scope] \notin aired[scope]
        BY <3>2 DEF StreamInv, EventsInTurn
      <4>2. outbox[1] \in stored /\ accountOf[outbox[1]] = scope
        BY <3>2 DEF StreamInv, AiredOrMissed
      <4>3. outbox[1] <= event[scope] /\ event[scope] \in Nat
        BY <1>4, <3>2, <4>2 DEF StreamInv, EventsInTurn, StreamTypes
      <4> QED
        BY <1>5, <3>1, <3>2, <4>1, <4>3
    <3>4. \A i \in 1..Len(outbox') : outbox'[i] # id
      <4> SUFFICES ASSUME NEW i \in 1..Len(outbox'), outbox'[i] = id PROVE FALSE
        OBVIOUS
      <4>1. id # 0
        BY <1>4 DEF StreamTypes, GivenIds
      <4>2. outbox[1] < id
        BY <1>9, <4>1
      <4>3. id <= outbox[1]
        BY <3>1
      <4> QED
        BY <1>5, <3>1, <4>2, <4>3
    <3>5. LiveCovers' /\ id \in stored' /\ Mine(id)' /\ scope' # Fleet /\ link' = "live" /\ ~full'
      BY <1>1, <1>2, <1>3, <1>12
    <3> QED
      BY <1>1, <1>2, <1>3, <3>2, <3>3, <3>4, <3>5 DEF LiveCovers
  <2> QED
    BY <2>1, <2>2
<1> QED
  BY <1>2, <1>7, <1>10, <1>11, <1>12, <1>13 DEF StreamInv

\* Only the last id sent outlives a connection.
LEMMA ClosesKeeps ==
    ASSUME StreamInv, Closes PROVE StreamInv'
<1>1. /\ UNCHANGED writers /\ UNCHANGED scope /\ missed' = missed
      /\ link' = "closed" /\ backlog' = {} /\ outbox' = <<>>
      /\ UNCHANGED <<lastId, seen>>
  BY DEF Closes
<1>2. EventsInTurn' /\ AiredOrMissed' /\ GivenIds' = GivenIds /\ \A id : Mine(id)' <=> Mine(id)
  BY <1>1, WritersStand
<1>3. UNCHANGED <<writer, event, accountOf, stored, aired, scope>>
  BY <1>1 DEF writers
<1>4. StreamTypes'
  BY <1>1, <1>2, <1>3, StreamBoundAssumption DEF StreamInv, StreamTypes
<1>5. ClientInTurn'
  BY <1>1, <1>2, <1>3 DEF StreamInv, ClientInTurn
<1>6. LiveCovers' /\ ResumeSkipsNothing'
  BY <1>1, <1>3 DEF StreamInv, LiveCovers, ResumeSkipsNothing, InScope
<1> QED
  BY <1>2, <1>4, <1>5, <1>6 DEF StreamInv

\* Every step.
LEMMA StreamStep ==
    StreamInv /\ [OrderStreamNext]_orderStreamVars
      => StreamInv' /\ (scope # Fleet => lastId' >= lastId)
<1> SUFFICES ASSUME StreamInv, [OrderStreamNext]_orderStreamVars
             PROVE  StreamInv' /\ (scope # Fleet => lastId' >= lastId)
  OBVIOUS
<1>0. lastId' = lastId => lastId' >= lastId
  BY DEF StreamInv, StreamTypes, GivenIds
<1>1. ASSUME NEW a \in Streams, InsertEvent(a) PROVE StreamInv' /\ lastId' = lastId
  BY <1>1, InsertEventKeeps DEF InsertEvent, client
<1>2. ASSUME NEW a \in Streams, CommitEvent(a) PROVE StreamInv' /\ lastId' = lastId
  BY <1>2, CommitEventKeeps DEF CommitEvent, client
<1>3. ASSUME NEW a \in Streams, PublishFleet(a) PROVE StreamInv' /\ lastId' = lastId
  BY <1>3, PublishFleetKeeps DEF PublishFleet, Publish
<1>4. ASSUME NEW a \in Streams, PublishAccount(a) PROVE StreamInv' /\ lastId' = lastId
  BY <1>4, PublishAccountKeeps DEF PublishAccount, Publish
<1>5. ASSUME NEW a \in Streams, WriterFails(a) PROVE StreamInv' /\ lastId' = lastId
  BY <1>5, WriterFailsKeeps DEF WriterFails, client
<1>6. ASSUME Connect PROVE StreamInv' /\ lastId' = lastId
  BY <1>6, ConnectKeeps DEF Connect
<1>7. ASSUME Subscribe PROVE StreamInv' /\ lastId' = lastId
  BY <1>7, SubscribeKeeps DEF Subscribe
<1>8. ASSUME Heartbeat PROVE StreamInv' /\ lastId' = lastId
  BY <1>8, HeartbeatKeeps DEF Heartbeat
<1>9. ASSUME Closes PROVE StreamInv' /\ lastId' = lastId
  BY <1>9, ClosesKeeps DEF Closes
<1>10. ASSUME UNCHANGED orderStreamVars PROVE StreamInv' /\ lastId' = lastId
  BY <1>10 DEF orderStreamVars, writers, client, StreamInv, StreamTypes, EventsInTurn, AiredOrMissed,
               ClientInTurn, LiveCovers, ResumeSkipsNothing, InScope, Mine, Unaired, GivenIds
<1> QED
  BY <1>0, <1>1, <1>2, <1>3, <1>4, <1>5, <1>6, <1>7, <1>8, <1>9, <1>10, SendReplayedKeeps, SendQueuedKeeps
     DEF OrderStreamNext, DropSlowClient, ClientLeaves

\* What the invariant says of the stream.
LEMMA StreamHeld == StreamInv => OrderStreamHolds
<1> SUFFICES ASSUME StreamInv PROVE OrderStreamHolds
  OBVIOUS
<1>1. StreamTypes
  BY DEF StreamInv
<1>2. {id \in {lastId} : id > 0} \subseteq GivenIds
  BY <1>1 DEF StreamTypes
<1>3. stored \cup seen \cup missed \cup {id \in {lastId} : id > 0} \subseteq 1..Len(accountOf)
  BY <1>1, <1>2 DEF StreamTypes, GivenIds
<1>4. OrderStreamTypeOK
  BY <1>1, <1>3 DEF StreamTypes, OrderStreamTypeOK
<1> QED
  BY <1>4 DEF StreamInv, OrderStreamHolds

\* order_events_generator (orders_sse.py): a client of one account that resumes
\* from its last id lacks nothing before it but what no channel brought it, for
\* any number of events, accounts, failures and connections, and any queue.
THEOREM ResumesWhole == OrderStreamSpec => []OrderStreamHolds
<1>1. StreamInv => OrderStreamHolds
  BY StreamHeld
<1>2. StreamInv /\ [OrderStreamNext]_orderStreamVars => StreamInv'
  BY StreamStep
<1> QED
  BY <1>1, <1>2, StreamInitially, PTL DEF OrderStreamSpec

\* order_events_generator: the ids sent to a client of one account never go back.
THEOREM SentInOrder == OrderStreamSpec => NeverGoesBack
<1>1. StreamInv /\ [OrderStreamNext]_orderStreamVars
        => StreamInv' /\ [scope # Fleet => lastId' >= lastId]_orderStreamVars
  BY StreamStep
<1> QED
  BY <1>1, StreamInitially, PTL DEF OrderStreamSpec, NeverGoesBack

-----------------------------------------------------------------------------
(* The crypto book: levels that are there are the exchange's.              *)

Books == [Prices -> Quantities \cup {0}]
LevelUpdates == [price : Prices, qty : Quantities \cup {0}, seq : Nat]
Messages == [type : {"snapshot"}, levels : Books, seq : Nat] \cup [type : {"update"}, updates : Seq(LevelUpdates)]

\* What u says of the exchange's bids x, and what m does.
Truly(x, u) ==
    u.seq \in 2..Len(x) /\ x[u.seq] = [x[u.seq - 1] EXCEPT ![u.price] = u.qty]
SaysTrue(x, m) ==
    /\ m.type = "snapshot" => m.seq \in 1..Len(x) /\ m.levels = x[m.seq]
    /\ m.type = "update" => m.updates # <<>> /\ \A k \in DOMAIN m.updates : Truly(x, m.updates[k])

BookTypes ==
    /\ BookTypeOK
    /\ exchange \in Seq(Books) /\ exchange # <<>> /\ messages \in Seq(Messages)

\* A book that stands on a snapshot has a number, and its levels are true.
StandsOnNumber ==
    basis # "none" =>
        lastSeq \in 1..Len(exchange) /\ \A p \in Prices : book[p] # 0 => book[p] = exchange[lastSeq][p]

BookInv ==
    /\ BookTypes /\ (\A j \in DOMAIN messages : SaysTrue(exchange, messages[j]))
    /\ StandsOnNumber /\ (basis = "whole" => book = exchange[lastSeq]) /\ SnapshotComes

\* A set of natural numbers has a least one.
LEMMA LeastNumber ==
    ASSUME NEW T, T \subseteq Nat, T # {}
    PROVE  \E x \in T : \A y \in T : x <= y
<1>1. PICK x \in T : \A y \in T : <<y, x>> \notin OpToRel(<, Nat)
  BY NatLessThanWellFounded, WFMin
<1>2. \A y \in T : ~(y < x)
  BY <1>1 DEF OpToRel
<1> QED
  BY <1>2

\* DispatchUpdate, its local definitions put in.
NoGap(m, k) == \A j \in 1..k : ~Gap(IF j = 1 THEN lastSeq ELSE m.updates[j - 1].seq, m.updates[j])
Before(m) == Max({k \in 0..Len(m.updates) : NoGap(m, k)})
NextBook(m, f, k) == IF k = 0 THEN book ELSE Applied(f[k - 1], m.updates[k])
BooksOf(m) == CHOOSE f : f = [k \in 0..Before(m) |-> NextBook(m, f, k)]

\* The recursive function of DispatchUpdate.
LEMMA DispatchUpdateIs ==
    ASSUME NEW m, DispatchUpdate(m)
    PROVE  IF Before(m) < Len(m.updates)
             THEN /\ book' = NoLevels /\ lastSeq' = 0 /\ basis' = "none"
                  /\ renewals' = IF connection = "up" THEN renewals + 1 ELSE renewals
             ELSE /\ book' = BooksOf(m)[Before(m)] /\ lastSeq' = m.updates[Before(m)].seq
                  /\ basis' = IF basis = "whole"
                                 /\ \E k \in 1..Before(m) : BooksOf(m)[k] # [BooksOf(m)[k - 1] EXCEPT ![m.updates[k].price] = m.updates[k].qty]
                              THEN "top" ELSE basis
                  /\ UNCHANGED renewals
BY Zenon DEF DispatchUpdate, NoGap, Before, BooksOf, NextBook

\* It is there: the equation does define a function, one update at a time.
LEMMA BooksOfAre ==
    ASSUME NEW m, Before(m) \in Nat
    PROVE  BooksOf(m) = [k \in 0..Before(m) |-> NextBook(m, BooksOf(m), k)]
<1> DEFINE Is(f, n) == f = [k \in 0..n |-> NextBook(m, f, k)]
           T == {n \in Nat : ~(\E f : Is(f, n))}
<1>1. T = {}
  <2> SUFFICES ASSUME T # {} PROVE FALSE
    OBVIOUS
  <2>1. PICK n \in T : \A y \in T : n <= y
    <3>1. T \subseteq Nat
      OBVIOUS
    <3> HIDE DEF T
    <3> QED
      BY <3>1, LeastNumber
  <2>2. n \in Nat /\ ~(\E f : Is(f, n))
    BY <2>1
  <2>3. CASE n = 0
    <3>1. Is([k \in 0..0 |-> book], 0)
      BY DEF NextBook
    <3> QED
      BY <2>2, <2>3, <3>1
  <2>4. CASE n # 0
    <3>1. n - 1 \in Nat /\ n - 1 \notin T
      BY <2>1, <2>2, <2>4
    <3>2. PICK f : Is(f, n - 1)
      BY <3>1
    <3> DEFINE g == [k \in 0..n |-> IF k = n THEN Applied(f[n - 1], m.updates[n]) ELSE f[k]]
    <3>3. \A k \in 0..(n - 1) : g[k] = f[k] /\ f[k] = NextBook(m, f, k)
      <4> SUFFICES ASSUME NEW k \in 0..(n - 1) PROVE g[k] = f[k] /\ f[k] = NextBook(m, f, k)
        OBVIOUS
      <4>1. f[k] = NextBook(m, f, k)
        BY <2>2, <3>2
      <4>2. k \in 0..n /\ k # n
        BY <2>2
      <4> QED
        BY <4>1, <4>2
    <3>4. \A k \in 0..n : g[k] = NextBook(m, g, k)
      <4> SUFFICES ASSUME NEW k \in 0..n PROVE g[k] = NextBook(m, g, k)
        OBVIOUS
      <4>1. CASE k = n
        <5>1. g[n - 1] = f[n - 1]
          BY <2>2, <2>4, <3>3
        <5>2. g[n] = Applied(f[n - 1], m.updates[n])
          BY <2>2
        <5> QED
          BY <2>4, <4>1, <5>1, <5>2 DEF NextBook
      <4>2. CASE k # n /\ k # 0
        <5>1. k \in 0..(n - 1) /\ k - 1 \in 0..(n - 1)
          BY <2>2, <4>2
        <5>2. g[k] = f[k] /\ f[k] = NextBook(m, f, k) /\ g[k - 1] = f[k - 1]
          BY <3>3, <5>1
        <5> HIDE DEF g
        <5> QED
          BY <4>2, <5>2 DEF NextBook
      <4>3. CASE k # n /\ k = 0
        <5>1. k \in 0..(n - 1)
          BY <2>2, <4>3
        <5>2. g[k] = f[k] /\ f[k] = NextBook(m, f, k)
          BY <3>3, <5>1
        <5> HIDE DEF g
        <5> QED
          BY <4>3, <5>2 DEF NextBook
      <4> QED
        BY <4>1, <4>2, <4>3
    <3>5. g = [k \in 0..n |-> g[k]]
      OBVIOUS
    <3>6. Is(g, n)
      <4> HIDE DEF g
      <4> QED
        BY <3>4, <3>5
    <3> QED
      BY <2>2, <3>6
  <2> QED
    BY <2>3, <2>4
<1>2. \E f : Is(f, Before(m))
  BY <1>1
<1> QED
  BY <1>2 DEF BooksOf

\* How many updates of a message are taken: all that come before a gap.
LEMMA BeforeIs ==
    ASSUME NEW m, Len(m.updates) \in Nat
    PROVE  /\ Before(m) \in 0..Len(m.updates) /\ NoGap(m, Before(m))
<1> DEFINE S == {k \in 0..Len(m.updates) : NoGap(m, k)}
           T == {Len(m.updates) - k : k \in S}
<1>1. NoGap(m, 0)
  BY DEF NoGap
<1>2. 0 \in S /\ S \subseteq 0..Len(m.updates)
  BY <1>1
<1>3. T \subseteq Nat /\ T # {}
  <2> HIDE DEF S
  <2> QED
    BY <1>2
<1>4. PICK x \in T : \A y \in T : x <= y
  <2> HIDE DEF T
  <2> QED
    BY <1>3, LeastNumber
<1>5. \E k \in S : \A l \in S : k >= l
  <2> HIDE DEF S
  <2>1. PICK k \in S : x = Len(m.updates) - k
    BY <1>4
  <2>2. \A l \in S : Len(m.updates) - l \in T
    OBVIOUS
  <2>3. \A l \in S : x <= Len(m.updates) - l
    BY <1>4, <2>2
  <2>4. \A l \in S : k >= l
    BY <1>2, <2>1, <2>3
  <2> QED
    BY <2>4
<1>6. Before(m) \in S
  <2> HIDE DEF S
  <2>1. Max(S) \in S
    BY <1>5 DEF Max
  <2> QED
    BY <2>1 DEF Before, S
<1> QED
  BY <1>6

\* One update in the book: some level may be evicted.
LEMMA AppliedIs ==
    ASSUME NEW b \in Books, NEW u \in LevelUpdates
    PROVE  /\ Applied(b, u) \in Books /\ [b EXCEPT ![u.price] = u.qty] \in Books
           /\ \A p \in Prices : Applied(b, u)[p] # 0 => Applied(b, u)[p] = [b EXCEPT ![u.price] = u.qty][p]
<1> DEFINE set == [b EXCEPT ![u.price] = u.qty]
<1>1. set \in Books
  BY DEF Books, LevelUpdates
<1>2. Applied(b, u) = set \/ Applied(b, u) = [set EXCEPT ![Min(Levels(set))] = 0]
  BY Zenon DEF Applied
<1>3. \A x : [set EXCEPT ![x] = 0] \in Books /\ \A p \in Prices : [set EXCEPT ![x] = 0][p] \in {0, set[p]}
  BY <1>1 DEF Books
<1> QED
  BY <1>1, <1>2, <1>3

LEMMA BookInitially == BookInit => BookInv
<1> SUFFICES ASSUME BookInit PROVE BookInv
  OBVIOUS
<1>1. PICK b \in [Prices -> Quantities \cup {0}] : exchange = <<b>>
  BY DEF BookInit
<1>2. BookTypes
  <2>1. exchange \in Seq(Books) /\ exchange # <<>> /\ Len(exchange) = 1
    BY <1>1 DEF Books
  <2>2. messages \in Seq(Messages) /\ book \in Books /\ lastSeq \in 0..Len(exchange)
    BY <2>1 DEF BookInit, Books, NoLevels
  <2> QED
    BY <2>1, <2>2 DEF BookInit, BookTypes, BookTypeOK, Books
<1> QED
  BY <1>2 DEF BookInit, BookInv, StandsOnNumber, SnapshotComes

\* What was said of the exchange stays true when it goes on.
LEMMA TruthStays ==
    ASSUME BookTypes, NEW b \in Books, exchange' = Append(exchange, b)
    PROVE  /\ exchange' \in Seq(Books) /\ Len(exchange') = Len(exchange) + 1 /\ Len(exchange) \in Nat \ {0}
           /\ exchange'[Len(exchange) + 1] = b
           /\ \A k \in 1..Len(exchange) : exchange'[k] = exchange[k]
           /\ \A m \in Messages : SaysTrue(exchange, m) => SaysTrue(exchange', m)
<1>1. /\ exchange' \in Seq(Books) /\ Len(exchange') = Len(exchange) + 1 /\ Len(exchange) \in Nat \ {0}
      /\ exchange'[Len(exchange) + 1] = b
      /\ \A k \in 1..Len(exchange) : exchange'[k] = exchange[k]
  BY DEF BookTypes
<1>2. \A u \in LevelUpdates : Truly(exchange, u) => Truly(exchange', u)
  <2> SUFFICES ASSUME NEW u \in LevelUpdates, Truly(exchange, u) PROVE Truly(exchange', u)
    OBVIOUS
  <2>1. u.seq \in 2..Len(exchange) /\ exchange[u.seq] = [exchange[u.seq - 1] EXCEPT ![u.price] = u.qty]
    BY DEF Truly
  <2>2. u.seq \in 1..Len(exchange) /\ u.seq - 1 \in 1..Len(exchange)
    BY <1>1, <2>1
  <2> QED
    BY <1>1, <2>1, <2>2 DEF Truly
<1>3. ASSUME NEW m \in Messages, SaysTrue(exchange, m) PROVE SaysTrue(exchange', m)
  <2>1. CASE m.type = "snapshot"
    BY <1>1, <1>3, <2>1 DEF SaysTrue
  <2>2. CASE m.type = "update"
    <3>1. m.updates \in Seq(LevelUpdates)
      BY <2>2 DEF Messages
    <3>2. \A k \in DOMAIN m.updates : m.updates[k] \in LevelUpdates
      BY <3>1
    <3> QED
      BY <1>2, <1>3, <2>2, <3>2 DEF SaysTrue
  <2> QED
    BY <2>1, <2>2 DEF SaysTrue
<1> QED
  BY <1>1, <1>3

\* The exchange takes an order, and tells of it or not.
LEMMA BookExchange ==
    ASSUME BookInv, NEW p \in Prices, NEW q \in Quantities \cup {0}, NEW lost, NEW joins,
           ExchangeUpdates(p, q, lost, joins)
    PROVE  BookInv'
<1> DEFINE b == [Newest EXCEPT ![p] = q]
           n == Len(messages)
           u == [price |-> p, qty |-> q, seq |-> Len(exchange) + 1]
           one == [type |-> "update", updates |-> <<u>>]
<1>t. BookTypes /\ messages \in Seq(Messages) /\ n \in Nat /\ DOMAIN messages = 1..n
      /\ \A k \in DOMAIN messages : messages[k] \in Messages /\ SaysTrue(exchange, messages[k])
  BY DEF BookInv, BookTypes
<1>1. /\ exchange' = Append(exchange, b)
      /\ UNCHANGED <<feed, renewals, connection, book, lastSeq, basis>>
      /\ \/ messages' = messages
         \/ /\ n > 0 /\ messages[n].type = "update"
            /\ messages' = [messages EXCEPT ![n].updates = Append(@, u)]
         \/ messages' = Append(messages, one)
  BY DEF ExchangeUpdates
<1>2. Newest \in Books /\ b \in Books /\ Newest = exchange[Len(exchange)]
  BY DEF BookInv, BookTypes, Newest, Books
<1>3. /\ exchange' \in Seq(Books) /\ Len(exchange') = Len(exchange) + 1 /\ Len(exchange) \in Nat \ {0}
      /\ exchange'[Len(exchange) + 1] = b
      /\ \A k \in 1..Len(exchange) : exchange'[k] = exchange[k]
      /\ \A m \in Messages : SaysTrue(exchange, m) => SaysTrue(exchange', m)
  BY <1>1, <1>2, <1>t, TruthStays
<1>4. u \in LevelUpdates /\ Truly(exchange', u) /\ u.seq = Len(exchange) + 1
  <2>1. u \in LevelUpdates /\ u.seq = Len(exchange) + 1 /\ u.price = p /\ u.qty = q
    BY <1>3 DEF LevelUpdates
  <2>2. exchange'[Len(exchange)] = Newest /\ (Len(exchange) + 1) - 1 = Len(exchange)
    BY <1>2, <1>3
  <2> QED
    BY <1>3, <2>1, <2>2 DEF Truly
<1> HIDE DEF b, u
<1>5. /\ messages' \in Seq(Messages) /\ (\A k \in DOMAIN messages' : SaysTrue(exchange', messages'[k]))
      /\ \A k \in DOMAIN messages : k \in DOMAIN messages' /\ messages'[k].type = messages[k].type
  <2>1. CASE messages' = messages
    BY <1>3, <1>t, <2>1
  <2>2. CASE messages' = Append(messages, one)
    <3>1. one \in Messages /\ one.type = "update" /\ one.updates = <<u>>
      BY <1>4 DEF Messages
    <3>2. SaysTrue(exchange', one)
      BY <1>4, <3>1 DEF SaysTrue
    <3> HIDE DEF one
    <3>3. /\ messages' \in Seq(Messages) /\ DOMAIN messages' = 1..(n + 1) /\ messages'[n + 1] = one
          /\ \A k \in 1..n : messages'[k] = messages[k]
      BY <1>t, <2>2, <3>1
    <3> QED
      BY <1>3, <1>t, <3>2, <3>3
  <2>3. CASE n > 0 /\ messages[n].type = "update" /\ messages' = [messages EXCEPT ![n].updates = Append(@, u)]
    <3> DEFINE before == messages[n]
               m == [before EXCEPT !.updates = Append(@, u)]
    <3>1. n \in DOMAIN messages /\ before \in Messages /\ before.type = "update" /\ SaysTrue(exchange, before)
      BY <1>t, <2>3
    <3>2. before \in [type : {"update"}, updates : Seq(LevelUpdates)] /\ before.updates \in Seq(LevelUpdates)
      BY <3>1 DEF Messages
    <3>3. /\ m \in [type : {"update"}, updates : Seq(LevelUpdates)] /\ m \in Messages
          /\ m.type = "update" /\ m.updates = Append(before.updates, u)
      <4>1. Append(before.updates, u) \in Seq(LevelUpdates)
        BY <1>4, <3>2
      <4> HIDE DEF before
      <4>2. m \in [type : {"update"}, updates : Seq(LevelUpdates)]
        BY <3>2, <4>1
      <4>3. m.updates = Append(before.updates, u)
        BY <3>2
      <4> QED
        BY <4>2, <4>3 DEF Messages
    <3>4. SaysTrue(exchange', m)
      <4>1. SaysTrue(exchange', before)
        BY <1>3, <3>1
      <4>2. \A k \in DOMAIN before.updates : Truly(exchange', before.updates[k])
        BY <3>1, <4>1 DEF SaysTrue
      <4>3. m.updates # <<>> /\ \A k \in DOMAIN m.updates : Truly(exchange', m.updates[k])
        <5> HIDE DEF m, before
        <5>1. /\ m.updates # <<>> /\ DOMAIN m.updates = 1..(Len(before.updates) + 1) /\ Len(before.updates) \in Nat
              /\ m.updates[Len(before.updates) + 1] = u /\ DOMAIN before.updates = 1..Len(before.updates)
              /\ \A k \in DOMAIN before.updates : m.updates[k] = before.updates[k]
          BY <1>4, <3>2, <3>3
        <5>2. ASSUME NEW k \in DOMAIN m.updates PROVE m.updates[k] = u \/ k \in DOMAIN before.updates
          BY <5>1
        <5> QED
          BY <1>4, <4>2, <5>1, <5>2
      <4> QED
        BY <3>3, <4>3 DEF SaysTrue
    <3>5. messages' = [messages EXCEPT ![n] = m]
      BY <2>3
    <3> HIDE DEF m, before
    <3>6. /\ messages' \in Seq(Messages) /\ DOMAIN messages' = 1..n /\ messages'[n] = m
          /\ \A k \in 1..n : k # n => messages'[k] = messages[k]
      <4>1. m \in Messages
        BY <3>3
      <4>2. messages \in [1..n -> Messages] /\ n \in 1..n
        BY <1>t, <3>1
      <4> HIDE DEF n
      <4>3. /\ messages' \in [1..n -> Messages] /\ messages'[n] = m
            /\ \A k \in 1..n : k # n => messages'[k] = messages[k]
        BY <3>5, <4>1, <4>2
      <4>4. messages' \in Seq(Messages)
        BY <1>t, <4>3
      <4> QED
        BY <4>3, <4>4
    <3> QED
      BY <1>3, <1>t, <2>3, <3>3, <3>4, <3>6
  <2> QED
    BY <1>1, <2>1, <2>2, <2>3
<1>6. lastSeq \in 0..Len(exchange) /\ (basis # "none" => lastSeq \in 1..Len(exchange))
  BY <1>t DEF BookInv, BookTypes, BookTypeOK, StandsOnNumber
<1>7. BookTypes'
  BY <1>1, <1>3, <1>5, <1>6, <1>t DEF BookTypes, BookTypeOK
<1>8. StandsOnNumber' /\ (basis' = "whole" => book' = exchange'[lastSeq'])
  <2>1. CASE basis = "none"
    BY <1>1, <2>1 DEF StandsOnNumber
  <2>2. CASE basis # "none"
    <3>1. lastSeq \in 1..Len(exchange') /\ exchange'[lastSeq] = exchange[lastSeq]
      BY <1>3, <1>6, <2>2
    <3> QED
      BY <1>1, <2>2, <3>1 DEF BookInv, StandsOnNumber
  <2> QED
    BY <2>1, <2>2
<1>9. SnapshotComes'
  <2> SUFFICES ASSUME connection = "up", basis = "none", lastSeq = 0, ~(renewals > 0)
               PROVE  \/ \E k \in DOMAIN messages' : messages'[k].type = "snapshot"
                      \/ \E k \in DOMAIN exchange' : exchange'[k] = NoLevels
    BY <1>1 DEF SnapshotComes
  <2>1. CASE \E k \in DOMAIN messages : messages[k].type = "snapshot"
    BY <1>5, <2>1
  <2>2. CASE \E k \in DOMAIN exchange : exchange[k] = NoLevels
    <3>1. DOMAIN exchange = 1..Len(exchange) /\ DOMAIN exchange' = 1..(Len(exchange) + 1)
      BY <1>3, <1>t DEF BookTypes
    <3> QED
      BY <1>3, <2>2, <3>1
  <2> QED
    BY <2>1, <2>2 DEF BookInv, SnapshotComes
<1> QED
  BY <1>5, <1>7, <1>8, <1>9 DEF BookInv

\* The exchange answers a subscription; the connection breaks, ends, begins.
LEMMA BookConnection ==
    ASSUME BookInv, ExchangeAnswers \/ ConnectionBreaks \/ OpenFeed \/ ConnectionLost
    PROVE  BookInv'
<1>t. BookTypes /\ messages \in Seq(Messages) /\ renewals \in Nat
      /\ \A k \in DOMAIN messages : messages[k] \in Messages /\ SaysTrue(exchange, messages[k])
  BY DEF BookInv, BookTypes, BookTypeOK
<1>1. UNCHANGED <<exchange, book, lastSeq, basis>>
  BY DEF ExchangeAnswers, ConnectionBreaks, OpenFeed, ConnectionLost
<1>2. StandsOnNumber' /\ (basis' = "whole" => book' = exchange'[lastSeq'])
  BY <1>1 DEF BookInv, StandsOnNumber
<1>3. \A m : SaysTrue(exchange, m) => SaysTrue(exchange', m)
  BY <1>1 DEF SaysTrue, Truly
<1>4. CASE ExchangeAnswers
  <2> DEFINE m == [type |-> "snapshot", levels |-> Newest, seq |-> Len(exchange)]
  <2>1. /\ renewals' = renewals - 1 /\ renewals > 0 /\ feed' = TRUE /\ connection' = connection
        /\ messages' = Append(messages, m)
    BY <1>4 DEF ExchangeAnswers
  <2>2. m \in Messages /\ SaysTrue(exchange', m) /\ m.type = "snapshot"
    <3>1. Newest \in Books /\ Len(exchange) \in Nat \ {0} /\ Newest = exchange[Len(exchange)]
      BY <1>t DEF BookTypes, Newest
    <3> QED
      BY <1>1, <3>1 DEF Messages, SaysTrue
  <2> HIDE DEF m
  <2>3. messages' \in Seq(Messages) /\ (\A k \in DOMAIN messages' : SaysTrue(exchange', messages'[k]))
        /\ \E k \in DOMAIN messages' : messages'[k].type = "snapshot"
    <3>1. /\ messages' \in Seq(Messages) /\ DOMAIN messages' = 1..(Len(messages) + 1)
          /\ messages'[Len(messages) + 1] = m /\ Len(messages) \in Nat
          /\ \A k \in 1..Len(messages) : messages'[k] = messages[k] /\ k \in DOMAIN messages
      BY <1>t, <2>1, <2>2
    <3> QED
      BY <1>3, <1>t, <2>2, <3>1
  <2>4. BookTypes'
    BY <1>1, <1>t, <2>1, <2>3 DEF BookTypes, BookTypeOK
  <2>5. SnapshotComes'
    BY <2>3 DEF SnapshotComes
  <2> QED
    BY <1>2, <2>3, <2>4, <2>5 DEF BookInv
<1>5. CASE ConnectionBreaks \/ OpenFeed
  <2>1. /\ messages' = messages /\ feed' \in {feed, FALSE}
        /\ \/ connection' = "broken" /\ renewals' = 0
           \/ connection' = "up" /\ renewals' = 1
    BY <1>5 DEF ConnectionBreaks, OpenFeed
  <2>f. feed' \in BOOLEAN
    BY Zenon, <1>t, <2>1 DEF BookTypes, BookTypeOK
  <2>2. BookTypes'
    BY <1>1, <1>t, <2>1, <2>f DEF BookTypes, BookTypeOK
  <2>3. SnapshotComes'
    BY <2>1 DEF SnapshotComes
  <2> QED
    BY <1>2, <1>3, <1>t, <2>1, <2>2, <2>3 DEF BookInv
<1>6. CASE ConnectionLost
  <2>1. messages' = <<>> /\ UNCHANGED <<feed, renewals>> /\ connection' = "down"
    BY <1>6 DEF ConnectionLost
  <2>2. BookTypes'
    BY <1>1, <1>t, <2>1 DEF BookTypes, BookTypeOK
  <2>3. SnapshotComes'
    BY <2>1 DEF SnapshotComes
  <2> QED
    BY <1>2, <2>1, <2>2, <2>3 DEF BookInv
<1> QED
  BY <1>4, <1>5, <1>6

\* A snapshot is read: the book is the best of it.
LEMMA BookSnapshot ==
    ASSUME BookInv, messages # <<>>, messages' = Tail(messages), Head(messages).type = "snapshot",
           DispatchSnapshot(Head(messages)), UNCHANGED <<exchange, feed, connection>>
    PROVE  BookInv'
<1> DEFINE m == Head(messages)
<1>t. /\ BookTypes /\ renewals \in Nat /\ m \in Messages /\ SaysTrue(exchange, m) /\ messages' \in Seq(Messages)
      /\ \A k \in DOMAIN messages' : messages'[k] \in Messages /\ SaysTrue(exchange, messages'[k])
  BY DEF BookInv, BookTypes, BookTypeOK
<1>1. m.seq \in 1..Len(exchange) /\ m.levels = exchange[m.seq] /\ m.levels \in Books
  BY <1>t DEF SaysTrue, BookTypes
<1>2. Best(m.levels) \in Books /\ \A p \in Prices : Best(m.levels)[p] # 0 => Best(m.levels)[p] = m.levels[p]
  <2> HIDE DEF m
  <2> QED
    BY <1>1 DEF Best, Books
<1>3. /\ book' = Best(m.levels) /\ renewals' = renewals
      /\ \/ Levels(m.levels) = {} /\ lastSeq' = 0 /\ basis' = "none"
         \/ lastSeq' = m.seq /\ basis' = "whole" /\ book' = m.levels
         \/ lastSeq' = m.seq /\ basis' = "top"
  BY DEF DispatchSnapshot
<1> HIDE DEF m
<1>4. BookTypes'
  BY <1>t, <1>1, <1>2, <1>3 DEF BookTypes, BookTypeOK, Books
<1>5. StandsOnNumber' /\ (basis' = "whole" => book' = exchange'[lastSeq'])
  BY <1>1, <1>2, <1>3 DEF StandsOnNumber
<1>6. SnapshotComes'
  <2> SUFFICES ASSUME basis' = "none" PROVE \E k \in DOMAIN exchange' : exchange'[k] = NoLevels
    BY DEF SnapshotComes
  <2>1. Levels(m.levels) = {}
    BY <1>3
  <2>2. m.levels = NoLevels
    BY <1>1, <2>1 DEF Levels, NoLevels, Books
  <2>3. DOMAIN exchange = 1..Len(exchange)
    BY <1>t DEF BookTypes
  <2> QED
    BY <1>1, <2>2, <2>3
<1>7. \A k \in DOMAIN messages' : SaysTrue(exchange', messages'[k])
  <2>1. exchange' = exchange
    OBVIOUS
  <2> QED
    BY <1>t, <2>1
<1> QED
  BY <1>4, <1>5, <1>6, <1>7 DEF BookInv

\* f holds the books after the first n updates of m, the k-th agrees with the exchange.
Takes(m, f, n) == f = [k \in 0..n |-> NextBook(m, f, k)]
Sets(m, f, k) == f[k] = [f[k - 1] EXCEPT ![m.updates[k].price] = m.updates[k].qty]
Agrees(m, f, k) ==
    /\ f[k] \in Books
    /\ k > 0 /\ basis # "none" =>
         /\ m.updates[k].seq \in 1..Len(exchange)
         /\ \A p \in Prices : f[k][p] # 0 => f[k][p] = exchange[m.updates[k].seq][p]
         /\ (basis = "whole" /\ \A j \in 1..k : Sets(m, f, j)) => f[k] = exchange[m.updates[k].seq]

\* The updates taken, one by one: the book agrees with the exchange's after each.
LEMMA UpdatesAgree ==
    ASSUME BookInv, NEW m \in Messages, m.type = "update", SaysTrue(exchange, m), NEW n \in 0..Len(m.updates),
           NEW f, Takes(m, f, n), NoGap(m, n)
    PROVE  \A k \in 0..n : Agrees(m, f, k)
<1> DEFINE U == m.updates
           Seq0(k) == IF k = 0 THEN lastSeq ELSE U[k].seq
           Whole(k) == basis = "whole" /\ \A j \in 1..k : Sets(m, f, j)
           Good(k) == /\ f[k] \in Books
                      /\ basis # "none" =>
                           /\ Seq0(k) \in 1..Len(exchange)
                           /\ \A p \in Prices : f[k][p] # 0 => f[k][p] = exchange[Seq0(k)][p]
                           /\ Whole(k) => f[k] = exchange[Seq0(k)]
           T == {k \in 0..n : ~Good(k)}
<1>t. /\ BookTypes /\ book \in Books /\ U \in Seq(LevelUpdates) /\ Len(U) \in Nat
      /\ Len(exchange) \in Nat /\ exchange \in Seq(Books)
      /\ \A k \in 1..Len(U) : U[k] \in LevelUpdates /\ Truly(exchange, U[k])
  <2>1. U \in Seq(LevelUpdates)
    BY DEF Messages
  <2> QED
    BY <2>1 DEF BookInv, BookTypes, BookTypeOK, Books, SaysTrue
<1>n. n \in Nat /\ \A k \in 1..n : k \in 1..Len(U)
  BY <1>t
<1>1. T = {}
  <2> SUFFICES ASSUME T # {} PROVE FALSE
    OBVIOUS
  <2>1. PICK k \in T : \A y \in T : k <= y
    <3>1. T \subseteq Nat
      OBVIOUS
    <3> HIDE DEF T
    <3> QED
      BY <3>1, LeastNumber
  <2>2. k \in 0..n /\ ~Good(k)
    BY <2>1
  <2>3. f[k] = NextBook(m, f, k)
    BY <2>2 DEF Takes
  <2>4. CASE k = 0
    <3>1. f[k] = book
      BY <2>3, <2>4 DEF NextBook
    <3>2. Good(k)
      <4>1. basis # "none" => lastSeq \in 1..Len(exchange) /\ \A p \in Prices : book[p] # 0 => book[p] = exchange[lastSeq][p]
        BY DEF BookInv, StandsOnNumber
      <4>2. basis = "whole" => book = exchange[lastSeq]
        BY DEF BookInv
      <4> QED
        BY <1>t, <2>4, <3>1, <4>1, <4>2
    <3> QED
      BY <2>2, <3>2
  <2>5. CASE k # 0
    <3> DEFINE l == k - 1
               u == U[k]
    <3>1. l \in 0..n /\ l < k /\ k \in 1..n /\ k \in 1..Len(U) /\ l \in Nat /\ ~(k <= l)
      <4>1. k \in 0..n
        BY <2>2
      <4> HIDE DEF T, U, Good
      <4> QED
        BY <1>n, <1>t, <2>5, <4>1
    <3>2. Good(l)
      <4>1. l \notin T
        <5> HIDE DEF T
        <5> QED
          BY <2>1, <3>1
      <4> HIDE DEF Good
      <4> QED
        BY <3>1, <4>1
    <3>3. f[k] = Applied(f[l], u)
      BY <2>3, <2>5 DEF NextBook
    <3>4. u \in LevelUpdates /\ Truly(exchange, u) /\ f[l] \in Books
      BY <1>t, <3>1, <3>2
    <3>5. basis # "none" => u.seq = Seq0(l) + 1
      <4> SUFFICES ASSUME basis # "none" PROVE u.seq = Seq0(l) + 1
        OBVIOUS
      <4>1. ~Gap(IF k = 1 THEN lastSeq ELSE m.updates[k - 1].seq, m.updates[k])
        BY <3>1 DEF NoGap
      <4>2. (IF k = 1 THEN lastSeq ELSE m.updates[k - 1].seq) = Seq0(l)
        BY <3>1
      <4>3. Seq0(l) # 0
        BY <3>2, <1>t
      <4> QED
        BY <4>1, <4>2, <4>3 DEF Gap
    <3> DEFINE set == [f[l] EXCEPT ![u.price] = u.qty]
    <3>6. /\ f[k] \in Books /\ set \in Books
          /\ \A p \in Prices : f[k][p] # 0 => f[k][p] = set[p]
      <4> HIDE DEF u, l, Good
      <4>1. /\ Applied(f[l], u) \in Books /\ [f[l] EXCEPT ![u.price] = u.qty] \in Books
            /\ \A p \in Prices : Applied(f[l], u)[p] # 0 => Applied(f[l], u)[p] = [f[l] EXCEPT ![u.price] = u.qty][p]
        BY <3>4, AppliedIs
      <4> QED
        BY Zenon, <3>3, <4>1
    <3>7. ASSUME basis # "none"
          PROVE  /\ u.seq \in 1..Len(exchange)
                 /\ \A p \in Prices : f[k][p] # 0 => f[k][p] = exchange[u.seq][p]
                 /\ Whole(k) => f[k] = exchange[u.seq]
      <4> DEFINE x == exchange[Seq0(l)]
      <4>a. Seq0(l) \in 1..Len(exchange) /\ (\A p \in Prices : f[l][p] # 0 => f[l][p] = x[p]) /\ (Whole(l) => f[l] = x)
        <5> HIDE DEF l, Seq0, Whole
        <5> QED
          BY <3>2, <3>7
      <4>1. Seq0(l) \in 1..Len(exchange) /\ u.seq = Seq0(l) + 1 /\ u.seq - 1 = Seq0(l)
        <5>1. Seq0(l) \in 1..Len(exchange) /\ u.seq = Seq0(l) + 1 /\ Len(exchange) \in Nat
          BY Zenon, <1>t, <3>5, <3>7, <4>a
        <5> HIDE DEF l, Seq0, u, Good
        <5> QED
          BY <5>1
      <4>2. u.seq \in 2..Len(exchange) /\ exchange[u.seq] = [x EXCEPT ![u.price] = u.qty]
        <5> HIDE DEF l, Seq0, u, Good
        <5> QED
          BY <3>4, <4>1 DEF Truly
      <4>3. x \in Books
        <5> HIDE DEF l, Seq0, u, Good
        <5> QED
          BY <1>t, <4>1
      <4>4. u.price \in Prices /\ u.qty \in Quantities \cup {0}
        BY <3>4 DEF LevelUpdates
      <4>5. \A p \in Prices : set[p] # 0 => set[p] = exchange[u.seq][p]
        <5> HIDE DEF x, l, u, Seq0, Good
        <5> QED
          BY <3>4, <4>2, <4>3, <4>4, <4>a DEF Books
      <4>6. Whole(k) => Whole(l) /\ f[k] = set
        <5>1. (1..l) \subseteq (1..k) /\ k \in 1..k
          BY <3>1
        <5>2. Whole(k) => Whole(l)
          <6> HIDE DEF l
          <6> QED
            BY <5>1
        <5> QED
          BY <5>1, <5>2 DEF Sets
      <4>7. Whole(k) => f[k] = exchange[u.seq]
        <5> HIDE DEF x, Whole, l, u, Seq0
        <5> QED
          BY <4>2, <4>a, <4>6
      <4>8. \A p \in Prices : f[k][p] # 0 => f[k][p] = exchange[u.seq][p]
        <5> HIDE DEF set, l, u
        <5> QED
          BY <3>6, <4>5
      <4>9. u.seq \in 1..Len(exchange)
        <5>1. u.seq \in 2..Len(exchange) /\ Len(exchange) \in Nat
          BY Zenon, <1>t, <4>2
        <5> HIDE DEF u
        <5> QED
          BY <5>1
      <4> HIDE DEF Whole, u
      <4> QED
        BY <4>7, <4>8, <4>9
    <3>8. Seq0(k) = u.seq
      BY <2>5
    <3>9. Good(k)
      <4> HIDE DEF Seq0, Whole, u, l
      <4> QED
        BY <3>6, <3>7, <3>8
    <3> QED
      BY <2>2, <3>9
  <2> QED
    BY <2>4, <2>5
<1>2. \A k \in 0..n : Good(k)
  <2> HIDE DEF Good
  <2> QED
    BY <1>1
<1> QED
  <2> SUFFICES ASSUME NEW k \in 0..n PROVE Agrees(m, f, k)
    OBVIOUS
  <2>1. Good(k)
    BY <1>2
  <2>2. k > 0 => Seq0(k) = U[k].seq
    OBVIOUS
  <2> HIDE DEF Seq0
  <2> QED
    BY <2>1, <2>2 DEF Agrees


\* An update message is read: the book goes on, or is thrown away.
LEMMA BookUpdate ==
    ASSUME BookInv, messages # <<>>, messages' = Tail(messages), Head(messages).type = "update",
           DispatchUpdate(Head(messages)), UNCHANGED <<exchange, feed, connection>>
    PROVE  BookInv'
<1> DEFINE m == Head(messages)
           n == Before(m)
           f == BooksOf(m)
<1>t. /\ BookTypes /\ renewals \in Nat /\ m \in Messages /\ SaysTrue(exchange, m) /\ messages' \in Seq(Messages)
      /\ m.type = "update"
      /\ \A k \in DOMAIN messages' : messages'[k] \in Messages /\ SaysTrue(exchange, messages'[k])
  BY DEF BookInv, BookTypes, BookTypeOK
<1>7. \A k \in DOMAIN messages' : SaysTrue(exchange', messages'[k])
  <2>1. exchange' = exchange
    OBVIOUS
  <2> QED
    BY <1>t, <2>1
<1>0. DispatchUpdate(m)
  OBVIOUS
<1> HIDE DEF m
<1>1. m.updates \in Seq(LevelUpdates) /\ Len(m.updates) \in Nat \ {0} /\ \A k \in 1..Len(m.updates) : Truly(exchange, m.updates[k])
  <2>1. m.updates \in Seq(LevelUpdates)
    BY <1>t DEF Messages
  <2> QED
    BY <1>t, <2>1 DEF SaysTrue
<1>2. n \in 0..Len(m.updates) /\ n \in Nat /\ NoGap(m, n)
  BY <1>1, BeforeIs
<1>3. Takes(m, f, n)
  BY <1>2, BooksOfAre DEF Takes
<1>4. \A k \in 0..n : Agrees(m, f, k)
  <2> HIDE DEF f, n
  <2>1. m \in Messages /\ m.type = "update" /\ SaysTrue(exchange, m) /\ n \in 0..Len(m.updates) /\ NoGap(m, n)
    BY Zenon, <1>t, <1>2
  <2> QED
    BY <1>3, <2>1, UpdatesAgree
<1>5. IF n < Len(m.updates)
        THEN /\ book' = NoLevels /\ lastSeq' = 0 /\ basis' = "none"
             /\ renewals' = IF connection = "up" THEN renewals + 1 ELSE renewals
        ELSE /\ book' = f[n] /\ lastSeq' = m.updates[n].seq
             /\ basis' = IF basis = "whole"
                            /\ \E k \in 1..n : ~Sets(m, f, k)
                         THEN "top" ELSE basis
             /\ UNCHANGED renewals
  BY Zenon, <1>0, DispatchUpdateIs DEF Sets
<1> HIDE DEF f, n
<1>6. CASE n < Len(m.updates)
  <2>1. /\ book' = NoLevels /\ lastSeq' = 0 /\ basis' = "none"
        /\ renewals' = IF connection = "up" THEN renewals + 1 ELSE renewals
    BY <1>5, <1>6
  <2>2. BookTypes'
    BY <1>t, <2>1 DEF BookTypes, BookTypeOK, NoLevels
  <2>3. SnapshotComes'
    BY <1>t, <2>1 DEF SnapshotComes
  <2> QED
    BY <1>7, <2>1, <2>2, <2>3 DEF BookInv, StandsOnNumber
<1>8. CASE ~(n < Len(m.updates))
  <2>0. n \in 0..n /\ n > 0 /\ n \in 1..Len(m.updates) /\ (1..n) \subseteq 0..n
    BY <1>1, <1>2, <1>8
  <2>1. /\ book' = f[n] /\ lastSeq' = m.updates[n].seq /\ renewals' = renewals
        /\ basis' \in {basis, "top"} /\ (basis' = "top" => basis # "none")
        /\ basis' = "whole" => basis = "whole" /\ \A k \in 1..n : Sets(m, f, k)
    BY Zenon, <1>5, <1>8
  <2>2. lastSeq' \in 2..Len(exchange) /\ book' \in Books
    BY <1>1, <1>4, <2>0, <2>1 DEF Truly, Agrees
  <2>3. BookTypes'
    <3>1. lastSeq' \in 0..Len(exchange) /\ basis' \in {"none", "top", "whole"}
      BY <1>t, <2>1, <2>2 DEF BookTypes, BookTypeOK
    <3> QED
      BY <1>t, <2>1, <2>2, <3>1 DEF BookTypes, BookTypeOK, Books
  <2>4. SnapshotComes'
    BY <1>t, <2>2 DEF SnapshotComes
  <2>5. basis' # "none" => basis # "none"
    BY <2>1
  <2>6. basis # "none" => /\ m.updates[n].seq \in 1..Len(exchange)
                          /\ \A p \in Prices : f[n][p] # 0 => f[n][p] = exchange[m.updates[n].seq][p]
    BY Zenon, <1>4, <2>0 DEF Agrees
  <2>7. basis' = "whole" => f[n] = exchange[m.updates[n].seq]
    BY Zenon, <1>4, <2>0, <2>1 DEF Agrees
  <2>8. StandsOnNumber' /\ (basis' = "whole" => book' = exchange'[lastSeq'])
    BY <2>1, <2>5, <2>6, <2>7 DEF StandsOnNumber
  <2> QED
    BY <1>7, <2>3, <2>4, <2>8 DEF BookInv
<1> QED
  BY <1>6, <1>8

LEMMA BookStep == BookInv /\ [BookNext]_bookVars => BookInv'
<1> SUFFICES ASSUME BookInv, [BookNext]_bookVars PROVE BookInv'
  OBVIOUS
<1>1. CASE UNCHANGED bookVars
  <2>1. UNCHANGED <<exchange, feed, renewals, connection, messages, book, lastSeq, basis>>
    BY <1>1 DEF bookVars
  <2>2. BookTypes' /\ StandsOnNumber' /\ SnapshotComes' /\ (basis' = "whole" => book' = exchange'[lastSeq'])
    BY <2>1 DEF BookInv, BookTypes, BookTypeOK, StandsOnNumber, SnapshotComes
  <2>3. \A j \in DOMAIN messages' : SaysTrue(exchange', messages'[j])
    BY <2>1 DEF BookInv
  <2> QED
    BY <2>2, <2>3 DEF BookInv
<1>2. CASE \E p \in Prices, q \in Quantities \cup {0}, lost, joins \in BOOLEAN : ExchangeUpdates(p, q, lost, joins)
  BY <1>2, BookExchange
<1>3. CASE ExchangeAnswers \/ ConnectionBreaks \/ OpenFeed \/ ConnectionLost
  BY <1>3, BookConnection
<1>4. CASE Dispatch
  <2>1. /\ messages # <<>> /\ messages' = Tail(messages) /\ UNCHANGED <<exchange, feed, connection>>
        /\ IF Head(messages).type = "snapshot" THEN DispatchSnapshot(Head(messages)) ELSE DispatchUpdate(Head(messages))
    BY <1>4 DEF Dispatch
  <2>2. Head(messages).type \in {"snapshot", "update"}
    <3>1. Head(messages) \in Messages
      BY <2>1 DEF BookInv, BookTypes
    <3> QED
      BY <3>1 DEF Messages
  <2> QED
    BY <2>1, <2>2, BookSnapshot, BookUpdate
<1> QED
  BY <1>1, <1>2, <1>3, <1>4 DEF BookNext

LEMMA BookInvHolds == BookInv => BookHolds
  BY DEF BookInv, BookTypes, BookHolds, BookIsTrue, StandsOnNumber, Levels

\* The order book of Coinbase is the exchange's book at the last number it took,
\* or has the exchange's levels where some were evicted, and one that stands on
\* nothing awaits a snapshot, whatever updates are lost and connections break
\* (coinbase_ws.py, book_manager.py).
THEOREM BooksAreTrue == BookSpec => []BookHolds
<1>1. BookSpec => []BookInv
  BY BookInitially, BookStep, PTL DEF BookSpec
<1> QED
  BY <1>1, BookInvHolds, PTL

-----------------------------------------------------------------------------
(* The quotes of a connection: what was sent and what waits for the lock   *)
(* are one line of frames, which grows at its end.                         *)

Frames == [op : {"q", "snap"}, quote : Nat]
Line == shown \o lined

SocketTypes ==
    /\ SocketTypeOK
    /\ shown \in Seq(Frames) /\ lined \in Seq(Frames)
    /\ arrived \in Nat

\* Each task that may wait for the lock has one frame there.
WaitOnce ==
    /\ \A j, k \in DOMAIN lined : lined[j].op = lined[k].op => j = k
    /\ \A j \in DOMAIN lined : IF lined[j].op = "q" THEN draining ELSE handling = "sending"
    /\ endpoint = "closed" => handling = "nothing" /\ lined = <<>>

\* Ticks go from the engine to the conflator and on in the order of their numbers.
TicksInOrder ==
    /\ cachedQuote \in {0, arrived} /\ publishing \in {0, arrived} /\ conflated \in {0, given}
    /\ given <= arrived /\ (publishing # 0 => given < publishing)

\* The line up to now: its quotes advance, a snapshot is the newest, and none is
\* ahead of the ticks.
LineInOrder(line) ==
    /\ \A j, k \in DOMAIN line : j < k /\ line[j].op = "q" /\ line[k].op = "q" => line[j].quote < line[k].quote
    /\ \A j, k \in DOMAIN line : j < k /\ line[k].op = "snap" => line[j].quote <= line[k].quote

LineBehind(line) ==
    \A j \in DOMAIN line :
        /\ line[j].quote <= arrived
        /\ line[j].op = "q" => line[j].quote <= given /\ (conflated # 0 => line[j].quote < conflated)

LastInLine(line) ==
    endpoint = "open" /\ conflated = 0 /\ given # 0 => \E k \in DOMAIN line : line[k] = [op |-> "q", quote |-> given]

SocketInv ==
    /\ SocketTypes /\ WaitOnce /\ TicksInOrder
    /\ LineInOrder(Line) /\ LineBehind(Line) /\ LastInLine(Line)

\* The frames of a sequence of them.
LEMMA FramesAre == \A s \in Seq(Frames) : \A j \in DOMAIN s : s[j] \in Frames /\ s[j].op \in {"q", "snap"} /\ s[j].quote \in Nat
<1>1. \A f \in Frames : f.op \in {"q", "snap"} /\ f.quote \in Nat
  BY DEF Frames
<1>2. \A s \in Seq(Frames) : \A j \in DOMAIN s : s[j] \in Frames
  OBVIOUS
<1> QED
  BY <1>1, <1>2

\* The line is a sequence of frames, what was sent comes first in it, and then
\* what waits.
LEMMA LineIs ==
    ASSUME SocketTypes
    PROVE  /\ Line \in Seq(Frames) /\ Len(Line) = Len(shown) + Len(lined)
           /\ \A k \in 1..Len(shown) : k \in DOMAIN Line /\ Line[k] = shown[k]
           /\ \A k \in 1..Len(lined) : Line[Len(shown) + k] = lined[k]
           /\ lined = <<>> => Line = shown
BY DEF SocketTypes, Line

\* A frame at its end keeps the line in order, if it is new enough.
LEMMA LineGrows ==
    ASSUME NEW line \in Seq(Frames), LineInOrder(line), NEW f \in Frames,
           f.op = "q" => \A j \in DOMAIN line : line[j].op = "q" => line[j].quote < f.quote,
           f.op = "snap" => \A j \in DOMAIN line : line[j].quote <= f.quote
    PROVE  LineInOrder(Append(line, f))
<1>1. /\ \A j \in DOMAIN line : Append(line, f)[j] = line[j] /\ j < Len(line) + 1
      /\ Append(line, f)[Len(line) + 1] = f
      /\ \A j \in DOMAIN Append(line, f) : j \in DOMAIN line \/ j = Len(line) + 1
  OBVIOUS
<1>2. \A j, k \in DOMAIN Append(line, f) : j < k => j \in DOMAIN line
  OBVIOUS
<1>3. /\ \A j, k \in DOMAIN line : j < k /\ line[j].op = "q" /\ line[k].op = "q" => line[j].quote < line[k].quote
      /\ \A j, k \in DOMAIN line : j < k /\ line[k].op = "snap" => line[j].quote <= line[k].quote
  BY DEF LineInOrder
<1>4. ASSUME NEW j \in DOMAIN Append(line, f), NEW k \in DOMAIN Append(line, f), j < k
      PROVE  LET s == Append(line, f) IN
             /\ s[j].op = "q" /\ s[k].op = "q" => s[j].quote < s[k].quote
             /\ s[k].op = "snap" => s[j].quote <= s[k].quote
  BY <1>1, <1>2, <1>3, <1>4
<1> QED
  BY <1>4 DEF LineInOrder

LEMMA SocketInitially == SocketInit => SocketInv
<1> SUFFICES ASSUME SocketInit PROVE SocketInv
  OBVIOUS
<1>1. SocketTypes
  BY SocketAssumption DEF SocketInit, SocketTypes, SocketTypeOK
<1>2. Line = <<>>
  BY DEF SocketInit, Line
<1> QED
  BY <1>1, <1>2 DEF SocketInit, SocketInv, WaitOnce, TicksInOrder, LineInOrder, LineBehind, LastInLine

\* Steps that leave the line as it is.
LEMMA SocketLineStays ==
    ASSUME SocketInv, \/ TickArrives \/ Notify \/ FollowFrame \/ UnfollowFrame \/ OthersChange
    PROVE  SocketInv'
<1> USE SocketAssumption DEF SocketInv
<1>1. Line' = Line /\ lined' = lined /\ shown' = shown /\ endpoint' = endpoint /\ draining' = draining
  BY DEF TickArrives, Notify, FollowFrame, UnfollowFrame, OthersChange, sendVars, Line
<1>2. LineInOrder(Line)'
  BY <1>1 DEF LineInOrder
<1>3. Line \in Seq(Frames)
  BY LineIs
<1>4. \A j \in DOMAIN Line : Line[j].quote \in Nat
  BY <1>3, FramesAre
<1>5. CASE TickArrives
  <2>1. arrived' = arrived + 1 /\ cachedQuote' = arrived + 1 /\ publishing' = arrived + 1 /\ arrived < MaxArrivals
        /\ UNCHANGED <<hearing, handling, conflated, given>>
    BY <1>5 DEF TickArrives, followVars
  <2>2. SocketTypes' /\ TicksInOrder' /\ WaitOnce'
    BY <1>1, <2>1 DEF SocketTypes, SocketTypeOK, TicksInOrder, WaitOnce
  <2>3. LineBehind(Line)' /\ LastInLine(Line)'
    BY <1>1, <1>4, <2>1 DEF LineBehind, LastInLine, SocketTypes
  <2> QED
    BY <1>2, <2>2, <2>3
<1>6. CASE Notify
  <2>1. publishing # 0 /\ publishing' = 0 /\ UNCHANGED <<arrived, cachedQuote, hearing, handling>>
    BY <1>6 DEF Notify, followVars
  <2>2. CASE conflated' = publishing /\ given' = publishing
    <3>1. SocketTypes' /\ TicksInOrder' /\ WaitOnce'
      BY <1>1, <2>1, <2>2 DEF SocketTypes, SocketTypeOK, TicksInOrder, WaitOnce
    <3>2. given \in Nat /\ publishing \in Nat /\ given < publishing
      BY <2>1 DEF SocketTypes, SocketTypeOK, TicksInOrder
    <3>3. LineBehind(Line)' /\ LastInLine(Line)'
      BY <1>1, <1>4, <2>1, <2>2, <3>2 DEF LineBehind, LastInLine
    <3> QED
      BY <1>2, <3>1, <3>3
  <2>3. CASE UNCHANGED <<conflated, given>>
    <3>1. SocketTypes' /\ TicksInOrder' /\ WaitOnce'
      BY <1>1, <2>1, <2>3 DEF SocketTypes, SocketTypeOK, TicksInOrder, WaitOnce
    <3>3. LineBehind(Line)' /\ LastInLine(Line)'
      BY <1>1, <1>4, <2>1, <2>3 DEF LineBehind, LastInLine
    <3> QED
      BY <1>2, <3>1, <3>3
  <2> QED
    BY <1>6, <2>2, <2>3 DEF Notify, KeepsLatest
<1>7. CASE FollowFrame \/ UnfollowFrame \/ OthersChange
  <2>1. UNCHANGED <<arrived, cachedQuote, publishing, conflated, given>>
    BY <1>7 DEF FollowFrame, UnfollowFrame, OthersChange, engineVars
  <2>2. (handling' = handling \/ (endpoint = "open" /\ handling = "nothing" /\ handling' = "routing"))
    BY <1>7 DEF FollowFrame, UnfollowFrame, OthersChange, SocketTypes
  <2>3. SocketTypes' /\ TicksInOrder'
    BY <1>1, <2>1, <2>2 DEF SocketTypes, SocketTypeOK, TicksInOrder
  <2>4. WaitOnce'
    BY <1>1, <2>2 DEF WaitOnce
  <2>5. LineBehind(Line)' /\ LastInLine(Line)'
    BY <1>1, <2>1 DEF LineBehind, LastInLine
  <2> QED
    BY <1>2, <2>3, <2>4, <2>5
<1> QED
  BY <1>5, <1>6, <1>7

\* A frame that joins those who wait.
LEMMA SocketLineGrows ==
    ASSUME SocketInv, NEW expired \in BOOLEAN, Snapshot(expired) \/ DrainOnce
    PROVE  SocketInv'
<1> USE SocketAssumption DEF SocketInv
<1>t. Line \in Seq(Frames) /\ \A j \in DOMAIN Line : Line[j] \in Frames /\ Line[j].quote \in Nat
  <2>1. Line \in Seq(Frames)
    BY LineIs
  <2> QED
    BY <2>1, FramesAre
<1>1. CASE Snapshot(expired)
  <2>1. /\ handling = "routing"
        /\ cachedQuote' = IF expired THEN 0 ELSE cachedQuote
        /\ UNCHANGED <<arrived, publishing, hearing, conflated, draining, shown, endpoint, given>>
        /\ \/ /\ cachedQuote' # 0 /\ handling' = "sending"
              /\ lined' = Append(lined, [op |-> "snap", quote |-> cachedQuote])
           \/ handling' = "nothing" /\ lined' = lined
    BY <1>1 DEF Snapshot
  <2>2. TicksInOrder' /\ cachedQuote' \in 0..MaxArrivals
    BY <2>1 DEF TicksInOrder, SocketTypes, SocketTypeOK
  <2>3. endpoint = "open"
    BY <2>1 DEF WaitOnce, SocketTypes, SocketTypeOK
  <2>4. CASE handling' = "nothing" /\ lined' = lined
    <3>1. SocketTypes'
      BY <2>1, <2>2, <2>4 DEF SocketTypes, SocketTypeOK
    <3>2. Line' = Line /\ WaitOnce'
      BY <2>1, <2>3, <2>4 DEF Line, WaitOnce
    <3>3. LineInOrder(Line)' /\ LineBehind(Line)' /\ LastInLine(Line)'
      BY <2>1, <3>2 DEF LineInOrder, LineBehind, LastInLine
    <3> QED
      BY <2>2, <3>1, <3>2, <3>3
  <2>5. CASE /\ cachedQuote' # 0 /\ handling' = "sending"
             /\ lined' = Append(lined, [op |-> "snap", quote |-> cachedQuote])
    <3> DEFINE f == [op |-> "snap", quote |-> cachedQuote]
    <3>1. cachedQuote = arrived /\ f \in Frames /\ f.op = "snap" /\ f.quote = arrived
      BY <2>1, <2>5 DEF TicksInOrder, Frames, SocketTypes
    <3> HIDE DEF f
    <3>2. \A j \in DOMAIN lined : lined[j].op # "snap"
      BY <2>1 DEF WaitOnce, SocketTypes, Frames
    <3>3. lined' \in Seq(Frames) /\ Line' = Append(Line, f)
      BY <2>1, <2>5, <3>1 DEF Line, SocketTypes, f
    <3>4. WaitOnce'
      BY <2>1, <2>3, <2>5, <3>1, <3>2 DEF WaitOnce, SocketTypes, f
    <3>5. Len(lined') <= 2
      <4>1. \A j, k \in DOMAIN lined' : lined'[j].op = lined'[k].op => j = k
        BY <3>4 DEF WaitOnce
      <4>2. \A j \in DOMAIN lined' : lined'[j].op \in {"q", "snap"}
        BY <3>3, FramesAre
      <4> QED
        BY <3>3, <4>1, <4>2
    <3>6. SocketTypes'
      BY <2>1, <2>2, <2>5, <3>3, <3>5 DEF SocketTypes, SocketTypeOK
    <3>7. LineInOrder(Append(Line, f))
      BY <1>t, <3>1, LineGrows DEF LineBehind
    <3>8. LineInOrder(Line)'
      BY <3>3, <3>7 DEF LineInOrder
    <3>9. /\ \A k \in DOMAIN Line : k \in DOMAIN Append(Line, f) /\ Append(Line, f)[k] = Line[k]
          /\ \A k \in DOMAIN Append(Line, f) : k \in DOMAIN Line \/ Append(Line, f)[k] = f
      BY <1>t
    <3>10. LineBehind(Line)'
      BY <1>t, <2>1, <3>1, <3>3, <3>9 DEF LineBehind, SocketTypes
    <3>11. LastInLine(Line)'
      BY <2>1, <3>3, <3>9 DEF LastInLine
    <3> QED
      BY <2>2, <3>4, <3>6, <3>8, <3>10, <3>11
  <2> QED
    BY <2>1, <2>4, <2>5
<1>2. CASE DrainOnce
  <2> DEFINE f == [op |-> "q", quote |-> conflated]
  <2>1. /\ endpoint = "open" /\ ~draining /\ conflated # 0
        /\ lined' = Append(lined, f)
        /\ conflated' = 0 /\ draining' = TRUE
        /\ UNCHANGED <<arrived, cachedQuote, publishing, hearing, handling, shown, endpoint, given>>
    BY <1>2 DEF DrainOnce, engineVars, followVars
  <2>2. conflated = given /\ f \in Frames /\ f = [op |-> "q", quote |-> given] /\ f.op = "q" /\ f.quote = given
    BY <2>1 DEF TicksInOrder, Frames, SocketTypes, SocketTypeOK
  <2> HIDE DEF f
  <2>3. \A j \in DOMAIN lined : lined[j].op # "q"
    BY <2>1 DEF WaitOnce, SocketTypes, Frames
  <2>4. lined' \in Seq(Frames) /\ Line' = Append(Line, f)
    BY <2>1, <2>2 DEF Line, SocketTypes
  <2>5. WaitOnce'
    BY <2>1, <2>2, <2>3 DEF WaitOnce, SocketTypes
  <2>6. Len(lined') <= 2
    <3>1. \A j, k \in DOMAIN lined' : lined'[j].op = lined'[k].op => j = k
      BY <2>5 DEF WaitOnce
    <3>2. \A j \in DOMAIN lined' : lined'[j].op \in {"q", "snap"}
      BY <2>4, FramesAre
    <3> QED
      BY <2>4, <3>1, <3>2
  <2>7. SocketTypes' /\ TicksInOrder'
    BY <2>1, <2>4, <2>6 DEF SocketTypes, SocketTypeOK, TicksInOrder
  <2>8. LineInOrder(Append(Line, f))
    BY <1>t, <2>1, <2>2, LineGrows DEF LineBehind
  <2>9. LineInOrder(Line)'
    BY <2>4, <2>8 DEF LineInOrder
  <2>10. LineBehind(Line)'
    BY <1>t, <2>1, <2>2, <2>4 DEF LineBehind, TicksInOrder
  <2>11. LastInLine(Line)'
    BY <1>t, <2>1, <2>2, <2>4 DEF LastInLine
  <2> QED
    BY <2>5, <2>7, <2>9, <2>10, <2>11
<1> QED
  BY <1>1, <1>2

\* The first of those who wait is sent, or the connection ends.
LEMMA SocketLineMoves ==
    ASSUME SocketInv, SendFirst \/ SocketCloses
    PROVE  SocketInv'
<1> USE SocketAssumption DEF SocketInv
<1>t. Line \in Seq(Frames) /\ Len(Line) = Len(shown) + Len(lined)
      /\ (\A k \in 1..Len(shown) : k \in DOMAIN Line /\ Line[k] = shown[k])
  BY LineIs
<1>1. CASE SendFirst
  <2>1. /\ endpoint = "open" /\ lined # <<>>
        /\ shown' = Append(shown, Head(lined)) /\ lined' = Tail(lined)
        /\ UNCHANGED <<arrived, cachedQuote, publishing, hearing, conflated, endpoint, given>>
        /\ IF Head(lined).op = "q" THEN draining' = FALSE /\ handling' = handling
                                   ELSE handling' = "nothing" /\ draining' = draining
    BY <1>1 DEF SendFirst, engineVars
  <2>2. /\ Head(lined) \in Frames /\ Tail(lined) \in Seq(Frames) /\ Head(lined) = lined[1] /\ 1 \in DOMAIN lined
        /\ Len(Tail(lined)) = Len(lined) - 1
        /\ \A k \in DOMAIN Tail(lined) : Tail(lined)[k] = lined[k + 1] /\ k + 1 \in DOMAIN lined /\ k + 1 # 1
    BY <2>1 DEF SocketTypes
  <2>3. Line' = Line
    BY <2>1, <2>2 DEF Line, SocketTypes
  <2>4. \A j \in DOMAIN Tail(lined) : Tail(lined)[j].op # Head(lined).op /\ Tail(lined)[j].op \in {"q", "snap"}
    BY <2>2, FramesAre DEF WaitOnce, SocketTypes
  <2>5. \A j, k \in DOMAIN Tail(lined) : Tail(lined)[j].op = Tail(lined)[k].op => j = k
    <3>1. \A j, k \in DOMAIN Tail(lined) : Tail(lined)[j].op = Tail(lined)[k].op => j + 1 = k + 1
      BY <2>2 DEF WaitOnce
    <3> QED
      BY <2>2, <3>1
  <2>6. \A j \in DOMAIN Tail(lined) : IF Tail(lined)[j].op = "q" THEN draining' ELSE handling' = "sending"
    <3>1. \A j \in DOMAIN Tail(lined) : IF Tail(lined)[j].op = "q" THEN draining ELSE handling = "sending"
      BY <2>2 DEF WaitOnce
    <3>2. Head(lined).op \in {"q", "snap"}
      BY <2>2 DEF Frames
    <3> QED
      BY <2>1, <2>4, <3>1, <3>2
  <2>7. WaitOnce'
    BY <2>1, <2>5, <2>6 DEF WaitOnce
  <2>8. handling' \in {"nothing", "routing", "sending"}
    BY <2>1 DEF SocketTypes, SocketTypeOK
  <2>9. SocketTypes' /\ TicksInOrder'
    BY <2>1, <2>2, <2>8 DEF SocketTypes, SocketTypeOK, TicksInOrder
  <2>10. LineInOrder(Line)' /\ LineBehind(Line)' /\ LastInLine(Line)'
    BY <2>1, <2>3 DEF LineInOrder, LineBehind, LastInLine
  <2> QED
    BY <2>7, <2>9, <2>10
<1>2. CASE SocketCloses
  <2>1. /\ endpoint' = "closed" /\ hearing' = FALSE /\ handling' = "nothing"
        /\ lined' = <<>> /\ draining' = FALSE /\ conflated' = 0
        /\ UNCHANGED <<arrived, cachedQuote, publishing, shown, given>>
    BY <1>2 DEF SocketCloses, engineVars
  <2>2. SocketTypes' /\ TicksInOrder' /\ WaitOnce'
    BY <2>1 DEF SocketTypes, SocketTypeOK, TicksInOrder, WaitOnce
  <2>3. Line' = shown
    BY <2>1 DEF Line, SocketTypes
  <2>4. DOMAIN shown = 1..Len(shown)
    BY DEF SocketTypes
  <2>5. LineInOrder(Line)' /\ LineBehind(Line)' /\ LastInLine(Line)'
    BY <1>t, <2>1, <2>3, <2>4 DEF LineInOrder, LineBehind, LastInLine
  <2> QED
    BY <2>2, <2>5
<1> QED
  BY <1>1, <1>2

LEMMA SocketStep == SocketInv /\ [SocketNext]_socketVars => SocketInv'
<1> SUFFICES ASSUME SocketInv, [SocketNext]_socketVars PROVE SocketInv'
  OBVIOUS
<1>1. CASE UNCHANGED socketVars
  <2>1. UNCHANGED <<arrived, cachedQuote, publishing, hearing, conflated, draining, handling, endpoint, lined, shown, given>>
    BY <1>1 DEF socketVars, engineVars
  <2>2. Line' = Line
    BY <2>1 DEF Line
  <2>3. SocketTypes' /\ WaitOnce' /\ TicksInOrder'
    BY <2>1 DEF SocketInv, SocketTypes, SocketTypeOK, WaitOnce, TicksInOrder
  <2>4. LineInOrder(Line)' /\ LineBehind(Line)' /\ LastInLine(Line)'
    BY <2>1, <2>2 DEF SocketInv, LineInOrder, LineBehind, LastInLine
  <2> QED
    BY <2>3, <2>4 DEF SocketInv
<1> QED
  BY <1>1, SocketLineStays, SocketLineGrows, SocketLineMoves DEF SocketNext

LEMMA SocketInvHolds == SocketInv => SocketHolds
<1> SUFFICES ASSUME SocketInv PROVE SocketHolds
  OBVIOUS
<1>1. /\ DOMAIN shown = 1..Len(shown)
      /\ \A k \in DOMAIN shown : k \in DOMAIN Line /\ Line[k] = shown[k]
      /\ lined = <<>> => Line = shown
  BY LineIs DEF SocketInv, SocketTypes
<1>2. QuotesAdvance /\ SnapshotIsNewest
  BY <1>1 DEF SocketInv, LineInOrder, QuotesAdvance, SnapshotIsNewest
<1>3. LastTickIsSent
  BY <1>1 DEF SocketInv, LastInLine, LastTickIsSent
<1> QED
  BY <1>2, <1>3 DEF SocketHolds, SocketInv, SocketTypes

\* A client of the quotes socket is sent quotes of a symbol in the order of their
\* ticks, no snapshot older than what went before, and in the end the last tick,
\* however many ticks were conflated (ws_quotes.py, and _on_quote of the engine).
THEOREM SocketShowsTicks == SocketSpec => []SocketHolds
BY SocketInitially, SocketStep, SocketInvHolds, PTL DEF SocketSpec
===============================================================================
