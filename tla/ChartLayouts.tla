------------------------------ MODULE ChartLayouts ------------------------------
(***************************************************************************)
(* The layout of one instrument's chart, which clients read with its etag, *)
(* write with If-Match, and delete.  A PUT looks at the row and then       *)
(* updates or inserts it in a statement of its own; others may come        *)
(* between.  A version stands for the row's updated_at, which no two       *)
(* transactions share.                                                     *)
(***************************************************************************)
EXTENDS Integers, FiniteSets

CONSTANTS
    Clients,
    MaxVersions   \* bound: rows written

VARIABLES
    row,          \* version of the row in chart_layouts, 0 for no row
    written,      \* versions so far
    etag,         \* what each client last read or wrote, 0 for nothing
    putting,      \* the If-Match and the row seen by each client's PUT under way
    overwritten   \* history: versions replaced by another, each with who did it,
                  \* what its If-Match was and what the etag then was

layoutVars == <<row, written, etag, putting, overwritten>>

Wildcard == -1
NoPut == [match |-> 0, peeked |-> -1]
-----------------------------------------------------------------------------
\* GET answers 404 without a row, and the client has no etag then.
GetLayout(c) ==
    /\ putting[c] = NoPut
    /\ etag' = [etag EXCEPT ![c] = row]
    /\ UNCHANGED <<row, written, putting, overwritten>>

\* PUT up to its SELECT: 412 for an If-Match that is not the row's etag.
\* A client without an etag sends the wildcard.
PeekRow(c, match) ==
    /\ putting[c] = NoPut /\ written < MaxVersions
    /\ match \in {Wildcard} \cup ({etag[c]} \ {0})
    /\ row # 0 /\ match # Wildcard => match = row
    /\ putting' = [putting EXCEPT ![c] = [match |-> match, peeked |-> row]]
    /\ UNCHANGED <<row, written, etag, overwritten>>

\* Mutant: the row is updated whatever its updated_at.
UpdatesAny(seen) == row # 0

\* UPDATE ... WHERE updated_at = :expected_ts
Updates(seen) == row = seen

\* INSERT ... ON CONFLICT DO NOTHING
Inserts == row = 0

\* PUT from its second statement to the commit: 412 if it wrote no row.
WriteRow(c) ==
    /\ putting[c] # NoPut
    /\ putting' = [putting EXCEPT ![c] = NoPut]
    /\ IF IF putting[c].peeked # 0 THEN Updates(putting[c].peeked) ELSE Inserts
         THEN /\ written' = written + 1 /\ row' = written + 1
              /\ etag' = [etag EXCEPT ![c] = written + 1]
              /\ overwritten' = IF row = 0 THEN overwritten
                                ELSE overwritten \cup {[version |-> row, by |-> written + 1,
                                                        match |-> putting[c].match]}
         ELSE UNCHANGED <<row, written, etag, overwritten>>

\* DELETE asks for no etag.
DeleteLayout ==
    /\ row # 0
    /\ row' = 0
    /\ UNCHANGED <<written, etag, putting, overwritten>>
-----------------------------------------------------------------------------
LayoutInit ==
    /\ row = 0 /\ written = 0 /\ overwritten = {}
    /\ etag = [c \in Clients |-> 0] /\ putting = [c \in Clients |-> NoPut]

LayoutNext ==
    \/ DeleteLayout
    \/ \E c \in Clients : GetLayout(c) \/ WriteRow(c) \/ \E match \in Wildcard..MaxVersions : PeekRow(c, match)

LayoutSpec == LayoutInit /\ [][LayoutNext]_layoutVars
-----------------------------------------------------------------------------
LayoutTypeOK ==
    /\ row \in 0..written /\ etag \in [Clients -> 0..written]
    /\ putting \in [Clients -> [match : Wildcard..written, peeked : -1..written]]

\* No update is lost: whoever names a version replaces that version and no
\* other, however the PUTs of others and deletions fall between its statements.
NamedIsReplaced == \A o \in overwritten : o.match \in {Wildcard, o.version}

\* A version is replaced once: two PUTs that saw the same row do not both succeed.
ReplacedOnce == \A o, p \in overwritten : o.version = p.version => o = p

LayoutHolds == LayoutTypeOK /\ NamedIsReplaced /\ ReplacedOnce
=================================================================================
