-------------------------- MODULE MCOrderLifecycle --------------------------
(* Instances of OrderLifecycle for TLC.                                     *)
EXTENDS OrderLifecycle, TLC

CONSTANTS o1, r1, r2, c1, c2

\* One order: its POST sent once or retried, and its DELETEs.
OneOrder    == {o1}
OnePost     == r1 :> o1
RetriedPost == (r1 :> o1) @@ (r2 :> o1)
NoDeletes   == [c \in {} |-> o1]
TwoDeletes  == [c \in {c1, c2} |-> o1]

\* The retries of one POST are interchangeable, and so are the DELETEs.
Interchangeable == Permutations({r1, r2})
InterchangeableDeletes == Permutations({c1, c2})
=============================================================================
