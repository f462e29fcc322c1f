--------------------------- MODULE MCReviewCommit ---------------------------
(* Two reviewers' requests for one match and one for another, whose audit  *)
(* entries share the log.                                                  *)
EXTENDS ReviewCommit, TLC

CONSTANTS m1, m2, r1, r2, r3

MCMatchOf == (r1 :> m1) @@ (r2 :> m1) @@ (r3 :> m2)

\* r1 and r2 are interchangeable.
SameMatch == Permutations({r1, r2})
=============================================================================
