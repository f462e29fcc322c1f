---------------------------- MODULE MCPhaseReview ----------------------------
EXTENDS PhaseReview

\* A match that went through all phases.
Iv(from, to, p) == [start |-> from, end |-> to, phase |-> p]
Emitted == {<<Iv(0, 1, "laning"), Iv(1, 2, "midgame"), Iv(2, Eligible, "decisive")>>}
=============================================================================
