---------------------------- MODULE MCScoreStore ----------------------------
(* Instances of ScoreStore: overrides 1 and 2 are about different matches. *)
EXTENDS ScoreStore

Targets == [c \in Call |-> c]
=============================================================================
