----------------------------- MODULE PhaseStream -----------------------------
(***************************************************************************)
(* Phase streams: lists of intervals [start, end) of a match, each in one  *)
(* of the three official phases (internal/replay/review/phase_ops.go).     *)
(***************************************************************************)
EXTENDS Integers, Sequences

\* ValidPhases.
Phase == {"laning", "midgame", "decisive"}

\* validateStream: the intervals cover 0 .. eligible - 1 without gap or
\* overlap, and laning is not taken up again once it was left.
ValidStream(w, eligible) ==
    /\ w # <<>>
    /\ w[1].start = 0 /\ w[Len(w)].end = eligible
    /\ \A i \in DOMAIN w : w[i].phase \in Phase /\ w[i].start < w[i].end
    /\ \A i \in DOMAIN w \ {1} : w[i].start = w[i - 1].end
    /\ \A i, j, k \in DOMAIN w :
           ~(/\ i < j /\ j < k
             /\ w[i].phase = "laning" /\ w[j].phase # "laning" /\ w[k].phase = "laning")
=============================================================================
