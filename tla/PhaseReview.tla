----------------------------- MODULE PhaseReview -----------------------------
(***************************************************************************)
(* From the engine to the reviewers: what End returned is written to       *)
(* phases.json (runner.buildPhases), a handler takes the machine's stream  *)
(* from there (internal/replay/api), and edits start from it.  So they     *)
(* start from streams the engine does emit.                                *)
(***************************************************************************)
EXTENDS PhaseEngine, PhaseOps

VARIABLE presented      \* the edits have begun

reviewVars == <<vars, editVars, presented>>

\* The machine's stream, without rounds and evidence: no edit looks at them.
MachineIntervals(out) ==
    [i \in DOMAIN out.intervals |-> [start |-> out.intervals[i].start,
                                     end |-> out.intervals[i].end,
                                     phase |-> out.intervals[i].phase]]

WithoutEvidence(out) ==
    [out EXCEPT !.intervals = [i \in DOMAIN @ |-> [@[i] EXCEPT !.evidence = {}]]]

\* stream is foretold: only a match that has it is presented.
ReviewInit == Init /\ EditInit /\ presented = FALSE

\* handlePhaseCorrections reads phases.json; the engine was gone when buildPhases ended.
Present ==
    /\ ~presented /\ output # Pending
    /\ output.eligible = Eligible /\ MachineIntervals(output) = stream
    /\ presented' = TRUE
    /\ output' = WithoutEvidence(output)
    /\ e' = NewEngine /\ fed' = 0
    /\ UNCHANGED editVars

ReviewNext ==
    \/ ~presented /\ Next /\ UNCHANGED <<editVars, presented>>
    \/ Present
    \/ presented /\ EditNext /\ UNCHANGED <<vars, presented>>

ReviewSpec == ReviewInit /\ [][ReviewNext]_reviewVars
=============================================================================
