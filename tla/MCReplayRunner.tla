--------------------------- MODULE MCReplayRunner ---------------------------
(* Instances of ReplayRunner: a demo that passes and one whose clock is    *)
(* refused; a registry with every role sourced and one without; two        *)
(* contracts of the metric closure.  One input changes at a time.          *)
EXTENDS ReplayRunner

CONSTANTS good, uncalibrated, full, partial, old, new

AllGates == [d \in Demo |-> IF d = uncalibrated THEN "clock" ELSE "none"]
Full == {full}
Usual == [demo |-> good, registry |-> full, closure |-> old]
Settings ==
    {Usual, [Usual EXCEPT !.demo = uncalibrated], [Usual EXCEPT !.registry = partial],
     [Usual EXCEPT !.closure = new]}
=============================================================================
