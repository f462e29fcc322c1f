----------------------------- MODULE PhaseEngine -----------------------------
(***************************************************************************)
(* The online engine that cuts a match into laning, midgame and decisive   *)
(* phases (internal/replay/phase), fed with the facts of a demo in order   *)
(* of game second.  A second is judged once an input of a later one        *)
(* arrives; seconds without inputs are never judged.                       *)
(*                                                                         *)
(* The lane-structure rule is a stub in the code that never fires, so hero *)
(* positions and respawns count as no more than the passing of a second.   *)
(* Confidence and missing inputs are constants there and left out.         *)
(***************************************************************************)
EXTENDS FiniteSets, Functions, PhaseStream

CONSTANTS
    Hero,
    GameEnd,            \* GameEndSecond: the last eligible second
    LastSecond,         \* the last second facts may carry
    BuybackWindow,      \* trailing seconds two buybacks count in (120)
    DamageWindow,       \* seconds before, that damage counts in (20)
    DeathWindow,        \* seconds before, that deaths count in (30)
    FightHeroes,        \* heroes in a major fight (6)
    Quiet,              \* seconds without evidence that end a round (30)
    MaxInputs           \* bound on the inputs that are evidence

ASSUME ConstantsAssumption ==
    /\ GameEnd \in Nat /\ LastSecond \in Nat /\ GameEnd <= LastSecond
    /\ BuybackWindow \in Nat \ {0}
    /\ {DamageWindow, DeathWindow, FightHeroes, MaxInputs} \subseteq Nat
    /\ Quiet \in Nat \ {0}

VARIABLES
    e,          \* the engine
    output,     \* what End returned: the intervals and eligible seconds
    fed         \* inputs that are evidence

vars == <<e, output, fed>>

Kinds == {"death", "buyback", "tower", "rax", "ancient", "damage", "position"}
Decisive == {"death", "buyback", "tower", "rax"}
Second == 0 .. LastSecond
Input == [second : Second, kind : {"death", "damage"}, hero : Hero]
         \cup [second : Second, kind : Kinds \ {"death", "damage"}, hero : {"none"}]

None == -1
Pending == [eligible |-> None, intervals |-> <<>>]

\* Deaths and buybacks are counted per second; of buildings it matters that
\* one fell, of damage who took part.
NewEngine ==
    [current |-> "laning", start |-> 0, round |-> 0, second |-> None,
     deaths |-> [s \in Second |-> 0], buybacks |-> [s \in Second |-> 0],
     towers |-> {}, raxes |-> {}, damage |-> [s \in Second |-> {}],
     ancient |-> None, lastEvidence |-> None, evidence |-> {},
     intervals |-> <<>>, resets |-> <<>>, ended |-> FALSE]

\* The seconds of a stretch of the match.
Stretch(from, to) == (from .. to) \cap Second
Count(counts, stretch) == SumFunctionOnSet(counts, stretch)

-----------------------------------------------------------------------------
(* The judgement of a finished second s.                                   *)

\* closeInterval: the evidence since the last boundary goes with it.
CloseInterval(g, end, next) ==
    IF end <= g.start THEN g
    ELSE [g EXCEPT
            !.intervals = Append(@, [start |-> g.start, end |-> end, phase |-> g.current,
                                     round |-> g.round, evidence |-> g.evidence]),
            !.resets = IF g.current = "decisive" /\ next = "midgame"
                       THEN Append(@, [start |-> end, evidence |-> g.evidence]) ELSE @,
            !.evidence = {}]

Transition_Next(g, s, to) ==     \* a slip: the boundary is the second after
    [CloseInterval(g, s + 1, to) EXCEPT !.current = to, !.start = s + 1]

Transition(g, s, to) ==
    [CloseInterval(g, s, to) EXCEPT
        !.current = to,
        !.round = IF to = "decisive" THEN @ + 1 ELSE @,
        !.start = s]

MajorFight(g, s) ==
    /\ Cardinality(UNION {g.damage[t] : t \in Stretch(s - DamageWindow, s)}) >= FightHeroes
    /\ Count(g.deaths, Stretch(s - DeathWindow, s)) >= 2

ShouldEnterMidgame(g, s) == s \in g.towers

ShouldEnterDecisive(g, s) ==
    \/ Count(g.buybacks, Stretch(s - BuybackWindow + 1, s)) >= 2
    \/ s \in g.raxes
    \/ MajorFight(g, s)

ShouldReset(g, s) ==
    /\ s - g.lastEvidence >= Quiet
    /\ \A t \in Stretch(g.lastEvidence + 1, s) :
           t \notin g.towers \cup g.raxes /\ g.deaths[t] = 0

FinalizeSecond(g, s) ==
    CASE g.ended \/ s < 0 -> g
      [] ~g.ended /\ s >= 0 /\ g.ancient # None /\ g.ancient <= s ->
            [CloseInterval(g, s + 1, "ended") EXCEPT !.ended = TRUE]
      [] OTHER ->
            CASE g.current = "laning" /\ ShouldEnterMidgame(g, s) -> Transition(g, s, "midgame")
              [] g.current = "midgame" /\ ShouldEnterDecisive(g, s) -> Transition(g, s, "decisive")
              [] g.current = "decisive" /\ ShouldReset(g, s) -> Transition(g, s, "midgame")
              [] OTHER -> g

-----------------------------------------------------------------------------
Init == e = NewEngine /\ output = Pending /\ fed = 0

\* The input is recorded.
Recorded(g, in, last) ==
    LET t == in.second
        h == [g EXCEPT !.evidence = @ \cup {t}, !.lastEvidence = last]
    IN
    CASE in.kind = "death"   -> [h EXCEPT !.deaths[t] = @ + 1, !.damage[t] = @ \cup {in.hero}]
      [] in.kind = "buyback" -> [h EXCEPT !.buybacks[t] = @ + 1]
      [] in.kind = "tower"   -> [h EXCEPT !.towers = @ \cup {t}]
      [] in.kind = "rax"     -> [h EXCEPT !.raxes = @ \cup {t}]
      [] in.kind = "damage"  -> [h EXCEPT !.damage[t] = @ \cup {in.hero}]
      [] in.kind = "ancient" -> IF g.ancient = None THEN [h EXCEPT !.ancient = t] ELSE g
      [] OTHER               -> g

Take_Buyback(g, in) ==      \* a slip: a buyback does not keep a round alive
    Recorded(g, in, IF in.kind \in Decisive \ {"buyback"} THEN in.second ELSE g.lastEvidence)

Take(g, in) ==
    Recorded(g, in, IF in.kind \in Decisive THEN in.second ELSE g.lastEvidence)

\* A slip: the input is recorded before the second it ends is judged.
Receive_TakeFirst(g, in) ==
    LET h == IF in.second > GameEnd THEN g ELSE Take(g, in) IN
    IF in.second > h.second
    THEN [FinalizeSecond(h, h.second) EXCEPT !.second = in.second] ELSE h

Receive(g, in) ==
    LET h == IF in.second > g.second
             THEN [FinalizeSecond(g, g.second) EXCEPT !.second = in.second] ELSE g
    IN  IF in.second > GameEnd THEN h ELSE Take(h, in)

\* Engine_.Feed, as runner.buildPhase calls it.
Feed(in) ==
    /\ output = Pending
    /\ in.second >= e.second
    /\ IF in.kind = "position" THEN UNCHANGED fed ELSE fed < MaxInputs /\ fed' = fed + 1
    /\ e' = IF e.ended THEN e ELSE Receive(e, in)
    /\ UNCHANGED output

CloseAt_NoLast(g) ==        \* a slip: the last second is not judged
    IF g.ended THEN g
    ELSE [CloseInterval(g, GameEnd + 1, "ended") EXCEPT !.ended = TRUE]

\* The last second is judged, then the last interval closed.
CloseAt(g) ==
    LET h == IF g.ancient # None /\ g.ancient < GameEnd
             THEN [FinalizeSecond(g, g.second) EXCEPT !.second = g.ancient] ELSE g
        k == FinalizeSecond(h, h.second)
    IN  IF k.ended THEN k
        ELSE [CloseInterval(k, GameEnd + 1, "ended") EXCEPT !.ended = TRUE]

EligibleSeconds(g) == IF g.ancient # None /\ g.ancient < GameEnd THEN g.ancient + 1 ELSE GameEnd + 1

\* Engine_.End.
End ==
    /\ output = Pending
    /\ e' = IF e.ended THEN e ELSE CloseAt(e)
    /\ output' = [eligible |-> EligibleSeconds(e'), intervals |-> e'.intervals]
    /\ UNCHANGED fed

Next == End \/ \E in \in Input : Feed(in)

Spec == Init /\ [][Next]_vars

-----------------------------------------------------------------------------
\* The engine's state keeps its shape.
TypeOK ==
    /\ e.current \in Phase /\ e.round \in Nat /\ e.ended \in BOOLEAN
    /\ {e.start, e.second, e.ancient, e.lastEvidence} \subseteq Second \cup {None}
    /\ \A i \in DOMAIN e.intervals : e.intervals[i].phase \in Phase
    /\ output.eligible \in {None} \cup 1 .. GameEnd + 1

\* What a review accepts: intervals without gap or overlap, laning never
\* taken up again, that end with the eligible seconds (review.validateStream).
Reviewable == ValidStream(output.intervals, output.eligible)

\* The phases of a match cover it: a match that ended with an ancient lost is
\* cut exactly up to that second, one that did not at least up to its last
\* (docs/specs/2026-08-17-ti2026-replay-analytics-implementation.md:632).
MatchIsCovered ==
    output # Pending =>
        IF e.ancient # None THEN Reviewable
        ELSE ValidStream(output.intervals, output.intervals[Len(output.intervals)].end)
             /\ output.intervals[Len(output.intervals)].end >= output.eligible

\* A hero died or bought back, a tower or barracks fell.
Stirring(t) == e.deaths[t] + e.buybacks[t] > 0 \/ t \in e.towers \cup e.raxes

\* A round is over only after Quiet seconds in which no hero died or bought
\* back and no tower or barracks fell (shouldReset's debounce).
ResetAfterQuiet ==
    \A i \in DOMAIN e.resets :
        \A t \in Stretch(e.resets[i].start - Quiet + 1, e.resets[i].start) : ~Stirring(t)

\* No boundary is drawn on evidence from after it: what an interval rests on
\* had happened by its end
\* (docs/specs/2026-08-17-ti2026-replay-analytics-implementation.md:305).
NoLookAhead ==
    \A i \in DOMAIN e.intervals :
        \A v \in e.intervals[i].evidence : v <= e.intervals[i].end
=============================================================================
