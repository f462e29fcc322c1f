----------------------------- MODULE MatchMetrics -----------------------------
(***************************************************************************)
(* The direct metrics of a match: kills, assists, deaths, hero damage and  *)
(* objective damage of each hero, in each official phase and in the whole  *)
(* match (metrics.Calculator).  Of the other player metrics of the         *)
(* registry, computeMetric says that they are unavailable, whatever the    *)
(* facts; they, the evidence lists and the descriptive fields of a row are *)
(* left out, and each damage fact counts one.                              *)
(*                                                                         *)
(* A phase stream is [eligible, intervals], in seconds; a row of the       *)
(* result is about a hero, a metric and a scope.                           *)
(***************************************************************************)
EXTENDS MatchFacts

CONSTANT Radiant        \* the heroes of one team

ASSUME MetricsAssumption == Radiant \subseteq Hero

Official == {"laning", "midgame", "decisive"}
Whole_match == "whole_match"
Scope == Official \cup {Whole_match}
NoScope == "none"
\* directPhaseMetric, and what computeMetric has values for.
Metric == {"kill", "assist", "death", "hero_damage", "objective_damage"}

Objective == {"tower", "roshan"}        \* isObjectiveTarget

Opposing(a, b) ==
    a # Nobody /\ b # Nobody /\ (a \in Radiant) # (b \in Radiant)

-----------------------------------------------------------------------------
\* validOfficialPhaseCoverage.
ValidCoverage(ph) ==
    LET w == ph.intervals IN
    /\ ph.eligible > 0 /\ w # <<>>
    /\ \A i \in DOMAIN w :
          /\ w[i].phase \in Official
          /\ w[i].start = (IF i = 1 THEN 0 ELSE w[i - 1].end)
          /\ w[i].end > w[i].start
    /\ Last(w).end = ph.eligible

Within(at, iv) == iv.start * Second <= at /\ at < iv.end * Second

\* A slip: an interval keeps its end.
PhaseAt_Closed(ph, at) ==
    LET hits == {i \in DOMAIN ph.intervals :
                    /\ ph.intervals[i].phase \in Official
                    /\ ph.intervals[i].start * Second <= at
                    /\ at <= ph.intervals[i].end * Second}
    IN  IF at < 0 \/ hits = {} THEN "none" ELSE ph.intervals[Min(hits)].phase

\* officialPhaseAt.
PhaseAt(ph, at) ==
    LET hits == {i \in DOMAIN ph.intervals :
                    ph.intervals[i].phase \in Official /\ Within(at, ph.intervals[i])}
    IN  IF at < 0 \/ hits = {} THEN "none" ELSE ph.intervals[Min(hits)].phase

InScope(scope, phase) == scope = Whole_match \/ scope = phase
OfScope(iv, scope) == iv.phase \in Official /\ InScope(scope, iv.phase)

\* += over a list of numbers.
SumUp(s) ==
    LET sum[n \in 0 .. Len(s)] == IF n = 0 THEN 0 ELSE sum[n - 1] + s[n]
    IN  sum[Len(s)]

\* phaseDurationMap: counts the intervals of any stream, valid or not.
Duration(ph, scope) ==
    LET w == ph.intervals
    IN  SumUp([n \in 1 .. Len(w) |->
                  IF OfScope(w[n], scope) THEN w[n].end - w[n].start ELSE 0])

\* prepareFacts: the facts that count, and in a phase of what scope.
Accepted(facts, ph, scope) ==
    IF ~ValidCoverage(ph) THEN {}
    ELSE {i \in DOMAIN facts :
              LET p == PhaseAt(ph, facts[i].at)
              IN  facts[i].at >= 0 /\ p # "none" /\ InScope(scope, p)}

-----------------------------------------------------------------------------
\* feedAccepted, recordRejected: what a fact adds to a metric of hero h.
IsHit(f) == f.type = "damage" /\ f.by # Nobody

Credits(f, h, metric) ==
    CASE metric = "kill"   -> f.type = "death" /\ f.by = h
      [] metric = "assist" -> f.type = "death" /\ h \in f.helpers
      [] metric = "death"  -> f.type = "death" /\ f.account = h
      [] metric = "hero_damage" -> IsHit(f) /\ f.by = h /\ Opposing(f.account, h)
      [] OTHER -> IsHit(f) /\ f.by = h /\ ~Opposing(f.account, h) /\ f.name \in Objective

\* A death nobody of the match died counts only when it is rejected.
Counted(facts, ph, scope, h, metric) ==
    {i \in Accepted(facts, ph, scope) :
        /\ Credits(facts[i], h, metric)
        /\ facts[i].type = "death" => facts[i].account # Nobody}

\* recordRejected, and the other damage of objectiveExclN: for the whole
\* match only the former.
Rejected(facts, ph, h, metric) ==
    {i \in DOMAIN facts \ Accepted(facts, ph, Whole_match) : Credits(facts[i], h, metric)}

OtherHits(facts, ph, scope, h) ==
    {i \in Accepted(facts, ph, scope) :
        /\ IsHit(facts[i]) /\ facts[i].by = h
        /\ ~Credits(facts[i], h, "hero_damage") /\ ~Credits(facts[i], h, "objective_damage")}

\* addOpportunity: the opposing deaths the team of h brought about.
Chances(facts, ph, scope, h) ==
    {i \in Accepted(facts, ph, scope) :
        /\ facts[i].type = "death" /\ Opposing(facts[i].account, facts[i].by)
        /\ ~Opposing(facts[i].by, h)}

-----------------------------------------------------------------------------
IsNull(f) == f.type = "sample" /\ f.alive = Unknown
IsAlive(f) == f.type = "sample" /\ f.alive = "alive"
IsDead(f) == f.type = "death" \/ (f.type = "sample" /\ f.alive = "dead")

\* By game second and place in the file.
Sooner(facts, i, j) ==
    facts[i].at < facts[j].at \/ (facts[i].at = facts[j].at /\ i < j)

\* addLifeEvent, sorted: the n-th is the one that n - 1 are sooner than.
LifeEvents(facts, ph, h) ==
    LET says == {i \in Accepted(facts, ph, Whole_match) :
                    facts[i].type \in {"death", "sample"} /\ facts[i].account = h}
    IN  [n \in 1 .. Cardinality(says) |->
            CHOOSE i \in says : Cardinality({j \in says : Sooner(facts, j, i)}) = n - 1]

\* participantEvidence: the binding of h was written, and accepted.
Bound(facts, ph, h) ==
    \E i \in Accepted(facts, ph, Whole_match) :
        facts[i].family = "participant" /\ facts[i].account = h

LifeState(start, holed, last, lives, gaps) ==
    [start |-> start, holed |-> holed, last |-> last, lives |-> lives, gaps |-> gaps]
NoLife == LifeState(0, FALSE, "unknown", <<>>, {})

\* A slip: a sample that carries no liveness is passed over.
LifeStep_Bridge(s, facts, i, bound) ==
    LET f == facts[i] IN
    CASE IsNull(f) -> s
      [] IsAlive(f) ->
            IF s.last = "alive" THEN s ELSE LifeState(i, FALSE, "alive", s.lives, s.gaps)
      [] OTHER ->
            IF s.last = "dead" THEN s
            ELSE LifeState(0, FALSE, "dead",
                           IF s.start # 0 /\ bound /\ f.at > facts[s.start].at
                           THEN Append(s.lives, <<s.start, i>>) ELSE s.lives,
                           s.gaps)

\* provenLifeIntervals: one event.  "start" is the fact a life began with.
LifeStep(s, facts, i, bound) ==
    LET f == facts[i] IN
    CASE IsNull(f) ->
            IF s.start = 0 \/ ~bound THEN s
            ELSE LifeState(s.start, TRUE, s.last, s.lives, s.gaps \cup {i})
      [] IsAlive(f) ->
            IF s.last = "alive" THEN s ELSE LifeState(i, FALSE, "alive", s.lives, s.gaps)
      [] OTHER ->
            IF s.last = "dead" THEN s
            ELSE LifeState(0, FALSE, "dead",
                           IF s.start # 0 /\ ~s.holed /\ bound /\ f.at > facts[s.start].at
                           THEN Append(s.lives, <<s.start, i>>) ELSE s.lives,
                           s.gaps)

ProvenLives(facts, ph, h) ==
    LET events == LifeEvents(facts, ph, h)
        pass[n \in 0 .. Len(events)] ==
            IF n = 0 THEN NoLife
            ELSE LifeStep(pass[n - 1], facts, events[n], Bound(facts, ph, h))
    IN  pass[Len(events)]

\* The part of a life in an interval, in quarter seconds.
Overlap(facts, life, iv) ==
    Max({0, Min({facts[life[2]].at, iv.end * Second})
            - Max({facts[life[1]].at, iv.start * Second})})

\* The part of a life in a scope.
TimeIn(facts, ph, scope, life) ==
    LET w == ph.intervals
    IN  SumUp([n \in 1 .. Len(w) |->
                  IF OfScope(w[n], scope) THEN Overlap(facts, life, w[n]) ELSE 0])

\* lifeIntersections: the lives of a scope, their time in it, and its gaps.
LivesIn(facts, ph, scope, h) ==
    LET all == ProvenLives(facts, ph, h)
        ivs == {i \in DOMAIN ph.intervals : OfScope(ph.intervals[i], scope)}
    IN  [lives |-> {l \in ToSet(all.lives) :
                       \E i \in ivs : Overlap(facts, l, ph.intervals[i]) > 0},
         time  |-> SumUp([k \in 1 .. Len(all.lives) |->
                             TimeIn(facts, ph, scope, all.lives[k])]),
         gaps  |-> {g \in all.gaps : \E i \in ivs : Within(facts[g].at, ph.intervals[i])}]

\* deathNumerator: the lives that end with a death in the scope.
Deaths(facts, ph, scope, lives) ==
    {l \in lives : facts[l[2]].type = "death"
                   /\ (scope = Whole_match \/ PhaseAt(ph, facts[l[2]].at) = scope)}

-----------------------------------------------------------------------------
\* A row without a value, and one with.
Unavailable(why) == [why |-> why, count |-> 0, chances |-> 0, time |-> 0,
                     excluded |-> 0, lives |-> {}]
Available(count, chances, time, excluded, lives) ==
    [why |-> "", count |-> count, chances |-> chances, time |-> time,
     excluded |-> excluded, lives |-> lives]

Gap == "gap"

\* computeMetric and finalizeDirectValue.
MetricRow(facts, ph, h, metric, scope) ==
    LET n == Cardinality(Counted(facts, ph, scope, h, metric))
        chances == Cardinality(Chances(facts, ph, scope, h))
        in == LivesIn(facts, ph, scope, h)
        time == Duration(ph, scope) * Second
        excluded == (IF scope = Whole_match
                     THEN Cardinality(Rejected(facts, ph, h, metric)) ELSE 0)
                    + (IF metric = "objective_damage"
                       THEN Cardinality(OtherHits(facts, ph, scope, h)) ELSE 0)
    IN  IF metric = "objective_damage" /\ n = 0 THEN Unavailable("no event")
        ELSE IF time <= 0 THEN Unavailable("no duration")
        ELSE CASE metric \in {"kill", "assist"} ->
                     IF chances = 0 THEN Unavailable("no opportunity")
                     ELSE Available(n, chances, time, excluded, {})
               [] metric = "death" ->
                     IF in.gaps # {} THEN Unavailable(Gap)
                     ELSE IF in.lives = {} THEN Unavailable("no life")
                     ELSE Available(Cardinality(Deaths(facts, ph, scope, in.lives)),
                                    Cardinality(in.lives), in.time, excluded, in.lives)
               [] OTHER ->
                     IF n = 0 THEN Unavailable("no event")
                     ELSE Available(n, n, time, excluded, {})

\* A slip: the deaths set aside are forgotten.
Listed_ValuesOnly(rows, h, metric) ==
    \E r \in rows : r[1][1] = h /\ r[1][2] = metric /\ r[2].why = ""

\* A metric of a hero that has a value, or whose deaths in the whole match
\* were set aside for a gap.
Listed(rows, h, metric) ==
    \E r \in rows : /\ r[1][1] = h /\ r[1][2] = metric
                    /\ r[2].why = "" \/ (r[2].why = Gap /\ r[1][3] = Whole_match)

\* Result: the rows of values, and of what is unavailable.  Each scope has a
\* row of its own or none; only a metric without any gets one that says why.
Result(facts, ph) ==
    LET rows == {<<k, MetricRow(facts, ph, k[1], k[2], k[3])>> :
                    k \in Hero \X Metric \X Scope}
    IN  [values |-> {r \in rows : r[2].why = ""},
         unavailable |->
             {<<r[1], Gap>> : r \in {r \in rows : r[2].why = Gap}}
             \cup {<<<<r[1][1], r[1][2], NoScope>>, r[2].why>> :
                      r \in {r \in rows : /\ r[1][3] = Whole_match
                                         /\ ~Listed(rows, r[1][1], r[1][2])}}]
=============================================================================
