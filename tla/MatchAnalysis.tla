---------------------------- MODULE MatchAnalysis ----------------------------
(***************************************************************************)
(* From a demo to what is said of its match: the gates let it pass, then   *)
(* the runner writes the fact file, finds the episodes in it and computes  *)
(* the metrics from it and from the phases (runner.RunMatch, stages 2 to   *)
(* 5).                                                                     *)
(***************************************************************************)
EXTENDS MatchGates, Episodes, MatchMetrics

CONSTANT Streams        \* the phase streams of the match, valid or not

\* phase.Output: seconds, and what is painted on them.
Interval == [phase : STRING, start : Int, end : Int]
Stream == [eligible : Int, intervals : Seq(Interval)]
ASSUME StreamsAssumption == Streams \subseteq Stream

VARIABLES
    episodes,           \* episodes.json
    phases,             \* phases.json
    result              \* metrics.json

analysisVars == <<gateVars, factVars, episodes, phases, result>>

NoStream == [eligible |-> 0, intervals |-> <<>>]
NoResult == [values |-> {}, unavailable |-> {}]

AnalysisInit ==
    /\ GateInit /\ FactsInit
    /\ episodes = <<>> /\ phases = NoStream /\ result = NoResult

\* buildEpisodes: a line that was cut off ends the run, a file that ends
\* early with a whole line is the file.
BuildEpisodes ==
    /\ stage = "published"
    /\ \/ disk = "torn" /\ stage' = "failed" /\ UNCHANGED episodes
       \/ disk # "torn" /\ stage' = "episodes" /\ episodes' = Build(file)
    /\ UNCHANGED <<feed, raw, paused, lastEmit, counted, file, disk, phases, result>>

\* buildPhases and buildMetrics; what the phases are is the phase engine's.
BuildMetrics ==
    /\ stage = "episodes" /\ stage' = "done"
    /\ phases' \in Streams
    /\ result' = Result(file, phases')
    /\ UNCHANGED <<feed, raw, paused, lastEmit, counted, file, disk, episodes>>

AnalysisNext ==
    \/ GateNext /\ UNCHANGED <<factVars, episodes, phases, result>>
    \/ /\ gate = "accepted" /\ UNCHANGED gateVars
       /\ \/ FactsNext /\ UNCHANGED <<episodes, phases, result>>
          \/ BuildEpisodes
          \/ BuildMetrics

AnalysisSpec == AnalysisInit /\ [][AnalysisNext]_analysisVars

-----------------------------------------------------------------------------
Done == stage = "done"

Keys == Hero \X Metric \X (Scope \cup {NoScope})
Values(metric, scope) ==
    {v \in result.values : v[1][2] = metric /\ v[1][3] = scope}
\* What the row counts, if there is one.
CountOf(h, metric, scope) ==
    LET mine == {v \in result.values : v[1] = <<h, metric, scope>>}
    IN  IF mine = {} THEN 0 ELSE (CHOOSE v \in mine : TRUE)[2].count
PhaseTotal(h, metric) ==
    CountOf(h, metric, "laning") + CountOf(h, metric, "midgame")
        + CountOf(h, metric, "decisive")

AnalysisTypeOK ==
    /\ manifest \in Manifests /\ messages \in DemoFeeds \cup {{}}
    /\ Len(observed) <= MaxMessages + 1
    /\ gate \in {"parse", "identity", "clock", "accepted", "quarantined", "stopped"}
    /\ feed \in Feeds \cup {{}} /\ paused \in 0 .. MaxPause
    /\ Len(raw) <= MaxEntries
    /\ \A i \in DOMAIN raw : raw[i].at >= raw[i].now
    /\ lastEmit \in [Hero -> Nat \cup {-1}]
    /\ counted \in Nat
    /\ disk \in {"ok", "short", "torn"}
    /\ stage \in {"start", "facts", "published", "episodes", "done", "failed"}
    /\ phases \in Streams \cup {NoStream}
    /\ \A v \in result.values : v[1] \in Keys /\ v[2].count \in Nat

\* The episodes are those of the facts: every fight, cut where no hero died
\* for FightGap, told only when two heroes died (not: one of them twice), and
\* over a second after the last death: as episodes.go:370 and :378 have it, where
\* the comment at :321-323 says two deaths, and FightGap after the last; every
\* death bought back, with the last death; one smoke per hero and second; every
\* real building.  Each once (episodes.Build).
EpisodesTellMatch ==
    stage \in {"episodes", "done"} =>
        LET told(kind) == {i \in DOMAIN episodes : episodes[i].kind = kind}
            all(kind) == {episodes[i] : i \in told(kind)}
        IN  /\ all("fight") = Fights(file)
            /\ all("round") = Rounds(file)
            /\ all("smoke") = Smokes(file)
            /\ Cardinality(told("fight")) = Cardinality(Fights(file))
            /\ Cardinality(told("round")) = Cardinality(RoundEnds(file))
            /\ Cardinality(told("smoke")) = Cardinality(Smokes(file))
            /\ Cardinality(told("objective")) = Cardinality(Objectives(file))
            /\ \A i \in told("objective") : \E f \in Objectives(file) :
                   /\ episodes[i].start = file[f].at
                   /\ episodes[i].who \subseteq file[f].helpers \cup {file[f].by}

\* Fact i comes before fact j in the life of a hero.
Earlier(i, j) ==
    file[i].at < file[j].at \/ (file[i].at = file[j].at /\ i < j)

\* The facts that say something of whether h lives.
Evidence(h) ==
    {i \in DOMAIN file :
        /\ file[i].type \in {"death", "sample"} /\ file[i].account = h
        /\ ValidCoverage(phases)
        /\ file[i].at >= 0 /\ file[i].at < phases.eligible * Second}

\* From i, where h comes to life, to j, where h dies, all that is said in
\* between says that h lives; what was last said before i is that h was dead.
IsLife(h, i, j) ==
    /\ i \in Evidence(h) /\ j \in Evidence(h)
    /\ IsAlive(file[i]) /\ IsDead(file[j]) /\ file[i].at < file[j].at
    /\ \A k \in Evidence(h) : Earlier(i, k) /\ Earlier(k, j) => IsAlive(file[k])
    /\ \/ \A k \in Evidence(h) : Earlier(k, i) => IsNull(file[k])
       \/ \E d \in Evidence(h) :
              /\ IsDead(file[d]) /\ Earlier(d, i)
              /\ \A k \in Evidence(h) : Earlier(d, k) /\ Earlier(k, i) => IsNull(file[k])

\* A death count rests on lives the facts prove from end to end: every such
\* life, no other, and none across a sample that does not say; the row counts
\* those that end with a death (provenLifeIntervals, deathNumerator).
LivesAreProven ==
    Done => \A v \in Values("death", Whole_match) :
        LET h == v[1][1] IN
        /\ \A l \in v[2].lives : IsLife(h, l[1], l[2])
        /\ \A i, j \in Evidence(h) : IsLife(h, i, j) => <<i, j>> \in v[2].lives
        /\ v[2].count = Cardinality({l \in v[2].lives : file[l[2]].type = "death"})
        /\ v[2].count <= Cardinality({i \in Evidence(h) : file[i].type = "death"})
        /\ v[2].time <= phases.eligible * Second

\* Some of a life lies in the phase it ends in.
HasPart(l) ==
    \E n \in DOMAIN phases.intervals :
        /\ phases.intervals[n].phase = PhaseAt(phases, file[l[2]].at)
        /\ file[l[1]].at < phases.intervals[n].end * Second
        /\ phases.intervals[n].start * Second < file[l[2]].at

\* What is said of the phases adds up to what is said of the match.  Damage:
\* exactly, and with what is excluded to all there was.  Kills and assists:
\* if all of them are of opposing deaths to the own team's credit.  Deaths: but
\* for a life that ends on the very second a phase starts and has no other part
\* in that phase (finalizeDirectValue, lifeIntersections, deathNumerator).
PhasesAddUp ==
    Done => \A v \in result.values : v[1][3] = Whole_match =>
        LET h == v[1][1]
            metric == v[1][2]
            phaseTotal == PhaseTotal(h, metric)
            all == {i \in DOMAIN file : Credits(file[i], h, metric)}
            odd == {i \in all : \/ ~Opposing(file[i].account, file[i].by)
                                \/ Opposing(file[i].by, h)}
            edge == {l \in v[2].lives : file[l[2]].type = "death" /\ ~HasPart(l)}
        IN  CASE metric = "hero_damage" ->
                     /\ v[2].count = phaseTotal
                     /\ v[2].count + v[2].excluded = Cardinality(all)
              [] metric = "objective_damage" -> v[2].count = phaseTotal
              [] metric = "death" ->
                     /\ v[2].count = phaseTotal + Cardinality(edge)
                     /\ \A l \in edge : \E n \in DOMAIN phases.intervals :
                           file[l[2]].at = phases.intervals[n].start * Second
              [] OTHER -> /\ v[2].count >= phaseTotal
                          /\ odd = {} => v[2].count = phaseTotal
                                            /\ v[2].count <= v[2].chances

\* Every metric of every hero is answered: by values or by a reason, by both
\* only for deaths, and never about one scope (Calculator.Result).
AllAnswered ==
    Done => \A h \in Hero, metric \in Metric :
        LET said == {v[1][3] : v \in {v \in result.values : v[1][1] = h /\ v[1][2] = metric}}
            unsaid == {u[1][3] : u \in {u \in result.unavailable :
                                           u[1][1] = h /\ u[1][2] = metric}}
        IN  /\ said \cup unsaid # {}
            /\ said \cap unsaid = {}
            /\ metric # "death" => said = {} \/ unsaid = {}
            /\ NoScope \in unsaid => said = {} /\ Whole_match \notin unsaid

\* The metrics are those of the facts and the phases.
MetricsReconcile == PhasesAddUp /\ AllAnswered /\ LivesAreProven
=============================================================================
