-------------------------------- MODULE Scoring --------------------------------
(***************************************************************************)
(* The rules of package scoring: how the observations of a tournament are  *)
(* pooled, ranked within a cohort, and turned into the axes and the totals *)
(* of a player and of a team.                                              *)
(*                                                                         *)
(* A raw value is a fraction <<n, d>>, d > 0. A percentile is a whole      *)
(* number of 1/Scale points, an axis of 1/(Scale * Whole) points, so that  *)
(* every mean the code takes is exact; but that of the experimental        *)
(* components of an axis is rounded down.                                  *)
(***************************************************************************)
EXTENDS Integers, Sequences, FiniteSets, FiniteSetsExt

CONSTANTS
    Account, Team, Role,
    Metric,             \* the metrics of the registry
    Rule,               \* the family of the aggregation rule of each
    LowerBetter,        \* those whose direction is lower_better
    Official,           \* official_score_eligible
    Experimental,       \* experimental_score_eligible: V3, never Official
    Axis,
    Component,          \* official_axis_components_by_role, in parts of Whole
    AxisWeight,         \* axis_weights_by_role
    Mandatory,          \* mandatory_axes_by_role
    V3Component,        \* experimental_components_by_axis
    MinMatches, MinAxes,
    MinExperimental,    \* minimum_experimental_axes
    MinCoverage,        \* minimum_original_axis_weight_coverage
    Base, V3Share,      \* the weights of the experimental formula
    TeamComponent, TeamWeight, TeamMandatory, TeamOptional,
    TeamMinMatches, TeamMinAxes,
    Whole, Scale

SumOf(f) == MapThenSumSet(LAMBDA k : f[k], DOMAIN f)

\* Contract.Validate. That the official axes of a player have official
\* components only is not among what is checked.
ValidContract ==
    \A r \in Role :
        /\ SumOf(AxisWeight[r]) = Whole
        /\ \A x \in Axis : Component[r][x] # <<>> => SumOf(Component[r][x]) = Whole

\* TeamContract.Validate and ValidateWithRegistry.
ValidTeamContract ==
    /\ \A x \in Axis : /\ TeamWeight[x] >= 0
                       /\ SumOf(TeamComponent[x]) = Whole
                       /\ DOMAIN TeamComponent[x] \subseteq Official
    /\ TeamMandatory # {} /\ TeamOptional # {}
    /\ TeamMandatory \cap TeamOptional = {}
    /\ TeamMandatory \cup TeamOptional = Axis

ASSUME ContractAssumption ==
    /\ Official \cap Experimental = {}
    /\ Rule \in [Metric -> {"rate", "percentile", "max", "seconds", "sum"}]
    /\ ValidContract /\ ValidTeamContract

\* What the frozen contracts have beyond what is validated: no weight below 0,
\* and of the mandatory axes not all without weight.
ASSUME FrozenAssumption ==
    /\ IsFiniteSet(Metric) /\ IsFiniteSet(Axis)
    /\ Official \cup Experimental \subseteq Metric
    /\ \A r \in Role :
          /\ AxisWeight[r] \in [Axis -> Nat]
          /\ Mandatory[r] \subseteq Axis /\ \E x \in Mandatory[r] : AxisWeight[r][x] > 0
          /\ \A x \in Axis : /\ Component[r][x] \in [DOMAIN Component[r][x] -> Nat]
                             /\ DOMAIN Component[r][x] \subseteq Metric
    /\ {Whole, Scale, MinCoverage} \subseteq Nat \ {0}
    /\ {MinMatches, MinAxes, MinExperimental, Base, V3Share} \subseteq Nat

\* The points are fine enough for the mean ranks of every cohort there may be.
ASSUME ScaleAssumption == \A n \in 1 .. Cardinality(Account) : (50 * Scale) % n = 0

-----------------------------------------------------------------------------
(* Fractions.                                                              *)

Fraction == Int \X (Nat \ {0})
Zero == <<0, 1>>
Plus(x, y) == <<x[1] * y[2] + y[1] * x[2], x[2] * y[2]>>
Less(x, y) == x[1] * y[2] < y[1] * x[2]
Same(x, y) == x[1] * y[2] = y[1] * x[2]
Over(x, y) == <<x[1] * y[2], x[2] * y[1]>>
Total(f, S) == MapThenFoldSet(Plus, Zero, LAMBDA k : f[k], LAMBDA T : CHOOSE k \in T : TRUE, S)

-----------------------------------------------------------------------------
(* aggregateValues: the observations of a metric, by key.                  *)

\* Numerator and denominator are there or not: <<>> or <<fraction>>; what is
\* counted or timed is never less than 0.
IsObservation(o) ==
    /\ o.value \in Fraction
    /\ o.num # <<>> => o.num[1] \in Fraction
    /\ o.den # <<>> => o.den[1] \in Fraction /\ o.den[1][1] >= 0
\* Where there was no chance nothing was done: the numerator of a rate counts
\* among what its denominator counts. Raw values of percentiles are per something.
HasChance(metric, o) ==
    /\ Rule[metric] = "rate" /\ o.num # <<>> /\ o.num[1][1] # 0 =>
          o.den # <<>> /\ Less(Zero, o.den[1])
    /\ Rule[metric] = "percentile" /\ o.den # <<>> => Less(Zero, o.den[1])
Given(obs, part) == {k \in DOMAIN obs : obs[k][part] # <<>>}
SumGiven(obs, part) ==
    LET S == Given(obs, part) IN Total([k \in S |-> obs[k][part][1]], S)
SumValue(obs) == Total([k \in DOMAIN obs |-> obs[k].value], DOMAIN obs)

\* All of one version: artifacts of other versions do not get here.
Aggregable(metric, obs) ==
    obs # <<>> /\ (Rule[metric] = "rate" => Less(Zero, SumGiven(obs, "den")))

\* A slip: the mean of the rates for the rate of the sums.
Aggregate_MeanOfRates(metric, obs) ==
    [value |-> Over(SumValue(obs), <<Cardinality(DOMAIN obs), 1>>),
     num |-> SumGiven(obs, "num"), den |-> SumGiven(obs, "den"),
     matches |-> Cardinality(DOMAIN obs), lineage |-> UNION {obs[k].lineage : k \in DOMAIN obs}]

Aggregate(metric, obs) ==
    LET num == SumGiven(obs, "num")
        den == SumGiven(obs, "den")
        sum == SumValue(obs)
        greatest == CHOOSE k \in DOMAIN obs :
                        \A j \in DOMAIN obs : ~Less(obs[k].value, obs[j].value)
        rule == Rule[metric]
        hasDen == Less(Zero, den)
    IN  [value |-> CASE rule = "rate" \/ (rule = "percentile" /\ hasDen) -> Over(num, den)
                     [] rule = "percentile" /\ ~hasDen ->
                            Over(sum, <<Cardinality(DOMAIN obs), 1>>)
                     [] rule = "max" -> obs[greatest].value
                     [] rule \in {"seconds", "sum"} -> sum,
         num |-> CASE rule \in {"rate", "percentile"} -> num
                   [] rule = "max" -> obs[greatest].value
                   [] rule = "seconds" -> sum
                   [] rule = "sum" -> IF Given(obs, "num") # {} THEN num ELSE sum,
         den |-> IF rule \in {"max", "sum"} THEN Zero ELSE den,
         matches |-> Cardinality(DOMAIN obs),
         lineage |-> UNION {obs[k].lineage : k \in DOMAIN obs}]

-----------------------------------------------------------------------------
(* MidRankPercentile and Invert.                                           *)

\* A slip: ties get the rank above them, not the middle one.
Percentile_NoTies(v, cohort) ==
    LET below == {k \in DOMAIN cohort : Less(cohort[k], v)}
    IN  (100 * Scale * Cardinality(below)) \div Cardinality(DOMAIN cohort)

Percentile(v, cohort) ==
    LET below == {k \in DOMAIN cohort : Less(cohort[k], v)}
        equal == {k \in DOMAIN cohort : Same(cohort[k], v)}
    IN  (50 * Scale * (2 * Cardinality(below) + Cardinality(equal)))
            \div Cardinality(DOMAIN cohort)

\* A slip: a percentile is taken for a share of one.
Invert_OfOne(p) == Scale - p

Invert(p) == 100 * Scale - p

\* The percentile of v in a cohort of at least minimum values.
Ranked(metric, v, cohort) ==
    IF metric \in LowerBetter THEN Invert(Percentile(v, cohort)) ELSE Percentile(v, cohort)

-----------------------------------------------------------------------------
(* The axes: computeOfficialAxes and computeTeamAxes.                      *)

Published(value) == [published |-> TRUE, value |-> value, reasons |-> {}]
Suppressed(reasons) == [published |-> FALSE, value |-> 0, reasons |-> reasons]

\* playerMissingReason and teamMissingReason.
MissingReason(metric, subject) ==
    IF metric \notin DOMAIN subject.metrics
    THEN IF metric \in DOMAIN subject.unavailable THEN subject.unavailable[metric]
         ELSE "metric_not_published"
    ELSE IF metric \notin Official THEN "metric_not_official_eligible"
    ELSE "insufficient_cohort"

\* A slip: an axis is the mean of the components there are.
OfficialAxes_Partial(components, subject, percentiles) ==
    [x \in Axis |->
        LET there == {m \in DOMAIN components[x] : m \in DOMAIN percentiles /\ m \in Official}
        IN  IF there = {} THEN Suppressed({<<x, "no_components_defined_for_role">>})
            ELSE Published(MapThenSumSet(LAMBDA m : components[x][m] * percentiles[m], there))]

\* A slip: whether a component is eligible is not asked.
OfficialAxes_Ineligible(components, subject, percentiles) ==
    [x \in Axis |->
        LET cm == components[x]
            missing == {m \in DOMAIN cm : m \notin DOMAIN percentiles}
        IN  IF cm = <<>> \/ missing # {}
            THEN Suppressed({<<m, MissingReason(m, subject)>> : m \in missing})
            ELSE Published(SumOf([m \in DOMAIN cm |-> cm[m] * percentiles[m]]))]

\* Percentiles are of published metrics only; the weights add up to Whole.
OfficialAxes(components, subject, percentiles) ==
    [x \in Axis |->
        LET cm == components[x]
            missing == {m \in DOMAIN cm : m \notin DOMAIN percentiles \cap Official}
        IN  IF cm = <<>> THEN Suppressed({<<x, "no_components_defined_for_role">>})
            ELSE IF missing # {}
            THEN Suppressed({<<m, MissingReason(m, subject)>> : m \in missing})
            ELSE Published(SumOf([m \in DOMAIN cm |-> cm[m] * percentiles[m]]))]

-----------------------------------------------------------------------------
(* The totals.                                                             *)

PublishedAxes(axes) == {x \in Axis : axes[x].published}

\* The sum of the weighted axes over the sum of the weights.
WeightedMean(axes, weight) ==
    LET A == PublishedAxes(axes)
    IN  <<SumOf([x \in A |-> weight[x] * axes[x].value]), SumOf([x \in A |-> weight[x]])>>

\* A total of the axes, unless there are reasons against it.
TotalOf(axes, weight, weights, reasons) ==
    LET mean == WeightedMean(axes, weight)
    IN  IF reasons # {} \/ mean[2] = 0
        THEN [published |-> FALSE, value |-> Zero, included |-> {}, weights |-> weights,
              reasons |-> IF reasons = {} THEN {<<"no_publishable_axes">>} ELSE reasons]
        ELSE [published |-> TRUE, value |-> mean, included |-> PublishedAxes(axes),
              weights |-> weights, reasons |-> {}]

\* The reason, if it applies.
Because(condition, reason) == IF condition THEN {<<reason>>} ELSE {}

TotalReasons(axes, mandatory, matches, minMatches, minAxes) ==
    Because(matches < minMatches, "matches")
    \cup {<<"mandatory_axis_unavailable", x>> : x \in mandatory \ PublishedAxes(axes)}
    \cup Because(Cardinality(PublishedAxes(axes)) < minAxes, "publishable_axes")

\* A slip: a mandatory axis is as optional as the others.
OfficialTotal_NoneMandatory(role, axes, matches) ==
    TotalOf(axes, AxisWeight[role], [x \in PublishedAxes(axes) |-> AxisWeight[role][x]],
            TotalReasons(axes, {}, matches, MinMatches, MinAxes))

\* computeOfficialTotal.
OfficialTotal(role, axes, matches) ==
    TotalOf(axes, AxisWeight[role], [x \in PublishedAxes(axes) |-> AxisWeight[role][x]],
            TotalReasons(axes, Mandatory[role], matches, MinMatches, MinAxes))

\* computeTeamTotal: an optional axis that is missing is told with weight 0.
TeamTotal(axes, matches) ==
    TotalOf(axes, TeamWeight,
            [x \in PublishedAxes(axes) \cup TeamOptional |->
                IF axes[x].published THEN TeamWeight[x] ELSE 0],
            TotalReasons(axes, TeamMandatory, matches, TeamMinMatches, TeamMinAxes))

-----------------------------------------------------------------------------
(* The experimental layer, in parts of Base + V3Share of an axis.          *)

\* computeExperimentalAxes.
ExperimentalAxes(official, percentiles) ==
    [x \in Axis |->
        LET there == V3Component[x] \cap DOMAIN percentiles \cap Experimental
            sum == SumOf([m \in there |-> percentiles[m]])
        IN  IF ~official[x].published THEN Suppressed({<<x, "official_axis_unavailable">>})
            ELSE IF there = {} THEN Suppressed({<<x, "no_calibrated_v3_component">>})
            ELSE Published(Base * official[x].value
                           + (V3Share * Whole * sum) \div Cardinality(there))]

\* A slip: the experimental total does not wait for the official one.
ExperimentalTotal_Alone(role, axes, official) ==
    LET E == PublishedAxes(axes)
        weights == [x \in E |-> AxisWeight[role][x]]
    IN  TotalOf(axes, AxisWeight[role], weights,
            Because(Cardinality(E) < MinExperimental, "experimental_axes"))

\* computeExperimentalTotal.
ExperimentalTotal(role, axes, official) ==
    LET E == PublishedAxes(axes)
        weights == [x \in E |-> AxisWeight[role][x]]
    IN  TotalOf(axes, AxisWeight[role], weights,
            Because(~official.published, "official_total_not_published")
            \cup Because(Cardinality(E) < MinExperimental, "experimental_axes")
            \cup Because(SumOf(weights) < MinCoverage, "weight_coverage"))
=============================================================================
