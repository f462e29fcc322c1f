------------------------------ MODULE ScoreCorpus ------------------------------
(***************************************************************************)
(* What the scores of a data root say. Matches are analysed in any order,  *)
(* again, or taken back; the metric rules change; roles are overridden;    *)
(* and at any time the corpus of the verified matches is built, scored,    *)
(* validated and written (BuildCorpusFromStore, ComputeAndPersist). What   *)
(* becomes of the files is ScoreStore's.                                   *)
(***************************************************************************)
EXTENDS ScoreGraph

CONSTANTS
    Match,          \* the matches; they and the accounts are numbered in order
    Plays,          \* Plays[m]: the participants of m, each with its team
    Registered,     \* the nominal role of each account
    Form,           \* what the metrics of a match can turn out to be
    Measured,       \*   Measured[f][m][a]: the observations, by metric
    Withheld,       \*   Withheld[f][m][a]: the reasons, by metric
    Reason,         \* why a metric is withheld
    Requests,       \* the overrides somebody may ask for: match, account, role
    MaxOverrides, MaxUpgrades

ASSUME RootAssumption ==
    /\ Match \subseteq Nat \ {NoMatch} /\ Account \subseteq Nat
    /\ IsFiniteSet(Match) /\ IsFiniteSet(Account)
    /\ \A m \in Match : DOMAIN Plays[m] # {} /\ DOMAIN Plays[m] \subseteq Account
    /\ Registered \in [Account -> Role]
    /\ \A q \in Requests : q[1] \in Match /\ q[2] \in DOMAIN Plays[q[1]] /\ q[3] \in Role
    \* What is measured is, and nothing is withheld without a reason
    \* (finalizeDirectValue).
    /\ \A f \in Form, m \in Match : \A a \in DOMAIN Plays[m] :
          /\ \A metric \in DOMAIN Measured[f][m][a] : IsObservation(Measured[f][m][a][metric])
          /\ \A metric \in DOMAIN Measured[f][m][a] : HasChance(metric, Measured[f][m][a][metric])
          /\ \A metric \in DOMAIN Withheld[f][m][a] : Withheld[f][m][a][metric] \in Reason \ {""}
    /\ {MaxOverrides, MaxUpgrades} \subseteq Nat

VARIABLES
    artifacts,      \* metrics.json of each match: none that counts, of rules
                    \* no longer in force, or a form
    overrides,      \* the effective role overrides, by match and account
    upgrades,       \* changes of the metric rules so far
    outcome,        \* of the last score run, until something changes
    scores          \* what it wrote

vars == <<artifacts, overrides, upgrades, outcome, scores>>

Seats == UNION {{m} \X DOMAIN Plays[m] : m \in Match}
NoScores == [matches |-> <<>>, teamMatches |-> <<>>, players |-> <<>>, teams |-> <<>>]

Init ==
    /\ artifacts = [m \in Match |-> "none"]
    /\ overrides = <<>> /\ upgrades = 0
    /\ outcome = "none" /\ scores = NoScores

\* The scores of another state of the data root are not looked at any more.
Changed == outcome' = "none" /\ scores' = NoScores

\* The runner analyses a match, and it passes the gates.
Analyse(m) ==
    /\ \E f \in Form : artifacts' = [artifacts EXCEPT ![m] = f]
    /\ Changed /\ UNCHANGED <<overrides, upgrades>>

\* It is analysed again, and does not.
Fail(m) ==
    /\ artifacts[m] # "none"
    /\ artifacts' = [artifacts EXCEPT ![m] = "none"]
    /\ Changed /\ UNCHANGED <<overrides, upgrades>>

\* The program is replaced by one with other metric rules.
Upgrade ==
    /\ upgrades < MaxUpgrades /\ upgrades' = upgrades + 1
    /\ artifacts' = [m \in Match |-> IF artifacts[m] = "none" THEN "none" ELSE "stale"]
    /\ Changed /\ UNCHANGED overrides

\* A role override of a participant, authored for one match.
Override(m, a, r) ==
    /\ <<m, a>> \notin DOMAIN overrides /\ Cardinality(DOMAIN overrides) < MaxOverrides
    /\ overrides' = [k \in DOMAIN overrides \cup {<<m, a>>} |->
                        IF k = <<m, a>> THEN r ELSE overrides[k]]
    /\ Changed /\ UNCHANGED <<artifacts, upgrades>>

-----------------------------------------------------------------------------
(* BuildCorpusFromStore.                                                   *)

\* Registry.Effective: the override of the match, else the registry.
RoleOf(m, a) == IF <<m, a>> \in DOMAIN overrides THEN overrides[<<m, a>>] ELSE Registered[a]

\* The whole-match rows of a participant, with the evidence they came with.
Row(m, a) ==
    LET f == artifacts[m]
        observations == Measured[f][m][a]
    IN  [account |-> a, team |-> Plays[m][a], role |-> RoleOf(m, a),
         metrics |-> [metric \in DOMAIN observations |->
            [value |-> observations[metric].value,
             num |-> observations[metric].num, den |-> observations[metric].den,
             lineage |-> {Ref("metric_observation", m, <<a, metric>>)}]],
         unavailable |-> Withheld[f][m][a]]

Verified == {m \in Match : artifacts[m] # "none"}
Rows == [k \in {k \in Seats : k[1] \in Verified} |-> Row(k[1], k[2])]

\* validateMetricsArtifact: one artifact of other rules refuses the corpus.
Current == \A m \in Verified : artifacts[m] # "stale"

\* ComputeAndPersist: nothing is written unless the whole graph is valid.
Score ==
    /\ outcome = "none"
    /\ \/ /\ Current
          /\ \E rows \in {Rows} : \E cs \in Scorings(rows) :
                IF Valid(cs) THEN outcome' = "scored" /\ scores' = cs
                ELSE outcome' = "refused" /\ UNCHANGED scores
       \/ ~Current /\ outcome' = "refused" /\ UNCHANGED scores
    /\ UNCHANGED <<artifacts, overrides, upgrades>>

Next ==
    \/ \E m \in Match : Analyse(m) \/ Fail(m)
    \/ \E q \in Requests : Override(q[1], q[2], q[3])
    \/ Upgrade \/ Score

Spec == Init /\ [][Next]_vars

-----------------------------------------------------------------------------
Scored == outcome = "scored"
Players == DOMAIN scores.players

\* Why an axis is suppressed: of which of its metrics, and why that is missing.
AxisReasons ==
    (Axis \X {"no_components_defined_for_role"})
    \cup (Metric \X (Reason \cup {"metric_not_published", "metric_not_official_eligible",
                                  "insufficient_cohort"}))
Result == [published : BOOLEAN, value : Nat, reasons : SUBSET AxisReasons]

TypeOK ==
    /\ artifacts \in [Match -> Form \cup {"none", "stale"}]
    /\ DOMAIN overrides \subseteq Seats /\ \A k \in DOMAIN overrides : overrides[k] \in Role
    /\ upgrades \in 0 .. MaxUpgrades
    /\ outcome \in {"none", "scored", "refused"}
    /\ Players \subseteq Account \X Role
    /\ \A s \in Players : scores.players[s].axes \in [Axis -> Result]

-----------------------------------------------------------------------------
(* What is published, told from the rows themselves.                       *)

By(s) == {k \in DOMAIN scores.matches : scores.matches[k].account = s[1] /\ scores.matches[k].role = s[2]}

\* A metric counts for a subject when one of its rows has it, a rate when one
\* has it with a denominator.
Has(s, metric) ==
    \E k \in By(s) : /\ metric \in DOMAIN scores.matches[k].metrics
                     /\ Rule[metric] = "rate" =>
                           LET den == scores.matches[k].metrics[metric].den IN
                           den # <<>> /\ Less(Zero, den[1])
IsRanked(s, metric) ==
    Has(s, metric) /\ Cardinality({a \in Account : Has(<<a, s[2]>>, metric)}) >= MinMatches

EarnedAxes(s) ==
    {x \in Axis : LET metrics == DOMAIN Component[s[2]][x] IN
        metrics # {} /\ \A m \in metrics : m \in Official /\ IsRanked(s, m)}
EarnedDashed(s) ==
    {x \in EarnedAxes(s) : \E m \in V3Component[x] : m \in Experimental /\ IsRanked(s, m)}
EarnedTotal(s) ==
    /\ Cardinality(By(s)) >= MinMatches
    /\ Mandatory[s[2]] \subseteq EarnedAxes(s)
    /\ Cardinality(EarnedAxes(s)) >= MinAxes
EarnedDashedTotal(s) ==
    /\ EarnedTotal(s) /\ Cardinality(EarnedDashed(s)) >= MinExperimental
    /\ SumOf([x \in EarnedDashed(s) |-> AxisWeight[s[2]][x]]) >= MinCoverage

\* A total lies between the axes it is made of, whichever they are.
WithinAxes(total, axes) ==
    total.published =>
        LET within(x, y) == x * total.value[2] <= total.value[1]
                            /\ total.value[1] <= y * total.value[2]
        IN  \E x, y \in total.included : within(axes[x].value, axes[y].value)

(***************************************************************************)
(* "Axes and totals are suppressed when mandatory inputs, the subject's    *)
(* eligible match/opportunity coverage, or the coverage gates fail": what  *)
(* is published of a player, solid and dashed, is what its matches in its  *)
(* role have earned, all of it and nothing else; nothing is imputed, so a  *)
(* total is never outside the axes that were measured.                     *)
(***************************************************************************)
PublishedIsEarned ==
    \A s \in Players : LET p == scores.players[s] IN
        /\ PublishedAxes(p.axes) = EarnedAxes(s)
        /\ PublishedAxes(p.dashed) = EarnedDashed(s)
        /\ p.total.published <=> EarnedTotal(s)
        /\ p.dashedTotal.published <=> EarnedDashedTotal(s)
        /\ WithinAxes(p.total, p.axes) /\ WithinAxes(p.dashedTotal, p.dashed)
        /\ \A x \in Axis : p.axes[x].value \in 0 .. 100 * Scale * Whole

\* What a layer says, the reasons apart.
Said(results) == [x \in DOMAIN results |-> <<results[x].published, results[x].value>>]
SaidTotal(t) == <<t.published, t.value, t.included, t.weights>>
Solid(p) == <<Said(p.axes), SaidTotal(p.total)>>

(***************************************************************************)
(* "Official scores never contain V3 inputs": without any of the           *)
(* observations that are not official, every solid axis and total of every *)
(* player and team would be the same, though a contract may name such a    *)
(* metric in an axis of a player.                                          *)
(***************************************************************************)
Only(f, S) == [x \in DOMAIN f \cap S |-> f[x]]
OfficialKnowsNoV3 ==
    Scored =>
        \A rows \in {[k \in DOMAIN scores.matches |->
                        [scores.matches[k] EXCEPT !.metrics = Only(@, Official)]]} :
        \A other \in Scorings(rows) :
            /\ \A s \in Players : Solid(scores.players[s]) = Solid(other.players[s])
            /\ \A t \in DOMAIN scores.teams : Solid(scores.teams[t]) = Solid(other.teams[t])

\* The percentiles of a cohort: one half on average, in order, ties equal.
IsFair(cohort, percentile, metric) ==
    /\ SumOf(percentile) = 50 * Scale * Cardinality(DOMAIN cohort)
    /\ \A u, v \in DOMAIN cohort :
          /\ Same(cohort[u], cohort[v]) => percentile[u] = percentile[v]
          /\ Less(cohort[u], cohort[v]) => IF metric \in LowerBetter
                                          THEN percentile[u] > percentile[v]
                                          ELSE percentile[u] < percentile[v]

(***************************************************************************)
(* "Player tournament records are normalized to same-role empirical        *)
(* mid-rank percentiles": the players of a role are ranked among           *)
(* themselves, fairly, and what the rows of other roles say, or that a     *)
(* player of theirs is moved, changes nothing for them; nor do roles       *)
(* matter to a team.                                                       *)
(***************************************************************************)
RolesApart ==
    Scored =>
        /\ \A r \in Role :
              \A rows \in {Only(scores.matches,
                            {k \in DOMAIN scores.matches : scores.matches[k].role = r})} :
              \A alone \in Scorings(rows) :
              LET same == {s \in Players : s[2] = r} IN
                  /\ \A s \in same : scores.players[s] = alone.players[s]
                  /\ \A m \in Metric :
                        LET ranked == {s \in same : m \in DOMAIN scores.players[s].percentiles}
                        IN  IsFair([s \in ranked |-> scores.players[s].record.metrics[m].value],
                                   [s \in ranked |-> scores.players[s].percentiles[m]], m)
        /\ \A rows \in {[k \in DOMAIN scores.matches |->
                           [scores.matches[k] EXCEPT !.role = Registered[k[2]]]]} :
           \A asRegistered \in Scorings(rows) : scores.teams = asRegistered.teams

(***************************************************************************)
(* A team's value is that of the pool of all its players' observations,    *)
(* though it is aggregated first by match and then over the matches; a     *)
(* metric of percentiles only where all of them came with denominators.    *)
(***************************************************************************)
TeamsPoolPlayers ==
    \A t \in DOMAIN scores.teams, m \in Metric :
        LET keys == {k \in DOMAIN scores.matches : scores.matches[k].team = t /\ m \in DOMAIN scores.matches[k].metrics}
            pool == [k \in keys |-> scores.matches[k].metrics[m]]
            record == scores.teams[t].record
        IN  /\ m \in DOMAIN record.metrics <=> Aggregable(m, pool)
            /\ m \in DOMAIN record.metrics /\
                  (Rule[m] = "percentile" => \A k \in keys : pool[k].den # <<>>)
                => Same(record.metrics[m].value, Aggregate(m, pool).value)

\* An observation is reached if its metric is in the row of its seat.
Reached(r) ==
    LET seat == <<r.match, r.id[1]>>
    IN  seat \in DOMAIN scores.matches /\ r.id[2] \in DOMAIN scores.matches[seat].metrics

Observations(S) == {r \in S : r.kind = "metric_observation"}

\* Every link leads to one aggregate, which rests on nothing its parents do not
\* rest on; and what a team's tournament rests on is what its matches rest on.
LinksLead ==
    \A entities \in {Entities(scores)} : \A e \in entities :
        LET served == [r \in Aggregations(e.of) |-> Served(entities, r.id)]
            below == {r \in Aggregations(e.of) : r.match # e.match}
        IN  /\ \A r \in DOMAIN served : Cardinality(served[r]) = 1
            /\ \A r \in below : \A s \in served[r] : s.children \subseteq e.of.lineage
            /\ below # {} => Observations(e.of.lineage) =
                                Observations(UNION {UNION {s.children : s \in served[r]} : r \in below})
            /\ \A r \in Observations(e.of.lineage) : Reached(r)

(***************************************************************************)
(* The validator refuses no corpus that was built: a score run fails when  *)
(* a verified match was analysed under other metric rules, and for nothing *)
(* else, whatever is missing from the matches. And from every score that   *)
(* is stored its links lead, each to one thing, down to the observations   *)
(* it was made from.                                                       *)
(***************************************************************************)
GraphResolves ==
    /\ outcome = "refused" => ~Current
    /\ Scored => /\ Current /\ {k[1] : k \in DOMAIN scores.matches} = Verified
                 /\ LinksLead
=============================================================================
