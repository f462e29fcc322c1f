------------------------------ MODULE ScoreGraph ------------------------------
(***************************************************************************)
(* The corpus of a set of rows, its scores, and the validator that every   *)
(* score document passes before it is written or served. A row is a player *)
(* in a match (PlayerMatch), by the pair of the two; every aggregate names *)
(* the entities it was made from.                                          *)
(***************************************************************************)
EXTENDS Scoring

Ref(kind, match, id) == [kind |-> kind, match |-> match, id |-> id]
NoMatch == 0

\* A slip: the name of what is of one match leaves the match out.
AggregationRef_AnyMatch(scope, subject, match, metric) ==
    Ref("aggregation", match, <<scope, subject, NoMatch, metric>>)

\* withAggregationRef: the reference of an aggregate of a metric.
AggregationRef(scope, subject, match, metric) ==
    Ref("aggregation", match, <<scope, subject, match, metric>>)

-----------------------------------------------------------------------------
(* NewCorpus: tournaments, teams and cohorts.                              *)

\* The metrics that can be aggregated from what was observed by metric, each
\* with the reference of the entity it becomes.
Pool(observed, scope, subject, match) ==
    [m \in {m \in Metric : Aggregable(m, observed[m])} |->
        LET a == Aggregate(m, observed[m])
        IN  [a EXCEPT !.lineage = @ \cup {AggregationRef(scope, subject, match, m)}]]

Observed(rows, keys) ==
    [m \in Metric |-> [k \in {k \in keys : m \in DOMAIN rows[k].metrics} |->
                          rows[k].metrics[m]]]

\* The rows that tell why a metric is not there, for the metrics of which one does.
Telling(rows, keys) ==
    LET telling(m) == {k \in keys : m \in DOMAIN rows[k].unavailable}
    IN  [m \in {m \in Metric : telling(m) # {}} |-> telling(m)]
\* The reason of a metric without an aggregate, from the row picked for it.
Unavailable(rows, picked, published) ==
    [m \in DOMAIN picked \ published |-> rows[picked[m]].unavailable[m]]
First(S) == CHOOSE k \in S : \A j \in S : k[1] < j[1] \/ (k[1] = j[1] /\ k[2] <= j[2])
Last(S) == CHOOSE k \in S : \A j \in S : j[1] <= k[1]

Matches(keys) == {k[1] : k \in keys}

\* buildTournaments: a record for each account in each role it played.
Subjects(rows) == {<<rows[k].account, rows[k].role>> : k \in DOMAIN rows}

Tournament(rows, s) ==
    LET keys == {k \in DOMAIN rows : <<rows[k].account, rows[k].role>> = s}
        metrics == Pool(Observed(rows, keys), "player_tournament", s, NoMatch)
        telling == Telling(rows, keys)
    IN  [matches |-> Matches(keys), metrics |-> metrics,
         unavailable |-> Unavailable(rows, [m \in DOMAIN telling |-> Last(telling[m])],
                                     DOMAIN metrics)]

\* buildTeams: a team in a match, and in all its matches.
TeamMatch(rows, t, m) ==
    LET keys == {k \in DOMAIN rows : rows[k].team = t /\ k[1] = m}
    IN  Pool(Observed(rows, keys), "team_match", t, m)

\* A slip: what the aggregate of a match was made from is forgotten.
AsObservation_NoLineage(a) ==
    [value |-> a.value, num |-> <<a.num>>, den |-> <<a.den>>, lineage |-> {}]

\* Numerator and denominator of an aggregate are there, 0 if need be.
AsObservation(a) ==
    [value |-> a.value, num |-> <<a.num>>, den |-> <<a.den>>, lineage |-> a.lineage]

TeamTournament(rows, t, byMatch) ==
    LET keys == {k \in DOMAIN rows : rows[k].team = t}
        observed == [metric \in Metric |->
            [m \in {m \in DOMAIN byMatch : metric \in DOMAIN byMatch[m]} |->
                AsObservation(byMatch[m][metric])]]
        metrics == Pool(observed, "team_tournament", t, NoMatch)
        telling == Telling(rows, keys)
    IN  [matches |-> Matches(keys), metrics |-> metrics,
         unavailable |-> Unavailable(rows, [m \in DOMAIN telling |-> First(telling[m])],
                                     DOMAIN metrics)]

TeamsOf(rows) == {rows[k].team : k \in DOMAIN rows}

TeamMatches(rows) ==
    [t \in TeamsOf(rows) |->
        [m \in Matches({k \in DOMAIN rows : rows[k].team = t}) |-> TeamMatch(rows, t, m)]]

NewCorpus(rows, teamMatches) ==
    [rows |-> rows, teamMatches |-> teamMatches,
     tournaments |-> [s \in Subjects(rows) |-> Tournament(rows, s)],
     teams |-> [t \in TeamsOf(rows) |-> TeamTournament(rows, t, teamMatches[t])]]

\* buildCohorts: a value for each subject that has the metric.
Cohort(subjects, metric) ==
    [s \in {s \in DOMAIN subjects : metric \in DOMAIN subjects[s].metrics} |->
        subjects[s].metrics[metric].value]

-----------------------------------------------------------------------------
(* The scores of a corpus.                                                 *)

\* The percentiles of a subject among its peers; a cohort below the minimum
\* ranks nobody.
Percentiles(s, peers, minimum) ==
    [m \in {m \in DOMAIN peers[s].metrics : Cardinality(DOMAIN Cohort(peers, m)) >= minimum} |->
        Ranked(m, peers[s].metrics[m].value, Cohort(peers, m))]

\* A slip: players are ranked among all players.
Peers_AllRoles(corpus, s) == corpus.tournaments

Peers(corpus, s) ==
    [u \in {u \in DOMAIN corpus.tournaments : u[2] = s[2]} |-> corpus.tournaments[u]]

ScorePlayer(corpus, s) ==
    LET pt == corpus.tournaments[s]
        percentiles == Percentiles(s, Peers(corpus, s), MinMatches)
        axes == OfficialAxes(Component[s[2]], pt, percentiles)
        total == OfficialTotal(s[2], axes, Cardinality(pt.matches))
        dashed == ExperimentalAxes(axes, percentiles)
    IN  [record |-> pt, percentiles |-> percentiles, axes |-> axes, total |-> total,
         dashed |-> dashed, dashedTotal |-> ExperimentalTotal(s[2], dashed, total)]

\* ScoreTeam; the team registry has no experimental recipe, so that layer is
\* always suppressed.
ScoreTeam(corpus, t) ==
    LET tt == corpus.teams[t]
        percentiles == Percentiles(t, corpus.teams, TeamMinMatches)
        axes == OfficialAxes(TeamComponent, tt, percentiles)
    IN  [record |-> tt, percentiles |-> percentiles, axes |-> axes,
         total |-> TeamTotal(axes, Cardinality(tt.matches))]

\* ComputeAndPersist, before the validation.
ScoresOf(corpus) ==
    [matches |-> corpus.rows, teamMatches |-> corpus.teamMatches,
     players |-> [s \in DOMAIN corpus.tournaments |-> ScorePlayer(corpus, s)],
     teams |-> [t \in DOMAIN corpus.teams |-> ScoreTeam(corpus, t)]]

\* The scores of some rows; the set of the one there is, so that each stage is
\* computed once.
Scorings(rows) ==
    {ScoresOf(corpus) : corpus \in
        {NewCorpus(rows, teamMatches) : teamMatches \in {TeamMatches(rows)}}}

-----------------------------------------------------------------------------
(* ValidateCorpusScores.                                                   *)

Aggregations(a) == {r \in a.lineage : r.kind = "aggregation"}

\* ValidateMatchScores.
ValidRows(cs) ==
    \A k \in DOMAIN cs.matches :
        \A m \in DOMAIN cs.matches[k].unavailable : cs.matches[k].unavailable[m] # ""

\* validateAggregatedMap: its own reference and no other.
ValidPlayers(cs) ==
    \A s \in DOMAIN cs.players : LET pt == cs.players[s].record IN
        /\ \A m \in DOMAIN pt.metrics :
              Aggregations(pt.metrics[m]) = {AggregationRef("player_tournament", s, NoMatch, m)}
        /\ \A m \in DOMAIN pt.unavailable : pt.unavailable[m] # ""

\* validateTeamMatchEntities: its own reference, and all of one match.
ValidTeamMatches(cs) ==
    \A t \in DOMAIN cs.teamMatches : \A n \in DOMAIN cs.teamMatches[t] :
        /\ n \in Matches(DOMAIN cs.matches)
        /\ \A m \in DOMAIN cs.teamMatches[t][n] : LET a == cs.teamMatches[t][n][m] IN
              /\ Aggregations(a) = {AggregationRef("team_match", t, n, m)}
              /\ \A r \in a.lineage : r.match = n

\* validateTeamTournamentAggregates: the matches it counts, the entities it
\* names, and the value they give again.
ValidTeams(cs) ==
    /\ DOMAIN cs.teamMatches = DOMAIN cs.teams
    /\ \A t \in DOMAIN cs.teams : LET tt == cs.teams[t].record  byMatch == cs.teamMatches[t] IN
          /\ DOMAIN byMatch = tt.matches
          /\ \A m \in DOMAIN tt.metrics :
                LET children == {n \in tt.matches : m \in DOMAIN byMatch[n]}
                    a == tt.metrics[m]
                    again == Aggregate(m, [n \in children |-> AsObservation(byMatch[n][m])])
                IN  /\ a.matches = Cardinality(children)
                    /\ Aggregations(a) = {AggregationRef("team_tournament", t, NoMatch, m)}
                            \cup {AggregationRef("team_match", t, n, m) : n \in children}
                    /\ Same(again.value, a.value)
                    /\ Same(again.num, a.num) /\ Same(again.den, a.den)
          /\ \A m \in DOMAIN tt.unavailable : tt.unavailable[m] # ""

Valid(cs) == ValidRows(cs) /\ ValidPlayers(cs) /\ ValidTeamMatches(cs) /\ ValidTeams(cs)

-----------------------------------------------------------------------------
(* Following the links: Server.serveAggregation.                           *)

\* What is searched for an id, each aggregate with the match it is of.
Entities(cs) ==
    (UNION {
        UNION {{[match |-> n, of |-> cs.teamMatches[t][n][m]] : m \in DOMAIN cs.teamMatches[t][n]} :
                    n \in DOMAIN cs.teamMatches[t]} : t \in DOMAIN cs.teamMatches})
    \cup (UNION {
        {[match |-> NoMatch, of |-> r.metrics[m]] : m \in DOMAIN r.metrics} :
            r \in {cs.players[s].record : s \in DOMAIN cs.players}
                    \cup {cs.teams[t].record : t \in DOMAIN cs.teams}})

\* What may be served for an id, and the links shown under it.
Served(entities, id) ==
    {[of |-> e.of, children |-> {r \in e.of.lineage : r.kind # "aggregation" \/ r.id # id}] :
        e \in {e \in entities : \E r \in Aggregations(e.of) : r.id = id /\ r.match = e.match}}
=============================================================================
