------------------------- MODULE ScoreCorpus_proofs -------------------------
(***************************************************************************)
(* Proofs about what the scores of a data root say, for any finite set of  *)
(* matches and accounts, any registry, contracts and measurements: no      *)
(* official score knows of what is not official; the validator accepts     *)
(* whatever is built, and every link of a stored score leads to the        *)
(* observations it was made from; what is published of a player is what    *)
(* its matches in its role have earned; a team's value is that of the pool *)
(* of its players' observations; and the players of a role are ranked      *)
(* among themselves, fairly.                                               *)
(***************************************************************************)
EXTENDS ScoreCorpus, FiniteSetTheorems, WellFoundedInduction, TLAPS

-----------------------------------------------------------------------------
(* What a score run makes of some rows.                                    *)

Corpus(rows) == NewCorpus(rows, TeamMatches(rows))

\* A row as the corpus takes it.
IsRow(r) ==
    \E account, team, role, metrics, unavailable :
        r = [account |-> account, team |-> team, role |-> role,
             metrics |-> metrics, unavailable |-> unavailable]
AreRows(rows) == rows = [k \in DOMAIN rows |-> rows[k]] /\ \A k \in DOMAIN rows : IsRow(rows[k])

LEMMA ScoringsAre == \A rows : Scorings(rows) = {ScoresOf(Corpus(rows))}
  BY DEF Scorings, Corpus

\* f and g say the same of what is in S.
Agree(f, g, S) ==
    \A m \in S : /\ m \in DOMAIN f <=> m \in DOMAIN g
                 /\ m \in DOMAIN f => f[m] = g[m]

-----------------------------------------------------------------------------
(* Official scores.                                                        *)

LEMMA PoolAgrees ==
    ASSUME NEW o1, NEW o2, NEW S, NEW scope, NEW subject, NEW match,
           \A m \in Metric \cap S : o1[m] = o2[m]
    PROVE  Agree(Pool(o1, scope, subject, match), Pool(o2, scope, subject, match), S)
<1>. DEFINE p1 == Pool(o1, scope, subject, match)
            p2 == Pool(o2, scope, subject, match)
<1>1. SUFFICES ASSUME NEW m \in S
               PROVE  /\ m \in DOMAIN p1 <=> m \in DOMAIN p2
                      /\ m \in DOMAIN p1 => p1[m] = p2[m]
  BY DEF Agree
<1>2. DOMAIN p1 = {n \in Metric : Aggregable(n, o1[n])}
      /\ DOMAIN p2 = {n \in Metric : Aggregable(n, o2[n])}
  BY DEF Pool
<1>3. m \in Metric => o1[m] = o2[m]
  OBVIOUS
<1>4. m \in DOMAIN p1 <=> m \in DOMAIN p2
  BY <1>2, <1>3
<1>5. ASSUME m \in DOMAIN p1 PROVE p1[m] = p2[m]
  <2>1. m \in Metric /\ Aggregable(m, o1[m]) /\ Aggregable(m, o2[m])
    BY <1>2, <1>4, <1>5
  <2>2. p1[m] = LET a == Aggregate(m, o1[m])
                IN  [a EXCEPT !.lineage = @ \cup {AggregationRef(scope, subject, match, m)}]
    BY <2>1 DEF Pool
  <2>3. p2[m] = LET a == Aggregate(m, o2[m])
                IN  [a EXCEPT !.lineage = @ \cup {AggregationRef(scope, subject, match, m)}]
    BY <2>1 DEF Pool
  <2>4. QED BY <2>1, <2>2, <2>3, <1>3
<1>6. QED BY <1>4, <1>5

\* Two sets of rows that differ at most in what is not in S.
Alike(rows, other, S) ==
    /\ DOMAIN other = DOMAIN rows
    /\ \A k \in DOMAIN rows : /\ other[k].account = rows[k].account
                              /\ other[k].team = rows[k].team
                              /\ other[k].role = rows[k].role
                              /\ Agree(rows[k].metrics, other[k].metrics, S)

LEMMA ObservedAlike ==
    ASSUME NEW rows, NEW other, NEW S, Alike(rows, other, S), NEW keys \in SUBSET DOMAIN rows,
           NEW m \in Metric \cap S
    PROVE  Observed(rows, keys)[m] = Observed(other, keys)[m]
<1>1. {k \in keys : m \in DOMAIN rows[k].metrics} = {k \in keys : m \in DOMAIN other[k].metrics}
  BY DEF Alike, Agree
<1>2. \A k \in {k \in keys : m \in DOMAIN rows[k].metrics} : rows[k].metrics[m] = other[k].metrics[m]
  BY DEF Alike, Agree
<1>3. QED BY <1>1, <1>2 DEF Observed

LEMMA SubjectsAlike ==
    ASSUME NEW rows, NEW other, NEW S, Alike(rows, other, S)
    PROVE  /\ Subjects(other) = Subjects(rows)
           /\ TeamsOf(other) = TeamsOf(rows)
<1>1. /\ DOMAIN other = DOMAIN rows
      /\ \A k \in DOMAIN rows : /\ other[k].account = rows[k].account
                                /\ other[k].team = rows[k].team
                                /\ other[k].role = rows[k].role
  BY DEF Alike
<1>2. QED BY <1>1 DEF Subjects, TeamsOf

LEMMA TournamentAlike ==
    ASSUME NEW rows, NEW other, NEW S, Alike(rows, other, S), NEW s
    PROVE  /\ Tournament(other, s).matches = Tournament(rows, s).matches
           /\ Agree(Tournament(rows, s).metrics, Tournament(other, s).metrics, S)
<1>. DEFINE keys == {k \in DOMAIN rows : <<rows[k].account, rows[k].role>> = s}
            others == {k \in DOMAIN other : <<other[k].account, other[k].role>> = s}
<1>1. keys = others
  BY DEF Alike
<1>2. \A m \in Metric \cap S : Observed(rows, keys)[m] = Observed(other, others)[m]
  <2>1. keys \in SUBSET DOMAIN rows
    OBVIOUS
  <2>. HIDE DEF keys, others
  <2>2. QED BY <1>1, <2>1, ObservedAlike
<1>3. Agree(Pool(Observed(rows, keys), "player_tournament", s, NoMatch),
            Pool(Observed(other, others), "player_tournament", s, NoMatch), S)
  BY <1>2, PoolAgrees
<1>4. /\ Tournament(rows, s).matches = Matches(keys)
      /\ Tournament(rows, s).metrics = Pool(Observed(rows, keys), "player_tournament", s, NoMatch)
  BY DEF Tournament
<1>5. /\ Tournament(other, s).matches = Matches(others)
      /\ Tournament(other, s).metrics = Pool(Observed(other, others), "player_tournament", s, NoMatch)
  BY DEF Tournament
<1>6. QED BY <1>1, <1>3, <1>4, <1>5

LEMMA TeamMatchAlike ==
    ASSUME NEW rows, NEW other, NEW S, Alike(rows, other, S), NEW t, NEW n
    PROVE  Agree(TeamMatch(rows, t, n), TeamMatch(other, t, n), S)
<1>. DEFINE keys == {k \in DOMAIN rows : rows[k].team = t /\ k[1] = n}
            others == {k \in DOMAIN other : other[k].team = t /\ k[1] = n}
<1>1. keys = others
  BY DEF Alike
<1>2. \A m \in Metric \cap S : Observed(rows, keys)[m] = Observed(other, others)[m]
  <2>1. keys \in SUBSET DOMAIN rows
    OBVIOUS
  <2>. HIDE DEF keys, others
  <2>2. QED BY <1>1, <2>1, ObservedAlike
<1>3. QED BY <1>2, PoolAgrees DEF TeamMatch

LEMMA TeamMatchesAlike ==
    ASSUME NEW rows, NEW other, NEW S, Alike(rows, other, S), NEW t \in TeamsOf(rows)
    PROVE  /\ DOMAIN TeamMatches(other)[t] = DOMAIN TeamMatches(rows)[t]
           /\ \A n \in DOMAIN TeamMatches(rows)[t] :
                 Agree(TeamMatches(rows)[t][n], TeamMatches(other)[t][n], S)
<1>. DEFINE keys == {k \in DOMAIN rows : rows[k].team = t}
            others == {k \in DOMAIN other : other[k].team = t}
<1>1. keys = others
  BY DEF Alike
<1>2. t \in TeamsOf(other)
  BY SubjectsAlike
<1>3. TeamMatches(rows)[t] = [n \in Matches(keys) |-> TeamMatch(rows, t, n)]
  BY DEF TeamMatches
<1>4. TeamMatches(other)[t] = [n \in Matches(others) |-> TeamMatch(other, t, n)]
  BY <1>2 DEF TeamMatches
<1>. HIDE DEF keys, others
<1>5. DOMAIN TeamMatches(other)[t] = DOMAIN TeamMatches(rows)[t]
  BY <1>1, <1>3, <1>4
<1>6. ASSUME NEW n \in DOMAIN TeamMatches(rows)[t]
      PROVE  Agree(TeamMatches(rows)[t][n], TeamMatches(other)[t][n], S)
  <2>1. TeamMatches(rows)[t][n] = TeamMatch(rows, t, n)
        /\ TeamMatches(other)[t][n] = TeamMatch(other, t, n)
    BY <1>1, <1>3, <1>4
  <2>2. QED BY <2>1, TeamMatchAlike
<1>7. QED BY <1>5, <1>6

LEMMA TeamTournamentAlike ==
    ASSUME NEW rows, NEW other, NEW S, Alike(rows, other, S), NEW t, NEW b1, NEW b2,
           DOMAIN b2 = DOMAIN b1, \A n \in DOMAIN b1 : Agree(b1[n], b2[n], S)
    PROVE  /\ TeamTournament(other, t, b2).matches = TeamTournament(rows, t, b1).matches
           /\ Agree(TeamTournament(rows, t, b1).metrics, TeamTournament(other, t, b2).metrics, S)
<1>. DEFINE keys == {k \in DOMAIN rows : rows[k].team = t}
            others == {k \in DOMAIN other : other[k].team = t}
            in(b, m) == {n \in DOMAIN b : m \in DOMAIN b[n]}
            Obs(b) == [m \in Metric |-> [n \in in(b, m) |-> AsObservation(b[n][m])]]
<1>1. keys = others
  BY DEF Alike
<1>2. ASSUME NEW m \in Metric \cap S PROVE Obs(b1)[m] = Obs(b2)[m]
  <2>1. in(b1, m) = in(b2, m)
    BY DEF Agree
  <2>2. \A n \in in(b1, m) : b1[n][m] = b2[n][m]
    BY DEF Agree
  <2>3. Obs(b1)[m] = [n \in in(b1, m) |-> AsObservation(b1[n][m])]
        /\ Obs(b2)[m] = [n \in in(b2, m) |-> AsObservation(b2[n][m])]
    OBVIOUS
  <2>. HIDE DEF in, Obs
  <2>4. QED BY <2>1, <2>2, <2>3
<1>3. TeamTournament(rows, t, b1).matches = Matches(keys)
      /\ TeamTournament(rows, t, b1).metrics = Pool(Obs(b1), "team_tournament", t, NoMatch)
  BY DEF TeamTournament
<1>4. TeamTournament(other, t, b2).matches = Matches(others)
      /\ TeamTournament(other, t, b2).metrics = Pool(Obs(b2), "team_tournament", t, NoMatch)
  BY DEF TeamTournament
<1>. HIDE DEF Obs
<1>5. Agree(Pool(Obs(b1), "team_tournament", t, NoMatch),
            Pool(Obs(b2), "team_tournament", t, NoMatch), S)
  BY <1>2, PoolAgrees
<1>6. QED BY <1>1, <1>3, <1>4, <1>5

\* The records of the two corpora.
RecordsAlike(c1, c2, S) ==
    /\ DOMAIN c2 = DOMAIN c1
    /\ \A s \in DOMAIN c1 : c2[s].matches = c1[s].matches /\ Agree(c1[s].metrics, c2[s].metrics, S)

LEMMA CorpusIs ==
    ASSUME NEW rows
    PROVE  /\ Corpus(rows).rows = rows
           /\ Corpus(rows).teamMatches = TeamMatches(rows)
           /\ Corpus(rows).tournaments = [s \in Subjects(rows) |-> Tournament(rows, s)]
           /\ Corpus(rows).teams =
                 [t \in TeamsOf(rows) |-> TeamTournament(rows, t, TeamMatches(rows)[t])]
  BY DEF Corpus, NewCorpus

LEMMA CorpusAlike ==
    ASSUME NEW rows, NEW other, NEW S, Alike(rows, other, S)
    PROVE  /\ RecordsAlike(Corpus(rows).tournaments, Corpus(other).tournaments, S)
           /\ RecordsAlike(Corpus(rows).teams, Corpus(other).teams, S)
<1>. DEFINE Of(r) == /\ Corpus(r).tournaments = [s \in Subjects(r) |-> Tournament(r, s)]
                    /\ Corpus(r).teams = [t \in TeamsOf(r) |->
                                            TeamTournament(r, t, TeamMatches(r)[t])]
<1>0. Of(rows) /\ Of(other)
  BY CorpusIs
<1>1. Subjects(other) = Subjects(rows) /\ TeamsOf(other) = TeamsOf(rows)
  BY SubjectsAlike
<1>2. RecordsAlike(Corpus(rows).tournaments, Corpus(other).tournaments, S)
  <2>1. ASSUME NEW s \in Subjects(rows)
        PROVE  /\ Corpus(other).tournaments[s].matches = Corpus(rows).tournaments[s].matches
               /\ Agree(Corpus(rows).tournaments[s].metrics,
                        Corpus(other).tournaments[s].metrics, S)
    <3>1. Corpus(rows).tournaments[s] = Tournament(rows, s)
          /\ Corpus(other).tournaments[s] = Tournament(other, s)
      BY <1>0, <1>1
    <3>2. QED BY <3>1, TournamentAlike
  <2>2. DOMAIN Corpus(rows).tournaments = Subjects(rows)
        /\ DOMAIN Corpus(other).tournaments = Subjects(rows)
    BY <1>0, <1>1
  <2>3. QED BY <2>1, <2>2 DEF RecordsAlike
<1>3. ASSUME NEW t \in TeamsOf(rows)
      PROVE  /\ Corpus(other).teams[t].matches = Corpus(rows).teams[t].matches
             /\ Agree(Corpus(rows).teams[t].metrics, Corpus(other).teams[t].metrics, S)
  <2>1. Corpus(rows).teams[t] = TeamTournament(rows, t, TeamMatches(rows)[t])
        /\ Corpus(other).teams[t] = TeamTournament(other, t, TeamMatches(other)[t])
    BY <1>0, <1>1
  <2>2. DOMAIN TeamMatches(other)[t] = DOMAIN TeamMatches(rows)[t]
        /\ \A n \in DOMAIN TeamMatches(rows)[t] :
              Agree(TeamMatches(rows)[t][n], TeamMatches(other)[t][n], S)
    BY TeamMatchesAlike
  <2>3. QED BY <2>1, <2>2, TeamTournamentAlike
<1>4. RecordsAlike(Corpus(rows).teams, Corpus(other).teams, S)
  <2>1. DOMAIN Corpus(rows).teams = TeamsOf(rows) /\ DOMAIN Corpus(other).teams = TeamsOf(rows)
    BY <1>0, <1>1
  <2>2. QED BY <1>3, <2>1 DEF RecordsAlike
<1>5. QED BY <1>2, <1>4

LEMMA PercentilesAlike ==
    ASSUME NEW c1, NEW c2, NEW S, RecordsAlike(c1, c2, S), NEW s \in DOMAIN c1, NEW minimum
    PROVE  Agree(Percentiles(s, c1, minimum), Percentiles(s, c2, minimum), S)
<1>. DEFINE p1 == Percentiles(s, c1, minimum)
            p2 == Percentiles(s, c2, minimum)
<1>1. ASSUME NEW m \in S PROVE Cohort(c1, m) = Cohort(c2, m)
  <2>. DEFINE D1 == {u \in DOMAIN c1 : m \in DOMAIN c1[u].metrics}
              D2 == {u \in DOMAIN c2 : m \in DOMAIN c2[u].metrics}
  <2>1. D1 = D2
    BY DEF RecordsAlike, Agree
  <2>2. \A u \in D1 : c1[u].metrics[m] = c2[u].metrics[m]
    BY DEF RecordsAlike, Agree
  <2>3. Cohort(c1, m) = [u \in D1 |-> c1[u].metrics[m].value]
        /\ Cohort(c2, m) = [u \in D2 |-> c2[u].metrics[m].value]
    BY DEF Cohort
  <2>. HIDE DEF D1, D2
  <2>4. QED BY <2>1, <2>2, <2>3
<1>2. DOMAIN p1 = {m \in DOMAIN c1[s].metrics : Cardinality(DOMAIN Cohort(c1, m)) >= minimum}
      /\ DOMAIN p2 = {m \in DOMAIN c2[s].metrics : Cardinality(DOMAIN Cohort(c2, m)) >= minimum}
  BY DEF Percentiles
<1>3. \A m \in S : /\ m \in DOMAIN c1[s].metrics <=> m \in DOMAIN c2[s].metrics
                   /\ m \in DOMAIN c1[s].metrics => c1[s].metrics[m] = c2[s].metrics[m]
  BY DEF RecordsAlike, Agree
<1>4. ASSUME NEW m \in S PROVE m \in DOMAIN p1 <=> m \in DOMAIN p2
  BY <1>1, <1>2, <1>3, <1>4
<1>5. ASSUME NEW m \in S, m \in DOMAIN p1 PROVE p1[m] = p2[m]
  <2>1. p1[m] = Ranked(m, c1[s].metrics[m].value, Cohort(c1, m))
    BY <1>2, <1>5 DEF Percentiles
  <2>2. p2[m] = Ranked(m, c2[s].metrics[m].value, Cohort(c2, m))
    BY <1>2, <1>4, <1>5 DEF Percentiles
  <2>3. c1[s].metrics[m] = c2[s].metrics[m]
    BY <1>2, <1>3, <1>5
  <2>4. QED BY <1>1, <2>1, <2>2, <2>3
<1>6. QED BY <1>4, <1>5 DEF Agree

\* Two layers that say the same.
SameAxes(a, b) == \A x \in Axis : a[x].published = b[x].published /\ a[x].value = b[x].value

LEMMA AxesAlike ==
    ASSUME NEW components, NEW r1, NEW r2, NEW p1, NEW p2, Agree(p1, p2, Official)
    PROVE  SameAxes(OfficialAxes(components, r1, p1), OfficialAxes(components, r2, p2))
<1>1. SUFFICES ASSUME NEW x \in Axis
               PROVE  LET a == OfficialAxes(components, r1, p1)[x]
                          b == OfficialAxes(components, r2, p2)[x]
                      IN  a.published = b.published /\ a.value = b.value
  BY DEF SameAxes
<1>. DEFINE cm == components[x]
            miss(p) == {m \in DOMAIN cm : m \notin DOMAIN p \cap Official}
            all(p) == SumOf([m \in DOMAIN cm |-> cm[m] * p[m]])
            axis(r, p) == IF cm = <<>> THEN Suppressed({<<x, "no_components_defined_for_role">>})
                          ELSE IF miss(p) # {}
                          THEN Suppressed({<<m, MissingReason(m, r)>> : m \in miss(p)})
                          ELSE Published(all(p))
<1>2. OfficialAxes(components, r1, p1)[x] = axis(r1, p1)
      /\ OfficialAxes(components, r2, p2)[x] = axis(r2, p2)
  BY DEF OfficialAxes
<1>3. miss(p1) = miss(p2)
  BY DEF Agree
<1>4. miss(p1) = {} => all(p1) = all(p2)
  <2>1. miss(p1) = {} => \A m \in DOMAIN cm : p1[m] = p2[m]
    BY DEF Agree
  <2>2. QED BY <2>1
<1>5. /\ \A reasons : Suppressed(reasons).published = FALSE /\ Suppressed(reasons).value = 0
      /\ \A value : Published(value).published = TRUE /\ Published(value).value = value
  BY DEF Suppressed, Published
<1>. HIDE DEF cm, miss, all
<1>6. axis(r1, p1).published = axis(r2, p2).published
      /\ axis(r1, p1).value = axis(r2, p2).value
  BY <1>3, <1>4, <1>5
<1>7. QED BY <1>2, <1>6

LEMMA TotalAlike ==
    ASSUME NEW a, NEW b, SameAxes(a, b), NEW weight, NEW weights, NEW reasons
    PROVE  /\ PublishedAxes(a) = PublishedAxes(b)
           /\ TotalOf(a, weight, weights, reasons) = TotalOf(b, weight, weights, reasons)
<1>1. PublishedAxes(a) = PublishedAxes(b)
  BY DEF PublishedAxes, SameAxes
<1>2. PublishedAxes(a) \subseteq Axis
  BY DEF PublishedAxes
<1>3. [x \in PublishedAxes(a) |-> weight[x] * a[x].value]
        = [x \in PublishedAxes(b) |-> weight[x] * b[x].value]
  BY <1>1, <1>2 DEF SameAxes
<1>4. WeightedMean(a, weight) = WeightedMean(b, weight)
  BY <1>1, <1>3 DEF WeightedMean
<1>5. QED BY <1>1, <1>4 DEF TotalOf

LEMMA AxesOn ==
    \A components, record, percentiles : DOMAIN OfficialAxes(components, record, percentiles) = Axis
  BY DEF OfficialAxes

LEMMA SameSaid ==
    ASSUME NEW a, NEW b, DOMAIN a = Axis, DOMAIN b = Axis, SameAxes(a, b)
    PROVE  Said(a) = Said(b)
<1>1. \A x \in Axis : <<a[x].published, a[x].value>> = <<b[x].published, b[x].value>>
  BY DEF SameAxes
<1>2. QED BY <1>1 DEF Said

LEMMA ScorePlayerIs ==
    ASSUME NEW corpus, NEW s
    PROVE  LET p == ScorePlayer(corpus, s)
               percentiles == Percentiles(s, Peers(corpus, s), MinMatches)
           IN  /\ p.record = corpus.tournaments[s]
               /\ p.percentiles = percentiles
               /\ p.axes = OfficialAxes(Component[s[2]], corpus.tournaments[s], percentiles)
               /\ p.total = OfficialTotal(s[2], p.axes, Cardinality(corpus.tournaments[s].matches))
               /\ p.dashed = ExperimentalAxes(p.axes, percentiles)
               /\ p.dashedTotal = ExperimentalTotal(s[2], p.dashed, p.total)
  BY DEF ScorePlayer

LEMMA ScoreTeamIs ==
    ASSUME NEW corpus, NEW t
    PROVE  LET p == ScoreTeam(corpus, t)
               percentiles == Percentiles(t, corpus.teams, TeamMinMatches)
           IN  /\ p.record = corpus.teams[t]
               /\ p.percentiles = percentiles
               /\ p.axes = OfficialAxes(TeamComponent, corpus.teams[t], percentiles)
               /\ p.total = TeamTotal(p.axes, Cardinality(corpus.teams[t].matches))
  BY DEF ScoreTeam

LEMMA PlayerAlike ==
    ASSUME NEW c1, NEW c2, RecordsAlike(c1.tournaments, c2.tournaments, Official),
           NEW s \in DOMAIN c1.tournaments
    PROVE  Solid(ScorePlayer(c1, s)) = Solid(ScorePlayer(c2, s))
<1>. DEFINE p1 == ScorePlayer(c1, s)
            p2 == ScorePlayer(c2, s)
            q(c) == Percentiles(s, Peers(c, s), MinMatches)
<1>1. RecordsAlike(Peers(c1, s), Peers(c2, s), Official) /\ s \in DOMAIN Peers(c1, s)
  BY DEF RecordsAlike, Peers
<1>2. Agree(q(c1), q(c2), Official)
  BY <1>1, PercentilesAlike
<1>3. /\ p1.axes = OfficialAxes(Component[s[2]], c1.tournaments[s], q(c1))
      /\ p2.axes = OfficialAxes(Component[s[2]], c2.tournaments[s], q(c2))
      /\ p1.total = OfficialTotal(s[2], p1.axes, Cardinality(c1.tournaments[s].matches))
      /\ p2.total = OfficialTotal(s[2], p2.axes, Cardinality(c2.tournaments[s].matches))
  BY ScorePlayerIs
<1>. HIDE DEF p1, p2, q
<1>4. SameAxes(p1.axes, p2.axes)
  BY <1>2, <1>3, AxesAlike
<1>5. Said(p1.axes) = Said(p2.axes)
  BY <1>3, <1>4, AxesOn, SameSaid
<1>6. PublishedAxes(p1.axes) = PublishedAxes(p2.axes)
  BY <1>4 DEF PublishedAxes, SameAxes
<1>7. c1.tournaments[s].matches = c2.tournaments[s].matches
  BY DEF RecordsAlike
<1>8. p1.total = p2.total
  BY <1>3, <1>4, <1>6, <1>7, TotalAlike DEF OfficialTotal, TotalReasons
<1>9. QED BY <1>5, <1>8 DEF Solid, p1, p2

LEMMA TeamAlike ==
    ASSUME NEW c1, NEW c2, RecordsAlike(c1.teams, c2.teams, Official), NEW t \in DOMAIN c1.teams
    PROVE  Solid(ScoreTeam(c1, t)) = Solid(ScoreTeam(c2, t))
<1>. DEFINE p1 == ScoreTeam(c1, t)
            p2 == ScoreTeam(c2, t)
            q(c) == Percentiles(t, c.teams, TeamMinMatches)
<1>2. Agree(q(c1), q(c2), Official)
  BY PercentilesAlike
<1>3. /\ p1.axes = OfficialAxes(TeamComponent, c1.teams[t], q(c1))
      /\ p2.axes = OfficialAxes(TeamComponent, c2.teams[t], q(c2))
      /\ p1.total = TeamTotal(p1.axes, Cardinality(c1.teams[t].matches))
      /\ p2.total = TeamTotal(p2.axes, Cardinality(c2.teams[t].matches))
  BY ScoreTeamIs
<1>. HIDE DEF p1, p2, q
<1>4. SameAxes(p1.axes, p2.axes)
  BY <1>2, <1>3, AxesAlike
<1>5. Said(p1.axes) = Said(p2.axes)
  BY <1>3, <1>4, AxesOn, SameSaid
<1>6. PublishedAxes(p1.axes) = PublishedAxes(p2.axes)
  BY <1>4 DEF PublishedAxes, SameAxes
<1>7. c1.teams[t].matches = c2.teams[t].matches
  BY DEF RecordsAlike
<1>8. p1.total = p2.total
  <2>. DEFINE weights(a) == [x \in PublishedAxes(a) \cup TeamOptional |->
                                IF a[x].published THEN TeamWeight[x] ELSE 0]
  <2>1. TeamOptional \subseteq Axis
    BY ContractAssumption DEF ValidTeamContract
  <2>2. PublishedAxes(p1.axes) \subseteq Axis
    BY DEF PublishedAxes
  <2>3. \A x \in Axis : p1.axes[x].published = p2.axes[x].published
    BY <1>4 DEF SameAxes
  <2>4. weights(p1.axes) = weights(p2.axes)
    BY <1>6, <2>1, <2>2, <2>3
  <2>5. \A a, n : TeamTotal(a, n) = TotalOf(a, TeamWeight, weights(a),
                        TotalReasons(a, TeamMandatory, n, TeamMinMatches, TeamMinAxes))
    BY DEF TeamTotal
  <2>. HIDE DEF weights
  <2>6. \A n : TotalReasons(p1.axes, TeamMandatory, n, TeamMinMatches, TeamMinAxes)
               = TotalReasons(p2.axes, TeamMandatory, n, TeamMinMatches, TeamMinAxes)
    BY <1>6 DEF TotalReasons
  <2>7. \A w, r : TotalOf(p1.axes, TeamWeight, w, r) = TotalOf(p2.axes, TeamWeight, w, r)
    BY <1>4, TotalAlike
  <2>8. \A n : TeamTotal(p1.axes, n) = TeamTotal(p2.axes, n)
    BY <2>4, <2>5, <2>6, <2>7
  <2>9. QED BY <1>3, <1>7, <2>8
<1>9. QED BY <1>5, <1>8 DEF Solid, p1, p2

-----------------------------------------------------------------------------
(* What is stored was scored from the rows there are.                      *)

Told ==
    /\ outcome \in {"none", "scored", "refused"}
    /\ outcome = "scored" => Current /\ scores = ScoresOf(Corpus(Rows))
    /\ outcome # "scored" => scores = NoScores
    /\ outcome = "refused" => ~Current \/ ~Valid(ScoresOf(Corpus(Rows)))

LEMMA StepTold == Told /\ [Next]_vars => Told'
<1>. SUFFICES ASSUME Told, [Next]_vars PROVE Told'
  OBVIOUS
<1>1. CASE Changed
  BY <1>1 DEF Changed, Told
<1>2. CASE UNCHANGED <<artifacts, overrides>>
  <2>1. Rows' = Rows /\ (Current <=> Current') /\ Current' \in BOOLEAN
    BY <1>2 DEF Rows, Row, RoleOf, Verified, Current
  <2>2. CASE UNCHANGED vars
    BY <2>1, <2>2 DEF Told, vars
  <2>3. CASE Score
    <3>1. outcome # "scored" /\ scores = NoScores
      BY <2>3 DEF Score, Told
    <3>2. CASE Current /\ Valid(ScoresOf(Corpus(Rows)))
                /\ outcome' = "scored" /\ scores' = ScoresOf(Corpus(Rows))
      BY <2>1, <3>2 DEF Told
    <3>3. CASE outcome' = "refused" /\ scores' = scores
               /\ (~Current \/ ~Valid(ScoresOf(Corpus(Rows))))
      BY <2>1, <3>1, <3>3 DEF Told
    <3>4. QED BY <2>3, <3>2, <3>3, ScoringsAre DEF Score
  <2>4. QED BY <1>1, <2>2, <2>3 DEF Next, Analyse, Fail, Upgrade, Override
<1>3. QED
  <2>1. CASE UNCHANGED vars
    BY <1>2, <2>1 DEF vars
  <2>2. CASE Next
    BY <1>1, <1>2, <2>2 DEF Next, Analyse, Fail, Upgrade, Override, Score
  <2>3. QED BY <2>1, <2>2

LEMMA AlwaysTold == Spec => []Told
<1>1. Init => Told
  BY DEF Init, Told
<1>2. QED BY <1>1, StepTold, PTL DEF Spec

LEMMA RowsAre == AreRows(Rows)
<1>1. \A k \in DOMAIN Rows : Rows[k] = Row(k[1], k[2])
  BY DEF Rows
<1>2. \A m, a : IsRow(Row(m, a))
  BY DEF Row, IsRow
<1>3. QED BY <1>1, <1>2 DEF AreRows, Rows

LEMMA ScoresAre ==
    ASSUME NEW c
    PROVE  /\ ScoresOf(c).matches = c.rows
           /\ ScoresOf(c).teamMatches = c.teamMatches
           /\ ScoresOf(c).players = [s \in DOMAIN c.tournaments |-> ScorePlayer(c, s)]
           /\ ScoresOf(c).teams = [t \in DOMAIN c.teams |-> ScoreTeam(c, t)]
  BY DEF ScoresOf

LEMMA WithoutV3 ==
    ASSUME NEW rows, AreRows(rows)
    PROVE  Alike(rows, [k \in DOMAIN rows |-> [rows[k] EXCEPT !.metrics = Only(@, Official)]], Official)
<1>. DEFINE other == [k \in DOMAIN rows |-> [rows[k] EXCEPT !.metrics = Only(@, Official)]]
<1>1. ASSUME NEW k \in DOMAIN rows
      PROVE  /\ other[k].account = rows[k].account
             /\ other[k].team = rows[k].team
             /\ other[k].role = rows[k].role
             /\ other[k].metrics = Only(rows[k].metrics, Official)
  <2>1. PICK account, team, role, metrics, unavailable :
           rows[k] = [account |-> account, team |-> team, role |-> role,
                      metrics |-> metrics, unavailable |-> unavailable]
    BY DEF AreRows, IsRow
  <2>2. QED BY <2>1
<1>2. \A f : Agree(f, Only(f, Official), Official)
  BY DEF Agree, Only
<1>3. QED BY <1>1, <1>2 DEF Alike

\* Official scores never contain V3 inputs: whatever the corpus was built from,
\* the solid axes and totals are those of the same rows without them
\* (computeOfficialAxes, computeTeamAxes and the totals).
THEOREM OfficialApart == Spec => []OfficialKnowsNoV3
<1>1. Told => OfficialKnowsNoV3
  <2>1. SUFFICES ASSUME Told, Scored PROVE OfficialKnowsNoV3
    BY DEF OfficialKnowsNoV3
  <2>. DEFINE c1 == Corpus(Rows)
              rows == [k \in DOMAIN Rows |-> [Rows[k] EXCEPT !.metrics = Only(@, Official)]]
              c2 == Corpus(rows)
  <2>2. scores = ScoresOf(c1)
    BY <2>1 DEF Told, Scored
  <2>3. scores.matches = Rows
    BY <2>2, ScoresAre, CorpusIs
  <2>4. Alike(Rows, rows, Official)
    BY RowsAre, WithoutV3
  <2>. HIDE DEF rows
  <2>5. /\ RecordsAlike(c1.tournaments, c2.tournaments, Official)
        /\ RecordsAlike(c1.teams, c2.teams, Official)
    BY <2>4, CorpusAlike
  <2>. HIDE DEF c1, c2
  <2>. DEFINE other == ScoresOf(c2)
  <2>6. /\ scores.players = [s \in DOMAIN c1.tournaments |-> ScorePlayer(c1, s)]
        /\ scores.teams = [t \in DOMAIN c1.teams |-> ScoreTeam(c1, t)]
    BY <2>2, ScoresAre
  <2>7. /\ other.players = [s \in DOMAIN c2.tournaments |-> ScorePlayer(c2, s)]
        /\ other.teams = [t \in DOMAIN c2.teams |-> ScoreTeam(c2, t)]
    BY ScoresAre
  <2>8. DOMAIN c2.tournaments = DOMAIN c1.tournaments /\ DOMAIN c2.teams = DOMAIN c1.teams
    BY <2>5 DEF RecordsAlike
  <2>. HIDE DEF other
  <2>9. \A s \in Players : Solid(scores.players[s]) = Solid(other.players[s])
    BY <2>5, <2>6, <2>7, <2>8, PlayerAlike DEF Players
  <2>10. \A t \in DOMAIN scores.teams : Solid(scores.teams[t]) = Solid(other.teams[t])
    BY <2>5, <2>6, <2>7, <2>8, TeamAlike
  <2>11. Scorings(rows) = {other}
    BY ScoringsAre DEF other, c2
  <2>12. [k \in DOMAIN scores.matches |->
             [scores.matches[k] EXCEPT !.metrics = Only(@, Official)]] = rows
    BY <2>3 DEF rows
  <2>13. QED BY <2>9, <2>10, <2>11, <2>12 DEF OfficialKnowsNoV3
<1>2. QED BY <1>1, AlwaysTold, PTL

-----------------------------------------------------------------------------
(* What an aggregate rests on.                                             *)

\* Each row carries the evidence of its seat, and a reason for what it withholds.
Grounded(rows) ==
    /\ AreRows(rows)
    /\ \A k \in DOMAIN rows :
          /\ k \in Match \X Account /\ k[1] # NoMatch
          /\ \A m \in DOMAIN rows[k].metrics :
                rows[k].metrics[m].lineage = {Ref("metric_observation", k[1], <<k[2], m>>)}
          /\ \A m \in DOMAIN rows[k].unavailable : rows[k].unavailable[m] # ""

\* The observations of a metric in the rows of some seats.
Seen(rows, keys, m) ==
    {Ref("metric_observation", k[1], <<k[2], m>>) : k \in {k \in keys : m \in DOMAIN rows[k].metrics}}

LEMMA RefsAre ==
    /\ \A kind, match, id : /\ Ref(kind, match, id).kind = kind
                            /\ Ref(kind, match, id).match = match
                            /\ Ref(kind, match, id).id = id
    /\ \A scope, subject, match, metric :
          /\ AggregationRef(scope, subject, match, metric).kind = "aggregation"
          /\ AggregationRef(scope, subject, match, metric).match = match
          /\ AggregationRef(scope, subject, match, metric).id = <<scope, subject, match, metric>>
  BY DEF Ref, AggregationRef

\* What some observations rest on.
Rests(obs) == UNION {obs[k].lineage : k \in DOMAIN obs}

LEMMA PoolIs ==
    ASSUME NEW o, NEW scope, NEW subject, NEW match, NEW m \in DOMAIN Pool(o, scope, subject, match)
    PROVE  LET p == Pool(o, scope, subject, match)[m]
               a == Aggregate(m, o[m])
           IN  /\ m \in Metric /\ Aggregable(m, o[m])
               /\ p.value = a.value /\ p.num = a.num /\ p.den = a.den
               /\ p.matches = Cardinality(DOMAIN o[m])
               /\ p.lineage = Rests(o[m])
                                \cup {AggregationRef(scope, subject, match, m)}
<1>. DEFINE a == Aggregate(m, o[m])
            p == Pool(o, scope, subject, match)[m]
<1>1. m \in Metric /\ Aggregable(m, o[m])
  BY DEF Pool
<1>2. p = [a EXCEPT !.lineage = @ \cup {AggregationRef(scope, subject, match, m)}]
  BY DEF Pool
<1>3. /\ a.matches = Cardinality(DOMAIN o[m])
      /\ a.lineage = Rests(o[m])
      /\ DOMAIN a = {"value", "num", "den", "matches", "lineage"}
  BY DEF Aggregate, Rests
<1>. HIDE DEF a
<1>4. /\ p.value = a.value /\ p.num = a.num /\ p.den = a.den /\ p.matches = a.matches
      /\ p.lineage = a.lineage \cup {AggregationRef(scope, subject, match, m)}
  BY <1>2, <1>3
<1>. HIDE DEF p
<1>5. /\ p.value = a.value /\ p.num = a.num /\ p.den = a.den
      /\ p.matches = Cardinality(DOMAIN o[m])
      /\ p.lineage = Rests(o[m])
                       \cup {AggregationRef(scope, subject, match, m)}
  BY <1>3, <1>4
<1>. USE DEF a, p
<1>6. QED BY <1>1, <1>5

LEMMA ObservedIs ==
    ASSUME NEW rows, Grounded(rows), NEW keys \in SUBSET DOMAIN rows, NEW m \in Metric
    PROVE  LET o == Observed(rows, keys)[m]
           IN  /\ DOMAIN o = {k \in keys : m \in DOMAIN rows[k].metrics}
               /\ Rests(o) = Seen(rows, keys, m)
<1>. DEFINE there == {k \in keys : m \in DOMAIN rows[k].metrics}
            o == Observed(rows, keys)[m]
<1>1. o = [k \in there |-> rows[k].metrics[m]]
  BY DEF Observed
<1>2. \A k \in there : o[k].lineage = {Ref("metric_observation", k[1], <<k[2], m>>)}
  BY <1>1 DEF Grounded
<1>3. UNION {o[k].lineage : k \in there} = {Ref("metric_observation", k[1], <<k[2], m>>) : k \in there}
  <2>. DEFINE Obs(k) == Ref("metric_observation", k[1], <<k[2], m>>)
  <2>1. \A k \in there : o[k].lineage = {Obs(k)}
    BY <1>2
  <2>. HIDE DEF there, o, Obs
  <2>2. UNION {o[k].lineage : k \in there} = {Obs(k) : k \in there}
    BY <2>1
  <2>3. QED BY <2>2 DEF Obs
<1>4. QED BY <1>1, <1>3 DEF Seen, Rests

LEMMA SeenIs ==
    ASSUME NEW rows, NEW keys, NEW m, NEW r \in Seen(rows, keys, m)
    PROVE  /\ r.kind = "metric_observation"
           /\ \E k \in keys : /\ m \in DOMAIN rows[k].metrics
                              /\ r.match = k[1] /\ r.id = <<k[2], m>>
<1>1. PICK k \in keys : m \in DOMAIN rows[k].metrics
                        /\ r = Ref("metric_observation", k[1], <<k[2], m>>)
  BY DEF Seen
<1>2. r.kind = "metric_observation" /\ r.match = k[1] /\ r.id = <<k[2], m>>
  BY <1>1, RefsAre
<1>3. QED BY <1>1, <1>2

\* The record of a player.
KeysOf(rows, s) == {k \in DOMAIN rows : <<rows[k].account, rows[k].role>> = s}

LEMMA PlayerRests ==
    ASSUME NEW rows, Grounded(rows), NEW s, NEW m \in DOMAIN Tournament(rows, s).metrics
    PROVE  Tournament(rows, s).metrics[m].lineage =
              Seen(rows, KeysOf(rows, s), m) \cup {AggregationRef("player_tournament", s, NoMatch, m)}
<1>1. Tournament(rows, s).metrics =
         Pool(Observed(rows, KeysOf(rows, s)), "player_tournament", s, NoMatch)
  BY DEF Tournament, KeysOf
<1>2. KeysOf(rows, s) \in SUBSET DOMAIN rows
  BY DEF KeysOf
<1>. DEFINE o == Observed(rows, KeysOf(rows, s))
<1>3. m \in Metric /\ Tournament(rows, s).metrics[m].lineage =
         Rests(o[m])
            \cup {AggregationRef("player_tournament", s, NoMatch, m)}
  <2>. HIDE DEF o
  <2>1. \A x \in DOMAIN Pool(o, "player_tournament", s, NoMatch) :
           x \in Metric /\ Pool(o, "player_tournament", s, NoMatch)[x].lineage =
              Rests(o[x])
                \cup {AggregationRef("player_tournament", s, NoMatch, x)}
    BY PoolIs
  <2>2. QED BY <1>1, <2>1 DEF o
<1>4. QED BY <1>2, <1>3, ObservedIs

\* The aggregate of a team in a match.
TeamKeys(rows, t, n) == {k \in DOMAIN rows : rows[k].team = t /\ k[1] = n}

LEMMA TeamMatchRests ==
    ASSUME NEW rows, Grounded(rows), NEW t, NEW n, NEW m \in DOMAIN TeamMatch(rows, t, n)
    PROVE  TeamMatch(rows, t, n)[m].lineage =
              Seen(rows, TeamKeys(rows, t, n), m) \cup {AggregationRef("team_match", t, n, m)}
<1>1. TeamMatch(rows, t, n) = Pool(Observed(rows, TeamKeys(rows, t, n)), "team_match", t, n)
  BY DEF TeamMatch, TeamKeys
<1>2. TeamKeys(rows, t, n) \in SUBSET DOMAIN rows
  BY DEF TeamKeys
<1>. DEFINE o == Observed(rows, TeamKeys(rows, t, n))
<1>3. m \in Metric /\ TeamMatch(rows, t, n)[m].lineage =
         Rests(o[m])
            \cup {AggregationRef("team_match", t, n, m)}
  <2>. HIDE DEF o
  <2>1. \A x \in DOMAIN Pool(o, "team_match", t, n) :
           x \in Metric /\ Pool(o, "team_match", t, n)[x].lineage =
              Rests(o[x])
                \cup {AggregationRef("team_match", t, n, x)}
    BY PoolIs
  <2>2. QED BY <1>1, <2>1 DEF o
<1>4. QED BY <1>2, <1>3, ObservedIs

LEMMA TeamMatchesAre ==
    ASSUME NEW rows
    PROVE  /\ DOMAIN TeamMatches(rows) = TeamsOf(rows)
           /\ \A t \in TeamsOf(rows) :
                 /\ DOMAIN TeamMatches(rows)[t] = Matches({k \in DOMAIN rows : rows[k].team = t})
                 /\ \A n \in DOMAIN TeamMatches(rows)[t] : TeamMatches(rows)[t][n] = TeamMatch(rows, t, n)
  BY DEF TeamMatches

\* What an aggregate of a team's tournament is made from, and rests on.
Children(byMatch, m) == {n \in DOMAIN byMatch : m \in DOMAIN byMatch[n]}

Gathered(byMatch, m) == UNION {byMatch[n][m].lineage : n \in Children(byMatch, m)}

LEMMA TeamRests ==
    ASSUME NEW rows, NEW t, NEW byMatch, NEW m \in DOMAIN TeamTournament(rows, t, byMatch).metrics
    PROVE  LET a == TeamTournament(rows, t, byMatch).metrics[m]
               again == Aggregate(m, [n \in Children(byMatch, m) |-> AsObservation(byMatch[n][m])])
           IN  /\ a.value = again.value /\ a.num = again.num /\ a.den = again.den
               /\ a.matches = Cardinality(Children(byMatch, m))
               /\ a.lineage = Gathered(byMatch, m)
                                \cup {AggregationRef("team_tournament", t, NoMatch, m)}
<1>. DEFINE o == [metric \in Metric |-> [n \in Children(byMatch, metric) |->
                                            AsObservation(byMatch[n][metric])]]
            a == TeamTournament(rows, t, byMatch).metrics[m]
<1>1. TeamTournament(rows, t, byMatch).metrics = Pool(o, "team_tournament", t, NoMatch)
  BY DEF TeamTournament, Children
<1>. HIDE DEF o
<1>2. /\ m \in Metric
      /\ a.value = Aggregate(m, o[m]).value /\ a.num = Aggregate(m, o[m]).num
      /\ a.den = Aggregate(m, o[m]).den
      /\ a.matches = Cardinality(DOMAIN o[m])
      /\ a.lineage = Rests(o[m])
                        \cup {AggregationRef("team_tournament", t, NoMatch, m)}
  BY <1>1, PoolIs
<1>3. o[m] = [n \in Children(byMatch, m) |-> AsObservation(byMatch[n][m])]
  BY <1>2 DEF o
<1>4. DOMAIN o[m] = Children(byMatch, m)
      /\ \A n \in Children(byMatch, m) : o[m][n].lineage = byMatch[n][m].lineage
  BY <1>3 DEF AsObservation
<1>5. Rests(o[m])
         = Gathered(byMatch, m)
  BY <1>4 DEF Rests, Gathered
<1>6. a.value = Aggregate(m, o[m]).value /\ a.num = Aggregate(m, o[m]).num
      /\ a.den = Aggregate(m, o[m]).den /\ a.matches = Cardinality(Children(byMatch, m))
  BY <1>2, <1>4
<1>7. a.lineage = Gathered(byMatch, m) \cup {AggregationRef("team_tournament", t, NoMatch, m)}
  BY <1>2, <1>5
<1>8. QED BY <1>3, <1>6, <1>7

-----------------------------------------------------------------------------
(* First and last.                                                         *)

\* A set of natural numbers has a least one.
LEMMA LeastOf ==
    ASSUME NEW S \in SUBSET Nat, S # {}
    PROVE  \E m \in S : \A n \in S : m <= n
<1>1. OpToRel(<, Nat) = {ss \in Nat \X Nat : ss[1] < ss[2]}
  BY DEF OpToRel
<1>2. PICK R : R = {ss \in Nat \X Nat : ss[1] < ss[2]} /\ IsWellFoundedOn(R, Nat)
  BY <1>1, NatLessThanWellFounded
<1>3. PICK m \in S : \A n \in S : ~ (<<n, m>> \in R)
  BY <1>2, WFMin
<1>4. ASSUME NEW n \in S PROVE m <= n
  <2>1. n < m => <<n, m>> \in R
    BY <1>2
  <2>2. QED BY <1>3, <2>1
<1>5. QED BY <1>4

\* A set with 0 and with the successors of its elements is all of them.
LEMMA Climb ==
    ASSUME NEW S \in SUBSET Nat, 0 \in S, \A n \in S : n + 1 \in S
    PROVE  \A n \in Nat : n \in S
<1>1. SUFFICES ASSUME Nat \ S # {} PROVE FALSE
  OBVIOUS
<1>2. PICK m \in Nat \ S : \A n \in Nat \ S : m <= n
  BY <1>1, LeastOf
<1>3. m # 0 /\ m - 1 \in Nat /\ ~(m <= m - 1) /\ (m - 1) + 1 = m
  BY <1>2
<1>4. m - 1 \in S
  BY <1>2, <1>3
<1>5. QED BY <1>2, <1>3, <1>4


LEMMA GreatestOf ==
    ASSUME NEW S \in SUBSET Nat, IsFiniteSet(S), S # {}
    PROVE  \E m \in S : \A n \in S : n <= m
<1>. DEFINE Tops(T) == \E m \in T : \A n \in T : n <= m
            Good == {c \in Nat : \A T \in SUBSET Nat :
                        IsFiniteSet(T) /\ Cardinality(T) = c + 1 => Tops(T)}
<1>1. 0 \in Good
  <2>1. SUFFICES ASSUME NEW T \in SUBSET Nat, IsFiniteSet(T), Cardinality(T) = 1 PROVE Tops(T)
    OBVIOUS
  <2>2. PICK x : T = {x}
    BY <2>1, FS_Singleton
  <2>3. x \in Nat
    BY <2>2
  <2>4. QED BY <2>2, <2>3
<1>2. ASSUME NEW c \in Good PROVE c + 1 \in Good
  <2>1. SUFFICES ASSUME NEW T \in SUBSET Nat, IsFiniteSet(T), Cardinality(T) = (c + 1) + 1 PROVE Tops(T)
    OBVIOUS
  <2>2. c \in Nat
    OBVIOUS
  <2>3. T # {}
    BY <2>1, <2>2, FS_EmptySet
  <2>4. PICK x \in T : TRUE
    BY <2>3
  <2>5. IsFiniteSet(T \ {x}) /\ Cardinality(T \ {x}) = c + 1
    BY <2>1, <2>2, <2>4, FS_RemoveElement
  <2>6. T \ {x} \in SUBSET Nat /\ x \in Nat
    BY <2>4
  <2>7. Tops(T \ {x})
    <3>. HIDE DEF Tops
    <3>1. QED BY <2>5, <2>6
  <2>8. PICK y \in T \ {x} : \A n \in T \ {x} : n <= y
    BY <2>7
  <2>9. CASE x <= y
    <3>1. \A n \in T : n <= y
      BY <2>8, <2>9
    <3>2. QED BY <3>1, <2>8
  <2>10. CASE ~(x <= y)
    <3>1. ASSUME NEW n \in T PROVE n <= x
      <4>1. n # x => n <= y
        BY <2>8
      <4>2. n \in Nat /\ y \in Nat
        BY <2>6, <2>8
      <4>3. QED BY <2>6, <2>10, <4>1, <4>2
    <3>2. QED BY <3>1, <2>4
  <2>11. QED BY <2>9, <2>10
<1>3. Cardinality(S) \in Nat /\ Cardinality(S) # 0
  BY FS_CardinalityType, FS_EmptySet
<1>4. Cardinality(S) - 1 \in Nat /\ (Cardinality(S) - 1) + 1 = Cardinality(S)
  BY <1>3
<1>. HIDE DEF Tops
<1>5. Cardinality(S) - 1 \in Good
  <2>. HIDE DEF Good
  <2>1. Good \in SUBSET Nat
    BY DEF Good
  <2>2. QED BY <1>1, <1>2, <1>4, <2>1, Climb
<1>6. Tops(S)
  BY <1>4, <1>5
<1>. USE DEF Tops
<1>7. QED BY <1>6

LEMMA PickedAreThere ==
    ASSUME NEW S \in SUBSET (Match \X Account), S # {}
    PROVE  First(S) \in S /\ Last(S) \in S
<1>1. Match \subseteq Nat /\ Account \subseteq Nat /\ IsFiniteSet(Match)
  BY RootAssumption
<1>. DEFINE M == {k[1] : k \in S}
<1>2. M \in SUBSET Match /\ M # {} /\ M \in SUBSET Nat
  BY <1>1
<1>3. IsFiniteSet(M)
  BY <1>1, <1>2, FS_Subset
<1>4. Last(S) \in S
  <2>1. PICK m \in M : \A n \in M : n <= m
    BY <1>2, <1>3, GreatestOf
  <2>2. PICK k \in S : k[1] = m
    OBVIOUS
  <2>3. \A j \in S : j[1] <= k[1]
    BY <2>1, <2>2
  <2>4. QED BY <2>2, <2>3 DEF Last
<1>5. First(S) \in S
  <2>1. PICK m \in M : \A n \in M : m <= n
    BY <1>2, LeastOf
  <2>. DEFINE A == {k[2] : k \in {k \in S : k[1] = m}}
  <2>2. A \in SUBSET Nat /\ A # {}
    BY <1>1, <2>1
  <2>3. PICK a \in A : \A b \in A : a <= b
    BY <2>2, LeastOf
  <2>4. PICK k \in S : k[1] = m /\ k[2] = a
    OBVIOUS
  <2>5. ASSUME NEW j \in S PROVE k[1] < j[1] \/ (k[1] = j[1] /\ k[2] <= j[2])
    <3>1. m <= j[1] /\ m \in Nat /\ j[1] \in Nat
      BY <1>1, <1>2, <2>1
    <3>2. j[1] = m => a <= j[2]
      BY <2>3
    <3>3. QED BY <2>4, <3>1, <3>2
  <2>6. QED BY <2>4, <2>5 DEF First
<1>6. QED BY <1>4, <1>5

-----------------------------------------------------------------------------
(* The validator accepts what was built.                                   *)

LEMMA ReasonsGiven ==
    ASSUME NEW rows, Grounded(rows), NEW keys \in SUBSET DOMAIN rows, NEW published
    PROVE  LET telling == Telling(rows, keys)
               first == Unavailable(rows, [m \in DOMAIN telling |-> First(telling[m])], published)
               last == Unavailable(rows, [m \in DOMAIN telling |-> Last(telling[m])], published)
           IN  /\ \A m \in DOMAIN first : first[m] # ""
               /\ \A m \in DOMAIN last : last[m] # ""
<1>. DEFINE told(m) == {k \in keys : m \in DOMAIN rows[k].unavailable}
            telling == Telling(rows, keys)
<1>1. /\ DOMAIN telling = {m \in Metric : told(m) # {}}
      /\ \A m \in DOMAIN telling : telling[m] = told(m)
  BY DEF Telling
<1>2. ASSUME NEW m \in DOMAIN telling
      PROVE  /\ First(telling[m]) \in DOMAIN rows /\ m \in DOMAIN rows[First(telling[m])].unavailable
             /\ Last(telling[m]) \in DOMAIN rows /\ m \in DOMAIN rows[Last(telling[m])].unavailable
  <2>1. telling[m] = told(m) /\ told(m) # {}
    BY <1>1
  <2>2. told(m) \in SUBSET (Match \X Account)
    <3>1. \A k \in keys : k \in Match \X Account
      BY DEF Grounded
    <3>2. QED BY <3>1
  <2>3. First(told(m)) \in told(m) /\ Last(told(m)) \in told(m)
    BY <2>1, <2>2, PickedAreThere
  <2>4. QED BY <2>1, <2>3
<1>3. \A k \in DOMAIN rows : \A m \in DOMAIN rows[k].unavailable : rows[k].unavailable[m] # ""
  BY DEF Grounded
<1>. HIDE DEF telling
<1>4. ASSUME NEW picked, DOMAIN picked = DOMAIN telling,
             \A m \in DOMAIN telling : /\ picked[m] \in DOMAIN rows
                                       /\ m \in DOMAIN rows[picked[m]].unavailable
      PROVE  \A m \in DOMAIN Unavailable(rows, picked, published) :
                Unavailable(rows, picked, published)[m] # ""
  BY <1>3, <1>4 DEF Unavailable
<1>5. \A m \in DOMAIN Unavailable(rows, [m \in DOMAIN telling |-> First(telling[m])], published) :
         Unavailable(rows, [n \in DOMAIN telling |-> First(telling[n])], published)[m] # ""
  BY <1>2, <1>4
<1>6. \A m \in DOMAIN Unavailable(rows, [m \in DOMAIN telling |-> Last(telling[m])], published) :
         Unavailable(rows, [n \in DOMAIN telling |-> Last(telling[n])], published)[m] # ""
  BY <1>2, <1>4
<1>. USE DEF telling
<1>7. QED BY <1>5, <1>6

\* The aggregations among some references.
Links(S) == {r \in S : r.kind = "aggregation"}

LEMMA SeenAreNoLinks ==
    ASSUME NEW rows, NEW keys, NEW m, NEW r, r.kind = "aggregation"
    PROVE  Links(Seen(rows, keys, m) \cup {r}) = {r}
  BY SeenIs DEF Links

LEMMA LinksOf == \A a : Aggregations(a) = Links(a.lineage)
  BY DEF Aggregations, Links

LEMMA ScoredPlayers ==
    ASSUME NEW rows, NEW s \in DOMAIN ScoresOf(Corpus(rows)).players
    PROVE  s \in Subjects(rows)
           /\ ScoresOf(Corpus(rows)).players[s].record = Tournament(rows, s)
<1>1. Corpus(rows).tournaments = [u \in Subjects(rows) |-> Tournament(rows, u)]
  BY CorpusIs
<1>2. ScoresOf(Corpus(rows)).players =
         [u \in DOMAIN Corpus(rows).tournaments |-> ScorePlayer(Corpus(rows), u)]
  BY ScoresAre
<1>3. \A u : ScorePlayer(Corpus(rows), u).record = Corpus(rows).tournaments[u]
  BY ScorePlayerIs
<1>4. QED BY <1>1, <1>2, <1>3

LEMMA ScoredTeams ==
    ASSUME NEW rows
    PROVE  LET cs == ScoresOf(Corpus(rows))
           IN  /\ DOMAIN cs.teams = TeamsOf(rows)
               /\ cs.teamMatches = TeamMatches(rows)
               /\ cs.matches = rows
               /\ \A t \in DOMAIN cs.teams :
                     cs.teams[t].record = TeamTournament(rows, t, TeamMatches(rows)[t])
<1>1. /\ Corpus(rows).teams = [t \in TeamsOf(rows) |-> TeamTournament(rows, t, TeamMatches(rows)[t])]
      /\ Corpus(rows).teamMatches = TeamMatches(rows) /\ Corpus(rows).rows = rows
  BY CorpusIs
<1>2. /\ ScoresOf(Corpus(rows)).teams =
            [t \in DOMAIN Corpus(rows).teams |-> ScoreTeam(Corpus(rows), t)]
      /\ ScoresOf(Corpus(rows)).teamMatches = Corpus(rows).teamMatches
      /\ ScoresOf(Corpus(rows)).matches = Corpus(rows).rows
  BY ScoresAre
<1>3. \A t : ScoreTeam(Corpus(rows), t).record = Corpus(rows).teams[t]
  BY ScoreTeamIs
<1>4. QED BY <1>1, <1>2, <1>3

LEMMA PlayersValid ==
    ASSUME NEW rows, Grounded(rows)
    PROVE  ValidPlayers(ScoresOf(Corpus(rows)))
<1>. DEFINE cs == ScoresOf(Corpus(rows))
<1>1. SUFFICES ASSUME NEW s \in DOMAIN cs.players
               PROVE  LET pt == cs.players[s].record
                      IN  /\ \A m \in DOMAIN pt.metrics : Aggregations(pt.metrics[m]) =
                                {AggregationRef("player_tournament", s, NoMatch, m)}
                          /\ \A m \in DOMAIN pt.unavailable : pt.unavailable[m] # ""
  BY DEF ValidPlayers
<1>2. cs.players[s].record = Tournament(rows, s)
  BY ScoredPlayers
<1>3. ASSUME NEW m \in DOMAIN Tournament(rows, s).metrics
      PROVE  Aggregations(Tournament(rows, s).metrics[m]) =
                {AggregationRef("player_tournament", s, NoMatch, m)}
  BY PlayerRests, LinksOf, SeenAreNoLinks, RefsAre
<1>4. \A m \in DOMAIN Tournament(rows, s).unavailable : Tournament(rows, s).unavailable[m] # ""
  <2>. DEFINE keys == KeysOf(rows, s)
              telling == Telling(rows, keys)
  <2>1. Tournament(rows, s).unavailable =
           Unavailable(rows, [m \in DOMAIN telling |-> Last(telling[m])],
                       DOMAIN Tournament(rows, s).metrics)
    BY DEF Tournament, KeysOf
  <2>2. keys \in SUBSET DOMAIN rows
    BY DEF KeysOf
  <2>. HIDE DEF keys
  <2>3. QED BY <2>1, <2>2, ReasonsGiven
<1>. HIDE DEF cs
<1>5. QED BY <1>2, <1>3, <1>4

LEMMA TeamMatchesValid ==
    ASSUME NEW rows, Grounded(rows)
    PROVE  ValidTeamMatches(ScoresOf(Corpus(rows)))
<1>. DEFINE cs == ScoresOf(Corpus(rows))
<1>1. cs.teamMatches = TeamMatches(rows) /\ cs.matches = rows
  BY ScoredTeams
<1>2. SUFFICES ASSUME NEW t \in TeamsOf(rows), NEW n \in DOMAIN TeamMatches(rows)[t]
               PROVE  /\ n \in Matches(DOMAIN rows)
                      /\ \A m \in DOMAIN TeamMatches(rows)[t][n] :
                            LET a == TeamMatches(rows)[t][n][m]
                            IN  /\ Aggregations(a) = {AggregationRef("team_match", t, n, m)}
                                /\ \A r \in a.lineage : r.match = n
  <2>. HIDE DEF cs
  <2>1. QED BY <1>1, TeamMatchesAre DEF ValidTeamMatches, cs
<1>3. n \in Matches(DOMAIN rows)
  BY TeamMatchesAre DEF Matches
<1>4. ASSUME NEW m \in DOMAIN TeamMatches(rows)[t][n]
      PROVE  LET a == TeamMatches(rows)[t][n][m]
             IN  /\ Aggregations(a) = {AggregationRef("team_match", t, n, m)}
                 /\ \A r \in a.lineage : r.match = n
  <2>1. TeamMatches(rows)[t][n] = TeamMatch(rows, t, n)
    BY TeamMatchesAre
  <2>. DEFINE a == TeamMatch(rows, t, n)[m]
              own == AggregationRef("team_match", t, n, m)
  <2>2. a.lineage = Seen(rows, TeamKeys(rows, t, n), m) \cup {own}
    BY <2>1, TeamMatchRests
  <2>3. own.kind = "aggregation" /\ own.match = n
    BY RefsAre
  <2>. HIDE DEF a, own
  <2>4. Aggregations(a) = {own}
    BY <2>2, <2>3, LinksOf, SeenAreNoLinks
  <2>5. \A r \in Seen(rows, TeamKeys(rows, t, n), m) : r.match = n
    BY SeenIs DEF TeamKeys
  <2>6. \A r \in a.lineage : r.match = n
    BY <2>2, <2>3, <2>5
  <2>7. QED BY <2>1, <2>4, <2>6 DEF a, own
<1>5. QED BY <1>3, <1>4

LEMMA GatheredLinks ==
    ASSUME NEW rows, Grounded(rows), NEW t \in TeamsOf(rows), NEW m
    PROVE  Links(Gathered(TeamMatches(rows)[t], m)) =
              {AggregationRef("team_match", t, n, m) : n \in Children(TeamMatches(rows)[t], m)}
<1>. DEFINE byMatch == TeamMatches(rows)[t]
            own(n) == AggregationRef("team_match", t, n, m)
<1>1. ASSUME NEW n \in Children(byMatch, m)
      PROVE  Links(byMatch[n][m].lineage) = {own(n)}
  <2>1. byMatch[n] = TeamMatch(rows, t, n) /\ m \in DOMAIN byMatch[n]
    BY TeamMatchesAre DEF Children
  <2>2. byMatch[n][m].lineage = Seen(rows, TeamKeys(rows, t, n), m) \cup {own(n)}
    BY <2>1, TeamMatchRests
  <2>3. own(n).kind = "aggregation"
    BY RefsAre
  <2>. HIDE DEF own
  <2>4. QED BY <2>2, <2>3, SeenAreNoLinks
<1>. HIDE DEF byMatch, own
<1>2. \A r : r \in Links(Gathered(byMatch, m)) <=>
                \E n \in Children(byMatch, m) : r \in Links(byMatch[n][m].lineage)
  BY DEF Links, Gathered
<1>3. Links(Gathered(byMatch, m)) = {own(n) : n \in Children(byMatch, m)}
  <2>1. \A r : r \in Links(Gathered(byMatch, m)) <=> \E n \in Children(byMatch, m) : r = own(n)
    BY <1>1, <1>2
  <2>2. QED BY <2>1
<1>4. QED BY <1>3 DEF byMatch, own

LEMMA TeamsValid ==
    ASSUME NEW rows, Grounded(rows)
    PROVE  ValidTeams(ScoresOf(Corpus(rows)))
<1>. DEFINE cs == ScoresOf(Corpus(rows))
<1>1. /\ DOMAIN cs.teams = TeamsOf(rows)
      /\ cs.teamMatches = TeamMatches(rows)
      /\ \A t \in DOMAIN cs.teams :
            cs.teams[t].record = TeamTournament(rows, t, TeamMatches(rows)[t])
  BY ScoredTeams
<1>. DEFINE Right(t, tt, byMatch) ==
               /\ DOMAIN byMatch = tt.matches
               /\ \A m \in DOMAIN tt.metrics :
                     LET children == {n \in tt.matches : m \in DOMAIN byMatch[n]}
                         a == tt.metrics[m]
                         again == Aggregate(m, [n \in children |-> AsObservation(byMatch[n][m])])
                     IN  /\ a.matches = Cardinality(children)
                         /\ Aggregations(a) =
                               {AggregationRef("team_tournament", t, NoMatch, m)}
                                  \cup {AggregationRef("team_match", t, n, m) : n \in children}
                         /\ Same(again.value, a.value)
                         /\ Same(again.num, a.num) /\ Same(again.den, a.den)
               /\ \A m \in DOMAIN tt.unavailable : tt.unavailable[m] # ""
<1>2. ASSUME NEW t \in TeamsOf(rows) 
      PROVE  Right(t, TeamTournament(rows, t, TeamMatches(rows)[t]), TeamMatches(rows)[t])
  <2>. DEFINE byMatch == TeamMatches(rows)[t]
              tt == TeamTournament(rows, t, byMatch)
              keys == {k \in DOMAIN rows : rows[k].team = t}
  <2>1. tt.matches = Matches(keys)
    BY DEF TeamTournament
  <2>2. DOMAIN byMatch = tt.matches
    BY <2>1, TeamMatchesAre
  <2>3. ASSUME NEW m \in DOMAIN tt.metrics
        PROVE  LET children == {n \in tt.matches : m \in DOMAIN byMatch[n]}
                   a == tt.metrics[m]
                   again == Aggregate(m, [n \in children |-> AsObservation(byMatch[n][m])])
               IN  /\ a.matches = Cardinality(children)
                   /\ Aggregations(a) = {AggregationRef("team_tournament", t, NoMatch, m)}
                            \cup {AggregationRef("team_match", t, n, m) : n \in children}
                   /\ Same(again.value, a.value)
                   /\ Same(again.num, a.num) /\ Same(again.den, a.den)
    <3>. DEFINE children == {n \in tt.matches : m \in DOMAIN byMatch[n]}
                a == tt.metrics[m]
                again == Aggregate(m, [n \in children |-> AsObservation(byMatch[n][m])])
                own == AggregationRef("team_tournament", t, NoMatch, m)
    <3>1. children = Children(byMatch, m)
      BY <2>2 DEF Children
    <3>2. /\ a.value = again.value /\ a.num = again.num /\ a.den = again.den
          /\ a.matches = Cardinality(children)
          /\ a.lineage = Gathered(byMatch, m) \cup {own}
      <4>. HIDE DEF byMatch, children
      <4>. DEFINE same == Aggregate(m, [n \in Children(byMatch, m) |-> AsObservation(byMatch[n][m])])
      <4>1. /\ a.value = same.value /\ a.num = same.num /\ a.den = same.den
            /\ a.matches = Cardinality(Children(byMatch, m))
            /\ a.lineage = Gathered(byMatch, m) \cup {own}
        BY TeamRests
      <4>2. again = same
        BY <3>1
      <4>. HIDE DEF same, again, a
      <4>3. QED BY <3>1, <4>1, <4>2
    <3>3. own.kind = "aggregation"
      BY RefsAre
    <3>4. Links(Gathered(byMatch, m)) = {AggregationRef("team_match", t, n, m) : n \in children}
      BY <3>1, GatheredLinks
    <3>. HIDE DEF a, own, children, again
    <3>5. Aggregations(a) = Links(Gathered(byMatch, m)) \cup {own}
      BY <3>2, <3>3, LinksOf DEF Links
    <3>6. /\ Same(again.value, a.value)
          /\ Same(again.num, a.num) /\ Same(again.den, a.den)
      BY <3>2 DEF Same
    <3>7. Aggregations(a) = {own} \cup {AggregationRef("team_match", t, n, m) : n \in children}
      BY <3>4, <3>5
    <3>8. a.matches = Cardinality(children)
      BY <3>2
    <3>. USE DEF a, own, children, again
    <3>9. QED BY <3>6, <3>7, <3>8
  <2>4. \A m \in DOMAIN tt.unavailable : tt.unavailable[m] # ""
    <3>. DEFINE telling == Telling(rows, keys)
    <3>1. tt.unavailable =
             Unavailable(rows, [m \in DOMAIN telling |-> First(telling[m])], DOMAIN tt.metrics)
      BY DEF TeamTournament
    <3>2. keys \in SUBSET DOMAIN rows
      OBVIOUS
    <3>. HIDE DEF keys, tt
    <3>3. QED BY <3>1, <3>2, ReasonsGiven
  <2>. HIDE DEF tt, byMatch
  <2>5. QED BY <2>2, <2>3, <2>4 DEF tt, byMatch
<1>3. DOMAIN TeamMatches(rows) = TeamsOf(rows)
  BY TeamMatchesAre
<1>. HIDE DEF cs
<1>4. ValidTeams(cs) <=>
         /\ DOMAIN cs.teamMatches = DOMAIN cs.teams
         /\ \A t \in DOMAIN cs.teams : Right(t, cs.teams[t].record, cs.teamMatches[t])
  BY DEF ValidTeams
<1>. HIDE DEF Right
<1>5. ValidTeams(cs)
  BY <1>1, <1>2, <1>3, <1>4
<1>6. QED BY <1>5 DEF cs

LEMMA BuiltIsValid ==
    ASSUME NEW rows, Grounded(rows)
    PROVE  Valid(ScoresOf(Corpus(rows)))
<1>1. ValidRows(ScoresOf(Corpus(rows)))
  <2>1. ScoresOf(Corpus(rows)).matches = rows
    BY ScoredTeams
  <2>2. QED BY <2>1 DEF ValidRows, Grounded
<1>2. QED BY <1>1, PlayersValid, TeamMatchesValid, TeamsValid DEF Valid

-----------------------------------------------------------------------------
(* The links of what was scored.                                           *)

\* The three kinds of entities, by what they are of.
MatchEntity(rows, t, n, m) == [match |-> n, of |-> TeamMatches(rows)[t][n][m]]
PlayerEntity(rows, s, m) == [match |-> NoMatch, of |-> Tournament(rows, s).metrics[m]]
TeamEntity(rows, t, m) ==
    [match |-> NoMatch, of |-> TeamTournament(rows, t, TeamMatches(rows)[t]).metrics[m]]

IsMatchEntity(rows, e) ==
    \E t \in TeamsOf(rows) : \E n \in DOMAIN TeamMatches(rows)[t] :
        \E m \in DOMAIN TeamMatches(rows)[t][n] : e = MatchEntity(rows, t, n, m)
IsPlayerEntity(rows, e) ==
    \E s \in Subjects(rows) : \E m \in DOMAIN Tournament(rows, s).metrics :
        e = PlayerEntity(rows, s, m)
IsTeamEntity(rows, e) ==
    \E t \in TeamsOf(rows) :
        \E m \in DOMAIN TeamTournament(rows, t, TeamMatches(rows)[t]).metrics :
            e = TeamEntity(rows, t, m)

LEMMA EntitiesAre ==
    ASSUME NEW rows, NEW e
    PROVE  e \in Entities(ScoresOf(Corpus(rows))) <=>
              IsMatchEntity(rows, e) \/ IsPlayerEntity(rows, e) \/ IsTeamEntity(rows, e)
<1>. DEFINE cs == ScoresOf(Corpus(rows))
<1>1. /\ DOMAIN cs.teams = TeamsOf(rows) /\ DOMAIN cs.players = Subjects(rows)
      /\ cs.teamMatches = TeamMatches(rows) /\ DOMAIN TeamMatches(rows) = TeamsOf(rows)
      /\ \A t \in TeamsOf(rows) :
            cs.teams[t].record = TeamTournament(rows, t, TeamMatches(rows)[t])
      /\ \A s \in Subjects(rows) : cs.players[s].record = Tournament(rows, s)
  <2>1. DOMAIN cs.players = Subjects(rows)
    <3>1. DOMAIN Corpus(rows).tournaments = Subjects(rows)
      <4>1. Corpus(rows).tournaments = [u \in Subjects(rows) |-> Tournament(rows, u)]
        BY CorpusIs
      <4>2. QED BY <4>1
    <3>2. DOMAIN cs.players = DOMAIN Corpus(rows).tournaments
      <4>1. cs.players = [u \in DOMAIN Corpus(rows).tournaments |-> ScorePlayer(Corpus(rows), u)]
        BY ScoresAre
      <4>2. QED BY <4>1
    <3>3. QED BY <3>1, <3>2
  <2>. HIDE DEF cs
  <2>2. \A s \in Subjects(rows) : cs.players[s].record = Tournament(rows, s)
    BY <2>1, ScoredPlayers DEF cs
  <2>3. /\ DOMAIN cs.teams = TeamsOf(rows)
        /\ cs.teamMatches = TeamMatches(rows)
        /\ \A t \in DOMAIN cs.teams :
              cs.teams[t].record = TeamTournament(rows, t, TeamMatches(rows)[t])
    BY ScoredTeams DEF cs
  <2>4. DOMAIN TeamMatches(rows) = TeamsOf(rows)
    BY TeamMatchesAre
  <2>5. QED BY <2>1, <2>2, <2>3, <2>4
<1>. HIDE DEF cs
<1>. DEFINE OfMatches == UNION {
                UNION {{[match |-> n, of |-> cs.teamMatches[t][n][m]] :
                            m \in DOMAIN cs.teamMatches[t][n]} :
                    n \in DOMAIN cs.teamMatches[t]} : t \in DOMAIN cs.teamMatches}
            Records == {cs.players[s].record : s \in DOMAIN cs.players}
                            \cup {cs.teams[t].record : t \in DOMAIN cs.teams}
            OfRecords == UNION {
                {[match |-> NoMatch, of |-> r.metrics[m]] : m \in DOMAIN r.metrics} : r \in Records}
<1>2. Entities(cs) = OfMatches \cup OfRecords
  BY DEF Entities
<1>3. e \in OfMatches <=> IsMatchEntity(rows, e)
  <2>1. e \in OfMatches <=>
           \E t \in DOMAIN cs.teamMatches : \E n \in DOMAIN cs.teamMatches[t] :
              \E m \in DOMAIN cs.teamMatches[t][n] : e = [match |-> n, of |-> cs.teamMatches[t][n][m]]
    OBVIOUS
  <2>2. QED BY <1>1, <2>1 DEF IsMatchEntity, MatchEntity
<1>4. e \in OfRecords <=>
         \E r \in Records : \E m \in DOMAIN r.metrics : e = [match |-> NoMatch, of |-> r.metrics[m]]
  <2>. HIDE DEF Records
  <2>1. QED OBVIOUS
<1>5. \A r : r \in Records <=>
                \/ \E s \in Subjects(rows) : r = Tournament(rows, s)
                \/ \E t \in TeamsOf(rows) : r = TeamTournament(rows, t, TeamMatches(rows)[t])
  BY <1>1
<1>. HIDE DEF OfMatches, OfRecords, Records
<1>6. e \in OfRecords <=> IsPlayerEntity(rows, e) \/ IsTeamEntity(rows, e)
  BY <1>4, <1>5 DEF IsPlayerEntity, PlayerEntity, IsTeamEntity, TeamEntity
<1>7. QED BY <1>2, <1>3, <1>6 DEF cs

\* e is what is searched for id.
Named(e, id) == \E r \in Aggregations(e.of) : r.id = id /\ r.match = e.match

LEMMA OfAMatch ==
    ASSUME NEW rows, Grounded(rows), NEW t \in TeamsOf(rows), NEW n \in DOMAIN TeamMatches(rows)[t]
    PROVE  n # NoMatch
<1>1. n \in Matches({k \in DOMAIN rows : rows[k].team = t})
  BY TeamMatchesAre
<1>2. PICK k \in DOMAIN rows : k[1] = n
  BY <1>1 DEF Matches
<1>3. QED BY <1>2 DEF Grounded

LEMMA MatchEntityIs ==
    ASSUME NEW rows, Grounded(rows), NEW t \in TeamsOf(rows), NEW n \in DOMAIN TeamMatches(rows)[t],
           NEW m \in DOMAIN TeamMatches(rows)[t][n]
    PROVE  LET e == MatchEntity(rows, t, n, m)
               own == AggregationRef("team_match", t, n, m)
           IN  /\ e.match = n /\ n # NoMatch
               /\ e.of.lineage = Seen(rows, TeamKeys(rows, t, n), m) \cup {own}
               /\ Aggregations(e.of) = {own}
               /\ \A id : Named(e, id) <=> id = <<"team_match", t, n, m>>
<1>. DEFINE e == MatchEntity(rows, t, n, m)
            own == AggregationRef("team_match", t, n, m)
<1>1. e.match = n /\ e.of = TeamMatch(rows, t, n)[m] /\ m \in DOMAIN TeamMatch(rows, t, n)
  BY TeamMatchesAre DEF MatchEntity
<1>2. e.of.lineage = Seen(rows, TeamKeys(rows, t, n), m) \cup {own}
  BY <1>1, TeamMatchRests
<1>3. own.kind = "aggregation" /\ own.match = n /\ own.id = <<"team_match", t, n, m>>
  BY RefsAre
<1>4. n # NoMatch
  BY OfAMatch
<1>. HIDE DEF e, own
<1>5. Aggregations(e.of) = {own}
  BY <1>2, <1>3, LinksOf, SeenAreNoLinks
<1>6. \A id : Named(e, id) <=> id = <<"team_match", t, n, m>>
  BY <1>1, <1>3, <1>5 DEF Named
<1>7. QED BY <1>1, <1>2, <1>4, <1>5, <1>6 DEF e, own

LEMMA PlayerEntityIs ==
    ASSUME NEW rows, Grounded(rows), NEW s, NEW m \in DOMAIN Tournament(rows, s).metrics
    PROVE  LET e == PlayerEntity(rows, s, m)
               own == AggregationRef("player_tournament", s, NoMatch, m)
           IN  /\ e.match = NoMatch
               /\ e.of.lineage = Seen(rows, KeysOf(rows, s), m) \cup {own}
               /\ Aggregations(e.of) = {own} /\ own.match = NoMatch
               /\ \A id : Named(e, id) <=> id = <<"player_tournament", s, NoMatch, m>>
<1>. DEFINE e == PlayerEntity(rows, s, m)
            own == AggregationRef("player_tournament", s, NoMatch, m)
<1>1. e.match = NoMatch /\ e.of = Tournament(rows, s).metrics[m]
  BY DEF PlayerEntity
<1>2. e.of.lineage = Seen(rows, KeysOf(rows, s), m) \cup {own}
  BY <1>1, PlayerRests
<1>3. own.kind = "aggregation" /\ own.match = NoMatch
      /\ own.id = <<"player_tournament", s, NoMatch, m>>
  BY RefsAre
<1>. HIDE DEF e, own
<1>5. Aggregations(e.of) = {own}
  BY <1>2, <1>3, LinksOf, SeenAreNoLinks
<1>6. \A id : Named(e, id) <=> id = <<"player_tournament", s, NoMatch, m>>
  BY <1>1, <1>3, <1>5 DEF Named
<1>7. QED BY <1>1, <1>2, <1>3, <1>5, <1>6 DEF e, own

LEMMA TeamRestsOn ==
    ASSUME NEW rows, NEW t, NEW byMatch, NEW m \in DOMAIN TeamTournament(rows, t, byMatch).metrics
    PROVE  TeamTournament(rows, t, byMatch).metrics[m].lineage =
              Gathered(byMatch, m) \cup {AggregationRef("team_tournament", t, NoMatch, m)}
<1>. DEFINE a == TeamTournament(rows, t, byMatch).metrics[m]
            again == Aggregate(m, [n \in Children(byMatch, m) |-> AsObservation(byMatch[n][m])])
            own == AggregationRef("team_tournament", t, NoMatch, m)
<1>1. /\ a.value = again.value /\ a.num = again.num /\ a.den = again.den
      /\ a.matches = Cardinality(Children(byMatch, m))
      /\ a.lineage = Gathered(byMatch, m) \cup {own}
  BY TeamRests
<1>. HIDE DEF a, again, own
<1>2. a.lineage = Gathered(byMatch, m) \cup {own}
  BY <1>1
<1>3. QED BY <1>2 DEF a, own

LEMMA TeamEntityIs ==
    ASSUME NEW rows, Grounded(rows), NEW t \in TeamsOf(rows),
           NEW m \in DOMAIN TeamTournament(rows, t, TeamMatches(rows)[t]).metrics
    PROVE  LET e == TeamEntity(rows, t, m)
               own == AggregationRef("team_tournament", t, NoMatch, m)
               byMatch == TeamMatches(rows)[t]
           IN  /\ e.match = NoMatch /\ own.match = NoMatch /\ own.kind = "aggregation"
               /\ e.of.lineage = Gathered(byMatch, m) \cup {own}
               /\ Aggregations(e.of) =
                     {AggregationRef("team_match", t, n, m) : n \in Children(byMatch, m)} \cup {own}
               /\ \A id : Named(e, id) <=> id = <<"team_tournament", t, NoMatch, m>>
<1>. DEFINE e == TeamEntity(rows, t, m)
            own == AggregationRef("team_tournament", t, NoMatch, m)
            byMatch == TeamMatches(rows)[t]
            child(n) == AggregationRef("team_match", t, n, m)
<1>1. e.match = NoMatch /\ e.of = TeamTournament(rows, t, byMatch).metrics[m]
  BY DEF TeamEntity
<1>2. e.of.lineage = Gathered(byMatch, m) \cup {own}
  <2>1. TeamTournament(rows, t, byMatch).metrics[m].lineage = Gathered(byMatch, m) \cup {own}
    <3>. HIDE DEF byMatch
    <3>1. m \in DOMAIN TeamTournament(rows, t, byMatch).metrics
      BY DEF byMatch
    <3>. HIDE DEF own
    <3>2. TeamTournament(rows, t, byMatch).metrics[m].lineage =
             Gathered(byMatch, m) \cup {AggregationRef("team_tournament", t, NoMatch, m)}
      BY <3>1, TeamRestsOn
    <3>3. QED BY <3>2 DEF own
  <2>. HIDE DEF e, own, byMatch
  <2>2. QED BY <1>1, <2>1
<1>3. own.kind = "aggregation" /\ own.match = NoMatch
      /\ own.id = <<"team_tournament", t, NoMatch, m>>
  BY RefsAre
<1>4. \A n : child(n).match = n
  BY RefsAre
<1>5. \A n \in Children(byMatch, m) : n # NoMatch
  BY OfAMatch DEF Children
<1>6. Links(Gathered(byMatch, m)) = {child(n) : n \in Children(byMatch, m)}
  BY GatheredLinks
<1>. HIDE DEF e, own, byMatch, child
<1>7. Aggregations(e.of) = Links(Gathered(byMatch, m)) \cup {own}
  BY <1>2, <1>3, LinksOf DEF Links
<1>8. Aggregations(e.of) = {child(n) : n \in Children(byMatch, m)} \cup {own}
  BY <1>6, <1>7
<1>9. \A id : Named(e, id) <=> id = <<"team_tournament", t, NoMatch, m>>
  <2>1. \A r \in Aggregations(e.of) : r.match = e.match => r = own
    BY <1>1, <1>4, <1>5, <1>8
  <2>2. own \in Aggregations(e.of) /\ own.match = e.match
    BY <1>1, <1>3, <1>8
  <2>3. QED BY <1>3, <2>1, <2>2 DEF Named
<1>10. QED BY <1>1, <1>2, <1>3, <1>8, <1>9 DEF e, own, byMatch, child


IsEntity(rows, e) == IsMatchEntity(rows, e) \/ IsPlayerEntity(rows, e) \/ IsTeamEntity(rows, e)

\* The scope in an id tells the kind of what is searched.
Scoped(e, scope) == \A id : Named(e, id) => id[1] = scope

LEMMA Unique ==
    ASSUME NEW rows, Grounded(rows), NEW e, IsEntity(rows, e), NEW f, IsEntity(rows, f),
           NEW id, Named(e, id), Named(f, id)
    PROVE  e = f
<1>1. ASSUME NEW g, IsMatchEntity(rows, g), Named(g, id)
      PROVE  id[1] = "team_match" /\ g = MatchEntity(rows, id[2], id[3], id[4])
  <2>0. PICK t \in TeamsOf(rows) : \E n \in DOMAIN TeamMatches(rows)[t] :
           \E m \in DOMAIN TeamMatches(rows)[t][n] : g = MatchEntity(rows, t, n, m)
    BY <1>1 DEF IsMatchEntity
  <2>1. PICK n \in DOMAIN TeamMatches(rows)[t] :
           \E m \in DOMAIN TeamMatches(rows)[t][n] : g = MatchEntity(rows, t, n, m)
    BY <2>0
  <2>5. PICK m \in DOMAIN TeamMatches(rows)[t][n] : g = MatchEntity(rows, t, n, m)
    BY <2>1
  <2>2. Named(MatchEntity(rows, t, n, m), id) <=> id = <<"team_match", t, n, m>>
    BY MatchEntityIs
  <2>3. id = <<"team_match", t, n, m>>
    BY <1>1, <2>5, <2>2
  <2>4. QED BY <2>5, <2>3
<1>2. ASSUME NEW g, IsPlayerEntity(rows, g), Named(g, id)
      PROVE  id[1] = "player_tournament" /\ g = PlayerEntity(rows, id[2], id[4])
  <2>0. PICK u \in Subjects(rows) :
           \E m \in DOMAIN Tournament(rows, u).metrics : g = PlayerEntity(rows, u, m)
    BY <1>2 DEF IsPlayerEntity
  <2>1. PICK m \in DOMAIN Tournament(rows, u).metrics : g = PlayerEntity(rows, u, m)
    BY <2>0
  <2>2. Named(PlayerEntity(rows, u, m), id) <=> id = <<"player_tournament", u, NoMatch, m>>
    BY PlayerEntityIs
  <2>3. id = <<"player_tournament", u, NoMatch, m>>
    BY <1>2, <2>1, <2>2
  <2>4. QED BY <2>1, <2>3
<1>3. ASSUME NEW g, IsTeamEntity(rows, g), Named(g, id)
      PROVE  id[1] = "team_tournament" /\ g = TeamEntity(rows, id[2], id[4])
  <2>0. PICK t \in TeamsOf(rows) :
           \E m \in DOMAIN TeamTournament(rows, t, TeamMatches(rows)[t]).metrics :
              g = TeamEntity(rows, t, m)
    BY <1>3 DEF IsTeamEntity
  <2>1. PICK m \in DOMAIN TeamTournament(rows, t, TeamMatches(rows)[t]).metrics :
           g = TeamEntity(rows, t, m)
    BY <2>0
  <2>2. Named(TeamEntity(rows, t, m), id) <=> id = <<"team_tournament", t, NoMatch, m>>
    BY TeamEntityIs
  <2>3. id = <<"team_tournament", t, NoMatch, m>>
    BY <1>3, <2>1, <2>2
  <2>4. QED BY <2>1, <2>3
<1>4. QED BY <1>1, <1>2, <1>3 DEF IsEntity

\* What is shown under e when it is served for id.
Shown(e, id) == [of |-> e.of, children |-> {r \in e.of.lineage : r.kind # "aggregation" \/ r.id # id}]

LEMMA ServedIs ==
    ASSUME NEW rows, Grounded(rows), NEW e, IsEntity(rows, e), NEW id, Named(e, id)
    PROVE  Served(Entities(ScoresOf(Corpus(rows))), id) = {Shown(e, id)}
<1>. DEFINE all == Entities(ScoresOf(Corpus(rows)))
<1>1. \A f : f \in all <=> IsEntity(rows, f)
  BY EntitiesAre DEF IsEntity
<1>. HIDE DEF all
<1>2. \A f \in all : Named(f, id) => f = e
  BY <1>1, Unique
<1>3. e \in all
  BY <1>1
<1>4. {f \in all : \E r \in Aggregations(f.of) : r.id = id /\ r.match = f.match} = {e}
  BY <1>2, <1>3 DEF Named
<1>5. Served(all, id) = {Shown(f, id) : f \in {f \in all :
                            \E r \in Aggregations(f.of) : r.id = id /\ r.match = f.match}}
  BY DEF Served, Shown
<1>6. QED BY <1>4, <1>5 DEF all


\* What a link of a score leads to: one thing, and no farther.
Leads(rows, e) ==
    LET entities == Entities(ScoresOf(Corpus(rows)))
        served == [r \in Aggregations(e.of) |-> Served(entities, r.id)]
        below == {r \in Aggregations(e.of) : r.match # e.match}
    IN  /\ \A r \in DOMAIN served : Cardinality(served[r]) = 1
        /\ \A r \in below : \A s \in served[r] : s.children \subseteq e.of.lineage
        /\ below # {} => Observations(e.of.lineage) =
                            Observations(UNION {UNION {s.children : s \in served[r]} : r \in below})

\* Each observation that is referred to is in a row.
Grounds(rows, e) ==
    \A r \in Observations(e.of.lineage) :
        LET seat == <<r.match, r.id[1]>>
        IN  seat \in DOMAIN rows /\ r.id[2] \in DOMAIN rows[seat].metrics

LEMMA SeenAreThere ==
    ASSUME NEW rows, Grounded(rows), NEW keys \in SUBSET DOMAIN rows, NEW m,
           NEW r \in Seen(rows, keys, m)
    PROVE  <<r.match, r.id[1]>> \in DOMAIN rows
           /\ r.id[2] \in DOMAIN rows[<<r.match, r.id[1]>>].metrics
<1>1. PICK k \in keys : /\ m \in DOMAIN rows[k].metrics
                        /\ r.match = k[1] /\ r.id = <<k[2], m>>
  BY SeenIs
<1>2. k \in Match \X Account
  BY DEF Grounded
<1>3. k = <<r.match, r.id[1]>> /\ r.id[2] = m
  BY <1>1, <1>2
<1>4. QED BY <1>1, <1>3

\* An entity whose only link is to itself.
LEMMA LonelyLeads ==
    ASSUME NEW rows, Grounded(rows), NEW e, IsEntity(rows, e),
           NEW own, Aggregations(e.of) = {own}, own.match = e.match
    PROVE  Leads(rows, e)
<1>. DEFINE entities == Entities(ScoresOf(Corpus(rows)))
            served == [r \in Aggregations(e.of) |-> Served(entities, r.id)]
            below == {r \in Aggregations(e.of) : r.match # e.match}
<1>1. below = {}
  OBVIOUS
<1>2. Named(e, own.id)
  BY DEF Named
<1>3. Served(entities, own.id) = {Shown(e, own.id)}
  BY <1>2, ServedIs
<1>4. \A r \in DOMAIN served : Cardinality(served[r]) = 1
  <2>1. \A x : Cardinality({x}) = 1
    BY FS_Singleton
  <2>. HIDE DEF entities
  <2>2. QED BY <1>3, <2>1
<1>. HIDE DEF served, below, entities
<1>5. /\ \A r \in below : \A s \in served[r] : s.children \subseteq e.of.lineage
      /\ below # {} => Observations(e.of.lineage) =
                            Observations(UNION {UNION {s.children : s \in served[r]} : r \in below})
  BY <1>1
<1>6. QED BY <1>4, <1>5 DEF Leads, served, below, entities

LEMMA MatchEntityLeads ==
    ASSUME NEW rows, Grounded(rows), NEW e, IsMatchEntity(rows, e)
    PROVE  Leads(rows, e) /\ Grounds(rows, e)
<1>0. PICK t \in TeamsOf(rows) : \E n \in DOMAIN TeamMatches(rows)[t] :
         \E m \in DOMAIN TeamMatches(rows)[t][n] : e = MatchEntity(rows, t, n, m)
  BY DEF IsMatchEntity
<1>1. PICK n \in DOMAIN TeamMatches(rows)[t] :
         \E m \in DOMAIN TeamMatches(rows)[t][n] : e = MatchEntity(rows, t, n, m)
  BY <1>0
<1>2. PICK m \in DOMAIN TeamMatches(rows)[t][n] : e = MatchEntity(rows, t, n, m)
  BY <1>1
<1>. DEFINE own == AggregationRef("team_match", t, n, m)
            keys == TeamKeys(rows, t, n)
<1>3. e.match = n /\ e.of.lineage = Seen(rows, keys, m) \cup {own} /\ Aggregations(e.of) = {own}
  <2>. DEFINE f == MatchEntity(rows, t, n, m)
  <2>1. f.match = n
    BY MatchEntityIs
  <2>4. f.of.lineage = Seen(rows, keys, m) \cup {own}
    BY MatchEntityIs
  <2>5. Aggregations(f.of) = {own}
    BY MatchEntityIs
  <2>. HIDE DEF f, own, keys
  <2>2. f.match = n /\ f.of.lineage = Seen(rows, keys, m) \cup {own} /\ Aggregations(f.of) = {own}
    BY <2>1, <2>4, <2>5
  <2>3. QED BY <1>2, <2>2 DEF f
<1>4. own.match = n /\ own.kind = "aggregation"
  BY RefsAre
<1>5. IsEntity(rows, e)
  BY DEF IsEntity
<1>6. keys \in SUBSET DOMAIN rows
  BY DEF TeamKeys
<1>. HIDE DEF own, keys
<1>7. Leads(rows, e)
  BY <1>3, <1>4, <1>5, LonelyLeads
<1>8. Grounds(rows, e)
  BY <1>3, <1>4, <1>6, SeenAreThere DEF Grounds, Observations
<1>9. QED BY <1>7, <1>8

LEMMA PlayerEntityLeads ==
    ASSUME NEW rows, Grounded(rows), NEW e, IsPlayerEntity(rows, e)
    PROVE  Leads(rows, e) /\ Grounds(rows, e)
<1>0. PICK s \in Subjects(rows) :
         \E m \in DOMAIN Tournament(rows, s).metrics : e = PlayerEntity(rows, s, m)
  BY DEF IsPlayerEntity
<1>1. PICK m \in DOMAIN Tournament(rows, s).metrics : e = PlayerEntity(rows, s, m)
  BY <1>0
<1>. DEFINE own == AggregationRef("player_tournament", s, NoMatch, m)
            keys == KeysOf(rows, s)
<1>3. /\ e.match = NoMatch /\ e.of.lineage = Seen(rows, keys, m) \cup {own}
      /\ Aggregations(e.of) = {own} /\ own.match = NoMatch
  BY <1>1, PlayerEntityIs
<1>4. own.kind = "aggregation"
  BY RefsAre
<1>5. IsEntity(rows, e)
  BY DEF IsEntity
<1>6. keys \in SUBSET DOMAIN rows
  BY DEF KeysOf
<1>. HIDE DEF own, keys
<1>7. Leads(rows, e)
  BY <1>3, <1>5, LonelyLeads
<1>8. Grounds(rows, e)
  BY <1>3, <1>4, <1>6, SeenAreThere DEF Grounds, Observations
<1>9. QED BY <1>7, <1>8


\* What is shown of a team in a match: the observations it was made from.
LEMMA ChildShows ==
    ASSUME NEW rows, Grounded(rows), NEW t \in TeamsOf(rows), NEW m,
           NEW n \in Children(TeamMatches(rows)[t], m)
    PROVE  LET own == AggregationRef("team_match", t, n, m)
               seen == Seen(rows, TeamKeys(rows, t, n), m)
           IN  /\ TeamMatches(rows)[t][n][m].lineage = seen \cup {own}
               /\ \E f : Served(Entities(ScoresOf(Corpus(rows))), own.id) = {f} /\ f.children = seen
<1>. DEFINE f == MatchEntity(rows, t, n, m)
            own == AggregationRef("team_match", t, n, m)
            seen == Seen(rows, TeamKeys(rows, t, n), m)
<1>1. n \in DOMAIN TeamMatches(rows)[t] /\ m \in DOMAIN TeamMatches(rows)[t][n]
  BY DEF Children
<1>2. IsEntity(rows, f)
  BY <1>1 DEF IsEntity, IsMatchEntity
<1>3. f.of.lineage = seen \cup {own}
  BY <1>1, MatchEntityIs
<1>4. own.kind = "aggregation" /\ own.id = <<"team_match", t, n, m>>
  BY RefsAre
<1>5. Named(f, own.id)
  <2>1. Named(f, <<"team_match", t, n, m>>)
    BY <1>1, MatchEntityIs
  <2>2. QED BY <1>4, <2>1
<1>6. TeamMatches(rows)[t][n][m] = f.of
  BY DEF MatchEntity
<1>7. \A r \in seen : r.kind # "aggregation"
  BY SeenIs
<1>. HIDE DEF f, own, seen
<1>8. Served(Entities(ScoresOf(Corpus(rows))), own.id) = {Shown(f, own.id)}
  BY <1>2, <1>5, ServedIs
<1>9. Shown(f, own.id).children = seen
  BY <1>3, <1>4, <1>7 DEF Shown
<1>10. QED BY <1>3, <1>6, <1>8, <1>9 DEF own, seen

LEMMA TeamEntityLeads ==
    ASSUME NEW rows, Grounded(rows), NEW e, IsTeamEntity(rows, e)
    PROVE  Leads(rows, e) /\ Grounds(rows, e)
<1>0. PICK t \in TeamsOf(rows) :
         \E m \in DOMAIN TeamTournament(rows, t, TeamMatches(rows)[t]).metrics :
            e = TeamEntity(rows, t, m)
  BY DEF IsTeamEntity
<1>1. PICK m \in DOMAIN TeamTournament(rows, t, TeamMatches(rows)[t]).metrics :
         e = TeamEntity(rows, t, m)
  BY <1>0
<1>. DEFINE byMatch == TeamMatches(rows)[t]
            own == AggregationRef("team_tournament", t, NoMatch, m)
            child(n) == AggregationRef("team_match", t, n, m)
            seen(n) == Seen(rows, TeamKeys(rows, t, n), m)
            entities == Entities(ScoresOf(Corpus(rows)))
            served == [r \in Aggregations(e.of) |-> Served(entities, r.id)]
            below == {r \in Aggregations(e.of) : r.match # e.match}
            C == Children(byMatch, m)
<1>2. e.match = NoMatch
  BY <1>1, TeamEntityIs
<1>3. e.of.lineage = Gathered(byMatch, m) \cup {own}
  BY <1>1, TeamEntityIs
<1>4. Aggregations(e.of) = {child(n) : n \in C} \cup {own}
  BY <1>1, TeamEntityIs
<1>5. own.match = NoMatch /\ own.kind = "aggregation"
  BY RefsAre
<1>6. \A n \in C : child(n).match = n /\ n # NoMatch /\ child(n).kind = "aggregation"
  BY RefsAre, OfAMatch DEF Children
<1>7. IsEntity(rows, e)
  BY DEF IsEntity
<1>8. \A n \in C : /\ byMatch[n][m].lineage = seen(n) \cup {child(n)}
                   /\ \E f : Served(entities, child(n).id) = {f} /\ f.children = seen(n)
  BY ChildShows
<1>9. \A n \in C : \A r \in seen(n) : /\ r.kind = "metric_observation"
                                      /\ <<r.match, r.id[1]>> \in DOMAIN rows
                                      /\ r.id[2] \in DOMAIN rows[<<r.match, r.id[1]>>].metrics
  <2>1. ASSUME NEW n \in C, NEW r \in seen(n)
        PROVE  /\ r.kind = "metric_observation"
               /\ <<r.match, r.id[1]>> \in DOMAIN rows
               /\ r.id[2] \in DOMAIN rows[<<r.match, r.id[1]>>].metrics
    <3>1. TeamKeys(rows, t, n) \in SUBSET DOMAIN rows
      BY DEF TeamKeys
    <3>2. r.kind = "metric_observation"
      BY SeenIs
    <3>. HIDE DEF C
    <3>3. QED BY <3>1, <3>2, SeenAreThere
  <2>. HIDE DEF C, seen
  <2>2. QED BY <2>1
<1>10. Served(entities, own.id) = {Shown(e, own.id)}
  <2>1. Named(e, own.id)
    <3>. HIDE DEF own, C, child
    <3>1. QED BY <1>2, <1>4, <1>5 DEF Named
  <2>2. QED BY <1>7, <2>1, ServedIs
<1>11. Gathered(byMatch, m) = UNION {byMatch[n][m].lineage : n \in C}
  BY DEF Gathered
<1>. HIDE DEF byMatch, own, child, seen, entities, C
<1>12. below = {child(n) : n \in C}
  BY <1>2, <1>4, <1>5, <1>6
<1>13. \A r \in DOMAIN served : Cardinality(served[r]) = 1
  <2>1. \A x : Cardinality({x}) = 1
    BY FS_Singleton
  <2>2. Cardinality(Served(entities, own.id)) = 1
    BY <1>10, <2>1
  <2>3. ASSUME NEW n \in C PROVE Cardinality(Served(entities, child(n).id)) = 1
    <3>1. PICK f : Served(entities, child(n).id) = {f}
      BY <1>8
    <3>2. QED BY <2>1, <3>1
  <2>4. ASSUME NEW r \in Aggregations(e.of) PROVE Cardinality(Served(entities, r.id)) = 1
    <3>1. r = own \/ \E n \in C : r = child(n)
      BY <1>4
    <3>2. QED BY <2>2, <2>3, <3>1
  <2>5. QED BY <2>4
<1>14. \A n \in C : child(n) \in Aggregations(e.of) /\ served[child(n)] = Served(entities, child(n).id)
  BY <1>4
<1>. HIDE DEF below, served
<1>15. \A n \in C : UNION {s.children : s \in served[child(n)]} = seen(n)
                    /\ \A s \in served[child(n)] : s.children = seen(n)
  <2>1. ASSUME NEW n \in C
        PROVE  UNION {s.children : s \in served[child(n)]} = seen(n)
               /\ \A s \in served[child(n)] : s.children = seen(n)
    <3>1. PICK f : served[child(n)] = {f} /\ f.children = seen(n)
      BY <1>8, <1>14
    <3>2. {s.children : s \in served[child(n)]} = {seen(n)}
      BY <3>1
    <3>3. QED BY <3>1, <3>2
  <2>2. QED BY <2>1
<1>16. \A r : r \in Gathered(byMatch, m) <=> \E n \in C : r \in seen(n) \/ r = child(n)
  BY <1>8, <1>11
<1>17. \A r \in below : \A s \in served[r] : s.children \subseteq e.of.lineage
  BY <1>3, <1>12, <1>15, <1>16
<1>18. Observations(e.of.lineage) =
          Observations(UNION {UNION {s.children : s \in served[r]} : r \in below})
  <2>. DEFINE Under(r) == UNION {s.children : s \in served[r]}
  <2>1. \A n \in C : Under(child(n)) = seen(n)
    BY <1>15
  <2>. HIDE DEF Under
  <2>2. \A r : r \in UNION {Under(u) : u \in below} <=> \E n \in C : r \in seen(n)
    BY <1>12, <2>1
  <2>3. \A r : r \in Observations(e.of.lineage) <=>
                  r.kind = "metric_observation" /\ \E n \in C : r \in seen(n)
    BY <1>3, <1>5, <1>6, <1>16 DEF Observations
  <2>4. \A S : \A r : r \in Observations(S) <=> r \in S /\ r.kind = "metric_observation"
    BY DEF Observations
  <2>5. \A r : r \in Observations(UNION {Under(u) : u \in below}) <=>
                  r.kind = "metric_observation" /\ \E n \in C : r \in seen(n)
    BY <2>2, <2>4
  <2>6. Observations(e.of.lineage) = Observations(UNION {Under(u) : u \in below})
    BY <2>3, <2>5
  <2>7. QED BY <2>6 DEF Under
<1>19. Leads(rows, e)
  BY <1>13, <1>17, <1>18 DEF Leads, below, served, entities
<1>20. Grounds(rows, e)
  BY <1>3, <1>5, <1>6, <1>9, <1>16 DEF Grounds, Observations
<1>21. QED BY <1>19, <1>20

-----------------------------------------------------------------------------
(* The graph of what is stored.                                            *)

\* What the root holds.
Typed ==
    /\ artifacts \in [Match -> Form \cup {"none", "stale"}]
    /\ DOMAIN overrides \subseteq Seats /\ \A k \in DOMAIN overrides : overrides[k] \in Role
    /\ upgrades \in 0 .. MaxUpgrades

LEMMA BoundsAre == MaxOverrides \in Nat /\ MaxUpgrades \in Nat
<1>1. {MaxOverrides, MaxUpgrades} \subseteq Nat
  BY RootAssumption
<1>2. QED BY <1>1

LEMMA StepTyped == Typed /\ [Next]_vars => Typed'
<1>. SUFFICES ASSUME Typed, [Next]_vars PROVE Typed'
  OBVIOUS
<1>1. CASE UNCHANGED <<artifacts, overrides, upgrades>>
  BY <1>1 DEF Typed, Seats
<1>2. ASSUME NEW m \in Match, Analyse(m) PROVE Typed'
  BY <1>2 DEF Typed, Analyse
<1>3. ASSUME NEW m \in Match, Fail(m) PROVE Typed'
  BY <1>3 DEF Typed, Fail
<1>4. CASE Upgrade
  <2>1. artifacts' \in [Match -> Form \cup {"none", "stale"}]
    BY <1>4 DEF Typed, Upgrade
  <2>2. upgrades' \in 0 .. MaxUpgrades
    BY <1>4, BoundsAre DEF Typed, Upgrade
  <2>3. QED BY <1>4, <2>1, <2>2 DEF Typed, Upgrade
<1>5. ASSUME NEW q \in Requests, Override(q[1], q[2], q[3]) PROVE Typed'
  <2>1. overrides' = [k \in DOMAIN overrides \cup {<<q[1], q[2]>>} |->
                        IF k = <<q[1], q[2]>> THEN q[3] ELSE overrides[k]]
        /\ UNCHANGED <<artifacts, upgrades>>
    BY <1>5 DEF Override
  <2>2. q[1] \in Match /\ q[2] \in DOMAIN Plays[q[1]] /\ q[3] \in Role
    BY RootAssumption
  <2>3. <<q[1], q[2]>> \in Seats
    BY <2>2 DEF Seats
  <2>4. QED BY <2>1, <2>2, <2>3 DEF Typed
<1>6. CASE Score
  BY <1>1, <1>6 DEF Score
<1>7. QED BY <1>1, <1>2, <1>3, <1>4, <1>5, <1>6 DEF Next, vars

LEMMA AlwaysTyped == Spec => []Typed
<1>1. Init => Typed
  <2>1. SUFFICES ASSUME Init PROVE Typed
    OBVIOUS
  <2>2. artifacts \in [Match -> Form \cup {"none", "stale"}]
    BY <2>1 DEF Init
  <2>3. DOMAIN overrides = {}
    BY <2>1 DEF Init
  <2>4. upgrades \in 0 .. MaxUpgrades
    BY <2>1, BoundsAre DEF Init
  <2>5. QED BY <2>2, <2>3, <2>4 DEF Typed
<1>2. QED BY <1>1, StepTyped, PTL DEF Spec


LEMMA RowsGrounded ==
    ASSUME Typed, Current
    PROVE  Grounded(Rows) /\ {k[1] : k \in DOMAIN Rows} = Verified
<1>1. DOMAIN Rows = {k \in Seats : k[1] \in Verified}
  BY DEF Rows
<1>2. ASSUME NEW k \in DOMAIN Rows
      PROVE  /\ k \in Match \X Account /\ k[1] # NoMatch
             /\ k[2] \in DOMAIN Plays[k[1]] /\ artifacts[k[1]] \in Form
  <2>1. k \in Seats /\ k[1] \in Verified
    BY <1>1
  <2>2. PICK m \in Match : k \in {m} \X DOMAIN Plays[m]
    BY <2>1 DEF Seats
  <2>3. k[1] = m /\ k[2] \in DOMAIN Plays[m]
    BY <2>2
  <2>4. m # NoMatch /\ k[2] \in Account
    BY <2>3, RootAssumption
  <2>5. artifacts[m] \in Form
    BY <2>1, <2>3 DEF Typed, Current, Verified
  <2>6. k \in Match \X Account
    BY <2>2, <2>3, <2>4
  <2>7. QED BY <2>3, <2>4, <2>5, <2>6
<1>3. ASSUME NEW k \in DOMAIN Rows
      PROVE  /\ \A x \in DOMAIN Rows[k].metrics :
                   Rows[k].metrics[x].lineage = {Ref("metric_observation", k[1], <<k[2], x>>)}
             /\ \A x \in DOMAIN Rows[k].unavailable : Rows[k].unavailable[x] # ""
  <2>1. Rows[k] = Row(k[1], k[2])
    BY DEF Rows
  <2>2. \A x \in DOMAIN Row(k[1], k[2]).metrics :
           Row(k[1], k[2]).metrics[x].lineage = {Ref("metric_observation", k[1], <<k[2], x>>)}
    BY DEF Row
  <2>3. Row(k[1], k[2]).unavailable = Withheld[artifacts[k[1]]][k[1]][k[2]]
    BY DEF Row
  <2>4. \A f \in Form, m \in Match : \A a \in DOMAIN Plays[m] :
           \A x \in DOMAIN Withheld[f][m][a] : Withheld[f][m][a][x] \in Reason \ {""}
    BY RootAssumption
  <2>5. k[1] \in Match
    BY <1>2
  <2>6. \A x \in DOMAIN Withheld[artifacts[k[1]]][k[1]][k[2]] :
           Withheld[artifacts[k[1]]][k[1]][k[2]][x] # ""
    BY <1>2, <2>4, <2>5
  <2>7. QED BY <2>1, <2>2, <2>3, <2>6
<1>4. Grounded(Rows)
  BY <1>2, <1>3, RowsAre DEF Grounded
<1>5. {k[1] : k \in DOMAIN Rows} = Verified
  <2>1. ASSUME NEW m \in Verified PROVE \E k \in DOMAIN Rows : k[1] = m
    <3>1. m \in Match /\ DOMAIN Plays[m] # {}
      BY RootAssumption DEF Verified
    <3>2. PICK a \in DOMAIN Plays[m] : TRUE
      BY <3>1
    <3>3. <<m, a>> \in Seats
      BY <3>1, <3>2 DEF Seats
    <3>4. QED BY <1>1, <3>3
  <2>2. \A k \in DOMAIN Rows : k[1] \in Verified
    BY <1>1
  <2>3. QED BY <2>1, <2>2
<1>6. QED BY <1>4, <1>5

\* ValidateCorpusScores refuses nothing that NewCorpus built from artifacts of
\* the rules in force, and serveAggregation finds one thing for each link of
\* what is stored, which rests on the observations of the rows.
THEOREM LinksResolve == Spec => []GraphResolves
<1>1. Told /\ Typed => GraphResolves
  <2>1. SUFFICES ASSUME Told, Typed PROVE GraphResolves
    OBVIOUS
  <2>2. outcome = "refused" => ~Current
    BY <2>1, RowsGrounded, BuiltIsValid DEF Told
  <2>3. ASSUME Scored
        PROVE  Current /\ {k[1] : k \in DOMAIN scores.matches} = Verified /\ LinksLead
    <3>1. Current /\ scores = ScoresOf(Corpus(Rows))
      BY <2>1, <2>3 DEF Told, Scored
    <3>2. Grounded(Rows) /\ {k[1] : k \in DOMAIN Rows} = Verified
      BY <2>1, <3>1, RowsGrounded
    <3>3. scores.matches = Rows
      BY <3>1, ScoredTeams
    <3>4. \A e \in Entities(scores) : Leads(Rows, e) /\ Grounds(Rows, e)
      BY <3>1, <3>2, EntitiesAre, MatchEntityLeads, PlayerEntityLeads, TeamEntityLeads
    <3>5. LinksLead
      <4>. DEFINE Right(entities, e) ==
                     LET served == [r \in Aggregations(e.of) |-> Served(entities, r.id)]
                         below == {r \in Aggregations(e.of) : r.match # e.match}
                     IN  /\ \A r \in DOMAIN served : Cardinality(served[r]) = 1
                         /\ \A r \in below : \A s \in served[r] : s.children \subseteq e.of.lineage
                         /\ below # {} => Observations(e.of.lineage) =
                               Observations(UNION {UNION {s.children : s \in served[r]} : r \in below})
                         /\ \A r \in Observations(e.of.lineage) : Reached(r)
      <4>1. LinksLead <=> \A entities \in {Entities(scores)} : \A e \in entities : Right(entities, e)
        BY Zenon DEF LinksLead
      <4>2. ASSUME NEW e \in Entities(scores) PROVE Right(Entities(scores), e)
        <5>1. \A r \in Observations(e.of.lineage) : Reached(r)
          BY <3>3, <3>4 DEF Grounds, Reached
        <5>2. Leads(Rows, e)
          BY <3>4
        <5>3. QED BY <3>1, <5>1, <5>2 DEF Leads
      <4>. HIDE DEF Right
      <4>3. QED BY <4>1, <4>2
    <3>6. QED BY <3>1, <3>2, <3>3, <3>5
  <2>4. QED BY <2>2, <2>3 DEF GraphResolves
<1>2. QED BY <1>1, AlwaysTold, AlwaysTyped, PTL

-----------------------------------------------------------------------------
(* Sums over finite sets.                                                  *)

\* What holds of a set if it holds of it without any one of its elements.
LEMMA Shrinking ==
    ASSUME NEW D, IsFiniteSet(D), NEW Good,
           \A T \in SUBSET D : (\A x \in T : T \ {x} \in Good) => T \in Good
    PROVE  \A T \in SUBSET D : T \in Good
<1>. DEFINE N == {n \in Nat : \A T \in SUBSET D : Cardinality(T) = n => T \in Good}
<1>1. \A T \in SUBSET D : IsFiniteSet(T) /\ Cardinality(T) \in Nat
  BY FS_Subset, FS_CardinalityType
<1>2. 0 \in N
  <2>1. \A T \in SUBSET D : Cardinality(T) = 0 => T = {}
    BY <1>1, FS_EmptySet
  <2>2. {} \in Good
    OBVIOUS
  <2>3. QED BY <2>1, <2>2
<1>3. ASSUME NEW n \in N PROVE n + 1 \in N
  <2>1. SUFFICES ASSUME NEW T \in SUBSET D, Cardinality(T) = n + 1 PROVE T \in Good
    OBVIOUS
  <2>2. n \in Nat
    OBVIOUS
  <2>3. ASSUME NEW x \in T PROVE T \ {x} \in Good
    <3>1. Cardinality(T \ {x}) = n
      BY <1>1, <2>1, <2>2, FS_RemoveElement
    <3>2. T \ {x} \in SUBSET D
      OBVIOUS
    <3>3. QED BY <3>1, <3>2
  <2>4. QED BY <2>3
<1>4. N \in SUBSET Nat
  OBVIOUS
<1>. HIDE DEF N
<1>5. \A n \in Nat : n \in N
  BY <1>2, <1>3, <1>4, Climb
<1>6. SUFFICES ASSUME NEW T \in SUBSET D PROVE T \in Good
  OBVIOUS
<1>7. Cardinality(T) \in N
  BY <1>1, <1>5
<1>8. QED BY <1>7 DEF N

Picked(S) == CHOOSE x \in S : TRUE

\* g goes over the parts of S, from b, by h.
GoesOver(g, S, b, h) ==
    \A T \in SUBSET S : g[T] = IF T = {} THEN b ELSE h[<<T, g[T \ {Picked(T)}]>>]

LEMMA GoneOver ==
    ASSUME NEW S, IsFiniteSet(S), NEW V, NEW b \in V, NEW h \in [(SUBSET S) \X V -> V]
    PROVE  \E g \in [SUBSET S -> V] : GoesOver(g, S, b, h)
<1>. DEFINE Upto(g, n) == \A T \in SUBSET S : Cardinality(T) <= n =>
                             g[T] = IF T = {} THEN b ELSE h[<<T, g[T \ {Picked(T)}]>>]
            N == {n \in Nat : \E g \in [SUBSET S -> V] : Upto(g, n)}
<1>1. \A T \in SUBSET S : IsFiniteSet(T) /\ Cardinality(T) \in Nat
  BY FS_Subset, FS_CardinalityType
<1>2. \A T \in SUBSET S : T # {} => Picked(T) \in T /\ T \ {Picked(T)} \in SUBSET S
                                     /\ Cardinality(T \ {Picked(T)}) = Cardinality(T) - 1
  BY <1>1, FS_RemoveElement DEF Picked
<1>3. 0 \in N
  <2>. DEFINE g == [T \in SUBSET S |-> b]
  <2>1. \A T \in SUBSET S : Cardinality(T) <= 0 => T = {}
    BY <1>1, FS_EmptySet
  <2>2. g \in [SUBSET S -> V] /\ Upto(g, 0)
    BY <2>1
  <2>3. QED BY <2>2
<1>4. ASSUME NEW n \in N PROVE n + 1 \in N
  <2>. HIDE DEF Upto
  <2>1. PICK g \in [SUBSET S -> V] : Upto(g, n)
    OBVIOUS
  <2>. DEFINE step(T) == IF T = {} THEN b ELSE h[<<T, g[T \ {Picked(T)}]>>]
              more == [T \in SUBSET S |-> IF Cardinality(T) <= n THEN g[T] ELSE step(T)]
  <2>2. \A T \in SUBSET S : step(T) \in V
    BY <1>2
  <2>3. more \in [SUBSET S -> V]
    BY <2>2
  <2>4. ASSUME NEW T \in SUBSET S, Cardinality(T) <= n + 1
        PROVE  more[T] = IF T = {} THEN b ELSE h[<<T, more[T \ {Picked(T)}]>>]
    <3>1. n \in Nat
      OBVIOUS
    <3>2. T # {} => more[T \ {Picked(T)}] = g[T \ {Picked(T)}]
      <4>1. SUFFICES ASSUME T # {} PROVE more[T \ {Picked(T)}] = g[T \ {Picked(T)}]
        OBVIOUS
      <4>2. T \ {Picked(T)} \in SUBSET S /\ Cardinality(T \ {Picked(T)}) <= n
        BY <1>1, <1>2, <2>4, <3>1, <4>1
      <4>3. QED BY <4>2
    <3>3. more[T] = step(T)
      <4>1. Cardinality(T) <= n => g[T] = step(T)
        BY <2>1 DEF Upto
      <4>2. QED BY <4>1
    <3>. HIDE DEF more
    <3>4. QED BY <3>2, <3>3
  <2>. HIDE DEF more
  <2>5. Upto(more, n + 1)
    BY <2>4 DEF Upto
  <2>6. n + 1 \in Nat
    OBVIOUS
  <2>7. QED BY <2>3, <2>5, <2>6
<1>5. N \in SUBSET Nat
  OBVIOUS
<1>. HIDE DEF N
<1>6. Cardinality(S) \in N
  BY <1>1, <1>3, <1>4, <1>5, Climb
<1>7. PICK g \in [SUBSET S -> V] : Upto(g, Cardinality(S))
  BY <1>6 DEF N
<1>8. \A T \in SUBSET S : Cardinality(T) <= Cardinality(S)
  BY FS_Subset
<1>9. GoesOver(g, S, b, h)
  BY <1>7, <1>8 DEF GoesOver
<1>10. QED BY <1>9

\* A way to put two of V together, in any order, b adding nothing.
Adds(plus, b, V) ==
    /\ plus \in [V -> [V -> V]] /\ b \in V
    /\ \A x \in V : plus[b][x] = x
    /\ \A x \in V : plus[x][b] = x
    /\ \A x, y, z \in V : plus[x][plus[y][z]] = plus[y][plus[x][z]]

\* g[T] is all that f gives in T, put together.
Sums(g, f, plus, b, V) ==
    /\ g \in [SUBSET DOMAIN f -> V] /\ \A x \in DOMAIN f : f[x] \in V
    /\ \A T \in SUBSET DOMAIN f :
          g[T] = IF T = {} THEN b ELSE plus[f[Picked(T)]][g[T \ {Picked(T)}]]

AnyOrder(plus, V) ==
    \A x, y, z \in V : /\ plus[x][y] = plus[y][x]
                       /\ plus[x][plus[y][z]] = plus[plus[x][y]][z]

LEMMA Together ==
    ASSUME NEW V, NEW plus, NEW b, Adds(plus, b, V)
    PROVE  AnyOrder(plus, V)
<1>. SUFFICES ASSUME NEW x \in V, NEW y \in V, NEW z \in V
              PROVE  /\ plus[x][y] = plus[y][x]
                     /\ plus[x][plus[y][z]] = plus[plus[x][y]][z]
  BY DEF AnyOrder
<1>1. \A u, v \in V : plus[u][v] = plus[v][u]
  <2>1. SUFFICES ASSUME NEW u \in V, NEW v \in V PROVE plus[u][v] = plus[v][u]
    OBVIOUS
  <2>2. plus[u][plus[v][b]] = plus[v][plus[u][b]]
    BY DEF Adds
  <2>3. plus[v][b] = v /\ plus[u][b] = u
    BY DEF Adds
  <2>4. QED BY <2>2, <2>3
<1>2. plus[y][z] \in V /\ plus[x][y] \in V
  BY DEF Adds
<1>3. plus[x][plus[y][z]] = plus[x][plus[z][y]]
  BY <1>1
<1>4. plus[x][plus[z][y]] = plus[z][plus[x][y]]
  BY DEF Adds
<1>5. plus[z][plus[x][y]] = plus[plus[x][y]][z]
  BY <1>1, <1>2
<1>6. QED BY <1>1, <1>3, <1>4, <1>5

\* Whichever element comes first.
FirstAny(g, f, plus) == \A T \in SUBSET DOMAIN f : \A x \in T : g[T] = plus[f[x]][g[T \ {x}]]

LEMMA FirstIsAny ==
    ASSUME NEW V, NEW plus, NEW b, Adds(plus, b, V), NEW f, IsFiniteSet(DOMAIN f),
           NEW g, Sums(g, f, plus, b, V)
    PROVE  FirstAny(g, f, plus)
<1>. DEFINE Good == {T \in SUBSET DOMAIN f : \A x \in T : g[T] = plus[f[x]][g[T \ {x}]]}
<1>1. ASSUME NEW T \in SUBSET DOMAIN f, \A x \in T : T \ {x} \in Good PROVE T \in Good
  <2>1. SUFFICES ASSUME NEW x \in T PROVE g[T] = plus[f[x]][g[T \ {x}]]
    OBVIOUS
  <2>. DEFINE p == Picked(T)
  <2>2. p \in T
    BY DEF Picked
  <2>3. g[T] = plus[f[p]][g[T \ {p}]]
    BY <2>1 DEF Sums
  <2>4. CASE x # p
    <3>. HIDE DEF p
    <3>1. g[T \ {p}] = plus[f[x]][g[(T \ {p}) \ {x}]]
      BY <1>1, <2>2, <2>4
    <3>2. g[T \ {x}] = plus[f[p]][g[(T \ {x}) \ {p}]]
      BY <1>1, <2>2, <2>4
    <3>3. (T \ {p}) \ {x} = (T \ {x}) \ {p} /\ (T \ {x}) \ {p} \in SUBSET DOMAIN f
      OBVIOUS
    <3>4. f[x] \in V /\ f[p] \in V /\ g[(T \ {x}) \ {p}] \in V
      BY <2>2, <3>3 DEF Sums
    <3>. DEFINE rest == g[(T \ {x}) \ {p}]
    <3>5. plus[f[p]][plus[f[x]][rest]] = plus[f[x]][plus[f[p]][rest]]
      BY <3>4 DEF Adds
    <3>6. g[T \ {p}] = plus[f[x]][rest] /\ g[T \ {x}] = plus[f[p]][rest]
      BY <3>1, <3>2, <3>3
    <3>. HIDE DEF rest
    <3>7. QED BY <2>3, <3>5, <3>6
  <2>5. QED BY <2>3, <2>4
<1>. HIDE DEF Good
<1>2. \A T \in SUBSET DOMAIN f : T \in Good
  BY <1>1, Shrinking
<1>3. QED BY <1>2 DEF Good, FirstAny

LEMMA AnyFirst ==
    ASSUME NEW V, NEW plus, NEW b, Adds(plus, b, V), NEW f, IsFiniteSet(DOMAIN f),
           NEW g, Sums(g, f, plus, b, V)
    PROVE  \A T \in SUBSET DOMAIN f : \A x \in T : g[T] = plus[f[x]][g[T \ {x}]]
<1>1. FirstAny(g, f, plus)
  BY FirstIsAny
<1>2. QED BY <1>1 DEF FirstAny

LEMMA SumsThere ==
    ASSUME NEW V, NEW plus, NEW b, Adds(plus, b, V), NEW f, IsFiniteSet(DOMAIN f),
           \A x \in DOMAIN f : f[x] \in V
    PROVE  \E g : Sums(g, f, plus, b, V)
<1>. DEFINE h == [Tv \in (SUBSET DOMAIN f) \X V |->
                    IF Tv[1] = {} THEN b ELSE plus[f[Picked(Tv[1])]][Tv[2]]]
<1>1. h \in [(SUBSET DOMAIN f) \X V -> V]
  <2>1. ASSUME NEW Tv \in (SUBSET DOMAIN f) \X V
        PROVE  (IF Tv[1] = {} THEN b ELSE plus[f[Picked(Tv[1])]][Tv[2]]) \in V
    <3>1. Tv[1] # {} => f[Picked(Tv[1])] \in V
      BY DEF Picked
    <3>2. \A x, y \in V : plus[x][y] \in V
      BY DEF Adds
    <3>3. b \in V /\ Tv[2] \in V
      BY DEF Adds
    <3>4. QED BY <3>1, <3>2, <3>3
  <2>2. QED BY <2>1
<1>2. b \in V
  BY DEF Adds
<1>. HIDE DEF h
<1>3. PICK g \in [SUBSET DOMAIN f -> V] : GoesOver(g, DOMAIN f, b, h)
  BY <1>1, <1>2, GoneOver
<1>4. ASSUME NEW T \in SUBSET DOMAIN f
      PROVE  g[T] = IF T = {} THEN b ELSE plus[f[Picked(T)]][g[T \ {Picked(T)}]]
  <2>1. g[T] = IF T = {} THEN b ELSE h[<<T, g[T \ {Picked(T)}]>>]
    BY <1>3 DEF GoesOver
  <2>2. \A v \in V : T # {} => h[<<T, v>>] = plus[f[Picked(T)]][v]
    BY DEF h
  <2>3. g[T \ {Picked(T)}] \in V
    OBVIOUS
  <2>4. QED BY <2>1, <2>2, <2>3
<1>5. QED BY <1>3, <1>4 DEF Sums

\* The sum of two parts.
LEMMA SumsApart ==
    ASSUME NEW V, NEW plus, NEW b, Adds(plus, b, V), NEW f, IsFiniteSet(DOMAIN f),
           NEW g, Sums(g, f, plus, b, V),
           NEW A \in SUBSET DOMAIN f, NEW B \in SUBSET DOMAIN f, A \cap B = {}
    PROVE  g[A \cup B] = plus[g[A]][g[B]]
<1>0. AnyOrder(plus, V)
  BY Together
<1>. DEFINE Good == {T \in SUBSET A : g[T \cup B] = plus[g[T]][g[B]]}
<1>1. ASSUME NEW T \in SUBSET A, \A x \in T : T \ {x} \in Good PROVE T \in Good
  <2>0. g[B] \in V /\ g[T] \in V
    BY DEF Sums
  <2>1. CASE T = {}
    <3>1. g[T] = b /\ T \cup B = B
      BY <2>1 DEF Sums
    <3>2. QED BY <2>0, <3>1 DEF Adds
  <2>2. CASE T # {}
    <3>1. PICK x \in T : TRUE
      BY <2>2
    <3>2. g[(T \ {x}) \cup B] = plus[g[T \ {x}]][g[B]]
      BY <1>1
    <3>3. (T \cup B) \ {x} = (T \ {x}) \cup B /\ x \in T \cup B /\ T \cup B \in SUBSET DOMAIN f
      BY <3>1
    <3>4. g[T \cup B] = plus[f[x]][g[(T \cup B) \ {x}]]
      BY <3>3, AnyFirst
    <3>5. g[T] = plus[f[x]][g[T \ {x}]]
      BY AnyFirst
    <3>6. f[x] \in V /\ g[T \ {x}] \in V
      BY DEF Sums
    <3>. DEFINE first == f[x]
                rest == g[T \ {x}]
                other == g[B]
    <3>7. plus[first][plus[rest][other]] = plus[plus[first][rest]][other]
      <4>1. first \in V /\ rest \in V /\ other \in V
        BY <2>0, <3>6
      <4>. HIDE DEF first, rest, other
      <4>2. QED BY <1>0, <4>1 DEF AnyOrder
    <3>8. g[T \cup B] = plus[first][plus[rest][other]] /\ g[T] = plus[first][rest]
      BY <3>2, <3>3, <3>4, <3>5
    <3>. HIDE DEF first, rest
    <3>9. QED BY <3>7, <3>8
  <2>3. QED BY <2>1, <2>2
<1>. HIDE DEF Good
<1>2. IsFiniteSet(A)
  BY FS_Subset
<1>3. A \in Good
  <2>1. \A T \in SUBSET A : (\A x \in T : T \ {x} \in Good) => T \in Good
    BY <1>1
  <2>2. \A T \in SUBSET A : T \in Good
    BY <1>2, <2>1, Shrinking
  <2>3. QED BY <2>2
<1>4. QED BY <1>3 DEF Good


\* Two sums of the same.
LEMMA SumsAgree ==
    ASSUME NEW V, NEW plus, NEW b, Adds(plus, b, V),
           NEW f, IsFiniteSet(DOMAIN f), NEW g, Sums(g, f, plus, b, V),
           NEW e, IsFiniteSet(DOMAIN e), NEW h, Sums(h, e, plus, b, V),
           NEW A \in SUBSET (DOMAIN f \cap DOMAIN e), \A x \in A : f[x] = e[x]
    PROVE  g[A] = h[A]
<1>. DEFINE Good == {T \in SUBSET A : g[T] = h[T]}
<1>1. ASSUME NEW T \in SUBSET A, \A x \in T : T \ {x} \in Good PROVE T \in Good
  <2>0. T \in SUBSET DOMAIN f /\ T \in SUBSET DOMAIN e
    OBVIOUS
  <2>1. CASE T = {}
    BY <2>0, <2>1 DEF Sums
  <2>2. CASE T # {}
    <3>1. PICK x \in T : TRUE
      BY <2>2
    <3>2. g[T] = plus[f[x]][g[T \ {x}]]
      BY <2>0, AnyFirst
    <3>3. h[T] = plus[e[x]][h[T \ {x}]]
      BY <2>0, AnyFirst
    <3>4. g[T \ {x}] = h[T \ {x}] /\ f[x] = e[x]
      BY <1>1
    <3>5. QED BY <3>2, <3>3, <3>4
  <2>3. QED BY <2>1, <2>2
<1>2. IsFiniteSet(A)
  BY FS_Subset
<1>. HIDE DEF Good
<1>3. \A T \in SUBSET A : T \in Good
  BY <1>1, <1>2, Shrinking
<1>4. QED BY <1>3 DEF Good

\* The sum, over some sets that do not meet, of their sums.
LEMMA SumsOfParts ==
    ASSUME NEW V, NEW plus, NEW b, Adds(plus, b, V),
           NEW f, IsFiniteSet(DOMAIN f), NEW g, Sums(g, f, plus, b, V),
           NEW part, IsFiniteSet(DOMAIN part), \A n \in DOMAIN part : part[n] \in SUBSET DOMAIN f,
           \A n, m \in DOMAIN part : n # m => part[n] \cap part[m] = {},
           NEW e, DOMAIN e = DOMAIN part, \A n \in DOMAIN part : e[n] = g[part[n]],
           NEW h, Sums(h, e, plus, b, V)
    PROVE  h[DOMAIN part] = g[UNION {part[n] : n \in DOMAIN part}]
<1>. DEFINE All(T) == UNION {part[n] : n \in T}
            Good == {T \in SUBSET DOMAIN part : h[T] = g[All(T)]}
<1>1. ASSUME NEW T \in SUBSET DOMAIN part, \A x \in T : T \ {x} \in Good PROVE T \in Good
  <2>1. CASE T = {}
    <3>1. All(T) = {}
      BY <2>1
    <3>2. h[T] = b
      BY <2>1 DEF Sums
    <3>3. g[{}] = b
      BY DEF Sums
    <3>4. QED BY <3>1, <3>2, <3>3
  <2>2. CASE T # {}
    <3>1. PICK x \in T : TRUE
      BY <2>2
    <3>2. h[T] = plus[e[x]][h[T \ {x}]]
      BY AnyFirst
    <3>3. h[T \ {x}] = g[All(T \ {x})] /\ e[x] = g[part[x]]
      BY <1>1
    <3>4. All(T) = part[x] \cup All(T \ {x})
      BY <3>1
    <3>5. part[x] \cap All(T \ {x}) = {}
      OBVIOUS
    <3>6. part[x] \in SUBSET DOMAIN f /\ All(T \ {x}) \in SUBSET DOMAIN f
      OBVIOUS
    <3>. DEFINE A == part[x]
                B == All(T \ {x})
    <3>. HIDE DEF A, B
    <3>7. g[A \cup B] = plus[g[A]][g[B]]
      <4>1. A \in SUBSET DOMAIN f /\ B \in SUBSET DOMAIN f /\ A \cap B = {}
        BY <3>5, <3>6 DEF A, B
      <4>2. QED BY <4>1, SumsApart
    <3>8. QED BY <3>2, <3>3, <3>4, <3>7 DEF A, B
  <2>3. QED BY <2>1, <2>2
<1>. HIDE DEF Good, All
<1>2. \A T \in SUBSET DOMAIN part : T \in Good
  BY <1>1, Shrinking
<1>3. h[DOMAIN part] = g[All(DOMAIN part)]
  BY <1>2 DEF Good
<1>4. QED BY <1>3 DEF All

-----------------------------------------------------------------------------
(* Sums of integers.                                                       *)

IntPlus == [x \in Int |-> [y \in Int |-> x + y]]

LEMMA IntAdds == Adds(IntPlus, 0, Int)
  BY DEF Adds, IntPlus

\* What SumOf goes over.
Adding(f) == CHOOSE g : g = [T \in SUBSET DOMAIN f |->
                IF T = {} THEN 0 ELSE f[Picked(T)] + g[T \ {Picked(T)}]]

LEMMA SumOfIs ==
    ASSUME NEW f
    PROVE  SumOf(f) = Adding(f)[DOMAIN f]
  BY DEF SumOf, MapThenSumSet, MapThenFoldSet, Adding, Picked

LEMMA AddingIs ==
    ASSUME NEW f, IsFiniteSet(DOMAIN f), \A x \in DOMAIN f : f[x] \in Int
    PROVE  Sums(Adding(f), f, IntPlus, 0, Int)
<1>1. PICK g : Sums(g, f, IntPlus, 0, Int)
  BY IntAdds, SumsThere
<1>2. g = [T \in SUBSET DOMAIN f |-> IF T = {} THEN 0 ELSE f[Picked(T)] + g[T \ {Picked(T)}]]
  <2>1. g = [T \in SUBSET DOMAIN f |-> g[T]]
    BY <1>1 DEF Sums
  <2>2. ASSUME NEW T \in SUBSET DOMAIN f
        PROVE  g[T] = IF T = {} THEN 0 ELSE f[Picked(T)] + g[T \ {Picked(T)}]
    <3>1. g[T] = IF T = {} THEN 0 ELSE IntPlus[f[Picked(T)]][g[T \ {Picked(T)}]]
      BY <1>1 DEF Sums
    <3>2. T # {} => Picked(T) \in T
      BY DEF Picked
    <3>3. T # {} => f[Picked(T)] \in Int /\ g[T \ {Picked(T)}] \in Int
      BY <1>1, <3>2 DEF Sums
    <3>4. QED BY <3>1, <3>3 DEF IntPlus
  <2>3. QED BY <2>1, <2>2
<1>3. Adding(f) = [T \in SUBSET DOMAIN f |->
                     IF T = {} THEN 0 ELSE f[Picked(T)] + Adding(f)[T \ {Picked(T)}]]
  BY <1>2 DEF Adding
<1>. DEFINE a == Adding(f)
<1>. HIDE DEF a
<1>4. \A T \in SUBSET DOMAIN f : a[T] = IF T = {} THEN 0 ELSE f[Picked(T)] + a[T \ {Picked(T)}]
  BY <1>3 DEF a
<1>5. DOMAIN a = SUBSET DOMAIN f /\ a = [T \in SUBSET DOMAIN f |-> a[T]]
  BY <1>3 DEF a
<1>6. \A T \in SUBSET DOMAIN f : a[T] \in Int
  <2>. DEFINE Good == {T \in SUBSET DOMAIN f : a[T] \in Int}
  <2>1. ASSUME NEW T \in SUBSET DOMAIN f, \A x \in T : T \ {x} \in Good PROVE T \in Good
    <3>1. CASE T = {}
      BY <1>4, <3>1
    <3>2. CASE T # {}
      <4>1. Picked(T) \in T
        BY <3>2 DEF Picked
      <4>2. a[T \ {Picked(T)}] \in Int
        BY <2>1, <4>1
      <4>3. f[Picked(T)] \in Int
        BY <4>1
      <4>4. a[T] = f[Picked(T)] + a[T \ {Picked(T)}]
        BY <1>4, <3>2
      <4>5. QED BY <4>2, <4>3, <4>4
    <3>3. QED BY <3>1, <3>2
  <2>. HIDE DEF Good
  <2>2. \A T \in SUBSET DOMAIN f : T \in Good
    BY <2>1, Shrinking
  <2>3. QED BY <2>2 DEF Good
<1>7. ASSUME NEW T \in SUBSET DOMAIN f
      PROVE  a[T] = IF T = {} THEN 0 ELSE IntPlus[f[Picked(T)]][a[T \ {Picked(T)}]]
  <2>1. T # {} => Picked(T) \in T
    BY DEF Picked
  <2>2. T # {} => f[Picked(T)] \in Int /\ a[T \ {Picked(T)}] \in Int
    BY <1>6, <2>1
  <2>3. QED BY <1>4, <2>2 DEF IntPlus
<1>8. QED BY <1>5, <1>6, <1>7 DEF Sums, a


LEMMA AddingSteps ==
    ASSUME NEW f, IsFiniteSet(DOMAIN f), \A x \in DOMAIN f : f[x] \in Int
    PROVE  /\ Adding(f)[{}] = 0
           /\ \A T \in SUBSET DOMAIN f : Adding(f)[T] \in Int
           /\ \A T \in SUBSET DOMAIN f : \A x \in T : Adding(f)[T] = f[x] + Adding(f)[T \ {x}]
<1>. DEFINE a == Adding(f)
<1>1. Sums(a, f, IntPlus, 0, Int)
  BY AddingIs
<1>. HIDE DEF a
<1>2. \A T \in SUBSET DOMAIN f : \A x \in T : a[T] = IntPlus[f[x]][a[T \ {x}]]
  <2>1. FirstAny(a, f, IntPlus)
    BY <1>1, IntAdds, FirstIsAny
  <2>2. QED BY <2>1 DEF FirstAny
<1>3. \A T \in SUBSET DOMAIN f : a[T] \in Int
  BY <1>1 DEF Sums
<1>4. ASSUME NEW T \in SUBSET DOMAIN f, NEW x \in T PROVE a[T] = f[x] + a[T \ {x}]
  <2>1. a[T] = IntPlus[f[x]][a[T \ {x}]]
    BY <1>2
  <2>2. f[x] \in Int /\ a[T \ {x}] \in Int
    BY <1>3
  <2>3. QED BY <2>1, <2>2 DEF IntPlus
<1>5. a[{}] = 0
  BY <1>1 DEF Sums
<1>6. QED BY <1>3, <1>4, <1>5 DEF a

\* A sum is no less than another of the same things, and a multiple of the
\* parts sums to the multiple.
LEMMA SumBelow ==
    ASSUME NEW f, NEW e, IsFiniteSet(DOMAIN f), DOMAIN e = DOMAIN f,
           \A x \in DOMAIN f : f[x] \in Int /\ e[x] \in Int /\ f[x] <= e[x]
    PROVE  SumOf(f) \in Int /\ SumOf(e) \in Int /\ SumOf(f) <= SumOf(e)
<1>. DEFINE a == Adding(f)
            b == Adding(e)
            Good == {T \in SUBSET DOMAIN f : a[T] <= b[T]}
<1>1. /\ a[{}] = 0
      /\ \A T \in SUBSET DOMAIN f : a[T] \in Int
      /\ \A T \in SUBSET DOMAIN f : \A x \in T : a[T] = f[x] + a[T \ {x}]
  BY AddingSteps
<1>2. /\ b[{}] = 0
      /\ \A T \in SUBSET DOMAIN f : b[T] \in Int
      /\ \A T \in SUBSET DOMAIN f : \A x \in T : b[T] = e[x] + b[T \ {x}]
  BY AddingSteps
<1>. HIDE DEF a, b
<1>3. ASSUME NEW T \in SUBSET DOMAIN f, \A x \in T : T \ {x} \in Good PROVE T \in Good
  <2>1. CASE T = {}
    BY <1>1, <1>2, <2>1
  <2>2. CASE T # {}
    <3>1. PICK x \in T : TRUE
      BY <2>2
    <3>2. a[T \ {x}] <= b[T \ {x}]
      BY <1>3
    <3>3. a[T] = f[x] + a[T \ {x}] /\ b[T] = e[x] + b[T \ {x}]
      BY <1>1, <1>2
    <3>4. a[T \ {x}] \in Int /\ b[T \ {x}] \in Int /\ f[x] \in Int /\ e[x] \in Int /\ f[x] <= e[x]
      BY <1>1, <1>2
    <3>5. QED BY <3>2, <3>3, <3>4
  <2>3. QED BY <2>1, <2>2
<1>. HIDE DEF Good
<1>4. DOMAIN f \in Good
  <2>1. \A T \in SUBSET DOMAIN f : (\A x \in T : T \ {x} \in Good) => T \in Good
    BY <1>3
  <2>2. \A T \in SUBSET DOMAIN f : T \in Good
    BY <2>1, Shrinking
  <2>3. QED BY <2>2
<1>5. SumOf(f) = a[DOMAIN f] /\ SumOf(e) = b[DOMAIN f]
  BY SumOfIs DEF a, b
<1>6. QED BY <1>1, <1>2, <1>4, <1>5 DEF Good

LEMMA SumTimes ==
    ASSUME NEW f, NEW e, IsFiniteSet(DOMAIN f), DOMAIN e = DOMAIN f, NEW c \in Int,
           \A x \in DOMAIN f : f[x] \in Int /\ e[x] = c * f[x]
    PROVE  SumOf(e) = c * SumOf(f) /\ SumOf(f) \in Int
<1>. DEFINE a == Adding(f)
            b == Adding(e)
            Good == {T \in SUBSET DOMAIN f : b[T] = c * a[T]}
<1>1. /\ a[{}] = 0
      /\ \A T \in SUBSET DOMAIN f : a[T] \in Int
      /\ \A T \in SUBSET DOMAIN f : \A x \in T : a[T] = f[x] + a[T \ {x}]
  BY AddingSteps
<1>0. \A x \in DOMAIN f : e[x] \in Int
  OBVIOUS
<1>2. /\ b[{}] = 0
      /\ \A T \in SUBSET DOMAIN f : b[T] \in Int
      /\ \A T \in SUBSET DOMAIN f : \A x \in T : b[T] = e[x] + b[T \ {x}]
  BY <1>0, AddingSteps
<1>. HIDE DEF a, b
<1>3. ASSUME NEW T \in SUBSET DOMAIN f, \A x \in T : T \ {x} \in Good PROVE T \in Good
  <2>1. CASE T = {}
    BY <1>1, <1>2, <2>1
  <2>2. CASE T # {}
    <3>1. PICK x \in T : TRUE
      BY <2>2
    <3>2. b[T \ {x}] = c * a[T \ {x}]
      BY <1>3
    <3>3. a[T] = f[x] + a[T \ {x}] /\ b[T] = c * f[x] + b[T \ {x}]
      BY <1>1, <1>2
    <3>4. a[T \ {x}] \in Int /\ f[x] \in Int
      BY <1>1
    <3>5. \A u, v \in Int : c * (u + v) = c * u + c * v
      OBVIOUS
    <3>6. b[T] = c * a[T]
      BY <3>2, <3>3, <3>4, <3>5
    <3>7. QED BY <3>6
  <2>3. QED BY <2>1, <2>2
<1>. HIDE DEF Good
<1>4. DOMAIN f \in Good
  <2>1. \A T \in SUBSET DOMAIN f : (\A x \in T : T \ {x} \in Good) => T \in Good
    BY <1>3
  <2>2. \A T \in SUBSET DOMAIN f : T \in Good
    BY <2>1, Shrinking
  <2>3. QED BY <2>2
<1>5. SumOf(f) = a[DOMAIN f] /\ SumOf(e) = b[DOMAIN f]
  BY SumOfIs DEF a, b
<1>6. QED BY <1>1, <1>4, <1>5 DEF Good

\* A sum of naturals is one, and no less than any of them.
LEMMA SumOfNats ==
    ASSUME NEW f, IsFiniteSet(DOMAIN f), \A x \in DOMAIN f : f[x] \in Nat
    PROVE  SumOf(f) \in Nat /\ \A x \in DOMAIN f : f[x] <= SumOf(f)
<1>. DEFINE a == Adding(f)
            Good == {T \in SUBSET DOMAIN f : a[T] >= 0}
<1>1. /\ a[{}] = 0
      /\ \A T \in SUBSET DOMAIN f : a[T] \in Int
      /\ \A T \in SUBSET DOMAIN f : \A x \in T : a[T] = f[x] + a[T \ {x}]
  <2>1. \A x \in DOMAIN f : f[x] \in Int
    OBVIOUS
  <2>2. QED BY <2>1, AddingSteps
<1>. HIDE DEF a
<1>3. ASSUME NEW T \in SUBSET DOMAIN f, \A x \in T : T \ {x} \in Good PROVE T \in Good
  <2>1. CASE T = {}
    BY <1>1, <2>1
  <2>2. CASE T # {}
    <3>1. PICK x \in T : TRUE
      BY <2>2
    <3>2. a[T \ {x}] >= 0 /\ a[T \ {x}] \in Int
      BY <1>1, <1>3
    <3>3. a[T] = f[x] + a[T \ {x}] /\ f[x] \in Nat
      BY <1>1
    <3>4. QED BY <3>2, <3>3
  <2>3. QED BY <2>1, <2>2
<1>. HIDE DEF Good
<1>4. \A T \in SUBSET DOMAIN f : T \in Good
  <2>1. \A T \in SUBSET DOMAIN f : (\A x \in T : T \ {x} \in Good) => T \in Good
    BY <1>3
  <2>2. QED BY <2>1, Shrinking
<1>5. \A T \in SUBSET DOMAIN f : a[T] >= 0 /\ a[T] \in Int
  BY <1>1, <1>4 DEF Good
<1>6. SumOf(f) = a[DOMAIN f]
  BY SumOfIs DEF a
<1>7. ASSUME NEW x \in DOMAIN f PROVE f[x] <= SumOf(f)
  <2>1. a[DOMAIN f] = f[x] + a[DOMAIN f \ {x}]
    BY <1>1
  <2>2. a[DOMAIN f \ {x}] >= 0 /\ a[DOMAIN f \ {x}] \in Int /\ f[x] \in Nat
    BY <1>5
  <2>3. QED BY <1>6, <2>1, <2>2
<1>8. QED BY <1>5, <1>6, <1>7

-----------------------------------------------------------------------------
(* Sums of fractions.                                                      *)

FractionPlus == [x \in Fraction |-> [y \in Fraction |-> Plus(x, y)]]

LEMMA FractionIs ==
    ASSUME NEW x \in Fraction
    PROVE  x = <<x[1], x[2]>> /\ x[1] \in Int /\ x[2] \in Nat /\ x[2] > 0
  BY DEF Fraction

LEMMA TimesPositive == \A m, n \in Nat : m > 0 /\ n > 0 => m * n \in Nat /\ m * n > 0
  OBVIOUS

LEMMA PlusIs ==
    ASSUME NEW x \in Fraction, NEW y \in Fraction
    PROVE  Plus(x, y) \in Fraction
<1>1. x[1] \in Int /\ x[2] \in Nat /\ x[2] > 0 /\ y[1] \in Int /\ y[2] \in Nat /\ y[2] > 0
  BY FractionIs
<1>2. x[2] * y[2] \in Nat /\ x[2] * y[2] > 0
  BY <1>1, TimesPositive
<1>3. x[1] * y[2] + y[1] * x[2] \in Int
  BY <1>1
<1>4. QED BY <1>2, <1>3 DEF Plus, Fraction

LEMMA FractionAdds == Adds(FractionPlus, Zero, Fraction)
<1>1. Zero \in Fraction
  BY DEF Zero, Fraction
<1>2. FractionPlus \in [Fraction -> [Fraction -> Fraction]]
  BY PlusIs DEF FractionPlus
<1>3. ASSUME NEW x \in Fraction
      PROVE  FractionPlus[Zero][x] = x /\ FractionPlus[x][Zero] = x
  <2>1. FractionPlus[Zero][x] = Plus(Zero, x) /\ FractionPlus[x][Zero] = Plus(x, Zero)
    BY <1>1 DEF FractionPlus
  <2>2. x = <<x[1], x[2]>> /\ x[1] \in Int /\ x[2] \in Int
    BY FractionIs
  <2>3. 0 * x[2] + x[1] * 1 = x[1] /\ 1 * x[2] = x[2] /\ x[1] * 1 + 0 * x[2] = x[1] /\ x[2] * 1 = x[2]
    BY <2>2
  <2>4. QED BY <2>1, <2>2, <2>3 DEF Plus, Zero
<1>4. ASSUME NEW x \in Fraction, NEW y \in Fraction, NEW z \in Fraction
      PROVE  FractionPlus[x][FractionPlus[y][z]] = FractionPlus[y][FractionPlus[x][z]]
  <2>1. /\ FractionPlus[y][z] = Plus(y, z) /\ FractionPlus[x][z] = Plus(x, z)
        /\ Plus(y, z) \in Fraction /\ Plus(x, z) \in Fraction
    BY PlusIs DEF FractionPlus
  <2>2. /\ FractionPlus[x][Plus(y, z)] = Plus(x, Plus(y, z))
        /\ FractionPlus[y][Plus(x, z)] = Plus(y, Plus(x, z))
    BY <2>1 DEF FractionPlus
  <2>3. x[1] \in Int /\ x[2] \in Int /\ y[1] \in Int /\ y[2] \in Int /\ z[1] \in Int /\ z[2] \in Int
    BY FractionIs
  <2>4. \A a, b, c, d, e, f \in Int :
           /\ a * (d * f) + (c * f + e * d) * b = c * (b * f) + (a * f + e * b) * d
           /\ b * (d * f) = d * (b * f)
    OBVIOUS
  <2>5. /\ x[1] * (y[2] * z[2]) + (y[1] * z[2] + z[1] * y[2]) * x[2]
             = y[1] * (x[2] * z[2]) + (x[1] * z[2] + z[1] * x[2]) * y[2]
        /\ x[2] * (y[2] * z[2]) = y[2] * (x[2] * z[2])
    BY <2>3, <2>4
  <2>6. Plus(x, Plus(y, z)) = Plus(y, Plus(x, z))
    BY <2>5 DEF Plus
  <2>7. QED BY <2>1, <2>2, <2>6
<1>5. QED BY <1>1, <1>2, <1>3, <1>4 DEF Adds

\* What Total goes over.
Totals(f) == CHOOSE g : g = [T \in SUBSET DOMAIN f |->
                IF T = {} THEN Zero ELSE Plus(f[Picked(T)], g[T \ {Picked(T)}])]

LEMMA TotalIs ==
    ASSUME NEW f, NEW S, S = DOMAIN f
    PROVE  Total(f, S) = Totals(f)[S]
  BY DEF Total, MapThenFoldSet, Totals, Picked

LEMMA TotalsIs ==
    ASSUME NEW f, IsFiniteSet(DOMAIN f), \A x \in DOMAIN f : f[x] \in Fraction
    PROVE  Sums(Totals(f), f, FractionPlus, Zero, Fraction)
<1>1. PICK g : Sums(g, f, FractionPlus, Zero, Fraction)
  BY FractionAdds, SumsThere
<1>2. g = [T \in SUBSET DOMAIN f |-> IF T = {} THEN Zero ELSE Plus(f[Picked(T)], g[T \ {Picked(T)}])]
  <2>1. g = [T \in SUBSET DOMAIN f |-> g[T]]
    BY <1>1 DEF Sums
  <2>2. ASSUME NEW T \in SUBSET DOMAIN f
        PROVE  g[T] = IF T = {} THEN Zero ELSE Plus(f[Picked(T)], g[T \ {Picked(T)}])
    <3>1. g[T] = IF T = {} THEN Zero ELSE FractionPlus[f[Picked(T)]][g[T \ {Picked(T)}]]
      BY <1>1 DEF Sums
    <3>2. T # {} => Picked(T) \in T
      BY DEF Picked
    <3>3. T # {} => f[Picked(T)] \in Fraction /\ g[T \ {Picked(T)}] \in Fraction
      BY <1>1, <3>2 DEF Sums
    <3>4. QED BY <3>1, <3>3 DEF FractionPlus
  <2>3. QED BY <2>1, <2>2
<1>3. Totals(f) = [T \in SUBSET DOMAIN f |->
                     IF T = {} THEN Zero ELSE Plus(f[Picked(T)], Totals(f)[T \ {Picked(T)}])]
  BY <1>2 DEF Totals
<1>. DEFINE a == Totals(f)
<1>. HIDE DEF a
<1>4. \A T \in SUBSET DOMAIN f : a[T] = IF T = {} THEN Zero ELSE Plus(f[Picked(T)], a[T \ {Picked(T)}])
  BY <1>3 DEF a
<1>5. DOMAIN a = SUBSET DOMAIN f /\ a = [T \in SUBSET DOMAIN f |-> a[T]]
  BY <1>3 DEF a
<1>6. \A T \in SUBSET DOMAIN f : a[T] \in Fraction
  <2>. DEFINE Good == {T \in SUBSET DOMAIN f : a[T] \in Fraction}
  <2>1. ASSUME NEW T \in SUBSET DOMAIN f, \A x \in T : T \ {x} \in Good PROVE T \in Good
    <3>1. CASE T = {}
      <4>1. a[T] = Zero
        BY <1>4, <3>1
      <4>2. QED BY <4>1 DEF Zero, Fraction
    <3>2. CASE T # {}
      <4>1. Picked(T) \in T
        BY <3>2 DEF Picked
      <4>2. a[T \ {Picked(T)}] \in Fraction
        BY <2>1, <4>1
      <4>3. f[Picked(T)] \in Fraction
        BY <4>1
      <4>4. a[T] = Plus(f[Picked(T)], a[T \ {Picked(T)}])
        BY <1>4, <3>2
      <4>5. a[T] \in Fraction
        BY <4>2, <4>3, <4>4, PlusIs
      <4>6. QED BY <4>5
    <3>3. QED BY <3>1, <3>2
  <2>. HIDE DEF Good
  <2>2. \A T \in SUBSET DOMAIN f : T \in Good
    BY <2>1, Shrinking
  <2>3. QED BY <2>2 DEF Good
<1>7. ASSUME NEW T \in SUBSET DOMAIN f
      PROVE  a[T] = IF T = {} THEN Zero ELSE FractionPlus[f[Picked(T)]][a[T \ {Picked(T)}]]
  <2>1. T # {} => Picked(T) \in T
    BY DEF Picked
  <2>2. T # {} => f[Picked(T)] \in Fraction /\ a[T \ {Picked(T)}] \in Fraction
    BY <1>6, <2>1
  <2>3. QED BY <1>4, <2>2 DEF FractionPlus
<1>8. QED BY <1>5, <1>6, <1>7 DEF Sums, a

\* A total of what is never less than 0 is more than 0 when one of them is.
LEMMA TotalAboveZero ==
    ASSUME NEW f, IsFiniteSet(DOMAIN f), \A x \in DOMAIN f : f[x] \in Fraction /\ f[x][1] >= 0
    PROVE  /\ Less(Zero, Total(f, DOMAIN f)) <=> \E x \in DOMAIN f : Less(Zero, f[x])
           /\ Total(f, DOMAIN f) \in Fraction /\ Total(f, DOMAIN f)[1] >= 0
<1>. DEFINE a == Totals(f)
            Good == {T \in SUBSET DOMAIN f :
                        a[T][1] >= 0 /\ (a[T][1] > 0 <=> \E x \in T : f[x][1] > 0)}
<1>1. Sums(a, f, FractionPlus, Zero, Fraction)
  BY TotalsIs
<1>. HIDE DEF a
<1>2. \A T \in SUBSET DOMAIN f : \A x \in T : a[T] = FractionPlus[f[x]][a[T \ {x}]]
  <2>1. FirstAny(a, f, FractionPlus)
    BY <1>1, FractionAdds, FirstIsAny
  <2>2. QED BY <2>1 DEF FirstAny
<1>3. \A T \in SUBSET DOMAIN f : a[T] \in Fraction
  BY <1>1 DEF Sums
<1>4. ASSUME NEW T \in SUBSET DOMAIN f, \A x \in T : T \ {x} \in Good PROVE T \in Good
  <2>1. CASE T = {}
    <3>1. a[T] = Zero
      BY <1>1, <2>1 DEF Sums
    <3>2. a[T][1] = 0
      BY <3>1 DEF Zero
    <3>3. QED BY <2>1, <3>2
  <2>2. CASE T # {}
    <3>1. PICK x \in T : TRUE
      BY <2>2
    <3>. DEFINE rest == a[T \ {x}]
                first == f[x]
    <3>2. first \in Fraction /\ rest \in Fraction /\ first[1] >= 0
      BY <1>3
    <3>3. a[T] = FractionPlus[first][rest]
      BY <1>2
    <3>4. rest[1] >= 0 /\ (rest[1] > 0 <=> \E y \in T \ {x} : f[y][1] > 0)
      BY <1>4
    <3>5. (\E y \in T : f[y][1] > 0) <=> first[1] > 0 \/ \E y \in T \ {x} : f[y][1] > 0
      BY <3>1
    <3>. HIDE DEF first, rest
    <3>6. a[T] = Plus(first, rest)
      BY <3>2, <3>3 DEF FractionPlus
    <3>7. a[T][1] = first[1] * rest[2] + rest[1] * first[2]
      BY <3>6 DEF Plus
    <3>8. first[1] \in Int /\ first[2] \in Nat /\ first[2] > 0
          /\ rest[1] \in Int /\ rest[2] \in Nat /\ rest[2] > 0
      BY <3>2, FractionIs
    <3>9. \A u \in Int : \A v \in Nat : u >= 0 /\ v > 0 => u * v \in Int /\ u * v >= 0 /\ (u * v > 0 <=> u > 0)
      OBVIOUS
    <3>10. /\ first[1] * rest[2] \in Int /\ first[1] * rest[2] >= 0
           /\ first[1] * rest[2] > 0 <=> first[1] > 0
           /\ rest[1] * first[2] \in Int /\ rest[1] * first[2] >= 0
           /\ rest[1] * first[2] > 0 <=> rest[1] > 0
      BY <3>2, <3>4, <3>8, <3>9
    <3>11. a[T][1] >= 0 /\ (a[T][1] > 0 <=> first[1] > 0 \/ rest[1] > 0)
      BY <3>7, <3>10
    <3>12. QED BY <3>4, <3>5, <3>11
  <2>3. QED BY <2>1, <2>2
<1>. HIDE DEF Good
<1>5. DOMAIN f \in Good
  <2>1. \A T \in SUBSET DOMAIN f : (\A x \in T : T \ {x} \in Good) => T \in Good
    BY <1>4
  <2>2. \A T \in SUBSET DOMAIN f : T \in Good
    BY <2>1, Shrinking
  <2>3. QED BY <2>2
<1>6. Total(f, DOMAIN f) = a[DOMAIN f]
  BY TotalIs DEF a
<1>7. \A q \in Fraction : Less(Zero, q) <=> q[1] > 0
  <2>1. SUFFICES ASSUME NEW q \in Fraction PROVE Less(Zero, q) <=> q[1] > 0
    OBVIOUS
  <2>2. q[1] \in Int /\ q[2] \in Int
    BY FractionIs
  <2>3. 0 * q[2] = 0 /\ q[1] * 1 = q[1]
    BY <2>2
  <2>4. QED BY <2>3 DEF Less, Zero
<1>8. QED BY <1>3, <1>5, <1>6, <1>7 DEF Good

-----------------------------------------------------------------------------
(* What is published of a player.                                          *)

\* Each row says what was observed of the player of its seat, in a role.
Faithful(rows) ==
    /\ Grounded(rows)
    /\ \A k \in DOMAIN rows :
          /\ rows[k].account = k[2] /\ rows[k].role \in Role
          /\ \A m \in DOMAIN rows[k].metrics : IsObservation(rows[k].metrics[m])
          /\ \A m \in DOMAIN rows[k].unavailable : rows[k].unavailable[m] \in Reason

LEMMA RowsFaithful ==
    ASSUME Typed, Current
    PROVE  Faithful(Rows)
<1>1. ASSUME NEW k \in DOMAIN Rows
      PROVE  /\ k[1] \in Match /\ k[2] \in DOMAIN Plays[k[1]] /\ k[2] \in Account
             /\ artifacts[k[1]] \in Form
  <2>1. k \in Seats /\ k[1] \in Verified
    BY DEF Rows
  <2>2. PICK m \in Match : k \in {m} \X DOMAIN Plays[m]
    BY <2>1 DEF Seats
  <2>3. k[1] = m /\ k[2] \in DOMAIN Plays[m]
    BY <2>2
  <2>4. k[2] \in Account
    BY <2>3, RootAssumption
  <2>5. artifacts[m] \in Form
    BY <2>1, <2>3 DEF Typed, Current, Verified
  <2>6. QED BY <2>3, <2>4, <2>5
<1>2. ASSUME NEW k \in DOMAIN Rows
      PROVE  /\ Rows[k].account = k[2] /\ Rows[k].role \in Role
             /\ \A x \in DOMAIN Rows[k].metrics : IsObservation(Rows[k].metrics[x])
             /\ \A x \in DOMAIN Rows[k].unavailable : Rows[k].unavailable[x] \in Reason
  <2>. DEFINE m == k[1]
              a == k[2]
              seen == Measured[artifacts[m]][m][a]
              told == Withheld[artifacts[m]][m][a]
  <2>1. Rows[k] = Row(m, a)
    BY DEF Rows
  <2>2. /\ Row(m, a).account = a /\ Row(m, a).role = RoleOf(m, a)
        /\ DOMAIN Row(m, a).metrics = DOMAIN seen
        /\ \A x \in DOMAIN seen : /\ Row(m, a).metrics[x].value = seen[x].value
                                  /\ Row(m, a).metrics[x].num = seen[x].num
                                  /\ Row(m, a).metrics[x].den = seen[x].den
        /\ Row(m, a).unavailable = told
    BY DEF Row
  <2>3. m \in Match /\ a \in DOMAIN Plays[m] /\ a \in Account /\ artifacts[m] \in Form
    BY <1>1
  <2>4. RoleOf(m, a) \in Role
    BY <2>3, RootAssumption DEF RoleOf, Typed
  <2>5. /\ \A x \in DOMAIN seen : IsObservation(seen[x])
        /\ \A x \in DOMAIN told : told[x] \in Reason \ {""}
    BY <2>3, RootAssumption
  <2>. HIDE DEF seen, told, m, a
  <2>6. \A x \in DOMAIN seen : IsObservation(Row(m, a).metrics[x])
    BY <2>2, <2>5 DEF IsObservation
  <2>7. /\ Row(m, a).account = a /\ Row(m, a).role \in Role
        /\ \A x \in DOMAIN Row(m, a).metrics : IsObservation(Row(m, a).metrics[x])
        /\ \A x \in DOMAIN Row(m, a).unavailable : Row(m, a).unavailable[x] \in Reason
    BY <2>2, <2>4, <2>5, <2>6
  <2>8. QED BY <2>1, <2>7 DEF a
<1>3. Grounded(Rows)
  BY RowsGrounded
<1>4. QED BY <1>2, <1>3 DEF Faithful

LEMMA FinitelyMany ==
    ASSUME NEW rows, Grounded(rows)
    PROVE  DOMAIN rows \in SUBSET (Match \X Account) /\ IsFiniteSet(DOMAIN rows)
<1>1. DOMAIN rows \in SUBSET (Match \X Account)
  BY DEF Grounded
<1>2. IsFiniteSet(Match) /\ IsFiniteSet(Account)
  BY RootAssumption
<1>3. IsFiniteSet(Match \X Account)
  BY <1>2, FS_Product
<1>4. QED BY <1>1, <1>3, FS_Subset

\* A metric counts when a row has it, a rate when one has it with a denominator.
Shows(rows, keys, m) ==
    \E k \in keys : /\ m \in DOMAIN rows[k].metrics
                    /\ Rule[m] = "rate" =>
                          rows[k].metrics[m].den # <<>> /\ Less(Zero, rows[k].metrics[m].den[1])

LEMMA AggregableIs ==
    ASSUME NEW rows, Faithful(rows), NEW keys \in SUBSET DOMAIN rows, NEW m \in Metric
    PROVE  Aggregable(m, Observed(rows, keys)[m]) <=> Shows(rows, keys, m)
<1>. DEFINE there == {k \in keys : m \in DOMAIN rows[k].metrics}
            o == Observed(rows, keys)[m]
            given == Given(o, "den")
            dens == [k \in given |-> o[k]["den"][1]]
<1>1. o = [k \in there |-> rows[k].metrics[m]]
  BY DEF Observed
<1>2. o # <<>> <=> there # {}
  <2>1. there = {} => o = <<>>
    BY <1>1
  <2>2. there # {} => o # <<>>
    <3>1. DOMAIN o = there /\ DOMAIN <<>> = {}
      BY <1>1
    <3>2. QED BY <3>1
  <2>3. QED BY <2>1, <2>2
<1>3. given = {k \in there : rows[k].metrics[m].den # <<>>}
  BY <1>1 DEF Given
<1>4. \A k \in given : dens[k] = rows[k].metrics[m].den[1]
  BY <1>1, <1>3
<1>5. \A k \in there : IsObservation(rows[k].metrics[m])
  BY DEF Faithful
<1>6. IsFiniteSet(DOMAIN dens)
  <2>1. IsFiniteSet(DOMAIN rows)
    BY FinitelyMany DEF Faithful
  <2>2. DOMAIN dens \in SUBSET DOMAIN rows
    BY <1>3
  <2>3. QED BY <2>1, <2>2, FS_Subset
<1>7. SumGiven(o, "den") = Total(dens, DOMAIN dens)
  BY DEF SumGiven
<1>8. \A k \in DOMAIN dens : dens[k] \in Fraction /\ dens[k][1] >= 0
  BY <1>3, <1>4, <1>5 DEF IsObservation
<1>9. DOMAIN dens = given
  OBVIOUS
<1>. HIDE DEF dens
<1>10. Less(Zero, SumGiven(o, "den")) <=> \E k \in given : Less(Zero, dens[k])
  BY <1>6, <1>7, <1>8, <1>9, TotalAboveZero
<1>. HIDE DEF given, o
<1>11. Aggregable(m, o) <=> there # {} /\ (Rule[m] = "rate" => \E k \in given : Less(Zero, dens[k]))
  BY <1>2, <1>10 DEF Aggregable
<1>12. Shows(rows, keys, m) <=> there # {} /\ (Rule[m] = "rate" => \E k \in given : Less(Zero, dens[k]))
  <2>1. CASE Rule[m] = "rate"
    <3>1. \A k : Less(Zero, dens[k]) /\ k \in given <=>
                 k \in there /\ rows[k].metrics[m].den # <<>> /\ Less(Zero, rows[k].metrics[m].den[1])
      BY <1>3, <1>4
    <3>2. QED BY <2>1, <3>1 DEF Shows
  <2>2. CASE Rule[m] # "rate"
    BY <2>2 DEF Shows
  <2>3. QED BY <2>1, <2>2
<1>13. QED BY <1>11, <1>12 DEF o

-----------------------------------------------------------------------------
(* Percentiles.                                                            *)

LEMMA QuotientBelow ==
    ASSUME NEW c \in Nat, NEW n \in Nat, n > 0, NEW x \in Nat, x <= c * n
    PROVE  x \div n \in 0 .. c
<1>. DEFINE q == x \div n
            r == x % n
<1>1. q \in Int /\ r \in Int /\ x = n * q + r /\ 0 <= r /\ r < n
  OBVIOUS
<1>. HIDE DEF q, r
<1>2. q >= 0
  <2>1. SUFFICES ASSUME q <= -1 PROVE FALSE
    BY <1>1
  <2>2. n * q <= n * (-1)
    BY <1>1, <2>1
  <2>3. n * (-1) = -n
    OBVIOUS
  <2>4. QED BY <1>1, <2>2, <2>3
<1>3. q <= c
  <2>1. SUFFICES ASSUME q >= c + 1 PROVE FALSE
    BY <1>1
  <2>2. n * q >= n * (c + 1)
    BY <1>1, <2>1
  <2>3. n * (c + 1) = c * n + n
    OBVIOUS
  <2>4. c * n \in Int
    OBVIOUS
  <2>. QED BY <1>1, <2>2, <2>3, <2>4
<1>4. QED BY <1>1, <1>2, <1>3 DEF q

LEMMA BoundsOf ==
    /\ Whole \in Nat \ {0} /\ Scale \in Nat \ {0} /\ MinCoverage \in Nat \ {0}
    /\ MinMatches \in Nat /\ MinAxes \in Nat /\ MinExperimental \in Nat
    /\ Base \in Nat /\ V3Share \in Nat
<1>1. {Whole, Scale, MinCoverage} \subseteq Nat \ {0}
  BY FrozenAssumption
<1>2. {MinMatches, MinAxes, MinExperimental, Base, V3Share} \subseteq Nat
  BY FrozenAssumption
<1>3. QED BY <1>1, <1>2

\* How many are below v and how many the same.
Below(v, cohort) == {k \in DOMAIN cohort : Less(cohort[k], v)}
Equal(v, cohort) == {k \in DOMAIN cohort : Same(cohort[k], v)}

LEMMA PercentileIs ==
    ASSUME NEW cohort, IsFiniteSet(DOMAIN cohort), DOMAIN cohort # {}, NEW v,
           \A k \in DOMAIN cohort : cohort[k] \in Fraction, v \in Fraction
    PROVE  Percentile(v, cohort) \in 0 .. 100 * Scale
<1>. DEFINE b == Cardinality(Below(v, cohort))
            e == Cardinality(Equal(v, cohort))
            n == Cardinality(DOMAIN cohort)
<1>1. Below(v, cohort) \cap Equal(v, cohort) = {}
  <2>1. ASSUME NEW q \in Fraction PROVE ~(Less(q, v) /\ Same(q, v))
    <3>1. q[1] \in Int /\ q[2] \in Int /\ v[1] \in Int /\ v[2] \in Int
      BY FractionIs
    <3>2. q[1] * v[2] \in Int /\ v[1] * q[2] \in Int
      BY <3>1
    <3>3. QED BY <3>2 DEF Less, Same
  <2>2. QED BY <2>1 DEF Below, Equal
<1>2. IsFiniteSet(Below(v, cohort)) /\ IsFiniteSet(Equal(v, cohort))
  <2>1. Below(v, cohort) \in SUBSET DOMAIN cohort /\ Equal(v, cohort) \in SUBSET DOMAIN cohort
    BY DEF Below, Equal
  <2>2. QED BY <2>1, FS_Subset
<1>3. b \in Nat /\ e \in Nat /\ n \in Nat /\ n # 0
  BY <1>2, FS_CardinalityType, FS_EmptySet
<1>4. b + e <= n
  <2>1. Cardinality(Below(v, cohort) \cup Equal(v, cohort)) = b + e - Cardinality({})
    BY <1>1, <1>2, FS_Union
  <2>2. Cardinality({}) = 0
    BY FS_EmptySet
  <2>3. Below(v, cohort) \cup Equal(v, cohort) \in SUBSET DOMAIN cohort
    BY DEF Below, Equal
  <2>4. Cardinality(Below(v, cohort) \cup Equal(v, cohort)) <= n
    BY <2>3, FS_Subset
  <2>5. QED BY <1>3, <2>1, <2>2, <2>4
<1>5. Percentile(v, cohort) = (50 * Scale * (2 * b + e)) \div n
  BY DEF Percentile, Below, Equal
<1>. HIDE DEF b, e, n
<1>6. Scale \in Nat
  BY BoundsOf
<1>7. 50 * Scale * (2 * b + e) \in Nat /\ 50 * Scale * (2 * b + e) <= (100 * Scale) * n
  <2>1. 2 * b + e \in Nat /\ 2 * b + e <= 2 * n
    BY <1>3, <1>4
  <2>2. 50 * Scale \in Nat
    BY <1>6
  <2>3. \A c, x, y \in Nat : x <= y => c * x <= c * y /\ c * x \in Nat
    OBVIOUS
  <2>4. (50 * Scale) * (2 * b + e) <= (50 * Scale) * (2 * n) /\ (50 * Scale) * (2 * b + e) \in Nat
    BY <1>3, <2>1, <2>2, <2>3
  <2>5. (50 * Scale) * (2 * n) = (100 * Scale) * n
    BY <1>3, <1>6
  <2>6. QED BY <2>4, <2>5
<1>8. 100 * Scale \in Nat
  BY <1>6
<1>9. (50 * Scale * (2 * b + e)) \div n \in 0 .. 100 * Scale
  BY <1>3, <1>7, <1>8, QuotientBelow
<1>10. QED BY <1>5, <1>9

LEMMA RankedIs ==
    ASSUME NEW m, NEW cohort, IsFiniteSet(DOMAIN cohort), DOMAIN cohort # {}, NEW v \in Fraction,
           \A k \in DOMAIN cohort : cohort[k] \in Fraction
    PROVE  Ranked(m, v, cohort) \in 0 .. 100 * Scale
<1>1. Percentile(v, cohort) \in 0 .. 100 * Scale /\ Scale \in Nat
  BY PercentileIs, BoundsOf
<1>2. QED BY <1>1 DEF Ranked, Invert

-----------------------------------------------------------------------------
(* What is pooled is a fraction again.                                     *)

LEMMA ScaleOrder ==
    ASSUME NEW a \in Int, NEW b \in Int, NEW c \in Nat, c > 0
    PROVE  a < b <=> a * c < b * c
  OBVIOUS

LEMMA LessIsTransitive ==
    ASSUME NEW x \in Fraction, NEW y \in Fraction, NEW z \in Fraction, Less(x, y), Less(y, z)
    PROVE  Less(x, z)
<1>1. /\ x[1] \in Int /\ x[2] \in Nat /\ x[2] > 0
      /\ y[1] \in Int /\ y[2] \in Nat /\ y[2] > 0
      /\ z[1] \in Int /\ z[2] \in Nat /\ z[2] > 0
  BY FractionIs
<1>2. x[1] * y[2] \in Int /\ y[1] * x[2] \in Int /\ y[1] * z[2] \in Int /\ z[1] * y[2] \in Int
      /\ x[1] * z[2] \in Int /\ z[1] * x[2] \in Int
  BY <1>1
<1>3. x[1] * y[2] < y[1] * x[2] /\ y[1] * z[2] < z[1] * y[2]
  BY DEF Less
<1>4. (x[1] * y[2]) * z[2] < (y[1] * x[2]) * z[2]
  BY <1>1, <1>2, <1>3, ScaleOrder
<1>5. (y[1] * z[2]) * x[2] < (z[1] * y[2]) * x[2]
  BY <1>1, <1>2, <1>3, ScaleOrder
<1>6. \A a, b, c \in Int : (a * b) * c = (a * c) * b /\ (a * b) * c \in Int
  OBVIOUS
<1>7. (x[1] * z[2]) * y[2] < (z[1] * x[2]) * y[2]
  <2>1. (x[1] * y[2]) * z[2] = (x[1] * z[2]) * y[2] /\ (x[1] * y[2]) * z[2] \in Int
    BY <1>1, <1>6
  <2>2. (y[1] * x[2]) * z[2] = (y[1] * z[2]) * x[2] /\ (y[1] * x[2]) * z[2] \in Int
    BY <1>1, <1>6
  <2>3. (z[1] * y[2]) * x[2] = (z[1] * x[2]) * y[2] /\ (z[1] * y[2]) * x[2] \in Int
    BY <1>1, <1>6
  <2>4. QED BY <1>4, <1>5, <2>1, <2>2, <2>3
<1>8. x[1] * z[2] < z[1] * x[2]
  BY <1>1, <1>2, <1>7, ScaleOrder
<1>9. QED BY <1>8 DEF Less

LEMMA LessIsStrict ==
    ASSUME NEW x \in Fraction
    PROVE  ~Less(x, x)
<1>1. x[1] * x[2] \in Int
  BY FractionIs
<1>2. QED BY <1>1 DEF Less

LEMMA GreatestThere ==
    ASSUME NEW f, IsFiniteSet(DOMAIN f), DOMAIN f # {}, \A x \in DOMAIN f : f[x] \in Fraction
    PROVE  \E k \in DOMAIN f : \A j \in DOMAIN f : ~Less(f[k], f[j])
<1>. DEFINE Top(T) == \E k \in T : \A j \in T : ~Less(f[k], f[j])
            Good == {T \in SUBSET DOMAIN f : T # {} => Top(T)}
<1>1. ASSUME NEW T \in SUBSET DOMAIN f, \A x \in T : T \ {x} \in Good PROVE T \in Good
  <2>1. SUFFICES ASSUME T # {} PROVE Top(T)
    OBVIOUS
  <2>2. PICK x \in T : TRUE
    BY <2>1
  <2>3. x \in DOMAIN f /\ f[x] \in Fraction
    OBVIOUS
  <2>4. CASE T \ {x} = {}
    <3>1. T = {x}
      BY <2>2, <2>4
    <3>2. QED BY <2>3, <3>1, LessIsStrict
  <2>5. CASE T \ {x} # {}
    <3>1. Top(T \ {x})
      <4>. HIDE DEF Top
      <4>1. QED BY <1>1, <2>2, <2>5
    <3>2. PICK k \in T \ {x} : \A j \in T \ {x} : ~Less(f[k], f[j])
      BY <3>1
    <3>3. f[k] \in Fraction
      BY <3>2
    <3>4. CASE Less(f[k], f[x])
      <4>1. ASSUME NEW j \in T PROVE ~Less(f[x], f[j])
        <5>1. CASE j = x
          BY <2>3, <5>1, LessIsStrict
        <5>2. CASE j # x
          <6>1. f[j] \in Fraction /\ ~Less(f[k], f[j])
            BY <3>2, <5>2
          <6>2. QED BY <2>3, <3>3, <3>4, <6>1, LessIsTransitive
        <5>3. QED BY <5>1, <5>2
      <4>2. QED BY <2>2, <4>1
    <3>5. CASE ~Less(f[k], f[x])
      BY <3>2, <3>5
    <3>6. QED BY <3>4, <3>5
  <2>6. QED BY <2>4, <2>5
<1>. HIDE DEF Good
<1>2. DOMAIN f \in Good
  <2>1. \A T \in SUBSET DOMAIN f : (\A x \in T : T \ {x} \in Good) => T \in Good
    BY <1>1
  <2>2. \A T \in SUBSET DOMAIN f : T \in Good
    BY <2>1, Shrinking
  <2>3. QED BY <2>2
<1>3. QED BY <1>2 DEF Good

LEMMA TotalIsFraction ==
    ASSUME NEW f, IsFiniteSet(DOMAIN f), \A x \in DOMAIN f : f[x] \in Fraction
    PROVE  Total(f, DOMAIN f) \in Fraction
<1>1. Sums(Totals(f), f, FractionPlus, Zero, Fraction)
  BY TotalsIs
<1>2. Totals(f)[DOMAIN f] \in Fraction
  BY <1>1 DEF Sums
<1>3. QED BY <1>2, TotalIs

LEMMA OverIs ==
    ASSUME NEW x \in Fraction, NEW y \in Fraction, Less(Zero, y)
    PROVE  Over(x, y) \in Fraction
<1>1. x[1] \in Int /\ x[2] \in Nat /\ x[2] > 0 /\ y[1] \in Int /\ y[2] \in Nat /\ y[2] > 0
  BY FractionIs
<1>2. 0 * y[2] < y[1] * 1
  BY DEF Less, Zero
<1>3. y[1] \in Nat /\ y[1] > 0
  BY <1>1, <1>2
<1>4. x[2] * y[1] \in Nat /\ x[2] * y[1] > 0 /\ x[1] * y[2] \in Int
  BY <1>1, <1>3, TimesPositive
<1>5. QED BY <1>4 DEF Over, Fraction

\* Observations that can be put together.
AreObservations(o) ==
    /\ o = [k \in DOMAIN o |-> o[k]] /\ IsFiniteSet(DOMAIN o)
    /\ \A k \in DOMAIN o : IsObservation(o[k])

LEMMA PartsAre ==
    ASSUME NEW o, AreObservations(o)
    PROVE  /\ SumValue(o) \in Fraction
           /\ SumGiven(o, "num") \in Fraction
           /\ SumGiven(o, "den") \in Fraction /\ SumGiven(o, "den")[1] >= 0
<1>1. SumValue(o) \in Fraction
  <2>. DEFINE f == [k \in DOMAIN o |-> o[k].value]
  <2>1. \A k \in DOMAIN f : f[k] \in Fraction
    BY DEF AreObservations, IsObservation
  <2>2. IsFiniteSet(DOMAIN f) /\ DOMAIN f = DOMAIN o
    BY DEF AreObservations
  <2>3. SumValue(o) = Total(f, DOMAIN f)
    BY DEF SumValue
  <2>. HIDE DEF f
  <2>4. QED BY <2>1, <2>2, <2>3, TotalIsFraction
<1>2. SumGiven(o, "num") \in Fraction
  <2>. DEFINE S == Given(o, "num")
              f == [k \in S |-> o[k]["num"][1]]
  <2>1. \A k \in DOMAIN f : f[k] \in Fraction
    BY DEF AreObservations, IsObservation, Given
  <2>2. IsFiniteSet(DOMAIN f)
    BY FS_Subset DEF AreObservations, Given
  <2>3. SumGiven(o, "num") = Total(f, DOMAIN f)
    BY DEF SumGiven
  <2>. HIDE DEF f
  <2>4. QED BY <2>1, <2>2, <2>3, TotalIsFraction
<1>3. SumGiven(o, "den") \in Fraction /\ SumGiven(o, "den")[1] >= 0
  <2>. DEFINE S == Given(o, "den")
              f == [k \in S |-> o[k]["den"][1]]
  <2>1. \A k \in DOMAIN f : f[k] \in Fraction /\ f[k][1] >= 0
    BY DEF AreObservations, IsObservation, Given
  <2>2. IsFiniteSet(DOMAIN f)
    BY FS_Subset DEF AreObservations, Given
  <2>3. SumGiven(o, "den") = Total(f, DOMAIN f)
    BY DEF SumGiven
  <2>. HIDE DEF f
  <2>4. QED BY <2>1, <2>2, <2>3, TotalAboveZero
<1>4. QED BY <1>1, <1>2, <1>3

LEMMA FamiliesAre ==
    ASSUME NEW m \in Metric
    PROVE  Rule[m] \in {"rate", "percentile", "max", "seconds", "sum"}
  BY ContractAssumption

LEMMA AggregateIs ==
    ASSUME NEW m \in Metric, NEW o, AreObservations(o), Aggregable(m, o)
    PROVE  Aggregate(m, o).value \in Fraction
<1>1. /\ SumValue(o) \in Fraction
      /\ SumGiven(o, "num") \in Fraction
      /\ SumGiven(o, "den") \in Fraction /\ SumGiven(o, "den")[1] >= 0
  BY PartsAre
<1>. DEFINE num == SumGiven(o, "num")
            den == SumGiven(o, "den")
            sum == SumValue(o)
            greatest == CHOOSE k \in DOMAIN o : \A j \in DOMAIN o : ~Less(o[k].value, o[j].value)
            rule == Rule[m]
            value == CASE rule = "rate" \/ (rule = "percentile" /\ Less(Zero, den)) -> Over(num, den)
                       [] rule = "percentile" /\ ~Less(Zero, den) ->
                              Over(sum, <<Cardinality(DOMAIN o), 1>>)
                       [] rule = "max" -> o[greatest].value
                       [] rule \in {"seconds", "sum"} -> sum
<1>2. Aggregate(m, o).value = value
  BY DEF Aggregate
<1>3. DOMAIN o # {}
  <2>1. o # <<>> /\ o = [k \in DOMAIN o |-> o[k]]
    BY DEF Aggregable, AreObservations
  <2>2. DOMAIN o = {} => [k \in DOMAIN o |-> o[k]] = <<>>
    OBVIOUS
  <2>3. QED BY <2>1, <2>2
<1>4. rule = "rate" => Less(Zero, den)
  BY DEF Aggregable
<1>5. Less(Zero, den) => Over(num, den) \in Fraction
  BY <1>1, OverIs
<1>6. Over(sum, <<Cardinality(DOMAIN o), 1>>) \in Fraction
  <2>. DEFINE c == Cardinality(DOMAIN o)
  <2>1. c \in Nat /\ c # 0
    BY <1>3, FS_CardinalityType, FS_EmptySet DEF AreObservations
  <2>. HIDE DEF c
  <2>2. <<c, 1>> \in Fraction
    BY <2>1 DEF Fraction
  <2>3. Less(Zero, <<c, 1>>)
    BY <2>1 DEF Less, Zero
  <2>4. Over(sum, <<c, 1>>) \in Fraction
    BY <1>1, <2>2, <2>3, OverIs
  <2>5. QED BY <2>4 DEF c
<1>7. greatest \in DOMAIN o
  <2>. DEFINE f == [k \in DOMAIN o |-> o[k].value]
  <2>1. \A k \in DOMAIN f : f[k] \in Fraction
    BY DEF AreObservations, IsObservation
  <2>2. IsFiniteSet(DOMAIN f) /\ DOMAIN f # {} /\ DOMAIN f = DOMAIN o
    BY <1>3 DEF AreObservations
  <2>3. \A k \in DOMAIN o : f[k] = o[k].value
    OBVIOUS
  <2>. HIDE DEF f
  <2>4. \E k \in DOMAIN f : \A j \in DOMAIN f : ~Less(f[k], f[j])
    BY <2>1, <2>2, GreatestThere
  <2>5. \E k \in DOMAIN o : \A j \in DOMAIN o : ~Less(o[k].value, o[j].value)
    BY <2>2, <2>3, <2>4
  <2>6. QED BY <2>5
<1>8. o[greatest].value \in Fraction
  BY <1>7 DEF AreObservations, IsObservation
<1>9. Rule[m] \in {"rate", "percentile", "max", "seconds", "sum"}
  BY FamiliesAre
<1>. HIDE DEF num, den, sum, greatest
<1>10. value \in Fraction
  BY <1>1, <1>4, <1>5, <1>6, <1>8, <1>9 DEF sum
<1>11. QED BY <1>2, <1>10

\* The observations of a metric in some rows.
LEMMA ObservedAre ==
    ASSUME NEW rows, Faithful(rows), NEW keys \in SUBSET DOMAIN rows, NEW m \in Metric
    PROVE  AreObservations(Observed(rows, keys)[m])
<1>. DEFINE there == {k \in keys : m \in DOMAIN rows[k].metrics}
<1>1. Observed(rows, keys)[m] = [k \in there |-> rows[k].metrics[m]]
  BY DEF Observed
<1>2. IsFiniteSet(there)
  <2>1. IsFiniteSet(DOMAIN rows) /\ there \in SUBSET DOMAIN rows
    BY FinitelyMany DEF Faithful
  <2>2. QED BY <2>1, FS_Subset
<1>3. \A k \in there : IsObservation(rows[k].metrics[m])
  BY DEF Faithful
<1>4. QED BY <1>1, <1>2, <1>3 DEF AreObservations


-----------------------------------------------------------------------------
(* Who is ranked.                                                          *)

\* What a subject has, and whether its cohort is large enough.
Counts(rows, s, m) == m \in Metric /\ Shows(rows, KeysOf(rows, s), m)
Having(rows, r, m) == {a \in Account : Counts(rows, <<a, r>>, m)}
RankedThere(rows, s, m) ==
    Counts(rows, s, m) /\ Cardinality(Having(rows, s[2], m)) >= MinMatches

LEMMA SubjectsAre ==
    ASSUME NEW rows, Faithful(rows)
    PROVE  /\ Subjects(rows) \in SUBSET (Account \X Role)
           /\ \A s : s \in Subjects(rows) <=> KeysOf(rows, s) # {}
<1>1. \A k \in DOMAIN rows : rows[k].account \in Account /\ rows[k].role \in Role
  BY DEF Faithful, Grounded
<1>2. Subjects(rows) \in SUBSET (Account \X Role)
  BY <1>1 DEF Subjects
<1>3. \A s : s \in Subjects(rows) <=> KeysOf(rows, s) # {}
  BY DEF Subjects, KeysOf
<1>4. QED BY <1>2, <1>3

LEMMA PlayerHas ==
    ASSUME NEW rows, Faithful(rows), NEW s
    PROVE  LET metrics == Tournament(rows, s).metrics
           IN  /\ \A m : m \in DOMAIN metrics <=> Counts(rows, s, m)
               /\ \A m \in DOMAIN metrics : metrics[m].value \in Fraction
<1>. DEFINE keys == KeysOf(rows, s)
            o == Observed(rows, keys)
            metrics == Tournament(rows, s).metrics
<1>1. metrics = Pool(o, "player_tournament", s, NoMatch)
  BY DEF Tournament, KeysOf
<1>2. keys \in SUBSET DOMAIN rows
  BY DEF KeysOf
<1>3. DOMAIN metrics = {m \in Metric : Aggregable(m, o[m])}
  BY <1>1 DEF Pool
<1>. HIDE DEF metrics
<1>4. ASSUME NEW m PROVE m \in DOMAIN metrics <=> Counts(rows, s, m)
  <2>1. m \in Metric => (Aggregable(m, o[m]) <=> Shows(rows, keys, m))
    <3>. HIDE DEF keys
    <3>1. QED BY <1>2, AggregableIs
  <2>2. QED BY <1>3, <2>1 DEF Counts
<1>5. ASSUME NEW m \in DOMAIN metrics PROVE metrics[m].value \in Fraction
  <2>1. m \in Metric /\ Aggregable(m, o[m])
    BY <1>3
  <2>. HIDE DEF keys
  <2>2. AreObservations(o[m])
    BY <1>2, <2>1, ObservedAre
  <2>. HIDE DEF o
  <2>3. metrics[m].value = Aggregate(m, o[m]).value
    BY <1>1, PoolIs
  <2>4. QED BY <2>1, <2>2, <2>3, AggregateIs
<1>6. QED BY <1>4, <1>5 DEF metrics

\* The values of those that have a metric, among the players of a role.
LEMMA PeersAre ==
    ASSUME NEW rows, Faithful(rows), NEW s \in Subjects(rows)
    PROVE  /\ s \in DOMAIN Peers(Corpus(rows), s)
           /\ \A u \in DOMAIN Peers(Corpus(rows), s) :
                 Peers(Corpus(rows), s)[u] = Tournament(rows, u)
           /\ DOMAIN Peers(Corpus(rows), s) = {u \in Subjects(rows) : u[2] = s[2]}
<1>1. Corpus(rows).tournaments = [u \in Subjects(rows) |-> Tournament(rows, u)]
  BY CorpusIs
<1>2. QED BY <1>1 DEF Peers

InRole(A, r) == A \X {r}
CohortOf(rows, s, m) == Cohort(Peers(Corpus(rows), s), m)

LEMMA CohortIs ==
    ASSUME NEW rows, Faithful(rows), NEW s \in Subjects(rows), NEW m \in Metric
    PROVE  /\ DOMAIN CohortOf(rows, s, m) = InRole(Having(rows, s[2], m), s[2])
           /\ IsFiniteSet(DOMAIN CohortOf(rows, s, m))
           /\ \A u \in DOMAIN CohortOf(rows, s, m) :
                 /\ CohortOf(rows, s, m)[u] = Tournament(rows, u).metrics[m].value
                 /\ CohortOf(rows, s, m)[u] \in Fraction
<1>. DEFINE peers == Peers(Corpus(rows), s)
            cohort == CohortOf(rows, s, m)
            r == s[2]
            A == Having(rows, r, m)
<1>1. DOMAIN cohort = {u \in DOMAIN peers : m \in DOMAIN peers[u].metrics}
      /\ \A u \in DOMAIN cohort : cohort[u] = peers[u].metrics[m].value
  BY DEF Cohort, CohortOf
<1>2. DOMAIN peers = {u \in Subjects(rows) : u[2] = r}
      /\ \A u \in DOMAIN peers : peers[u] = Tournament(rows, u)
  BY PeersAre
<1>. HIDE DEF peers, cohort
<1>3. \A u \in DOMAIN cohort : cohort[u] = Tournament(rows, u).metrics[m].value
  BY <1>1, <1>2
<1>4. DOMAIN cohort = {u \in Subjects(rows) : u[2] = r /\ Counts(rows, u, m)}
  <2>1. \A u : m \in DOMAIN Tournament(rows, u).metrics <=> Counts(rows, u, m)
    BY PlayerHas
  <2>2. QED BY <1>1, <1>2, <2>1
<1>5. DOMAIN cohort = A \X {r}
  <2>1. ASSUME NEW u \in Subjects(rows), u[2] = r, Counts(rows, u, m) PROVE u \in A \X {r}
    <3>1. u = <<u[1], u[2]>> /\ u[1] \in Account
      BY SubjectsAre
    <3>2. Counts(rows, <<u[1], r>>, m)
      BY <2>1, <3>1
    <3>3. u[1] \in A
      BY <3>1, <3>2 DEF Having
    <3>4. QED BY <2>1, <3>1, <3>3
  <2>2. ASSUME NEW a \in A PROVE <<a, r>> \in Subjects(rows) /\ Counts(rows, <<a, r>>, m)
    <3>1. Counts(rows, <<a, r>>, m)
      BY DEF Having
    <3>2. KeysOf(rows, <<a, r>>) # {}
      BY <3>1 DEF Counts, Shows
    <3>3. QED BY <3>1, <3>2, SubjectsAre
  <2>3. ASSUME NEW u \in A \X {r} PROVE u \in DOMAIN cohort
    <3>1. u = <<u[1], r>> /\ u[1] \in A
      BY <2>3
    <3>2. u \in Subjects(rows) /\ Counts(rows, u, m) /\ u[2] = r
      BY <2>2, <3>1
    <3>3. QED BY <1>4, <3>2
  <2>4. QED BY <1>4, <2>1, <2>3
<1>6. IsFiniteSet(A)
  BY RootAssumption, FS_Subset DEF Having
<1>7. IsFiniteSet({r})
  BY FS_Singleton
<1>8. IsFiniteSet(A \X {r})
  BY <1>6, <1>7, FS_Product
<1>11. \A u \in DOMAIN cohort : cohort[u] \in Fraction
  <2>1. ASSUME NEW u \in DOMAIN cohort PROVE Tournament(rows, u).metrics[m].value \in Fraction
    <3>1. m \in DOMAIN Tournament(rows, u).metrics
      BY <1>4, PlayerHas
    <3>2. QED BY <3>1, PlayerHas
  <2>2. QED BY <1>3, <2>1
<1>12. QED BY <1>3, <1>5, <1>8, <1>11 DEF cohort, InRole

LEMMA CohortCount ==
    ASSUME NEW rows, Faithful(rows), NEW s \in Subjects(rows), NEW m \in Metric
    PROVE  Cardinality(DOMAIN CohortOf(rows, s, m)) = Cardinality(Having(rows, s[2], m))
<1>. DEFINE A == Having(rows, s[2], m)
            r == s[2]
<1>1. DOMAIN CohortOf(rows, s, m) = InRole(A, r)
  BY CohortIs
<1>2. IsFiniteSet(A)
  BY RootAssumption, FS_Subset DEF Having
<1>3. IsFiniteSet({r}) /\ Cardinality({r}) = 1
  BY FS_Singleton
<1>4. Cardinality(A \X {r}) = Cardinality(A) * Cardinality({r})
  BY <1>2, <1>3, FS_Product
<1>5. Cardinality(A) \in Nat
  BY <1>2, FS_CardinalityType
<1>. HIDE DEF A, r
<1>6. Cardinality(A \X {r}) = Cardinality(A)
  BY <1>3, <1>4, <1>5
<1>7. QED BY <1>1, <1>6 DEF A, InRole

PercentilesOf(rows, s) == Percentiles(s, Peers(Corpus(rows), s), MinMatches)

LEMMA PercentilesAre ==
    ASSUME NEW rows, Faithful(rows), NEW s \in Subjects(rows)
    PROVE  /\ \A m : m \in DOMAIN PercentilesOf(rows, s) <=> RankedThere(rows, s, m)
           /\ \A m \in DOMAIN PercentilesOf(rows, s) :
                 PercentilesOf(rows, s)[m] \in 0 .. 100 * Scale
<1>. DEFINE peers == Peers(Corpus(rows), s)
            p == PercentilesOf(rows, s)
<1>1. /\ DOMAIN p = {m \in DOMAIN peers[s].metrics :
                        Cardinality(DOMAIN CohortOf(rows, s, m)) >= MinMatches}
      /\ \A m \in DOMAIN p : p[m] = Ranked(m, peers[s].metrics[m].value, CohortOf(rows, s, m))
  BY DEF Percentiles, PercentilesOf, CohortOf
<1>2. peers[s] = Tournament(rows, s)
  BY PeersAre
<1>3. \A m : m \in DOMAIN peers[s].metrics <=> Counts(rows, s, m)
  BY <1>2, PlayerHas
<1>. HIDE DEF p
<1>4. ASSUME NEW m PROVE m \in DOMAIN p <=> RankedThere(rows, s, m)
  <2>1. Counts(rows, s, m) => Cardinality(DOMAIN CohortOf(rows, s, m)) = Cardinality(Having(rows, s[2], m))
    <3>1. ASSUME m \in Metric
          PROVE  Cardinality(DOMAIN CohortOf(rows, s, m)) = Cardinality(Having(rows, s[2], m))
      BY <3>1, CohortCount
    <3>2. Counts(rows, s, m) => m \in Metric
      BY DEF Counts
    <3>. HIDE DEF peers
    <3>3. QED BY <3>1, <3>2
  <2>. HIDE DEF peers
  <2>2. QED BY <1>1, <1>3, <2>1 DEF RankedThere
<1>5. ASSUME NEW m \in DOMAIN p PROVE p[m] \in 0 .. 100 * Scale
  <2>1. m \in DOMAIN peers[s].metrics
    BY <1>1
  <2>2. m \in Metric
    <3>1. RankedThere(rows, s, m)
      BY <1>4
    <3>2. QED BY <3>1 DEF RankedThere, Counts
  <2>. DEFINE cohort == CohortOf(rows, s, m)
              v == peers[s].metrics[m].value
  <2>3. /\ IsFiniteSet(DOMAIN cohort)
        /\ \A u \in DOMAIN cohort : cohort[u] \in Fraction
    BY <2>2, CohortIs
  <2>4. s \in DOMAIN cohort
    BY <2>1, PeersAre DEF Cohort, CohortOf
  <2>5. v \in Fraction
    BY <1>2, <2>1, PlayerHas
  <2>6. p[m] = Ranked(m, v, cohort)
    BY <1>1
  <2>. HIDE DEF cohort, v
  <2>7. DOMAIN cohort # {}
    BY <2>4
  <2>8. QED BY <2>3, <2>5, <2>6, <2>7, RankedIs
<1>6. QED BY <1>4, <1>5 DEF p


-----------------------------------------------------------------------------
(* The axes of a player.                                                   *)

EarnedThere(rows, s) ==
    {x \in Axis : LET metrics == DOMAIN Component[s[2]][x] IN
        metrics # {} /\ \A m \in metrics : m \in Official /\ RankedThere(rows, s, m)}
DashedThere(rows, s) ==
    {x \in EarnedThere(rows, s) :
        \E m \in V3Component[x] : m \in Experimental /\ RankedThere(rows, s, m)}
AxesThere(rows, s) ==
    OfficialAxes(Component[s[2]], Tournament(rows, s), PercentilesOf(rows, s))
ExperimentalThere(rows, s) == ExperimentalAxes(AxesThere(rows, s), PercentilesOf(rows, s))

LEMMA WeightsOf ==
    ASSUME NEW r \in Role, NEW x \in Axis
    PROVE  /\ AxisWeight[r] \in [Axis -> Nat]
           /\ Component[r][x] \in [DOMAIN Component[r][x] -> Nat]
           /\ Component[r][x] # <<>> => SumOf(Component[r][x]) = Whole
           /\ Component[r][x] # <<>> <=> DOMAIN Component[r][x] # {}
<1>1. Component[r][x] \in [DOMAIN Component[r][x] -> Nat] /\ AxisWeight[r] \in [Axis -> Nat]
  BY FrozenAssumption
<1>2. Component[r][x] # <<>> => SumOf(Component[r][x]) = Whole
  BY ContractAssumption DEF ValidContract
<1>3. Component[r][x] # <<>> <=> DOMAIN Component[r][x] # {}
  <2>. DEFINE cm == Component[r][x]
  <2>1. cm = [m \in DOMAIN cm |-> cm[m]]
    BY <1>1
  <2>. HIDE DEF cm
  <2>2. DOMAIN cm = {} => cm = <<>>
    <3>1. DOMAIN cm = {} => [m \in DOMAIN cm |-> cm[m]] = <<>>
      OBVIOUS
    <3>2. QED BY <2>1, <3>1
  <2>3. cm = <<>> => DOMAIN cm = {}
    OBVIOUS
  <2>4. QED BY <2>2, <2>3 DEF cm
<1>4. QED BY <1>1, <1>2, <1>3

\* A weighted sum of percentiles is within what a percentile can be.
LEMMA AxisValue ==
    ASSUME NEW cm, cm \in [DOMAIN cm -> Nat], IsFiniteSet(DOMAIN cm), SumOf(cm) = Whole,
           NEW p, \A m \in DOMAIN cm : p[m] \in 0 .. 100 * Scale
    PROVE  SumOf([m \in DOMAIN cm |-> cm[m] * p[m]]) \in 0 .. 100 * Scale * Whole
<1>. DEFINE f == [m \in DOMAIN cm |-> cm[m] * p[m]]
            e == [m \in DOMAIN cm |-> (100 * Scale) * cm[m]]
            top == 100 * Scale
<1>1. top \in Nat /\ Scale \in Nat
  BY BoundsOf
<1>2. ASSUME NEW m \in DOMAIN cm
      PROVE  f[m] \in Nat /\ e[m] \in Int /\ f[m] <= e[m] /\ e[m] = top * cm[m] /\ cm[m] \in Int
  <2>1. cm[m] \in Nat /\ p[m] \in Nat /\ p[m] <= top
    BY <1>1
  <2>2. \A a, b, c \in Nat : b <= c => a * b \in Nat /\ c * a \in Nat /\ a * b <= c * a
    OBVIOUS
  <2>. HIDE DEF top
  <2>3. cm[m] * p[m] \in Nat /\ top * cm[m] \in Nat /\ cm[m] * p[m] <= top * cm[m]
    BY <1>1, <2>1, <2>2
  <2>4. f[m] = cm[m] * p[m] /\ e[m] = top * cm[m]
    BY DEF top
  <2>5. QED BY <2>1, <2>3, <2>4
<1>3. DOMAIN f = DOMAIN cm /\ DOMAIN e = DOMAIN cm
  OBVIOUS
<1>. HIDE DEF f, e, top
<1>4. SumOf(f) \in Nat
  BY <1>2, <1>3, SumOfNats
<1>5. SumOf(f) <= SumOf(e)
  <2>1. \A x \in DOMAIN f : f[x] \in Int /\ e[x] \in Int /\ f[x] <= e[x]
    BY <1>2, <1>3
  <2>2. IsFiniteSet(DOMAIN f) /\ DOMAIN e = DOMAIN f
    BY <1>3
  <2>3. QED BY <2>1, <2>2, SumBelow
<1>6. SumOf(e) = top * Whole
  <2>1. \A x \in DOMAIN cm : cm[x] \in Int /\ e[x] = top * cm[x]
    BY <1>2
  <2>2. top \in Int
    BY <1>1
  <2>3. SumOf(e) = top * SumOf(cm)
    BY <1>3, <2>1, <2>2, SumTimes
  <2>4. QED BY <2>3
<1>7. Whole \in Nat
  BY BoundsOf
<1>8. SumOf(f) \in 0 .. top * Whole
  <2>1. top * Whole \in Nat
    BY <1>1, <1>7
  <2>2. QED BY <1>4, <1>5, <1>6, <2>1
<1>9. QED BY <1>8 DEF f, top

\* What is suppressed has the value 0.
LEMMA AxesEarned ==
    ASSUME NEW rows, Faithful(rows), NEW s \in Subjects(rows)
    PROVE  /\ PublishedAxes(AxesThere(rows, s)) = EarnedThere(rows, s)
           /\ \A x \in Axis : AxesThere(rows, s)[x].value \in 0 .. 100 * Scale * Whole
<1>. DEFINE r == s[2]
            p == PercentilesOf(rows, s)
            pt == Tournament(rows, s)
            axes == AxesThere(rows, s)
            cm(x) == Component[r][x]
            missing(x) == {m \in DOMAIN cm(x) : m \notin DOMAIN p \cap Official}
            axis(x) == IF cm(x) = <<>> THEN Suppressed({<<x, "no_components_defined_for_role">>})
                       ELSE IF missing(x) # {}
                       THEN Suppressed({<<m, MissingReason(m, pt)>> : m \in missing(x)})
                       ELSE Published(SumOf([m \in DOMAIN cm(x) |-> cm(x)[m] * p[m]]))
<1>1. axes = [x \in Axis |-> axis(x)]
  BY DEF AxesThere, OfficialAxes
<1>2. r \in Role
  BY SubjectsAre
<1>3. \A m : m \in DOMAIN p <=> RankedThere(rows, s, m)
  BY PercentilesAre
<1>4. \A m \in DOMAIN p : p[m] \in 0 .. 100 * Scale
  BY PercentilesAre
<1>5. 100 * Scale * Whole \in Nat
  BY BoundsOf
<1>. HIDE DEF axes, p, pt, r
<1>6. ASSUME NEW x \in Axis
      PROVE  /\ axes[x].published <=> x \in EarnedThere(rows, s)
             /\ axes[x].value \in 0 .. 100 * Scale * Whole
  <2>1. axes[x] = axis(x)
    BY <1>1
  <2>2. cm(x) # <<>> <=> DOMAIN cm(x) # {}
    BY <1>2, WeightsOf
  <2>3. x \in EarnedThere(rows, s) <=> cm(x) # <<>> /\ missing(x) = {}
    <3>1. x \in EarnedThere(rows, s) <=>
             DOMAIN cm(x) # {} /\ \A m \in DOMAIN cm(x) : m \in Official /\ RankedThere(rows, s, m)
      BY DEF EarnedThere, r
    <3>2. missing(x) = {} <=> \A m \in DOMAIN cm(x) : m \in Official /\ m \in DOMAIN p
      OBVIOUS
    <3>3. QED BY <1>3, <2>2, <3>1, <3>2
  <2>4. CASE cm(x) # <<>> /\ missing(x) = {}
    <3>1. axes[x] = Published(SumOf([m \in DOMAIN cm(x) |-> cm(x)[m] * p[m]]))
      BY <2>1, <2>4
    <3>2. cm(x) \in [DOMAIN cm(x) -> Nat] /\ SumOf(cm(x)) = Whole
      BY <1>2, <2>4, WeightsOf
    <3>3. IsFiniteSet(DOMAIN cm(x))
      <4>1. DOMAIN cm(x) \in SUBSET Metric
        BY <2>4, FrozenAssumption
      <4>2. QED BY <4>1, FrozenAssumption, FS_Subset
    <3>4. \A m \in DOMAIN cm(x) : p[m] \in 0 .. 100 * Scale
      BY <1>4, <2>4
    <3>5. SumOf([m \in DOMAIN cm(x) |-> cm(x)[m] * p[m]]) \in 0 .. 100 * Scale * Whole
      <4>. DEFINE one == cm(x)
      <4>. HIDE DEF one
      <4>1. SumOf([m \in DOMAIN one |-> one[m] * p[m]]) \in 0 .. 100 * Scale * Whole
        BY <3>2, <3>3, <3>4, AxisValue DEF one
      <4>2. QED BY <4>1 DEF one
    <3>6. QED BY <2>3, <2>4, <3>1, <3>5 DEF Published
  <2>5. CASE ~(cm(x) # <<>> /\ missing(x) = {})
    <3>1. PICK reasons : axes[x] = Suppressed(reasons)
      BY <2>1, <2>5
    <3>2. QED BY <1>5, <2>3, <2>5, <3>1 DEF Suppressed
  <2>6. QED BY <2>4, <2>5
<1>7. PublishedAxes(axes) = EarnedThere(rows, s)
  BY <1>6 DEF PublishedAxes, EarnedThere
<1>8. QED BY <1>6, <1>7 DEF axes

LEMMA DashedEarned ==
    ASSUME NEW rows, Faithful(rows), NEW s \in Subjects(rows)
    PROVE  /\ PublishedAxes(ExperimentalThere(rows, s)) = DashedThere(rows, s)
           /\ \A x \in Axis : ExperimentalThere(rows, s)[x].value \in Nat
<1>. DEFINE p == PercentilesOf(rows, s)
            axes == AxesThere(rows, s)
            dashed == ExperimentalThere(rows, s)
            there(x) == V3Component[x] \cap DOMAIN p \cap Experimental
            sum(x) == SumOf([m \in there(x) |-> p[m]])
            axis(x) == IF ~axes[x].published THEN Suppressed({<<x, "official_axis_unavailable">>})
                       ELSE IF there(x) = {} THEN Suppressed({<<x, "no_calibrated_v3_component">>})
                       ELSE Published(Base * axes[x].value
                                      + (V3Share * Whole * sum(x)) \div Cardinality(there(x)))
<1>1. dashed = [x \in Axis |-> axis(x)]
  BY DEF ExperimentalThere, ExperimentalAxes
<1>2. \A m : m \in DOMAIN p <=> RankedThere(rows, s, m)
  BY PercentilesAre
<1>3. \A m \in DOMAIN p : p[m] \in 0 .. 100 * Scale
  BY PercentilesAre
<1>4. /\ PublishedAxes(axes) = EarnedThere(rows, s)
      /\ \A x \in Axis : axes[x].value \in 0 .. 100 * Scale * Whole
  BY AxesEarned
<1>5. /\ Whole \in Nat /\ V3Share \in Nat /\ Base \in Nat /\ Scale \in Nat
      /\ 100 * Scale * Whole \in Nat /\ 100 * Scale \in Nat
  BY BoundsOf
<1>. HIDE DEF axes, p, dashed
<1>6. ASSUME NEW x \in Axis
      PROVE  /\ dashed[x].published <=> x \in DashedThere(rows, s)
             /\ dashed[x].value \in Nat
  <2>1. dashed[x] = axis(x)
    BY <1>1
  <2>2. axes[x].published <=> x \in EarnedThere(rows, s)
    BY <1>4 DEF PublishedAxes
  <2>3. x \in DashedThere(rows, s) <=> axes[x].published /\ there(x) # {}
    <3>1. there(x) # {} <=> \E m \in V3Component[x] : m \in Experimental /\ RankedThere(rows, s, m)
      BY <1>2
    <3>2. QED BY <2>2, <3>1 DEF DashedThere
  <2>4. CASE axes[x].published /\ there(x) # {}
    <3>. DEFINE n == Cardinality(there(x))
                total == V3Share * Whole * sum(x)
    <3>1. dashed[x] = Published(Base * axes[x].value + total \div n)
      BY <2>1, <2>4
    <3>2. IsFiniteSet(there(x))
      <4>1. there(x) \in SUBSET Metric
        BY FrozenAssumption
      <4>2. QED BY <4>1, FrozenAssumption, FS_Subset
    <3>3. n \in Nat /\ n # 0
      BY <2>4, <3>2, FS_CardinalityType, FS_EmptySet
    <3>4. sum(x) \in Nat
      <4>. DEFINE f == [m \in there(x) |-> p[m]]
      <4>1. \A m \in DOMAIN f : f[m] \in Nat
        BY <1>3, <1>5
      <4>2. IsFiniteSet(DOMAIN f)
        BY <3>2
      <4>. HIDE DEF f
      <4>3. SumOf(f) \in Nat
        BY <4>1, <4>2, SumOfNats
      <4>4. QED BY <4>3 DEF f
    <3>. HIDE DEF n
    <3>5. total \in Nat
      <4>1. \A a, b \in Nat : a * b \in Nat
        OBVIOUS
      <4>2. V3Share * Whole \in Nat
        BY <1>5, <4>1
      <4>3. QED BY <3>4, <4>1, <4>2
    <3>. HIDE DEF total
    <3>6. total \div n \in Nat
      <4>1. total \in Nat /\ total <= total * n
        BY <3>3, <3>5
      <4>2. total \div n \in 0 .. total
        BY <3>3, <3>5, <4>1, QuotientBelow
      <4>3. QED BY <3>5, <4>2
    <3>7. axes[x].value \in Nat
      BY <1>4, <1>5
    <3>8. Base * axes[x].value + total \div n \in Nat
      <4>1. \A a, b \in Nat : a * b \in Nat /\ a + b \in Nat
        OBVIOUS
      <4>2. Base * axes[x].value \in Nat
        BY <1>5, <3>7, <4>1
      <4>3. QED BY <3>6, <4>1, <4>2
    <3>9. dashed[x].published /\ dashed[x].value = Base * axes[x].value + total \div n
      BY <3>1 DEF Published
    <3>10. QED BY <2>3, <2>4, <3>8, <3>9
  <2>5. CASE ~(axes[x].published /\ there(x) # {})
    <3>1. PICK reasons : dashed[x] = Suppressed(reasons)
      BY <2>1, <2>5
    <3>2. QED BY <2>3, <2>5, <3>1 DEF Suppressed
  <2>6. QED BY <2>4, <2>5
<1>7. PublishedAxes(dashed) = DashedThere(rows, s)
  BY <1>6 DEF PublishedAxes, DashedThere, EarnedThere
<1>8. QED BY <1>6, <1>7 DEF dashed


-----------------------------------------------------------------------------
(* The totals of a player.                                                 *)

LEMMA LowestAndHighest ==
    ASSUME NEW A, IsFiniteSet(A), A # {}, NEW v, \A x \in A : v[x] \in Nat
    PROVE  \E x, y \in A : \A z \in A : v[x] <= v[z] /\ v[z] <= v[y]
<1>. DEFINE V == {v[x] : x \in A}
<1>1. V \in SUBSET Nat /\ V # {} /\ IsFiniteSet(V)
  <2>1. [x \in A |-> v[x]] \in Surjection(A, V)
    BY DEF Surjection
  <2>2. IsFiniteSet(V)
    BY <2>1, FS_Surjection
  <2>3. QED BY <2>2
<1>2. PICK lo \in V : \A n \in V : lo <= n
  BY <1>1, LeastOf
<1>3. PICK hi \in V : \A n \in V : n <= hi
  BY <1>1, GreatestOf
<1>4. PICK x \in A : v[x] = lo
  OBVIOUS
<1>5. PICK y \in A : v[y] = hi
  OBVIOUS
<1>6. \A z \in A : v[x] <= v[z] /\ v[z] <= v[y]
  BY <1>2, <1>3, <1>4, <1>5
<1>7. QED BY <1>6

\* A weighted sum lies between the weights times the least and the greatest.
LEMMA WeightedBetween ==
    ASSUME NEW A, IsFiniteSet(A), NEW v, NEW w, \A x \in A : v[x] \in Nat /\ w[x] \in Nat,
           NEW lo \in Nat, NEW hi \in Nat, \A x \in A : lo <= v[x] /\ v[x] <= hi
    PROVE  LET sum == SumOf([x \in A |-> w[x] * v[x]])
               weights == SumOf([x \in A |-> w[x]])
           IN  lo * weights <= sum /\ sum <= hi * weights
<1>. DEFINE f == [x \in A |-> w[x] * v[x]]
            g == [x \in A |-> w[x]]
            below == [x \in A |-> lo * w[x]]
            above == [x \in A |-> hi * w[x]]
<1>1. ASSUME NEW x \in A
      PROVE  /\ f[x] \in Int /\ below[x] \in Int /\ above[x] \in Int /\ g[x] \in Int
             /\ below[x] <= f[x] /\ f[x] <= above[x]
             /\ below[x] = lo * g[x] /\ above[x] = hi * g[x]
  <2>1. \A a, b, c \in Nat : b <= c => b * a <= a * c /\ a * b <= c * a /\ a * b \in Nat /\ b * a \in Nat
    OBVIOUS
  <2>2. w[x] \in Nat /\ v[x] \in Nat /\ lo <= v[x] /\ v[x] <= hi
    OBVIOUS
  <2>3. lo * w[x] <= w[x] * v[x] /\ w[x] * v[x] <= hi * w[x]
        /\ lo * w[x] \in Nat /\ w[x] * v[x] \in Nat /\ hi * w[x] \in Nat
    BY <2>1, <2>2
  <2>4. QED BY <2>2, <2>3
<1>2. DOMAIN f = A /\ DOMAIN g = A /\ DOMAIN below = A /\ DOMAIN above = A
  OBVIOUS
<1>. HIDE DEF f, g, below, above
<1>3. SumOf(below) <= SumOf(f)
  BY <1>1, <1>2, SumBelow
<1>4. SumOf(f) <= SumOf(above)
  BY <1>1, <1>2, SumBelow
<1>5. SumOf(below) = lo * SumOf(g)
  <2>1. \A x \in DOMAIN g : g[x] \in Int /\ below[x] = lo * g[x]
    BY <1>1, <1>2
  <2>2. lo \in Int /\ IsFiniteSet(DOMAIN g) /\ DOMAIN below = DOMAIN g
    BY <1>2
  <2>3. QED BY <2>1, <2>2, SumTimes
<1>6. SumOf(above) = hi * SumOf(g)
  <2>1. \A x \in DOMAIN g : g[x] \in Int /\ above[x] = hi * g[x]
    BY <1>1, <1>2
  <2>2. hi \in Int /\ IsFiniteSet(DOMAIN g) /\ DOMAIN above = DOMAIN g
    BY <1>2
  <2>3. QED BY <2>1, <2>2, SumTimes
<1>7. lo * SumOf(g) <= SumOf(f) /\ SumOf(f) <= hi * SumOf(g)
  BY <1>3, <1>4, <1>5, <1>6
<1>8. QED BY <1>7 DEF f, g

LEMMA SumOfNothing ==
    ASSUME NEW f, DOMAIN f = {}
    PROVE  SumOf(f) = 0
<1>1. IsFiniteSet(DOMAIN f) /\ \A x \in DOMAIN f : f[x] \in Int
  BY FS_EmptySet
<1>2. Adding(f)[{}] = 0
  BY <1>1, AddingSteps
<1>3. QED BY <1>2, SumOfIs

\* A total, published unless there are reasons or no weight.
LEMMA TotalIsMean ==
    ASSUME NEW axes, NEW weight, NEW weights, NEW reasons,
           \A x \in Axis : axes[x].value \in Nat /\ weight[x] \in Nat
    PROVE  LET total == TotalOf(axes, weight, weights, reasons)
           IN  /\ total.published <=>
                     reasons = {} /\ SumOf([x \in PublishedAxes(axes) |-> weight[x]]) # 0
               /\ WithinAxes(total, axes)
<1>. DEFINE A == PublishedAxes(axes)
            mean == WeightedMean(axes, weight)
            total == TotalOf(axes, weight, weights, reasons)
            sum == SumOf([x \in A |-> weight[x] * axes[x].value])
            all == SumOf([x \in A |-> weight[x]])
<1>1. mean = <<sum, all>>
  BY DEF WeightedMean
<1>2. A \in SUBSET Axis /\ IsFiniteSet(A)
  <2>1. A \in SUBSET Axis
    BY DEF PublishedAxes
  <2>2. QED BY <2>1, FrozenAssumption, FS_Subset
<1>3. CASE reasons # {} \/ all = 0
  <2>1. ~total.published
    BY <1>1, <1>3 DEF TotalOf
  <2>2. QED BY <1>3, <2>1 DEF WithinAxes
<1>4. CASE reasons = {} /\ all # 0
  <2>1. total.published /\ total.value = <<sum, all>> /\ total.included = A
    BY <1>1, <1>4 DEF TotalOf
  <2>2. A # {}
    <3>1. SUFFICES ASSUME A = {} PROVE all = 0
      BY <1>4
    <3>2. DOMAIN [x \in A |-> weight[x]] = {}
      BY <3>1
    <3>3. QED BY <3>2, SumOfNothing
  <2>. DEFINE v == [x \in A |-> axes[x].value]
  <2>3. \A x \in A : v[x] \in Nat
    BY <1>2
  <2>4. \E x, y \in A : \A z \in A : v[x] <= v[z] /\ v[z] <= v[y]
    <3>. HIDE DEF A, v
    <3>1. QED BY <1>2, <2>2, <2>3, LowestAndHighest
  <2>5. PICK x \in A, y \in A : \A z \in A : v[x] <= v[z] /\ v[z] <= v[y]
    BY <2>4
  <2>6. v[x] * all <= sum /\ sum <= v[y] * all
    <3>1. \A z \in A : v[z] \in Nat /\ weight[z] \in Nat
      BY <1>2, <2>3
    <3>2. v[x] \in Nat /\ v[y] \in Nat
      BY <2>3
    <3>3. SumOf([z \in A |-> weight[z] * v[z]]) = sum
      <4>1. [z \in A |-> weight[z] * v[z]] = [z \in A |-> weight[z] * axes[z].value]
        OBVIOUS
      <4>2. QED BY <4>1
    <3>. HIDE DEF A, v
    <3>4. LET s == SumOf([z \in A |-> weight[z] * v[z]])
              n == SumOf([z \in A |-> weight[z]])
          IN  v[x] * n <= s /\ s <= v[y] * n
      BY <1>2, <2>5, <3>1, <3>2, WeightedBetween
    <3>5. QED BY <3>3, <3>4 DEF A
  <2>7. axes[x].value * all <= sum /\ sum <= axes[y].value * all
    <3>1. v[x] = axes[x].value /\ v[y] = axes[y].value
      OBVIOUS
    <3>2. QED BY <2>6, <3>1
  <2>. HIDE DEF total, sum, all
  <2>8. WithinAxes(total, axes)
    <3>1. total.value[1] = sum /\ total.value[2] = all
      BY <2>1
    <3>2. \E u, w \in total.included : /\ axes[u].value * total.value[2] <= total.value[1]
                                       /\ total.value[1] <= axes[w].value * total.value[2]
      BY <2>1, <2>7, <3>1
    <3>3. QED BY <3>2 DEF WithinAxes
  <2>9. QED BY <1>4, <2>1, <2>8 DEF total, all
<1>5. QED BY <1>3, <1>4

\* The matches of a player, each counted once.
LEMMA MatchesCounted ==
    ASSUME NEW rows, Faithful(rows), NEW s
    PROVE  Cardinality(Tournament(rows, s).matches) = Cardinality(KeysOf(rows, s))
<1>. DEFINE keys == KeysOf(rows, s)
            M == Matches(keys)
<1>1. Tournament(rows, s).matches = M
  BY DEF Tournament, KeysOf
<1>2. \A k \in keys : k = <<k[1], k[2]>> /\ k[2] = s[1]
  <2>1. ASSUME NEW k \in keys PROVE k = <<k[1], k[2]>> /\ k[2] = s[1]
    <3>1. k \in DOMAIN rows /\ <<rows[k].account, rows[k].role>> = s
      BY DEF KeysOf
    <3>2. rows[k].account = k[2] /\ k \in Match \X Account
      BY <3>1 DEF Faithful, Grounded
    <3>3. QED BY <3>1, <3>2
  <2>2. QED BY <2>1
<1>3. IsFiniteSet(keys)
  <2>1. keys \in SUBSET DOMAIN rows
    BY DEF KeysOf
  <2>2. QED BY <2>1, FinitelyMany, FS_Subset DEF Faithful
<1>. HIDE DEF keys
<1>4. keys = InRole(M, s[1])
  BY <1>2 DEF Matches, InRole
<1>5. IsFiniteSet(M)
  <2>1. keys \in SUBSET (Match \X Account)
    BY FinitelyMany DEF Faithful, keys, KeysOf
  <2>2. M \in SUBSET Match
    BY <2>1 DEF Matches
  <2>3. QED BY <2>2, RootAssumption, FS_Subset
<1>. HIDE DEF M
<1>6. IsFiniteSet({s[1]}) /\ Cardinality({s[1]}) = 1
  BY FS_Singleton
<1>7. Cardinality(M \X {s[1]}) = Cardinality(M) * Cardinality({s[1]}) /\ Cardinality(M) \in Nat
  BY <1>5, <1>6, FS_Product, FS_CardinalityType
<1>8. Cardinality(M \X {s[1]}) = Cardinality(M)
  BY <1>6, <1>7
<1>9. QED BY <1>1, <1>4, <1>8 DEF InRole, keys, M

EarnsTotal(rows, s) ==
    /\ Cardinality(KeysOf(rows, s)) >= MinMatches
    /\ Mandatory[s[2]] \subseteq EarnedThere(rows, s)
    /\ Cardinality(EarnedThere(rows, s)) >= MinAxes
EarnsDashedTotal(rows, s) ==
    /\ EarnsTotal(rows, s) /\ Cardinality(DashedThere(rows, s)) >= MinExperimental
    /\ SumOf([x \in DashedThere(rows, s) |-> AxisWeight[s[2]][x]]) >= MinCoverage
TotalThere(rows, s) ==
    OfficialTotal(s[2], AxesThere(rows, s), Cardinality(Tournament(rows, s).matches))
DashedTotalThere(rows, s) ==
    ExperimentalTotal(s[2], ExperimentalThere(rows, s), TotalThere(rows, s))

LEMMA TotalEarned ==
    ASSUME NEW rows, Faithful(rows), NEW s \in Subjects(rows)
    PROVE  /\ TotalThere(rows, s).published <=> EarnsTotal(rows, s)
           /\ WithinAxes(TotalThere(rows, s), AxesThere(rows, s))
<1>. DEFINE r == s[2]
            axes == AxesThere(rows, s)
            E == EarnedThere(rows, s)
            n == Cardinality(KeysOf(rows, s))
            reasons == TotalReasons(axes, Mandatory[r], n, MinMatches, MinAxes)
            weights == [x \in PublishedAxes(axes) |-> AxisWeight[r][x]]
<1>1. TotalThere(rows, s) = TotalOf(axes, AxisWeight[r], weights, reasons)
  BY MatchesCounted DEF TotalThere, OfficialTotal
<1>2. PublishedAxes(axes) = E
  BY AxesEarned
<1>3. r \in Role
  BY SubjectsAre
<1>4. \A x \in Axis : axes[x].value \in Nat /\ AxisWeight[r][x] \in Nat
  <2>1. 100 * Scale * Whole \in Nat
    BY BoundsOf
  <2>2. \A x \in Axis : axes[x].value \in 0 .. 100 * Scale * Whole
    BY AxesEarned
  <2>3. \A x \in Axis : AxisWeight[r][x] \in Nat
    BY <1>3, WeightsOf
  <2>. HIDE DEF axes
  <2>4. QED BY <2>1, <2>2, <2>3
<1>. HIDE DEF axes, r
<1>5. /\ TotalThere(rows, s).published <=>
            reasons = {} /\ SumOf([x \in PublishedAxes(axes) |-> AxisWeight[r][x]]) # 0
      /\ WithinAxes(TotalThere(rows, s), axes)
  BY <1>1, <1>4, TotalIsMean
<1>6. E \in SUBSET Axis /\ IsFiniteSet(E)
  <2>1. E \in SUBSET Axis
    BY DEF EarnedThere
  <2>2. QED BY <2>1, FrozenAssumption, FS_Subset
<1>7. n \in Nat /\ Cardinality(E) \in Nat
  <2>1. KeysOf(rows, s) \in SUBSET DOMAIN rows
    BY DEF KeysOf
  <2>2. IsFiniteSet(KeysOf(rows, s))
    BY <2>1, FinitelyMany, FS_Subset DEF Faithful
  <2>3. QED BY <1>6, <2>2, FS_CardinalityType
<1>8. reasons = {} <=> EarnsTotal(rows, s)
  <2>1. reasons = {} <=> /\ ~(n < MinMatches)
                         /\ Mandatory[r] \ E = {}
                         /\ ~(Cardinality(E) < MinAxes)
    BY <1>2 DEF TotalReasons, Because
  <2>2. MinMatches \in Nat /\ MinAxes \in Nat
    BY BoundsOf
  <2>3. ~(n < MinMatches) <=> n >= MinMatches
    BY <1>7, <2>2
  <2>4. ~(Cardinality(E) < MinAxes) <=> Cardinality(E) >= MinAxes
    BY <1>7, <2>2
  <2>. HIDE DEF E, n
  <2>5. Mandatory[r] \ E = {} <=> Mandatory[r] \subseteq E
    OBVIOUS
  <2>6. QED BY <2>1, <2>3, <2>4, <2>5 DEF EarnsTotal, E, n, r
<1>9. ASSUME Mandatory[r] \subseteq E
      PROVE  SumOf([x \in E |-> AxisWeight[r][x]]) # 0
  <2>. DEFINE f == [x \in E |-> AxisWeight[r][x]]
  <2>1. PICK x \in Mandatory[r] : AxisWeight[r][x] > 0
    BY <1>3, FrozenAssumption
  <2>2. \A y \in DOMAIN f : f[y] \in Nat
    BY <1>4, <1>6
  <2>3. IsFiniteSet(DOMAIN f)
    BY <1>6
  <2>4. x \in DOMAIN f /\ f[x] = AxisWeight[r][x]
    BY <1>9, <2>1
  <2>. HIDE DEF f
  <2>5. SumOf(f) \in Nat /\ f[x] <= SumOf(f)
    BY <2>2, <2>3, <2>4, SumOfNats
  <2>6. f[x] \in Nat
    BY <2>2, <2>4
  <2>7. SumOf(f) # 0
    BY <2>1, <2>4, <2>5, <2>6
  <2>8. QED BY <2>7 DEF f
<1>10. EarnsTotal(rows, s) => Mandatory[r] \subseteq E
  BY DEF EarnsTotal, r
<1>11. QED
  <2>1. TotalThere(rows, s).published <=> EarnsTotal(rows, s)
    BY <1>2, <1>5, <1>8, <1>9, <1>10
  <2>2. QED BY <1>5, <2>1 DEF axes

LEMMA DashedTotalEarned ==
    ASSUME NEW rows, Faithful(rows), NEW s \in Subjects(rows)
    PROVE  /\ DashedTotalThere(rows, s).published <=> EarnsDashedTotal(rows, s)
           /\ WithinAxes(DashedTotalThere(rows, s), ExperimentalThere(rows, s))
<1>. DEFINE r == s[2]
            axes == ExperimentalThere(rows, s)
            official == TotalThere(rows, s)
            E == DashedThere(rows, s)
            weights == [x \in PublishedAxes(axes) |-> AxisWeight[r][x]]
            reasons == Because(~official.published, "official_total_not_published")
                       \cup Because(Cardinality(PublishedAxes(axes)) < MinExperimental, "experimental_axes")
                       \cup Because(SumOf(weights) < MinCoverage, "weight_coverage")
<1>1. DashedTotalThere(rows, s) = TotalOf(axes, AxisWeight[r], weights, reasons)
  BY DEF DashedTotalThere, ExperimentalTotal
<1>2. PublishedAxes(axes) = E /\ \A x \in Axis : axes[x].value \in Nat
  BY DashedEarned
<1>3. r \in Role
  BY SubjectsAre
<1>4. \A x \in Axis : axes[x].value \in Nat /\ AxisWeight[r][x] \in Nat
  <2>1. \A x \in Axis : AxisWeight[r][x] \in Nat
    BY <1>3, WeightsOf
  <2>2. QED BY <1>2, <2>1
<1>5. official.published <=> EarnsTotal(rows, s)
  BY TotalEarned
<1>. HIDE DEF axes, r, official
<1>6. /\ DashedTotalThere(rows, s).published <=> reasons = {} /\ SumOf(weights) # 0
      /\ WithinAxes(DashedTotalThere(rows, s), axes)
  BY <1>1, <1>4, TotalIsMean
<1>7. E \in SUBSET Axis /\ IsFiniteSet(E)
  <2>1. E \in SUBSET Axis
    BY DEF DashedThere, EarnedThere
  <2>2. QED BY <2>1, FrozenAssumption, FS_Subset
<1>8. Cardinality(E) \in Nat
  BY <1>7, FS_CardinalityType
<1>9. SumOf(weights) \in Nat
  <2>1. \A y \in DOMAIN weights : weights[y] \in Nat
    BY <1>2, <1>4, <1>7
  <2>2. IsFiniteSet(DOMAIN weights)
    BY <1>2, <1>7
  <2>. HIDE DEF weights
  <2>3. QED BY <2>1, <2>2, SumOfNats
<1>10. MinExperimental \in Nat /\ MinCoverage \in Nat /\ MinCoverage # 0
  BY BoundsOf
<1>11. weights = [x \in E |-> AxisWeight[r][x]]
  BY <1>2
<1>. HIDE DEF E, weights
<1>12. reasons = {} <=> /\ official.published
                        /\ ~(Cardinality(E) < MinExperimental)
                        /\ ~(SumOf(weights) < MinCoverage)
  BY <1>2 DEF Because
<1>13. reasons = {} <=> /\ official.published
                        /\ Cardinality(E) >= MinExperimental
                        /\ SumOf(weights) >= MinCoverage
  BY <1>8, <1>9, <1>10, <1>12
<1>14. SumOf(weights) >= MinCoverage => SumOf(weights) # 0
  BY <1>9, <1>10
<1>15. EarnsDashedTotal(rows, s) <=> /\ EarnsTotal(rows, s)
                                     /\ Cardinality(E) >= MinExperimental
                                     /\ SumOf(weights) >= MinCoverage
  BY <1>11 DEF EarnsDashedTotal, E, r
<1>16. DashedTotalThere(rows, s).published <=> EarnsDashedTotal(rows, s)
  BY <1>5, <1>6, <1>13, <1>14, <1>15
<1>17. QED BY <1>6, <1>16 DEF axes


-----------------------------------------------------------------------------
(* What is stored.                                                         *)

LEMMA PlayerIs ==
    ASSUME NEW rows, Faithful(rows), NEW s \in Subjects(rows)
    PROVE  LET p == ScoresOf(Corpus(rows)).players[s]
           IN  /\ p.axes = AxesThere(rows, s) /\ p.total = TotalThere(rows, s)
               /\ p.dashed = ExperimentalThere(rows, s)
               /\ p.dashedTotal = DashedTotalThere(rows, s)
               /\ p.percentiles = PercentilesOf(rows, s) /\ p.record = Tournament(rows, s)
<1>. DEFINE c == Corpus(rows)
            p == ScorePlayer(c, s)
<1>1. c.tournaments = [u \in Subjects(rows) |-> Tournament(rows, u)]
  BY CorpusIs
<1>2. ScoresOf(c).players = [u \in DOMAIN c.tournaments |-> ScorePlayer(c, u)]
  BY ScoresAre
<1>3. c.tournaments[s] = Tournament(rows, s)
  BY <1>1
<1>4. ScoresOf(c).players[s] = p
  BY <1>1, <1>2
<1>5. p.record = Tournament(rows, s) /\ p.percentiles = PercentilesOf(rows, s)
  BY <1>3 DEF ScorePlayer, PercentilesOf
<1>6. p.axes = AxesThere(rows, s)
  BY <1>3 DEF ScorePlayer, PercentilesOf, AxesThere
<1>7. p.total = TotalThere(rows, s)
  BY <1>3 DEF ScorePlayer, PercentilesOf, AxesThere, TotalThere
<1>8. p.dashed = ExperimentalThere(rows, s)
  BY <1>3 DEF ScorePlayer, PercentilesOf, AxesThere, ExperimentalThere
<1>9. p.dashedTotal = DashedTotalThere(rows, s)
  BY <1>3 DEF ScorePlayer, PercentilesOf, AxesThere, TotalThere, ExperimentalThere, DashedTotalThere
<1>. HIDE DEF c, p
<1>10. QED BY <1>4, <1>5, <1>6, <1>7, <1>8, <1>9 DEF c

LEMMA PlayersThere ==
    ASSUME NEW rows
    PROVE  DOMAIN ScoresOf(Corpus(rows)).players = Subjects(rows)
<1>1. Corpus(rows).tournaments = [u \in Subjects(rows) |-> Tournament(rows, u)]
  BY CorpusIs
<1>2. ScoresOf(Corpus(rows)).players =
         [u \in DOMAIN Corpus(rows).tournaments |-> ScorePlayer(Corpus(rows), u)]
  BY ScoresAre
<1>3. QED BY <1>1, <1>2

LEMMA EarnedIs ==
    ASSUME Faithful(scores.matches), NEW s \in Subjects(scores.matches)
    PROVE  /\ EarnedAxes(s) = EarnedThere(scores.matches, s)
           /\ EarnedDashed(s) = DashedThere(scores.matches, s)
           /\ EarnedTotal(s) <=> EarnsTotal(scores.matches, s)
           /\ EarnedDashedTotal(s) <=> EarnsDashedTotal(scores.matches, s)
<1>. DEFINE rows == scores.matches
<1>1. \A a, r : By(<<a, r>>) = KeysOf(rows, <<a, r>>)
  BY DEF By, KeysOf
<1>2. s = <<s[1], s[2]>>
  BY SubjectsAre
<1>3. By(s) = KeysOf(rows, s)
  BY <1>1, <1>2
<1>4. \A a, r : \A m \in Metric : Has(<<a, r>>, m) <=> Counts(rows, <<a, r>>, m)
  <2>1. ASSUME NEW a, NEW r, NEW m \in Metric PROVE Has(<<a, r>>, m) <=> Counts(rows, <<a, r>>, m)
    <3>1. By(<<a, r>>) = KeysOf(rows, <<a, r>>)
      BY <1>1
    <3>2. QED BY <3>1 DEF Has, Counts, Shows
  <2>2. QED BY <2>1
<1>5. \A m \in Metric : IsRanked(s, m) <=> RankedThere(rows, s, m)
  <2>1. ASSUME NEW m \in Metric PROVE IsRanked(s, m) <=> RankedThere(rows, s, m)
    <3>1. {a \in Account : Has(<<a, s[2]>>, m)} = Having(rows, s[2], m)
      BY <1>4 DEF Having
    <3>2. Has(s, m) <=> Counts(rows, s, m)
      BY <1>2, <1>4
    <3>3. QED BY <3>1, <3>2 DEF IsRanked, RankedThere
  <2>2. QED BY <2>1
<1>6. Official \subseteq Metric /\ Experimental \subseteq Metric
  BY FrozenAssumption
<1>. HIDE DEF rows
<1>7. EarnedAxes(s) = EarnedThere(rows, s)
  BY <1>5, <1>6 DEF EarnedAxes, EarnedThere
<1>8. EarnedDashed(s) = DashedThere(rows, s)
  BY <1>5, <1>6, <1>7 DEF EarnedDashed, DashedThere
<1>9. EarnedTotal(s) <=> EarnsTotal(rows, s)
  BY <1>3, <1>7 DEF EarnedTotal, EarnsTotal
<1>10. EarnedDashedTotal(s) <=> EarnsDashedTotal(rows, s)
  BY <1>8, <1>9 DEF EarnedDashedTotal, EarnsDashedTotal
<1>11. QED BY <1>7, <1>8, <1>9, <1>10 DEF rows

LEMMA StoredIs ==
    ASSUME Told, Typed, Scored
    PROVE  Faithful(Rows) /\ scores = ScoresOf(Corpus(Rows)) /\ scores.matches = Rows
<1>1. Current /\ scores = ScoresOf(Corpus(Rows))
  BY DEF Told, Scored
<1>2. Faithful(Rows)
  BY <1>1, RowsFaithful
<1>3. scores.matches = Rows
  BY <1>1, ScoredTeams
<1>4. QED BY <1>1, <1>2, <1>3

LEMMA NobodyStored ==
    ASSUME Told, ~Scored
    PROVE  Players = {} /\ DOMAIN scores.teams = {}
<1>1. scores = NoScores
  BY DEF Told, Scored
<1>2. QED BY <1>1 DEF NoScores, Players

\* What the score run publishes of a player is what the rows have earned, all of
\* it and nothing else, and a total lies between its axes (ScorePlayer).
THEOREM ScoresAreEarned == Spec => []PublishedIsEarned
<1>1. Told /\ Typed => PublishedIsEarned
  <2>1. SUFFICES ASSUME Told, Typed PROVE PublishedIsEarned
    OBVIOUS
  <2>2. CASE ~Scored
    BY <2>1, <2>2, NobodyStored DEF PublishedIsEarned
  <2>3. CASE Scored
    <3>. DEFINE rows == Rows
    <3>1. Faithful(rows) /\ scores = ScoresOf(Corpus(rows)) /\ scores.matches = rows
      BY <2>1, <2>3, StoredIs
    <3>. HIDE DEF rows
    <3>2. Players = Subjects(rows)
      BY <3>1, PlayersThere DEF Players
    <3>. DEFINE Right(s) ==
                   LET p == scores.players[s]
                   IN  /\ PublishedAxes(p.axes) = EarnedAxes(s)
                       /\ PublishedAxes(p.dashed) = EarnedDashed(s)
                       /\ p.total.published <=> EarnedTotal(s)
                       /\ p.dashedTotal.published <=> EarnedDashedTotal(s)
                       /\ WithinAxes(p.total, p.axes) /\ WithinAxes(p.dashedTotal, p.dashed)
                       /\ \A x \in Axis : p.axes[x].value \in 0 .. 100 * Scale * Whole
    <3>3. ASSUME NEW s \in Subjects(rows) PROVE Right(s)
      <4>. DEFINE p == scores.players[s]
      <4>1. /\ p.axes = AxesThere(rows, s) /\ p.total = TotalThere(rows, s)
            /\ p.dashed = ExperimentalThere(rows, s)
            /\ p.dashedTotal = DashedTotalThere(rows, s)
        BY <3>1, PlayerIs
      <4>2. /\ EarnedAxes(s) = EarnedThere(rows, s)
            /\ EarnedDashed(s) = DashedThere(rows, s)
            /\ EarnedTotal(s) <=> EarnsTotal(rows, s)
            /\ EarnedDashedTotal(s) <=> EarnsDashedTotal(rows, s)
        BY <3>1, EarnedIs
      <4>. HIDE DEF p
      <4>3. PublishedAxes(p.axes) = EarnedAxes(s)
        BY <3>1, <4>1, <4>2, AxesEarned
      <4>4. PublishedAxes(p.dashed) = EarnedDashed(s)
        BY <3>1, <4>1, <4>2, DashedEarned
      <4>5. p.total.published <=> EarnedTotal(s)
        BY <3>1, <4>1, <4>2, TotalEarned
      <4>6. p.dashedTotal.published <=> EarnedDashedTotal(s)
        BY <3>1, <4>1, <4>2, DashedTotalEarned
      <4>7. WithinAxes(p.total, p.axes)
        BY <3>1, <4>1, TotalEarned
      <4>8. WithinAxes(p.dashedTotal, p.dashed)
        BY <3>1, <4>1, DashedTotalEarned
      <4>9. \A x \in Axis : p.axes[x].value \in 0 .. 100 * Scale * Whole
        BY <3>1, <4>1, AxesEarned
      <4>10. QED BY <4>3, <4>4, <4>5, <4>6, <4>7, <4>8, <4>9 DEF p
    <3>4. PublishedIsEarned <=> \A s \in Players : Right(s)
      BY Zenon DEF PublishedIsEarned
    <3>. HIDE DEF Right
    <3>5. QED BY <3>2, <3>3, <3>4
  <2>4. QED BY <2>2, <2>3
<1>2. QED BY <1>1, AlwaysTold, AlwaysTyped, PTL


-----------------------------------------------------------------------------
(* Types.                                                                  *)

LEMMA ReasonsAreGiven ==
    ASSUME NEW rows, Faithful(rows), NEW s
    PROVE  \A m \in DOMAIN Tournament(rows, s).unavailable :
              Tournament(rows, s).unavailable[m] \in Reason
<1>. DEFINE keys == KeysOf(rows, s)
            told(m) == {k \in keys : m \in DOMAIN rows[k].unavailable}
            telling == Telling(rows, keys)
            picked == [m \in DOMAIN telling |-> Last(telling[m])]
            published == DOMAIN Tournament(rows, s).metrics
<1>1. Tournament(rows, s).unavailable = Unavailable(rows, picked, published)
  BY DEF Tournament, KeysOf
<1>2. /\ DOMAIN telling = {m \in Metric : told(m) # {}}
      /\ \A m \in DOMAIN telling : telling[m] = told(m)
  BY DEF Telling
<1>3. keys \in SUBSET DOMAIN rows
  BY DEF KeysOf
<1>4. ASSUME NEW m \in DOMAIN telling
      PROVE  Last(telling[m]) \in DOMAIN rows /\ m \in DOMAIN rows[Last(telling[m])].unavailable
  <2>1. telling[m] = told(m) /\ told(m) # {}
    BY <1>2
  <2>2. told(m) \in SUBSET (Match \X Account)
    <3>1. \A k \in keys : k \in Match \X Account
      BY <1>3 DEF Faithful, Grounded
    <3>. HIDE DEF keys
    <3>2. QED BY <3>1
  <2>3. Last(told(m)) \in told(m)
    BY <2>1, <2>2, PickedAreThere
  <2>. HIDE DEF keys
  <2>4. QED BY <1>3, <2>1, <2>3
<1>5. \A k \in DOMAIN rows : \A m \in DOMAIN rows[k].unavailable : rows[k].unavailable[m] \in Reason
  BY DEF Faithful
<1>. HIDE DEF telling, published
<1>6. \A m \in DOMAIN Unavailable(rows, picked, published) :
         Unavailable(rows, picked, published)[m] \in Reason
  BY <1>4, <1>5 DEF Unavailable
<1>7. QED BY <1>1, <1>6

LEMMA AxesTyped ==
    ASSUME NEW rows, Faithful(rows), NEW s \in Subjects(rows)
    PROVE  AxesThere(rows, s) \in [Axis -> Result]
<1>. DEFINE p == PercentilesOf(rows, s)
            pt == Tournament(rows, s)
            axes == AxesThere(rows, s)
            cm(x) == Component[s[2]][x]
            missing(x) == {m \in DOMAIN cm(x) : m \notin DOMAIN p \cap Official}
            whole(x) == {<<m, MissingReason(m, pt)>> : m \in missing(x)}
            axis(x) == IF cm(x) = <<>> THEN Suppressed({<<x, "no_components_defined_for_role">>})
                       ELSE IF missing(x) # {} THEN Suppressed(whole(x))
                       ELSE Published(SumOf([m \in DOMAIN cm(x) |-> cm(x)[m] * p[m]]))
<1>1. axes = [x \in Axis |-> axis(x)]
  BY DEF AxesThere, OfficialAxes
<1>2. s[2] \in Role
  BY SubjectsAre
<1>. DEFINE Missing == Reason \cup {"metric_not_published", "metric_not_official_eligible",
                                    "insufficient_cohort"}
<1>3. \A m \in DOMAIN pt.unavailable : pt.unavailable[m] \in Reason
  BY ReasonsAreGiven
<1>4. \A m : MissingReason(m, pt) \in Missing
  <2>. HIDE DEF pt
  <2>1. SUFFICES ASSUME NEW m PROVE MissingReason(m, pt) \in Missing
    OBVIOUS
  <2>2. CASE m \notin DOMAIN pt.metrics /\ m \in DOMAIN pt.unavailable
    <3>1. MissingReason(m, pt) = pt.unavailable[m]
      BY <2>2 DEF MissingReason
    <3>2. QED BY <1>3, <2>2, <3>1
  <2>3. CASE m \in DOMAIN pt.metrics \/ m \notin DOMAIN pt.unavailable
    BY <2>3 DEF MissingReason
  <2>4. QED BY <2>2, <2>3
<1>5. \A x \in Axis : axes[x].value \in Nat
  <2>1. \A x \in Axis : axes[x].value \in 0 .. 100 * Scale * Whole
    BY AxesEarned
  <2>2. 100 * Scale * Whole \in Nat
    BY BoundsOf
  <2>. HIDE DEF axes
  <2>3. QED BY <2>1, <2>2
<1>. HIDE DEF axes, p, pt
<1>6. ASSUME NEW x \in Axis PROVE axes[x] \in Result
  <2>1. axes[x] = axis(x)
    BY <1>1
  <2>2. DOMAIN cm(x) \subseteq Metric
    BY <1>2, FrozenAssumption
  <2>3. whole(x) \in SUBSET AxisReasons
    BY <1>4, <2>2 DEF AxisReasons
  <2>4. {<<x, "no_components_defined_for_role">>} \in SUBSET AxisReasons
    BY DEF AxisReasons
  <2>5. \A reasons \in SUBSET AxisReasons : Suppressed(reasons) \in Result
    BY DEF Suppressed, Result
  <2>6. \A v : Published(v).value = v
    BY DEF Published
  <2>7. \A v \in Nat : Published(v) \in Result
    BY DEF Published, Result
  <2>8. CASE cm(x) = <<>>
    BY <2>1, <2>4, <2>5, <2>8
  <2>9. CASE cm(x) # <<>> /\ missing(x) # {}
    BY <2>1, <2>3, <2>5, <2>9
  <2>10. CASE cm(x) # <<>> /\ missing(x) = {}
    <3>1. PICK v : axes[x] = Published(v)
      BY <2>1, <2>10
    <3>2. v \in Nat
      BY <1>5, <2>6, <3>1
    <3>3. QED BY <2>7, <3>1, <3>2
  <2>11. QED BY <2>8, <2>9, <2>10
<1>7. QED BY <1>1, <1>6 DEF axes

\* The types of the root and of what is stored of its players.
THEOREM TypeCorrect == Spec => []TypeOK
<1>1. Told /\ Typed => TypeOK
  <2>1. SUFFICES ASSUME Told, Typed PROVE TypeOK
    OBVIOUS
  <2>2. outcome \in {"none", "scored", "refused"}
    BY <2>1 DEF Told
  <2>3. Players \subseteq Account \X Role /\ \A s \in Players : scores.players[s].axes \in [Axis -> Result]
    <3>1. CASE ~Scored
      BY <2>1, <3>1, NobodyStored
    <3>2. CASE Scored
      <4>. DEFINE rows == Rows
      <4>1. Faithful(rows) /\ scores = ScoresOf(Corpus(rows))
        BY <2>1, <3>2, StoredIs
      <4>. HIDE DEF rows
      <4>2. Players = Subjects(rows)
        BY <4>1, PlayersThere DEF Players
      <4>3. Players \subseteq Account \X Role
        BY <4>1, <4>2, SubjectsAre
      <4>4. ASSUME NEW s \in Subjects(rows) PROVE scores.players[s].axes \in [Axis -> Result]
        <5>1. scores.players[s].axes = AxesThere(rows, s)
          BY <4>1, PlayerIs
        <5>2. QED BY <4>1, <5>1, AxesTyped
      <4>5. QED BY <4>2, <4>3, <4>4
    <3>3. QED BY <3>1, <3>2
  <2>4. QED BY <2>1, <2>2, <2>3 DEF TypeOK, Typed
<1>2. QED BY <1>1, AlwaysTold, AlwaysTyped, PTL

-----------------------------------------------------------------------------
(* Totals of parts.                                                        *)

\* The parts of f: they do not meet, and make up all of it.
PartsOf(q, f) ==
    /\ IsFiniteSet(DOMAIN q)
    /\ \A n \in DOMAIN q : /\ DOMAIN q[n] \in SUBSET DOMAIN f
                           /\ \A k \in DOMAIN q[n] : q[n][k] = f[k]
    /\ \A n, m \in DOMAIN q : n # m => DOMAIN q[n] \cap DOMAIN q[m] = {}
    /\ \A k \in DOMAIN f : \E n \in DOMAIN q : k \in DOMAIN q[n]

AreFractions(f) == IsFiniteSet(DOMAIN f) /\ \A k \in DOMAIN f : f[k] \in Fraction

\* The total of the totals of the parts is the total.
LEMMA TotalOfParts ==
    ASSUME NEW f, AreFractions(f), NEW q, PartsOf(q, f),
           NEW e, DOMAIN e = DOMAIN q, \A n \in DOMAIN q : e[n] = Total(q[n], DOMAIN q[n])
    PROVE  Total(e, DOMAIN e) = Total(f, DOMAIN f)
<1>. DEFINE g == Totals(f)
            h == Totals(e)
            part == [n \in DOMAIN q |-> DOMAIN q[n]]
<1>1. Sums(g, f, FractionPlus, Zero, Fraction)
  BY TotalsIs DEF AreFractions
<1>2. ASSUME NEW n \in DOMAIN q PROVE e[n] = g[part[n]]
  <2>. DEFINE p == q[n]
              a == Totals(p)
  <2>1. DOMAIN p \in SUBSET DOMAIN f /\ \A k \in DOMAIN p : p[k] = f[k]
    BY DEF PartsOf
  <2>2. IsFiniteSet(DOMAIN p) /\ IsFiniteSet(DOMAIN f) /\ \A k \in DOMAIN p : p[k] \in Fraction
    BY <2>1, FS_Subset DEF AreFractions
  <2>3. e[n] = Total(p, DOMAIN p) /\ part[n] = DOMAIN p
    OBVIOUS
  <2>. HIDE DEF p, g, part
  <2>4. Sums(a, p, FractionPlus, Zero, Fraction)
    BY <2>2, TotalsIs
  <2>5. Total(p, DOMAIN p) = a[DOMAIN p]
    BY TotalIs
  <2>. HIDE DEF a
  <2>6. DOMAIN p \in SUBSET (DOMAIN p \cap DOMAIN f) /\ \A k \in DOMAIN p : p[k] = f[k]
    BY <2>1
  <2>7. a[DOMAIN p] = g[DOMAIN p]
    BY <1>1, <2>2, <2>4, <2>6, FractionAdds, SumsAgree
  <2>8. QED BY <2>3, <2>5, <2>7
<1>3. \A n \in DOMAIN part : part[n] \in SUBSET DOMAIN f
  BY DEF PartsOf
<1>4. IsFiniteSet(DOMAIN e) /\ \A n \in DOMAIN e : e[n] \in Fraction
  BY <1>1, <1>2, <1>3 DEF PartsOf, Sums
<1>5. Sums(h, e, FractionPlus, Zero, Fraction)
  BY <1>4, TotalsIs
<1>6. DOMAIN part = DOMAIN q /\ DOMAIN f = UNION {part[n] : n \in DOMAIN part}
  BY <1>3 DEF PartsOf
<1>7. /\ IsFiniteSet(DOMAIN part) /\ IsFiniteSet(DOMAIN f)
      /\ \A n, m \in DOMAIN part : n # m => part[n] \cap part[m] = {}
  BY DEF PartsOf, AreFractions
<1>8. DOMAIN e = DOMAIN part /\ \A n \in DOMAIN part : e[n] = g[part[n]]
  BY <1>2
<1>9. Total(e, DOMAIN e) = h[DOMAIN e] /\ Total(f, DOMAIN f) = g[DOMAIN f]
  BY TotalIs
<1>. HIDE DEF g, h, part
<1>10. h[DOMAIN part] = g[UNION {part[n] : n \in DOMAIN part}]
  BY <1>1, <1>3, <1>5, <1>7, <1>8, FractionAdds, SumsOfParts
<1>11. QED BY <1>6, <1>8, <1>9, <1>10

LEMMA TotalOfZeros ==
    ASSUME NEW r, IsFiniteSet(DOMAIN r), \A k \in DOMAIN r : r[k] \in Fraction /\ r[k][1] = 0
    PROVE  Total(r, DOMAIN r)[1] = 0
<1>. DEFINE t == Total(r, DOMAIN r)
<1>1. \A k \in DOMAIN r : r[k] \in Fraction /\ r[k][1] >= 0 /\ ~Less(Zero, r[k])
  <2>1. SUFFICES ASSUME NEW k \in DOMAIN r PROVE r[k][1] >= 0 /\ ~Less(Zero, r[k])
    OBVIOUS
  <2>2. r[k][1] = 0 /\ r[k][2] \in Int
    BY FractionIs
  <2>3. 0 * r[k][2] = 0 /\ 0 * 1 = 0
    BY <2>2
  <2>4. QED BY <2>2, <2>3 DEF Less, Zero
<1>2. ~Less(Zero, t) /\ t \in Fraction /\ t[1] >= 0
  BY <1>1, TotalAboveZero
<1>. HIDE DEF t
<1>3. t[1] \in Int /\ t[2] \in Int
  BY <1>2, FractionIs
<1>4. ~(0 * t[2] < t[1] * 1)
  BY <1>2 DEF Less, Zero
<1>5. t[1] = 0
  BY <1>2, <1>3, <1>4
<1>6. QED BY <1>5 DEF t

\* What is 0 adds a 0 to the total of the others.
LEMMA TotalOnPart ==
    ASSUME NEW f, AreFractions(f), NEW e, DOMAIN e \in SUBSET DOMAIN f,
           \A k \in DOMAIN e : e[k] = f[k], \A k \in DOMAIN f \ DOMAIN e : f[k][1] = 0
    PROVE  \E z \in Fraction : z[1] = 0 /\ Total(f, DOMAIN f) = Plus(Total(e, DOMAIN e), z)
<1>. DEFINE g == Totals(f)
            h == Totals(e)
            B == DOMAIN f \ DOMAIN e
            r == [k \in B |-> f[k]]
            a == Totals(r)
<1>1. Sums(g, f, FractionPlus, Zero, Fraction)
  BY TotalsIs DEF AreFractions
<1>2. IsFiniteSet(DOMAIN f) /\ IsFiniteSet(DOMAIN e) /\ IsFiniteSet(DOMAIN r)
  BY FS_Subset DEF AreFractions
<1>3. \A k \in DOMAIN e : e[k] \in Fraction
  BY DEF AreFractions
<1>4. \A k \in DOMAIN r : r[k] \in Fraction /\ r[k][1] = 0
  BY DEF AreFractions
<1>5. Sums(h, e, FractionPlus, Zero, Fraction)
  BY <1>2, <1>3, TotalsIs
<1>6. DOMAIN r = B /\ \A k \in B : r[k] = f[k]
  OBVIOUS
<1>. HIDE DEF g, h, r
<1>7. Sums(a, r, FractionPlus, Zero, Fraction)
  BY <1>2, <1>4, TotalsIs
<1>8. Total(f, DOMAIN f) = g[DOMAIN f] /\ Total(e, DOMAIN e) = h[DOMAIN e] /\ Total(r, DOMAIN r) = a[DOMAIN r]
  BY TotalIs DEF g, h
<1>. HIDE DEF a
<1>9. h[DOMAIN e] = g[DOMAIN e]
  <2>1. DOMAIN e \in SUBSET (DOMAIN e \cap DOMAIN f)
    OBVIOUS
  <2>2. QED BY <1>1, <1>2, <1>5, <2>1, FractionAdds, SumsAgree
<1>10. a[B] = g[B]
  <2>1. B \in SUBSET (DOMAIN r \cap DOMAIN f) /\ \A k \in B : r[k] = f[k]
    BY <1>6
  <2>2. QED BY <1>1, <1>2, <1>7, <2>1, FractionAdds, SumsAgree
<1>11. g[DOMAIN f] = FractionPlus[g[DOMAIN e]][g[B]]
  <2>1. DOMAIN e \in SUBSET DOMAIN f /\ B \in SUBSET DOMAIN f /\ DOMAIN e \cap B = {}
        /\ DOMAIN e \cup B = DOMAIN f
    OBVIOUS
  <2>. HIDE DEF B
  <2>2. g[DOMAIN e \cup B] = FractionPlus[g[DOMAIN e]][g[B]]
    BY <1>1, <1>2, <2>1, FractionAdds, SumsApart
  <2>3. QED BY <2>1, <2>2
<1>12. g[B] \in Fraction /\ g[DOMAIN e] \in Fraction
  BY <1>1 DEF Sums
<1>13. g[B][1] = 0
  <2>1. Total(r, DOMAIN r) = g[B]
    BY <1>6, <1>8, <1>10
  <2>2. QED BY <1>2, <1>4, <2>1, TotalOfZeros
<1>14. FractionPlus[g[DOMAIN e]][g[B]] = Plus(g[DOMAIN e], g[B])
  BY <1>12 DEF FractionPlus
<1>15. QED BY <1>8, <1>9, <1>11, <1>12, <1>13, <1>14

-----------------------------------------------------------------------------
(* What is the same of two fractions.                                      *)

LEMMA NotLessIsTransitive ==
    ASSUME NEW x \in Fraction, NEW y \in Fraction, NEW z \in Fraction, ~Less(x, y), ~Less(y, z)
    PROVE  ~Less(x, z)
<1>1. /\ x[1] \in Int /\ x[2] \in Nat /\ x[2] > 0
      /\ y[1] \in Int /\ y[2] \in Nat /\ y[2] > 0
      /\ z[1] \in Int /\ z[2] \in Nat /\ z[2] > 0
  BY FractionIs
<1>2. x[1] * y[2] \in Int /\ y[1] * x[2] \in Int /\ y[1] * z[2] \in Int /\ z[1] * y[2] \in Int
      /\ x[1] * z[2] \in Int /\ z[1] * x[2] \in Int
  BY <1>1
<1>3. ~(x[1] * y[2] < y[1] * x[2]) /\ ~(y[1] * z[2] < z[1] * y[2])
  BY DEF Less
<1>4. ~((x[1] * y[2]) * z[2] < (y[1] * x[2]) * z[2])
  BY <1>1, <1>2, <1>3, ScaleOrder
<1>5. ~((y[1] * z[2]) * x[2] < (z[1] * y[2]) * x[2])
  BY <1>1, <1>2, <1>3, ScaleOrder
<1>6. \A a, b, c \in Int : (a * b) * c = (a * c) * b /\ (a * b) * c \in Int
  OBVIOUS
<1>7. ~((x[1] * z[2]) * y[2] < (z[1] * x[2]) * y[2])
  <2>1. (x[1] * y[2]) * z[2] = (x[1] * z[2]) * y[2] /\ (x[1] * y[2]) * z[2] \in Int
    BY <1>1, <1>6
  <2>2. (y[1] * x[2]) * z[2] = (y[1] * z[2]) * x[2] /\ (y[1] * x[2]) * z[2] \in Int
    BY <1>1, <1>6
  <2>3. (z[1] * y[2]) * x[2] = (z[1] * x[2]) * y[2] /\ (z[1] * y[2]) * x[2] \in Int
    BY <1>1, <1>6
  <2>4. QED BY <1>4, <1>5, <2>1, <2>2, <2>3
<1>8. ~(x[1] * z[2] < z[1] * x[2])
  BY <1>1, <1>2, <1>7, ScaleOrder
<1>9. QED BY <1>8 DEF Less

LEMMA Squeezed ==
    ASSUME NEW x \in Fraction, NEW y \in Fraction, ~Less(x, y), ~Less(y, x)
    PROVE  Same(x, y)
<1>1. x[1] * y[2] \in Int /\ y[1] * x[2] \in Int
  BY FractionIs
<1>2. QED BY <1>1 DEF Less, Same

\* A quotient of two totals, to each of which a 0 was added.
LEMMA OverAlike ==
    ASSUME NEW n \in Fraction, NEW d \in Fraction, NEW z \in Fraction, NEW y \in Fraction,
           z[1] = 0, y[1] = 0
    PROVE  Same(Over(n, d), Over(Plus(n, z), Plus(d, y)))
<1>1. /\ n[1] \in Int /\ n[2] \in Int /\ d[1] \in Int /\ d[2] \in Int
      /\ z[2] \in Int /\ y[2] \in Int
  BY FractionIs
<1>2. Plus(n, z)[1] = n[1] * z[2] + 0 * n[2] /\ Plus(n, z)[2] = n[2] * z[2]
      /\ Plus(d, y)[1] = d[1] * y[2] + 0 * d[2] /\ Plus(d, y)[2] = d[2] * y[2]
  BY DEF Plus
<1>3. \A a, b \in Int : a * b + 0 * a = a * b
  OBVIOUS
<1>4. Plus(n, z)[1] = n[1] * z[2] /\ Plus(d, y)[1] = d[1] * y[2]
  <2>1. 0 * n[2] = 0 /\ 0 * d[2] = 0 /\ n[1] * z[2] \in Int /\ d[1] * y[2] \in Int
    BY <1>1
  <2>2. QED BY <1>2, <2>1
<1>5. /\ Over(n, d)[1] = n[1] * d[2] /\ Over(n, d)[2] = n[2] * d[1]
      /\ Over(Plus(n, z), Plus(d, y))[1] = (n[1] * z[2]) * (d[2] * y[2])
      /\ Over(Plus(n, z), Plus(d, y))[2] = (n[2] * z[2]) * (d[1] * y[2])
  BY <1>2, <1>4 DEF Over
<1>6. \A a, b, c, e, u, v \in Int :
         (a * e) * ((b * u) * (c * v)) = ((a * u) * (e * v)) * (b * c)
  OBVIOUS
<1>7. (n[1] * d[2]) * ((n[2] * z[2]) * (d[1] * y[2]))
         = ((n[1] * z[2]) * (d[2] * y[2])) * (n[2] * d[1])
  BY <1>1, <1>6
<1>8. QED BY <1>5, <1>7 DEF Same

-----------------------------------------------------------------------------
(* What an aggregate says.                                                 *)

\* A greatest of the values of o.
IsGreatest(v, o) ==
    (\E k \in DOMAIN o : v = o[k].value) /\ \A j \in DOMAIN o : ~Less(v, o[j].value)

LEMMA SomeThere ==
    ASSUME NEW m, NEW o, AreObservations(o)
    PROVE  Aggregable(m, o) <=> /\ DOMAIN o # {}
                                /\ Rule[m] = "rate" => Less(Zero, SumGiven(o, "den"))
<1>1. o # <<>> <=> DOMAIN o # {}
  <2>1. o = [k \in DOMAIN o |-> o[k]]
    BY DEF AreObservations
  <2>2. DOMAIN o = {} => [k \in DOMAIN o |-> o[k]] = <<>>
    OBVIOUS
  <2>3. DOMAIN <<>> = {}
    OBVIOUS
  <2>4. QED BY <2>1, <2>2, <2>3
<1>2. QED BY <1>1 DEF Aggregable

LEMMA AggregateSays ==
    ASSUME NEW m \in Metric, NEW o, AreObservations(o), Aggregable(m, o)
    PROVE  LET a == Aggregate(m, o)
           IN  /\ a.value \in Fraction /\ a.num \in Fraction
               /\ a.den \in Fraction /\ a.den[1] >= 0
               /\ Rule[m] \in {"rate", "percentile"} =>
                     a.num = SumGiven(o, "num") /\ a.den = SumGiven(o, "den")
               /\ Rule[m] = "rate" \/ (Rule[m] = "percentile" /\ Less(Zero, SumGiven(o, "den"))) =>
                     a.value = Over(SumGiven(o, "num"), SumGiven(o, "den"))
               /\ Rule[m] \in {"seconds", "sum"} => a.value = SumValue(o)
               /\ Rule[m] = "max" => IsGreatest(a.value, o)
<1>. DEFINE num == SumGiven(o, "num")
            den == SumGiven(o, "den")
            sum == SumValue(o)
            greatest == CHOOSE k \in DOMAIN o : \A j \in DOMAIN o : ~Less(o[k].value, o[j].value)
            rule == Rule[m]
            a == Aggregate(m, o)
<1>1. /\ sum \in Fraction /\ num \in Fraction /\ den \in Fraction /\ den[1] >= 0
  BY PartsAre
<1>2. DOMAIN o # {}
  BY SomeThere
<1>3. greatest \in DOMAIN o /\ \A j \in DOMAIN o : ~Less(o[greatest].value, o[j].value)
  <2>. DEFINE f == [k \in DOMAIN o |-> o[k].value]
  <2>1. \A k \in DOMAIN f : f[k] \in Fraction
    BY DEF AreObservations, IsObservation
  <2>2. IsFiniteSet(DOMAIN f) /\ DOMAIN f # {} /\ DOMAIN f = DOMAIN o
    BY <1>2 DEF AreObservations
  <2>3. \A k \in DOMAIN o : f[k] = o[k].value
    OBVIOUS
  <2>. HIDE DEF f
  <2>4. \E k \in DOMAIN f : \A j \in DOMAIN f : ~Less(f[k], f[j])
    BY <2>1, <2>2, GreatestThere
  <2>5. \E k \in DOMAIN o : \A j \in DOMAIN o : ~Less(o[k].value, o[j].value)
    BY <2>2, <2>3, <2>4
  <2>6. QED BY <2>5
<1>4. o[greatest].value \in Fraction
  BY <1>3 DEF AreObservations, IsObservation
<1>5. a.value = CASE rule = "rate" \/ (rule = "percentile" /\ Less(Zero, den)) -> Over(num, den)
                  [] rule = "percentile" /\ ~Less(Zero, den) -> Over(sum, <<Cardinality(DOMAIN o), 1>>)
                  [] rule = "max" -> o[greatest].value
                  [] rule \in {"seconds", "sum"} -> sum
  BY DEF Aggregate
<1>6. /\ a.num = CASE rule \in {"rate", "percentile"} -> num
                   [] rule = "max" -> o[greatest].value
                   [] rule = "seconds" -> sum
                   [] rule = "sum" -> IF Given(o, "num") # {} THEN num ELSE sum
      /\ a.den = IF rule \in {"max", "sum"} THEN Zero ELSE den
  BY DEF Aggregate
<1>7. rule \in {"rate", "percentile", "max", "seconds", "sum"}
  BY FamiliesAre
<1>8. a.value \in Fraction
  BY AggregateIs
<1>9. Zero \in Fraction /\ Zero[1] >= 0
  BY DEF Zero, Fraction
<1>. HIDE DEF num, den, sum, greatest, a, rule
<1>10. a.num \in Fraction /\ a.den \in Fraction /\ a.den[1] >= 0
  BY <1>1, <1>4, <1>6, <1>7, <1>9
<1>11. rule \in {"rate", "percentile"} => a.num = num /\ a.den = den
  BY <1>6
<1>12. rule = "rate" \/ (rule = "percentile" /\ Less(Zero, den)) => a.value = Over(num, den)
  BY <1>5
<1>13. rule \in {"seconds", "sum"} => a.value = sum
  BY <1>5
<1>14. rule = "max" => IsGreatest(a.value, o)
  <2>1. rule = "max" => a.value = o[greatest].value
    BY <1>5
  <2>2. QED BY <1>3, <2>1 DEF IsGreatest
<1>15. QED BY <1>8, <1>10, <1>11, <1>12, <1>13, <1>14 DEF a, rule, num, den, sum


-----------------------------------------------------------------------------
(* The pool of the pools of the parts.                                     *)

\* Observations, apart in some parts.
Apart(p, o) ==
    /\ AreObservations(o) /\ PartsOf(p, o) /\ \A n \in DOMAIN p : AreObservations(p[n])

\* What is summed of them.
GivenOf(o, part) == [k \in Given(o, part) |-> o[k][part][1]]
ValuesOf(o) == [k \in DOMAIN o |-> o[k].value]

LEMMA GivenAre ==
    ASSUME NEW o, AreObservations(o), NEW part \in {"num", "den"}
    PROVE  /\ AreFractions(GivenOf(o, part)) /\ DOMAIN GivenOf(o, part) = Given(o, part)
           /\ Given(o, part) \in SUBSET DOMAIN o
           /\ SumGiven(o, part) = Total(GivenOf(o, part), DOMAIN GivenOf(o, part))
           /\ SumGiven(o, part) \in Fraction
<1>1. DOMAIN GivenOf(o, part) = Given(o, part) /\ Given(o, part) \in SUBSET DOMAIN o
  BY DEF GivenOf, Given
<1>2. IsFiniteSet(Given(o, part))
  BY <1>1, FS_Subset DEF AreObservations
<1>3. \A k \in Given(o, part) : GivenOf(o, part)[k] \in Fraction
  <2>1. CASE part = "num"
    BY <2>1 DEF AreObservations, IsObservation, Given, GivenOf
  <2>2. CASE part = "den"
    BY <2>2 DEF AreObservations, IsObservation, Given, GivenOf
  <2>3. QED BY <2>1, <2>2
<1>4. SumGiven(o, part) = Total(GivenOf(o, part), Given(o, part))
  BY DEF SumGiven, GivenOf
<1>5. SumGiven(o, part) \in Fraction
  BY PartsAre
<1>6. QED BY <1>1, <1>2, <1>3, <1>4, <1>5 DEF AreFractions

LEMMA ValuesAre ==
    ASSUME NEW o, AreObservations(o)
    PROVE  /\ AreFractions(ValuesOf(o)) /\ DOMAIN ValuesOf(o) = DOMAIN o
           /\ SumValue(o) = Total(ValuesOf(o), DOMAIN ValuesOf(o))
<1>1. SumValue(o) = Total(ValuesOf(o), DOMAIN o) /\ DOMAIN ValuesOf(o) = DOMAIN o
  BY DEF SumValue, ValuesOf
<1>2. AreFractions(ValuesOf(o))
  BY DEF AreFractions, ValuesOf, AreObservations, IsObservation
<1>3. QED BY <1>1, <1>2

LEMMA GivenApart ==
    ASSUME NEW p, NEW o, Apart(p, o), NEW part \in {"num", "den"},
           NEW e, DOMAIN e = DOMAIN p, \A n \in DOMAIN p : e[n] = SumGiven(p[n], part)
    PROVE  Total(e, DOMAIN e) = SumGiven(o, part)
<1>. DEFINE f == GivenOf(o, part)
            q == [n \in DOMAIN p |-> GivenOf(p[n], part)]
<1>1. AreFractions(f) /\ DOMAIN f = Given(o, part) /\ SumGiven(o, part) = Total(f, DOMAIN f)
  BY GivenAre DEF Apart
<1>2. ASSUME NEW n \in DOMAIN p
      PROVE  /\ DOMAIN q[n] = Given(p[n], part) /\ Given(p[n], part) \in SUBSET DOMAIN p[n]
             /\ e[n] = Total(q[n], DOMAIN q[n])
  <2>1. q[n] = GivenOf(p[n], part) /\ AreObservations(p[n])
    BY DEF Apart
  <2>2. QED BY <2>1, GivenAre
<1>3. PartsOf(q, f)
  <2>1. IsFiniteSet(DOMAIN q) /\ DOMAIN q = DOMAIN p
    BY DEF Apart, PartsOf
  <2>2. ASSUME NEW n \in DOMAIN p
        PROVE  /\ DOMAIN q[n] \in SUBSET DOMAIN f
               /\ \A k \in DOMAIN q[n] : q[n][k] = f[k]
    <3>1. DOMAIN p[n] \in SUBSET DOMAIN o /\ \A k \in DOMAIN p[n] : p[n][k] = o[k]
      BY DEF Apart, PartsOf
    <3>2. \A k \in Given(p[n], part) : k \in DOMAIN p[n] /\ p[n][k][part] # <<>>
      BY DEF Given
    <3>3. \A k \in Given(p[n], part) : k \in Given(o, part)
      BY <3>1, <3>2 DEF Given
    <3>4. \A k \in Given(p[n], part) : GivenOf(p[n], part)[k] = GivenOf(o, part)[k]
      BY <3>1, <3>2, <3>3 DEF GivenOf
    <3>5. q[n] = GivenOf(p[n], part)
      OBVIOUS
    <3>6. QED BY <1>1, <1>2, <3>3, <3>4, <3>5
  <2>3. \A n, m \in DOMAIN p : n # m => DOMAIN q[n] \cap DOMAIN q[m] = {}
    <3>1. \A n, m \in DOMAIN p : n # m => DOMAIN p[n] \cap DOMAIN p[m] = {}
      BY DEF Apart, PartsOf
    <3>. HIDE DEF q
    <3>2. \A n \in DOMAIN p : DOMAIN q[n] \subseteq DOMAIN p[n]
      BY <1>2
    <3>3. QED BY <3>1, <3>2
  <2>4. ASSUME NEW k \in DOMAIN f PROVE \E n \in DOMAIN q : k \in DOMAIN q[n]
    <3>1. k \in DOMAIN o /\ o[k][part] # <<>>
      BY <1>1 DEF Given
    <3>2. PICK n \in DOMAIN p : k \in DOMAIN p[n]
      BY <3>1 DEF Apart, PartsOf
    <3>3. p[n][k] = o[k]
      BY <3>2 DEF Apart, PartsOf
    <3>4. k \in Given(p[n], part)
      BY <3>1, <3>2, <3>3 DEF Given
    <3>5. QED BY <1>2, <2>1, <3>2, <3>4
  <2>. HIDE DEF q, f
  <2>5. QED BY <2>1, <2>2, <2>3, <2>4 DEF PartsOf
<1>4. DOMAIN e = DOMAIN q /\ \A n \in DOMAIN q : e[n] = Total(q[n], DOMAIN q[n])
  BY <1>2
<1>. HIDE DEF f, q
<1>5. QED BY <1>1, <1>3, <1>4, TotalOfParts

LEMMA ValuesApart ==
    ASSUME NEW p, NEW o, Apart(p, o),
           NEW e, DOMAIN e = DOMAIN p, \A n \in DOMAIN p : e[n] = SumValue(p[n])
    PROVE  Total(e, DOMAIN e) = SumValue(o)
<1>. DEFINE f == ValuesOf(o)
            q == [n \in DOMAIN p |-> ValuesOf(p[n])]
<1>1. AreFractions(f) /\ DOMAIN f = DOMAIN o /\ SumValue(o) = Total(f, DOMAIN f)
  BY ValuesAre DEF Apart
<1>2. ASSUME NEW n \in DOMAIN p
      PROVE  DOMAIN q[n] = DOMAIN p[n] /\ e[n] = Total(q[n], DOMAIN q[n])
  <2>1. q[n] = ValuesOf(p[n]) /\ AreObservations(p[n])
    BY DEF Apart
  <2>2. QED BY <2>1, ValuesAre
<1>3. PartsOf(q, f)
  <2>1. IsFiniteSet(DOMAIN q) /\ DOMAIN q = DOMAIN p
    BY DEF Apart, PartsOf
  <2>2. ASSUME NEW n \in DOMAIN p
        PROVE  /\ DOMAIN q[n] \in SUBSET DOMAIN f
               /\ \A k \in DOMAIN q[n] : q[n][k] = f[k]
    <3>1. DOMAIN p[n] \in SUBSET DOMAIN o /\ \A k \in DOMAIN p[n] : p[n][k] = o[k]
      BY DEF Apart, PartsOf
    <3>2. \A k \in DOMAIN p[n] : ValuesOf(p[n])[k] = ValuesOf(o)[k]
      BY <3>1 DEF ValuesOf
    <3>3. q[n] = ValuesOf(p[n])
      OBVIOUS
    <3>4. QED BY <1>1, <1>2, <3>1, <3>2, <3>3
  <2>3. \A n, m \in DOMAIN p : n # m => DOMAIN q[n] \cap DOMAIN q[m] = {}
    <3>1. \A n, m \in DOMAIN p : n # m => DOMAIN p[n] \cap DOMAIN p[m] = {}
      BY DEF Apart, PartsOf
    <3>. HIDE DEF q
    <3>2. QED BY <1>2, <3>1
  <2>4. ASSUME NEW k \in DOMAIN f PROVE \E n \in DOMAIN q : k \in DOMAIN q[n]
    <3>1. PICK n \in DOMAIN p : k \in DOMAIN p[n]
      BY <1>1 DEF Apart, PartsOf
    <3>2. QED BY <1>2, <2>1, <3>1
  <2>. HIDE DEF q, f
  <2>5. QED BY <2>1, <2>2, <2>3, <2>4 DEF PartsOf
<1>4. DOMAIN e = DOMAIN q /\ \A n \in DOMAIN q : e[n] = Total(q[n], DOMAIN q[n])
  BY <1>2
<1>. HIDE DEF f, q
<1>5. QED BY <1>1, <1>3, <1>4, TotalOfParts


\* A rate can be told when one of its denominators is above 0.
LEMMA RateThere ==
    ASSUME NEW m, Rule[m] = "rate", NEW o, AreObservations(o)
    PROVE  /\ Aggregable(m, o) <=> \E k \in Given(o, "den") : Less(Zero, o[k].den[1])
           /\ Aggregable(m, o) <=> Less(Zero, SumGiven(o, "den"))
<1>. DEFINE f == GivenOf(o, "den")
<1>1. /\ AreFractions(f) /\ DOMAIN f = Given(o, "den") /\ Given(o, "den") \in SUBSET DOMAIN o
      /\ SumGiven(o, "den") = Total(f, DOMAIN f)
  BY GivenAre
<1>2. \A k \in Given(o, "den") : f[k] = o[k].den[1] /\ f[k][1] >= 0
  BY <1>1 DEF GivenOf, Given, AreObservations, IsObservation
<1>. HIDE DEF f
<1>3. Less(Zero, SumGiven(o, "den")) <=> \E k \in DOMAIN f : Less(Zero, f[k])
  <2>1. IsFiniteSet(DOMAIN f) /\ \A k \in DOMAIN f : f[k] \in Fraction /\ f[k][1] >= 0
    BY <1>1, <1>2 DEF AreFractions
  <2>2. QED BY <1>1, <2>1, TotalAboveZero
<1>4. Less(Zero, SumGiven(o, "den")) <=> \E k \in Given(o, "den") : Less(Zero, o[k].den[1])
  BY <1>1, <1>2, <1>3
<1>5. Aggregable(m, o) <=> DOMAIN o # {} /\ Less(Zero, SumGiven(o, "den"))
  BY SomeThere
<1>6. QED BY <1>1, <1>4, <1>5

\* What was nowhere a chance adds up to nothing.
LEMMA NothingThere ==
    ASSUME NEW m, Rule[m] = "rate", NEW o, AreObservations(o), ~Aggregable(m, o),
           \A k \in DOMAIN o : HasChance(m, o[k]), NEW part \in {"num", "den"}
    PROVE  SumGiven(o, part)[1] = 0
<1>. DEFINE f == GivenOf(o, part)
<1>1. /\ AreFractions(f) /\ DOMAIN f = Given(o, part) /\ Given(o, part) \in SUBSET DOMAIN o
      /\ SumGiven(o, part) = Total(f, DOMAIN f)
  BY GivenAre
<1>2. ASSUME NEW k \in DOMAIN o, o[k].den # <<>> PROVE ~Less(Zero, o[k].den[1]) /\ o[k].den[1][1] = 0
  <2>1. k \in Given(o, "den")
    BY <1>2 DEF Given
  <2>2. ~Less(Zero, o[k].den[1])
    BY <2>1, RateThere
  <2>3. o[k].den[1] \in Fraction /\ o[k].den[1][1] >= 0
    BY <1>2 DEF AreObservations, IsObservation
  <2>. DEFINE d == o[k].den[1]
  <2>. HIDE DEF d
  <2>4. d \in Fraction /\ d[1] >= 0 /\ ~(0 * d[2] < d[1] * 1)
    BY <2>2, <2>3 DEF d, Less, Zero
  <2>5. d[1] \in Int /\ d[2] \in Int
    BY <2>4, FractionIs
  <2>6. d[1] = 0
    BY <2>4, <2>5
  <2>7. QED BY <2>2, <2>6 DEF d
<1>3. ASSUME NEW k \in Given(o, part) PROVE f[k][1] = 0
  <2>1. k \in DOMAIN o /\ o[k][part] # <<>> /\ f[k] = o[k][part][1]
    BY DEF Given, GivenOf
  <2>2. CASE part = "den"
    BY <1>2, <2>1, <2>2
  <2>3. CASE part = "num"
    <3>1. HasChance(m, o[k]) /\ o[k].num # <<>> /\ f[k] = o[k].num[1]
      BY <2>1, <2>3
    <3>2. o[k].num[1][1] # 0 => o[k].den # <<>> /\ Less(Zero, o[k].den[1])
      BY <3>1 DEF HasChance
    <3>3. QED BY <1>2, <2>1, <3>1, <3>2
  <2>4. QED BY <2>2, <2>3
<1>. HIDE DEF f
<1>4. IsFiniteSet(DOMAIN f) /\ \A k \in DOMAIN f : f[k] \in Fraction /\ f[k][1] = 0
  BY <1>1, <1>3 DEF AreFractions
<1>5. QED BY <1>1, <1>4, TotalOfZeros

\* E holds the aggregate of each of the parts that have one.
Poolable(m, p) == {n \in DOMAIN p : Aggregable(m, p[n])}
Pooled(E, m, p) ==
    /\ E = [n \in DOMAIN E |-> E[n]] /\ DOMAIN E = Poolable(m, p)
    /\ \A n \in DOMAIN E : LET a == Aggregate(m, p[n])
                           IN  E[n].value = a.value /\ E[n].num = <<a.num>> /\ E[n].den = <<a.den>>

LEMMA PooledAre ==
    ASSUME NEW m \in Metric, NEW p, NEW o, Apart(p, o), NEW E, Pooled(E, m, p)
    PROVE  /\ AreObservations(E) /\ Given(E, "num") = DOMAIN E /\ Given(E, "den") = DOMAIN E
           /\ DOMAIN E \subseteq DOMAIN p
           /\ \A n \in DOMAIN E : AreObservations(p[n]) /\ Aggregable(m, p[n])
<1>1. DOMAIN E \subseteq DOMAIN p /\ \A n \in DOMAIN E : AreObservations(p[n]) /\ Aggregable(m, p[n])
  BY DEF Pooled, Poolable, Apart
<1>2. IsFiniteSet(DOMAIN E)
  BY <1>1, FS_Subset DEF Apart, PartsOf
<1>3. ASSUME NEW n \in DOMAIN E
      PROVE  IsObservation(E[n]) /\ E[n]["num"] # <<>> /\ E[n]["den"] # <<>>
  <2>. DEFINE a == Aggregate(m, p[n])
  <2>1. a.value \in Fraction /\ a.num \in Fraction /\ a.den \in Fraction /\ a.den[1] >= 0
    BY <1>1, AggregateSays
  <2>2. E[n].value = a.value /\ E[n].num = <<a.num>> /\ E[n].den = <<a.den>>
    BY DEF Pooled
  <2>. HIDE DEF a
  <2>3. \A x : <<x>> # <<>> /\ <<x>>[1] = x
    OBVIOUS
  <2>4. QED BY <2>1, <2>2, <2>3 DEF IsObservation
<1>4. AreObservations(E)
  BY <1>2, <1>3 DEF AreObservations, Pooled
<1>5. Given(E, "num") = DOMAIN E /\ Given(E, "den") = DOMAIN E
  BY <1>3 DEF Given
<1>6. QED BY <1>1, <1>4, <1>5

\* Unless it is a rate, the parts without an aggregate are empty.
LEMMA PoolableApart ==
    ASSUME NEW m \in Metric, Rule[m] # "rate", NEW p, NEW o, Apart(p, o)
    PROVE  Apart([n \in Poolable(m, p) |-> p[n]], o)
<1>. DEFINE q == [n \in Poolable(m, p) |-> p[n]]
<1>1. DOMAIN q = Poolable(m, p) /\ Poolable(m, p) \subseteq DOMAIN p /\ \A n \in DOMAIN q : q[n] = p[n]
  BY DEF Poolable
<1>2. IsFiniteSet(DOMAIN q)
  BY <1>1, FS_Subset DEF Apart, PartsOf
<1>3. \A k \in DOMAIN o : \E n \in DOMAIN q : k \in DOMAIN q[n]
  <2>1. SUFFICES ASSUME NEW k \in DOMAIN o PROVE \E n \in DOMAIN q : k \in DOMAIN q[n]
    OBVIOUS
  <2>2. PICK n \in DOMAIN p : k \in DOMAIN p[n]
    BY DEF Apart, PartsOf
  <2>3. AreObservations(p[n]) /\ DOMAIN p[n] # {}
    BY <2>2 DEF Apart
  <2>4. Aggregable(m, p[n])
    BY <2>3, SomeThere
  <2>5. n \in Poolable(m, p)
    BY <2>4 DEF Poolable
  <2>6. QED BY <1>1, <2>2, <2>5
<1>. HIDE DEF q
<1>4. PartsOf(q, o)
  BY <1>1, <1>2, <1>3 DEF Apart, PartsOf
<1>5. Apart(q, o)
  BY <1>1, <1>4 DEF Apart
<1>6. QED BY <1>5 DEF q


LEMMA PoolsTold ==
    ASSUME NEW m \in Metric, NEW p, NEW o, Apart(p, o), NEW E, Pooled(E, m, p)
    PROVE  Aggregable(m, E) <=> Aggregable(m, o)
<1>1. /\ AreObservations(E) /\ Given(E, "den") = DOMAIN E
      /\ \A n \in DOMAIN E : AreObservations(p[n]) /\ Aggregable(m, p[n])
  BY PooledAre
<1>2. AreObservations(o)
  BY DEF Apart
<1>3. DOMAIN E # {} <=> \E n \in DOMAIN p : Aggregable(m, p[n])
  BY DEF Pooled, Poolable
<1>4. \A n \in DOMAIN p : /\ DOMAIN p[n] \in SUBSET DOMAIN o /\ AreObservations(p[n])
                          /\ \A k \in DOMAIN p[n] : p[n][k] = o[k]
  BY DEF Apart, PartsOf
<1>5. \A k \in DOMAIN o : \E n \in DOMAIN p : k \in DOMAIN p[n]
  BY DEF Apart, PartsOf
<1>6. CASE Rule[m] # "rate"
  <2>1. Aggregable(m, E) <=> DOMAIN E # {}
    BY <1>1, <1>6, SomeThere
  <2>2. Aggregable(m, o) <=> DOMAIN o # {}
    BY <1>2, <1>6, SomeThere
  <2>3. \A n \in DOMAIN p : Aggregable(m, p[n]) <=> DOMAIN p[n] # {}
    BY <1>4, <1>6, SomeThere
  <2>4. QED BY <1>3, <1>4, <1>5, <2>1, <2>2, <2>3
<1>7. CASE Rule[m] = "rate"
  <2>1. ASSUME NEW n \in DOMAIN E PROVE Less(Zero, E[n].den[1])
    <3>1. AreObservations(p[n]) /\ Aggregable(m, p[n])
      BY <1>1
    <3>2. Less(Zero, SumGiven(p[n], "den"))
      BY <1>7, <3>1, RateThere
    <3>3. Aggregate(m, p[n]).den = SumGiven(p[n], "den")
      BY <1>7, <3>1, AggregateSays
    <3>4. E[n].den = <<Aggregate(m, p[n]).den>>
      BY DEF Pooled
    <3>. DEFINE d == Aggregate(m, p[n]).den
    <3>. HIDE DEF d
    <3>5. E[n].den[1] = d
      BY <3>4 DEF d
    <3>6. QED BY <3>2, <3>3, <3>5 DEF d
  <2>2. Aggregable(m, E) <=> DOMAIN E # {}
    <3>1. Aggregable(m, E) <=> \E n \in Given(E, "den") : Less(Zero, E[n].den[1])
      BY <1>1, <1>7, RateThere
    <3>2. QED BY <1>1, <2>1, <3>1
  <2>3. Aggregable(m, o) <=> \E k \in Given(o, "den") : Less(Zero, o[k].den[1])
    BY <1>2, <1>7, RateThere
  <2>4. \A n \in DOMAIN p :
           Aggregable(m, p[n]) <=> \E k \in Given(p[n], "den") : Less(Zero, p[n][k].den[1])
    BY <1>4, <1>7, RateThere
  <2>5. \A n \in DOMAIN p : \A k \in Given(p[n], "den") : k \in Given(o, "den") /\ p[n][k] = o[k]
    BY <1>4 DEF Given
  <2>6. \A k \in Given(o, "den") : \E n \in DOMAIN p : k \in Given(p[n], "den") /\ p[n][k] = o[k]
    BY <1>4, <1>5 DEF Given
  <2>7. QED BY <1>3, <2>2, <2>3, <2>4, <2>5, <2>6
<1>8. QED BY <1>6, <1>7

\* The numerators, or the denominators, of the parts.
LEMMA PooledParts ==
    ASSUME NEW m \in Metric, Rule[m] = "percentile", NEW p, NEW o, Apart(p, o),
           NEW E, Pooled(E, m, p), NEW part \in {"num", "den"}
    PROVE  SumGiven(E, part) = SumGiven(o, part)
<1>. DEFINE e == GivenOf(E, part)
            q == [n \in Poolable(m, p) |-> p[n]]
<1>1. /\ AreObservations(E) /\ Given(E, part) = DOMAIN E /\ DOMAIN E = Poolable(m, p)
      /\ \A n \in DOMAIN E : AreObservations(p[n]) /\ Aggregable(m, p[n])
  BY PooledAre DEF Pooled
<1>2. DOMAIN e = DOMAIN E /\ SumGiven(E, part) = Total(e, DOMAIN e)
  BY <1>1, GivenAre
<1>3. Apart(q, o)
  BY PoolableApart
<1>4. ASSUME NEW n \in DOMAIN E PROVE e[n] = SumGiven(p[n], part)
  <2>1. Aggregate(m, p[n]).num = SumGiven(p[n], "num") /\ Aggregate(m, p[n]).den = SumGiven(p[n], "den")
    BY <1>1, AggregateSays
  <2>2. E[n].num = <<Aggregate(m, p[n]).num>> /\ E[n].den = <<Aggregate(m, p[n]).den>>
    BY DEF Pooled
  <2>3. e[n] = E[n][part][1]
    BY <1>1 DEF GivenOf
  <2>. DEFINE a == SumGiven(p[n], "num")
              d == SumGiven(p[n], "den")
  <2>. HIDE DEF a, d
  <2>4. E[n].num = <<a>> /\ E[n].den = <<d>>
    BY <2>1, <2>2 DEF a, d
  <2>. HIDE DEF e
  <2>5. CASE part = "num"
    BY <2>3, <2>4, <2>5 DEF a
  <2>6. CASE part = "den"
    BY <2>3, <2>4, <2>6 DEF d
  <2>7. QED BY <2>5, <2>6
<1>5. DOMAIN e = DOMAIN q /\ \A n \in DOMAIN q : e[n] = SumGiven(q[n], part)
  BY <1>1, <1>2, <1>4
<1>. HIDE DEF e, q
<1>6. QED BY <1>2, <1>3, <1>5, GivenApart

LEMMA PooledRates ==
    ASSUME NEW m \in Metric, Rule[m] = "rate", NEW p, NEW o, Apart(p, o),
           \A k \in DOMAIN o : HasChance(m, o[k]),
           NEW E, Pooled(E, m, p), NEW part \in {"num", "den"}
    PROVE  \E z \in Fraction : z[1] = 0 /\ SumGiven(o, part) = Plus(SumGiven(E, part), z)
<1>. DEFINE e == GivenOf(E, part)
            f == [n \in DOMAIN p |-> SumGiven(p[n], part)]
<1>1. /\ AreObservations(E) /\ Given(E, part) = DOMAIN E /\ DOMAIN E = Poolable(m, p)
      /\ DOMAIN E \subseteq DOMAIN p
      /\ \A n \in DOMAIN E : AreObservations(p[n]) /\ Aggregable(m, p[n])
  BY PooledAre DEF Pooled
<1>2. DOMAIN e = DOMAIN E /\ SumGiven(E, part) = Total(e, DOMAIN e)
  BY <1>1, GivenAre
<1>3. ASSUME NEW n \in DOMAIN E PROVE e[n] = SumGiven(p[n], part)
  <2>1. Aggregate(m, p[n]).num = SumGiven(p[n], "num") /\ Aggregate(m, p[n]).den = SumGiven(p[n], "den")
    BY <1>1, AggregateSays
  <2>2. E[n].num = <<Aggregate(m, p[n]).num>> /\ E[n].den = <<Aggregate(m, p[n]).den>>
    BY DEF Pooled
  <2>3. e[n] = E[n][part][1]
    BY <1>1 DEF GivenOf
  <2>. DEFINE a == SumGiven(p[n], "num")
              d == SumGiven(p[n], "den")
  <2>. HIDE DEF a, d
  <2>4. E[n].num = <<a>> /\ E[n].den = <<d>>
    BY <2>1, <2>2 DEF a, d
  <2>. HIDE DEF e
  <2>5. CASE part = "num"
    BY <2>3, <2>4, <2>5 DEF a
  <2>6. CASE part = "den"
    BY <2>3, <2>4, <2>6 DEF d
  <2>7. QED BY <2>5, <2>6
<1>4. Total(f, DOMAIN f) = SumGiven(o, part)
  <2>1. DOMAIN f = DOMAIN p /\ \A n \in DOMAIN p : f[n] = SumGiven(p[n], part)
    OBVIOUS
  <2>. HIDE DEF f
  <2>2. QED BY <2>1, GivenApart
<1>5. AreFractions(f)
  <2>1. \A n \in DOMAIN p : AreObservations(p[n])
    BY DEF Apart
  <2>2. \A n \in DOMAIN p : SumGiven(p[n], part) \in Fraction
    BY <2>1, GivenAre
  <2>3. IsFiniteSet(DOMAIN f)
    BY DEF Apart, PartsOf
  <2>4. QED BY <2>2, <2>3 DEF AreFractions
<1>6. ASSUME NEW n \in DOMAIN p \ DOMAIN E PROVE f[n][1] = 0
  <2>1. AreObservations(p[n]) /\ ~Aggregable(m, p[n])
    BY <1>1 DEF Apart, Poolable
  <2>2. \A k \in DOMAIN p[n] : HasChance(m, p[n][k])
    BY DEF Apart, PartsOf
  <2>3. SumGiven(p[n], part)[1] = 0
    BY <2>1, <2>2, NothingThere
  <2>4. QED BY <2>3
<1>7. DOMAIN e \in SUBSET DOMAIN f /\ \A k \in DOMAIN e : e[k] = f[k]
  BY <1>1, <1>2, <1>3
<1>8. DOMAIN f = DOMAIN p
  OBVIOUS
<1>. HIDE DEF e, f
<1>9. \A k \in DOMAIN f \ DOMAIN e : f[k][1] = 0
  BY <1>2, <1>6, <1>8
<1>10. \E z \in Fraction : z[1] = 0 /\ Total(f, DOMAIN f) = Plus(Total(e, DOMAIN e), z)
  BY <1>5, <1>7, <1>9, TotalOnPart
<1>11. QED BY <1>2, <1>4, <1>10

\* The value of the pool of the pools.
LEMMA PoolsAgree ==
    ASSUME NEW m \in Metric, NEW p, NEW o, Apart(p, o), Aggregable(m, o),
           \A k \in DOMAIN o : HasChance(m, o[k]),
           Rule[m] = "percentile" => \A k \in DOMAIN o : o[k].den # <<>>,
           NEW E, Pooled(E, m, p)
    PROVE  Same(Aggregate(m, E).value, Aggregate(m, o).value)
<1>. DEFINE v == Aggregate(m, E).value
            w == Aggregate(m, o).value
<1>1. AreObservations(E) /\ AreObservations(o) /\ Aggregable(m, E)
  BY PooledAre, PoolsTold DEF Apart
<1>2. v \in Fraction /\ w \in Fraction
  BY <1>1, AggregateSays
<1>3. CASE Rule[m] = "rate"
  <2>1. v = Over(SumGiven(E, "num"), SumGiven(E, "den"))
        /\ w = Over(SumGiven(o, "num"), SumGiven(o, "den"))
    BY <1>1, <1>3, AggregateSays
  <2>2. PICK z \in Fraction : z[1] = 0 /\ SumGiven(o, "num") = Plus(SumGiven(E, "num"), z)
    BY <1>3, PooledRates
  <2>3. PICK y \in Fraction : y[1] = 0 /\ SumGiven(o, "den") = Plus(SumGiven(E, "den"), y)
    BY <1>3, PooledRates
  <2>4. SumGiven(E, "num") \in Fraction /\ SumGiven(E, "den") \in Fraction
    BY <1>1, PartsAre
  <2>. HIDE DEF v, w
  <2>5. QED BY <2>1, <2>2, <2>3, <2>4, OverAlike DEF v, w
<1>4. CASE Rule[m] = "percentile"
  <2>1. SumGiven(E, "num") = SumGiven(o, "num") /\ SumGiven(E, "den") = SumGiven(o, "den")
    BY <1>4, PooledParts
  <2>2. Less(Zero, SumGiven(o, "den"))
    <3>1. /\ AreFractions(GivenOf(o, "den")) /\ DOMAIN GivenOf(o, "den") = Given(o, "den")
          /\ SumGiven(o, "den") = Total(GivenOf(o, "den"), DOMAIN GivenOf(o, "den"))
      BY <1>1, GivenAre
    <3>2. PICK k \in DOMAIN o : TRUE
      BY <1>1, SomeThere
    <3>3. \A j \in DOMAIN o : j \in Given(o, "den") /\ Less(Zero, o[j].den[1])
      BY <1>4 DEF Given, HasChance
    <3>4. \A j \in Given(o, "den") : GivenOf(o, "den")[j] = o[j].den[1] /\ o[j].den[1][1] >= 0
      BY <1>1 DEF Given, GivenOf, AreObservations, IsObservation
    <3>. DEFINE f == GivenOf(o, "den")
    <3>. HIDE DEF f
    <3>5. IsFiniteSet(DOMAIN f) /\ \A j \in DOMAIN f : f[j] \in Fraction /\ f[j][1] >= 0
      BY <3>1, <3>4 DEF f, AreFractions
    <3>6. k \in DOMAIN f /\ Less(Zero, f[k])
      BY <3>1, <3>2, <3>3, <3>4 DEF f
    <3>7. QED BY <3>1, <3>5, <3>6, TotalAboveZero DEF f
  <2>3. v = Over(SumGiven(E, "num"), SumGiven(E, "den"))
        /\ w = Over(SumGiven(o, "num"), SumGiven(o, "den"))
    BY <1>1, <1>4, <2>1, <2>2, AggregateSays
  <2>4. v = w
    BY <2>1, <2>3
  <2>. HIDE DEF v, w
  <2>5. Same(v, w)
    BY <2>4 DEF Same
  <2>6. QED BY <2>5 DEF v, w
<1>5. CASE Rule[m] \in {"seconds", "sum"}
  <2>. DEFINE q == [n \in Poolable(m, p) |-> p[n]]
              e == ValuesOf(E)
  <2>1. v = SumValue(E) /\ w = SumValue(o)
    BY <1>1, <1>5, AggregateSays
  <2>2. Apart(q, o)
    BY <1>5, PoolableApart
  <2>3. DOMAIN e = DOMAIN E /\ SumValue(E) = Total(e, DOMAIN e) /\ DOMAIN E = Poolable(m, p)
    BY <1>1, ValuesAre DEF Pooled
  <2>4. ASSUME NEW n \in DOMAIN E PROVE e[n] = SumValue(p[n])
    <3>1. AreObservations(p[n]) /\ Aggregable(m, p[n])
      BY PooledAre
    <3>2. Aggregate(m, p[n]).value = SumValue(p[n])
      BY <1>5, <3>1, AggregateSays
    <3>3. E[n].value = Aggregate(m, p[n]).value
      BY DEF Pooled
    <3>4. QED BY <3>2, <3>3 DEF ValuesOf
  <2>5. DOMAIN e = DOMAIN q /\ \A n \in DOMAIN q : e[n] = SumValue(q[n])
    BY <2>3, <2>4
  <2>. HIDE DEF q, e
  <2>6. SumValue(E) = SumValue(o)
    BY <2>2, <2>3, <2>5, ValuesApart
  <2>7. v = w
    BY <2>1, <2>6
  <2>. HIDE DEF v, w
  <2>8. Same(v, w)
    BY <2>7 DEF Same
  <2>9. QED BY <2>8 DEF v, w
<1>6. CASE Rule[m] = "max"
  <2>1. IsGreatest(v, E) /\ IsGreatest(w, o)
    BY <1>1, <1>6, AggregateSays
  <2>2. ASSUME NEW n \in DOMAIN E
        PROVE  E[n].value \in Fraction /\ IsGreatest(E[n].value, p[n])
    <3>1. AreObservations(p[n]) /\ Aggregable(m, p[n])
      BY PooledAre
    <3>2. IsGreatest(Aggregate(m, p[n]).value, p[n])
      BY <1>6, <3>1, AggregateSays
    <3>3. E[n].value = Aggregate(m, p[n]).value
      BY DEF Pooled
    <3>4. E[n].value \in Fraction
      BY <1>1 DEF AreObservations, IsObservation
    <3>5. QED BY <3>2, <3>3, <3>4
  <2>3. DOMAIN E \subseteq DOMAIN p
        /\ \A n \in DOMAIN p : \A k \in DOMAIN p[n] : k \in DOMAIN o /\ p[n][k] = o[k]
    BY PooledAre DEF Apart, PartsOf
  <2>4. ~Less(w, v)
    <3>1. PICK n \in DOMAIN E : v = E[n].value
      BY <2>1 DEF IsGreatest
    <3>2. PICK k \in DOMAIN p[n] : E[n].value = p[n][k].value
      BY <2>2 DEF IsGreatest
    <3>3. k \in DOMAIN o /\ v = o[k].value
      BY <2>3, <3>1, <3>2
    <3>. HIDE DEF v, w
    <3>4. QED BY <2>1, <3>3 DEF IsGreatest
  <2>5. ~Less(v, w)
    <3>1. PICK k \in DOMAIN o : w = o[k].value
      BY <2>1 DEF IsGreatest
    <3>2. PICK n \in DOMAIN [j \in Poolable(m, p) |-> p[j]] : k \in DOMAIN [j \in Poolable(m, p) |-> p[j]][n]
      BY <1>6, PoolableApart DEF Apart, PartsOf
    <3>3. n \in DOMAIN E /\ k \in DOMAIN p[n]
      BY <3>2 DEF Pooled
    <3>4. w = p[n][k].value
      BY <2>3, <3>1, <3>3
    <3>. DEFINE u == E[n].value
    <3>5. u \in Fraction /\ ~Less(u, w) /\ ~Less(v, u)
      BY <2>1, <2>2, <3>3, <3>4 DEF IsGreatest
    <3>. HIDE DEF u, v, w
    <3>6. QED BY <1>2, <3>5, NotLessIsTransitive
  <2>. HIDE DEF v, w
  <2>6. QED BY <1>2, <2>4, <2>5, Squeezed DEF v, w
<1>7. QED BY <1>3, <1>4, <1>5, <1>6, FamiliesAre


-----------------------------------------------------------------------------
(* Teams.                                                                  *)

\* What was done had a chance, in every row.
WithChance(rows) ==
    \A k \in DOMAIN rows : \A m \in DOMAIN rows[k].metrics : HasChance(m, rows[k].metrics[m])

LEMMA RowsWithChance ==
    ASSUME Typed, Current
    PROVE  WithChance(Rows)
<1>1. SUFFICES ASSUME NEW k \in DOMAIN Rows, NEW x \in DOMAIN Rows[k].metrics
               PROVE  HasChance(x, Rows[k].metrics[x])
  BY DEF WithChance
<1>. DEFINE m == k[1]
            a == k[2]
            seen == Measured[artifacts[m]][m][a]
<1>2. k \in Seats /\ m \in Verified /\ Rows[k] = Row(m, a)
  BY DEF Rows
<1>3. m \in Match /\ a \in DOMAIN Plays[m]
  BY <1>2 DEF Seats
<1>4. artifacts[m] \in Form
  BY <1>2, <1>3 DEF Typed, Current, Verified
<1>5. \A y \in DOMAIN seen : HasChance(y, seen[y])
  BY <1>3, <1>4, RootAssumption
<1>6. /\ DOMAIN Row(m, a).metrics = DOMAIN seen
      /\ \A y \in DOMAIN seen : /\ Row(m, a).metrics[y].num = seen[y].num
                                /\ Row(m, a).metrics[y].den = seen[y].den
  BY DEF Row
<1>. HIDE DEF seen, m, a
<1>7. \A y \in DOMAIN seen : HasChance(y, Row(m, a).metrics[y])
  BY <1>5, <1>6 DEF HasChance
<1>8. QED BY <1>2, <1>6, <1>7

\* The observations of a metric in the rows of a team, and by match.
OfTeam(rows, t) == {k \in DOMAIN rows : rows[k].team = t}
PoolOf(rows, t, m) == Observed(rows, OfTeam(rows, t))[m]
PoolsOf(rows, t, m) ==
    [n \in Matches(OfTeam(rows, t)) |-> Observed(rows, TeamKeys(rows, t, n))[m]]

LEMMA MatchesApart ==
    ASSUME NEW rows, Faithful(rows), NEW t, NEW m \in Metric
    PROVE  Apart(PoolsOf(rows, t, m), PoolOf(rows, t, m))
<1>. DEFINE o == PoolOf(rows, t, m)
            p == PoolsOf(rows, t, m)
            keys == OfTeam(rows, t)
            part(n) == TeamKeys(rows, t, n)
<1>1. /\ keys \in SUBSET DOMAIN rows
      /\ \A n : part(n) \in SUBSET DOMAIN rows
      /\ \A n : part(n) = {k \in keys : k[1] = n}
  BY DEF OfTeam, TeamKeys
<1>2. /\ DOMAIN o = {k \in keys : m \in DOMAIN rows[k].metrics}
      /\ \A k \in DOMAIN o : o[k] = rows[k].metrics[m]
  BY DEF PoolOf, Observed
<1>3. DOMAIN p = Matches(keys)
      /\ \A n \in DOMAIN p : /\ p[n] = Observed(rows, part(n))[m]
                             /\ DOMAIN p[n] = {k \in part(n) : m \in DOMAIN rows[k].metrics}
                             /\ \A k \in DOMAIN p[n] : p[n][k] = rows[k].metrics[m]
  BY DEF PoolsOf, Observed
<1>4. AreObservations(o) /\ \A n \in DOMAIN p : AreObservations(p[n])
  <2>1. AreObservations(o)
    BY <1>1, ObservedAre DEF PoolOf
  <2>2. ASSUME NEW n \in DOMAIN p PROVE AreObservations(p[n])
    BY <1>1, <1>3, ObservedAre
  <2>3. QED BY <2>1, <2>2
<1>5. IsFiniteSet(DOMAIN p)
  <2>1. IsFiniteSet(keys)
    BY <1>1, FinitelyMany, FS_Subset DEF Faithful
  <2>2. Matches(keys) \subseteq Match
    BY <1>1 DEF Matches, Faithful, Grounded
  <2>3. IsFiniteSet(Match)
    BY RootAssumption
  <2>4. QED BY <1>3, <2>2, <2>3, FS_Subset
<1>. HIDE DEF o, p, keys, part
<1>6. \A n \in DOMAIN p : /\ DOMAIN p[n] \in SUBSET DOMAIN o
                          /\ \A k \in DOMAIN p[n] : p[n][k] = o[k]
  BY <1>1, <1>2, <1>3
<1>7. \A n, j \in DOMAIN p : n # j => DOMAIN p[n] \cap DOMAIN p[j] = {}
  BY <1>1, <1>3
<1>8. \A k \in DOMAIN o : \E n \in DOMAIN p : k \in DOMAIN p[n]
  <2>1. SUFFICES ASSUME NEW k \in DOMAIN o PROVE k[1] \in DOMAIN p /\ k \in DOMAIN p[k[1]]
    OBVIOUS
  <2>2. k \in keys /\ m \in DOMAIN rows[k].metrics
    BY <1>2
  <2>3. k[1] \in DOMAIN p
    BY <1>3, <2>2 DEF Matches
  <2>4. QED BY <1>1, <1>3, <2>2, <2>3
<1>9. Apart(p, o)
  BY <1>4, <1>5, <1>6, <1>7, <1>8 DEF Apart, PartsOf
<1>10. QED BY <1>9 DEF p, o

\* What a team's tournament is made from.
OfMatches(rows, t, m) ==
    [n \in Children(TeamMatches(rows)[t], m) |-> AsObservation(TeamMatches(rows)[t][n][m])]

LEMMA MatchesPooled ==
    ASSUME NEW rows, Faithful(rows), NEW t \in TeamsOf(rows), NEW m \in Metric
    PROVE  Pooled(OfMatches(rows, t, m), m, PoolsOf(rows, t, m))
<1>. DEFINE E == OfMatches(rows, t, m)
            p == PoolsOf(rows, t, m)
            byMatch == TeamMatches(rows)[t]
<1>1. /\ DOMAIN byMatch = Matches(OfTeam(rows, t))
      /\ \A n \in DOMAIN byMatch : byMatch[n] = TeamMatch(rows, t, n)
  BY TeamMatchesAre DEF OfTeam
<1>2. DOMAIN p = Matches(OfTeam(rows, t))
      /\ \A n \in DOMAIN p : p[n] = Observed(rows, TeamKeys(rows, t, n))[m]
  BY DEF PoolsOf
<1>3. \A n : TeamMatch(rows, t, n) = Pool(Observed(rows, TeamKeys(rows, t, n)), "team_match", t, n)
  BY DEF TeamMatch, TeamKeys
<1>4. DOMAIN E = {n \in DOMAIN byMatch : m \in DOMAIN byMatch[n]}
      /\ E = [n \in DOMAIN E |-> E[n]]
      /\ \A n \in DOMAIN E : E[n] = AsObservation(byMatch[n][m])
  BY DEF OfMatches, Children
<1>. HIDE DEF E, p, byMatch
<1>5. ASSUME NEW n \in DOMAIN p PROVE m \in DOMAIN byMatch[n] <=> Aggregable(m, p[n])
  <2>. DEFINE o == Observed(rows, TeamKeys(rows, t, n))
  <2>1. byMatch[n] = Pool(o, "team_match", t, n) /\ p[n] = o[m]
    BY <1>1, <1>2, <1>3
  <2>. HIDE DEF o
  <2>2. m \in DOMAIN Pool(o, "team_match", t, n) <=> Aggregable(m, o[m])
    BY DEF Pool
  <2>3. QED BY <2>1, <2>2
<1>6. DOMAIN E = Poolable(m, p)
  BY <1>1, <1>2, <1>4, <1>5 DEF Poolable
<1>7. ASSUME NEW n \in DOMAIN E
      PROVE  LET a == Aggregate(m, p[n])
             IN  E[n].value = a.value /\ E[n].num = <<a.num>> /\ E[n].den = <<a.den>>
  <2>. DEFINE o == Observed(rows, TeamKeys(rows, t, n))
              a == Aggregate(m, o[m])
              b == Pool(o, "team_match", t, n)[m]
  <2>1. n \in DOMAIN byMatch /\ n \in DOMAIN p /\ m \in DOMAIN byMatch[n]
    BY <1>1, <1>2, <1>4
  <2>2. byMatch[n] = Pool(o, "team_match", t, n) /\ p[n] = o[m]
    BY <1>1, <1>2, <1>3, <2>1
  <2>3. m \in DOMAIN Pool(o, "team_match", t, n)
    BY <2>1, <2>2
  <2>. HIDE DEF o
  <2>4. b.value = a.value /\ b.num = a.num /\ b.den = a.den
    BY <2>3, PoolIs
  <2>5. E[n] = AsObservation(b)
    BY <1>4, <2>2
  <2>6. E[n].value = b.value /\ E[n].num = <<b.num>> /\ E[n].den = <<b.den>>
    BY <2>5 DEF AsObservation
  <2>7. Aggregate(m, p[n]) = a
    BY <2>2
  <2>. HIDE DEF a, b
  <2>8. QED BY <2>4, <2>6, <2>7
<1>8. Pooled(E, m, p)
  BY <1>4, <1>6, <1>7 DEF Pooled
<1>9. QED BY <1>8 DEF E, p

LEMMA TeamPools ==
    ASSUME NEW rows, Faithful(rows), WithChance(rows), NEW t \in TeamsOf(rows), NEW m \in Metric
    PROVE  LET metrics == TeamTournament(rows, t, TeamMatches(rows)[t]).metrics
               o == PoolOf(rows, t, m)
           IN  /\ m \in DOMAIN metrics <=> Aggregable(m, o)
               /\ m \in DOMAIN metrics /\ (Rule[m] = "percentile" => \A k \in DOMAIN o : o[k].den # <<>>)
                     => Same(metrics[m].value, Aggregate(m, o).value)
<1>. DEFINE byMatch == TeamMatches(rows)[t]
            metrics == TeamTournament(rows, t, byMatch).metrics
            o == PoolOf(rows, t, m)
            p == PoolsOf(rows, t, m)
            E == OfMatches(rows, t, m)
            all == [x \in Metric |-> [n \in Children(byMatch, x) |-> AsObservation(byMatch[n][x])]]
<1>1. Apart(p, o) /\ Pooled(E, m, p)
  BY MatchesApart, MatchesPooled
<1>2. metrics = Pool(all, "team_tournament", t, NoMatch)
  BY DEF TeamTournament, Children
<1>3. all[m] = E
  BY DEF OfMatches
<1>4. \A k \in DOMAIN o : HasChance(m, o[k])
  <2>1. /\ DOMAIN o \subseteq {k \in DOMAIN rows : m \in DOMAIN rows[k].metrics}
        /\ \A k \in DOMAIN o : o[k] = rows[k].metrics[m]
    BY DEF PoolOf, Observed, OfTeam
  <2>. HIDE DEF o
  <2>2. QED BY <2>1 DEF WithChance
<1>. HIDE DEF o, p, E, all
<1>5. m \in DOMAIN metrics <=> Aggregable(m, E)
  BY <1>2, <1>3 DEF Pool
<1>6. m \in DOMAIN metrics => metrics[m].value = Aggregate(m, E).value
  BY <1>2, <1>3, PoolIs
<1>7. Aggregable(m, E) <=> Aggregable(m, o)
  BY <1>1, PoolsTold
<1>. HIDE DEF metrics, byMatch
<1>8. m \in DOMAIN metrics /\ (Rule[m] = "percentile" => \A k \in DOMAIN o : o[k].den # <<>>)
         => Same(metrics[m].value, Aggregate(m, o).value)
  BY <1>1, <1>4, <1>5, <1>6, <1>7, PoolsAgree
<1>9. QED BY <1>5, <1>7, <1>8 DEF metrics, o, byMatch

\* The tournament of a team is what all its players did, though it was put
\* together first by match (buildTeams, aggregateValues).
THEOREM TeamsArePools == Spec => []TeamsPoolPlayers
<1>1. Told /\ Typed => TeamsPoolPlayers
  <2>1. SUFFICES ASSUME Told, Typed PROVE TeamsPoolPlayers
    OBVIOUS
  <2>2. CASE ~Scored
    BY <2>1, <2>2, NobodyStored DEF TeamsPoolPlayers
  <2>3. CASE Scored
    <3>. DEFINE rows == Rows
    <3>1. /\ Faithful(rows) /\ scores = ScoresOf(Corpus(rows)) /\ scores.matches = rows
          /\ WithChance(rows)
      BY <2>1, <2>3, StoredIs, RowsWithChance DEF Told, Scored
    <3>. HIDE DEF rows
    <3>2. DOMAIN scores.teams = TeamsOf(rows)
      BY <3>1, ScoredTeams
    <3>3. ASSUME NEW t \in DOMAIN scores.teams, NEW m \in Metric
          PROVE  LET keys == {k \in DOMAIN scores.matches :
                                 scores.matches[k].team = t /\ m \in DOMAIN scores.matches[k].metrics}
                     pool == [k \in keys |-> scores.matches[k].metrics[m]]
                     record == scores.teams[t].record
                 IN  /\ m \in DOMAIN record.metrics <=> Aggregable(m, pool)
                     /\ m \in DOMAIN record.metrics /\
                           (Rule[m] = "percentile" => \A k \in keys : pool[k].den # <<>>)
                         => Same(record.metrics[m].value, Aggregate(m, pool).value)
      <4>. DEFINE keys == {k \in DOMAIN rows : rows[k].team = t /\ m \in DOMAIN rows[k].metrics}
                  pool == [k \in keys |-> rows[k].metrics[m]]
                  metrics == TeamTournament(rows, t, TeamMatches(rows)[t]).metrics
      <4>1. scores.teams[t].record.metrics = metrics
        BY <3>1, ScoredTeams
      <4>2. pool = PoolOf(rows, t, m) /\ DOMAIN pool = keys
        <5>1. keys = {k \in OfTeam(rows, t) : m \in DOMAIN rows[k].metrics}
          BY DEF OfTeam
        <5>2. PoolOf(rows, t, m) = [k \in {k \in OfTeam(rows, t) : m \in DOMAIN rows[k].metrics} |->
                                       rows[k].metrics[m]]
          BY DEF PoolOf, Observed
        <5>3. QED BY <5>1, <5>2
      <4>3. /\ m \in DOMAIN metrics <=> Aggregable(m, PoolOf(rows, t, m))
            /\ m \in DOMAIN metrics
                  /\ (Rule[m] = "percentile" =>
                         \A k \in DOMAIN PoolOf(rows, t, m) : PoolOf(rows, t, m)[k].den # <<>>)
                => Same(metrics[m].value, Aggregate(m, PoolOf(rows, t, m)).value)
        BY <3>1, <3>2, TeamPools
      <4>. HIDE DEF metrics
      <4>4. /\ m \in DOMAIN metrics <=> Aggregable(m, pool)
            /\ m \in DOMAIN metrics /\ (Rule[m] = "percentile" => \A k \in keys : pool[k].den # <<>>)
                => Same(metrics[m].value, Aggregate(m, pool).value)
        <5>. HIDE DEF pool, keys
        <5>1. QED BY <4>2, <4>3
      <4>5. QED BY <3>1, <4>1, <4>4
    <3>4. QED BY <3>3 DEF TeamsPoolPlayers
  <2>4. QED BY <2>2, <2>3
<1>2. QED BY <1>1, AlwaysTold, AlwaysTyped, PTL

-----------------------------------------------------------------------------
(* Sums of sums.                                                           *)

LEMMA SumPlus ==
    ASSUME NEW f, NEW g, NEW e, IsFiniteSet(DOMAIN f), DOMAIN g = DOMAIN f, DOMAIN e = DOMAIN f,
           \A x \in DOMAIN f : f[x] \in Int /\ g[x] \in Int /\ e[x] = f[x] + g[x]
    PROVE  /\ SumOf(f) \in Int /\ SumOf(g) \in Int
           /\ SumOf(e) = SumOf(f) + SumOf(g)
<1>. DEFINE a == Adding(f)
            b == Adding(g)
            c == Adding(e)
            Good == {T \in SUBSET DOMAIN f : c[T] = a[T] + b[T]}
<1>1. /\ a[{}] = 0
      /\ \A T \in SUBSET DOMAIN f : a[T] \in Int
      /\ \A T \in SUBSET DOMAIN f : \A x \in T : a[T] = f[x] + a[T \ {x}]
  BY AddingSteps
<1>2. /\ b[{}] = 0
      /\ \A T \in SUBSET DOMAIN f : b[T] \in Int
      /\ \A T \in SUBSET DOMAIN f : \A x \in T : b[T] = g[x] + b[T \ {x}]
  <2>1. IsFiniteSet(DOMAIN g) /\ \A x \in DOMAIN g : g[x] \in Int
    OBVIOUS
  <2>2. /\ b[{}] = 0
        /\ \A T \in SUBSET DOMAIN g : b[T] \in Int
        /\ \A T \in SUBSET DOMAIN g : \A x \in T : b[T] = g[x] + b[T \ {x}]
    BY <2>1, AddingSteps
  <2>. HIDE DEF b
  <2>3. QED BY <2>2
<1>3. /\ c[{}] = 0
      /\ \A T \in SUBSET DOMAIN f : c[T] \in Int
      /\ \A T \in SUBSET DOMAIN f : \A x \in T : c[T] = e[x] + c[T \ {x}]
  <2>1. IsFiniteSet(DOMAIN e) /\ \A x \in DOMAIN e : e[x] \in Int
    OBVIOUS
  <2>2. /\ c[{}] = 0
        /\ \A T \in SUBSET DOMAIN e : c[T] \in Int
        /\ \A T \in SUBSET DOMAIN e : \A x \in T : c[T] = e[x] + c[T \ {x}]
    BY <2>1, AddingSteps
  <2>. HIDE DEF c
  <2>3. QED BY <2>2
<1>. HIDE DEF a, b, c
<1>4. ASSUME NEW T \in SUBSET DOMAIN f, \A x \in T : T \ {x} \in Good PROVE T \in Good
  <2>1. CASE T = {}
    BY <1>1, <1>2, <1>3, <2>1
  <2>2. CASE T # {}
    <3>1. PICK x \in T : TRUE
      BY <2>2
    <3>2. c[T \ {x}] = a[T \ {x}] + b[T \ {x}]
      BY <1>4
    <3>3. a[T] = f[x] + a[T \ {x}] /\ b[T] = g[x] + b[T \ {x}] /\ c[T] = e[x] + c[T \ {x}]
      BY <1>1, <1>2, <1>3
    <3>4. a[T \ {x}] \in Int /\ b[T \ {x}] \in Int /\ f[x] \in Int /\ g[x] \in Int
          /\ e[x] = f[x] + g[x]
      BY <1>1, <1>2
    <3>5. c[T] = a[T] + b[T]
      BY <3>2, <3>3, <3>4
    <3>6. QED BY <3>5
  <2>3. QED BY <2>1, <2>2
<1>. HIDE DEF Good
<1>5. DOMAIN f \in Good
  <2>1. \A T \in SUBSET DOMAIN f : (\A x \in T : T \ {x} \in Good) => T \in Good
    BY <1>4
  <2>2. \A T \in SUBSET DOMAIN f : T \in Good
    BY <2>1, Shrinking
  <2>3. QED BY <2>2
<1>6. SumOf(f) = a[DOMAIN f] /\ SumOf(g) = b[DOMAIN f] /\ SumOf(e) = c[DOMAIN f]
  BY SumOfIs DEF a, b, c
<1>7. QED BY <1>1, <1>2, <1>5, <1>6 DEF Good

\* How many of the elements have the value n.
Count(f, n) == [T \in SUBSET DOMAIN f |-> Cardinality({x \in T : f[x] = n})]

LEMMA CountSteps ==
    ASSUME NEW f, IsFiniteSet(DOMAIN f), NEW n
    PROVE  /\ Count(f, n)[{}] = 0
           /\ \A T \in SUBSET DOMAIN f : Count(f, n)[T] \in Nat
           /\ \A T \in SUBSET DOMAIN f : \A x \in T :
                 Count(f, n)[T] = (IF f[x] = n THEN 1 ELSE 0) + Count(f, n)[T \ {x}]
<1>. DEFINE Of(T) == {x \in T : f[x] = n}
<1>1. \A T \in SUBSET DOMAIN f : Count(f, n)[T] = Cardinality(Of(T))
  BY DEF Count
<1>2. \A T \in SUBSET DOMAIN f : IsFiniteSet(Of(T)) /\ Cardinality(Of(T)) \in Nat
  <2>1. ASSUME NEW T \in SUBSET DOMAIN f
        PROVE  IsFiniteSet(Of(T)) /\ Cardinality(Of(T)) \in Nat
    <3>1. Of(T) \in SUBSET DOMAIN f
      OBVIOUS
    <3>2. IsFiniteSet(Of(T))
      BY <3>1, FS_Subset
    <3>3. QED BY <3>2, FS_CardinalityType
  <2>2. QED BY <2>1
<1>3. ASSUME NEW T \in SUBSET DOMAIN f, NEW x \in T
      PROVE  Cardinality(Of(T)) = (IF f[x] = n THEN 1 ELSE 0) + Cardinality(Of(T \ {x}))
  <2>1. IsFiniteSet(Of(T)) /\ Cardinality(Of(T)) \in Nat
    BY <1>2
  <2>2. CASE f[x] = n
    <3>1. Of(T \ {x}) = Of(T) \ {x} /\ x \in Of(T)
      BY <2>2
    <3>. HIDE DEF Of
    <3>2. Cardinality(Of(T) \ {x}) = Cardinality(Of(T)) - 1
      BY <2>1, <3>1, FS_RemoveElement
    <3>3. QED BY <2>1, <2>2, <3>1, <3>2
  <2>3. CASE f[x] # n
    <3>1. Of(T \ {x}) = Of(T)
      BY <2>3
    <3>. HIDE DEF Of
    <3>2. QED BY <2>1, <2>3, <3>1
  <2>4. QED BY <2>2, <2>3
<1>4. Of({}) = {} /\ Cardinality({}) = 0
  BY FS_EmptySet
<1>. HIDE DEF Of
<1>5. QED BY <1>1, <1>2, <1>3, <1>4

\* A sum of zeros, ones and twos counts them.
LEMMA SumCounts ==
    ASSUME NEW f, IsFiniteSet(DOMAIN f), \A x \in DOMAIN f : f[x] \in {0, 1, 2}
    PROVE  SumOf(f) = 2 * Cardinality({x \in DOMAIN f : f[x] = 2})
                      + Cardinality({x \in DOMAIN f : f[x] = 1})
<1>. DEFINE a == Adding(f)
            two == Count(f, 2)
            one == Count(f, 1)
            Good == {T \in SUBSET DOMAIN f : a[T] = 2 * two[T] + one[T]}
<1>1. /\ a[{}] = 0
      /\ \A T \in SUBSET DOMAIN f : a[T] \in Int
      /\ \A T \in SUBSET DOMAIN f : \A x \in T : a[T] = f[x] + a[T \ {x}]
  <2>1. \A x \in DOMAIN f : f[x] \in Int
    OBVIOUS
  <2>2. QED BY <2>1, AddingSteps
<1>2. /\ two[{}] = 0
      /\ \A T \in SUBSET DOMAIN f : two[T] \in Nat
      /\ \A T \in SUBSET DOMAIN f : \A x \in T :
            two[T] = (IF f[x] = 2 THEN 1 ELSE 0) + two[T \ {x}]
  BY CountSteps
<1>3. /\ one[{}] = 0
      /\ \A T \in SUBSET DOMAIN f : one[T] \in Nat
      /\ \A T \in SUBSET DOMAIN f : \A x \in T :
            one[T] = (IF f[x] = 1 THEN 1 ELSE 0) + one[T \ {x}]
  BY CountSteps
<1>. HIDE DEF a, two, one
<1>4. ASSUME NEW T \in SUBSET DOMAIN f, \A x \in T : T \ {x} \in Good PROVE T \in Good
  <2>1. CASE T = {}
    BY <1>1, <1>2, <1>3, <2>1
  <2>2. CASE T # {}
    <3>1. PICK x \in T : TRUE
      BY <2>2
    <3>2. a[T \ {x}] = 2 * two[T \ {x}] + one[T \ {x}]
      BY <1>4
    <3>3. a[T] = f[x] + a[T \ {x}] /\ f[x] \in {0, 1, 2}
      BY <1>1
    <3>4. /\ two[T] = (IF f[x] = 2 THEN 1 ELSE 0) + two[T \ {x}]
          /\ one[T] = (IF f[x] = 1 THEN 1 ELSE 0) + one[T \ {x}]
      BY <1>2, <1>3
    <3>5. two[T \ {x}] \in Nat /\ one[T \ {x}] \in Nat
      BY <1>2, <1>3
    <3>6. a[T] = 2 * two[T] + one[T]
      BY <3>2, <3>3, <3>4, <3>5
    <3>7. QED BY <3>6
  <2>3. QED BY <2>1, <2>2
<1>. HIDE DEF Good
<1>5. DOMAIN f \in Good
  <2>1. \A T \in SUBSET DOMAIN f : (\A x \in T : T \ {x} \in Good) => T \in Good
    BY <1>4
  <2>2. \A T \in SUBSET DOMAIN f : T \in Good
    BY <2>1, Shrinking
  <2>3. QED BY <2>2
<1>6. SumOf(f) = a[DOMAIN f]
  BY SumOfIs DEF a
<1>7. /\ two[DOMAIN f] = Cardinality({x \in DOMAIN f : f[x] = 2})
      /\ one[DOMAIN f] = Cardinality({x \in DOMAIN f : f[x] = 1})
  BY DEF Count, two, one
<1>8. QED BY <1>5, <1>6, <1>7 DEF Good

\* The same number for each.
LEMMA SumOfOne ==
    ASSUME NEW f, IsFiniteSet(DOMAIN f), NEW c \in Int, \A x \in DOMAIN f : f[x] = c
    PROVE  SumOf(f) = c * Cardinality(DOMAIN f)
<1>. DEFINE ones == [x \in DOMAIN f |-> 1]
<1>1. SumOf(ones) = 2 * Cardinality({x \in DOMAIN ones : ones[x] = 2})
                    + Cardinality({x \in DOMAIN ones : ones[x] = 1})
  <2>1. \A x \in DOMAIN ones : ones[x] \in {0, 1, 2}
    OBVIOUS
  <2>2. IsFiniteSet(DOMAIN ones)
    OBVIOUS
  <2>. HIDE DEF ones
  <2>3. QED BY <2>1, <2>2, SumCounts
<1>2. {x \in DOMAIN ones : ones[x] = 2} = {} /\ {x \in DOMAIN ones : ones[x] = 1} = DOMAIN f
  <2>1. DOMAIN ones = DOMAIN f /\ \A x \in DOMAIN f : ones[x] = 1
    OBVIOUS
  <2>. HIDE DEF ones
  <2>2. QED BY <2>1
<1>3. Cardinality({}) = 0 /\ Cardinality(DOMAIN f) \in Nat
  BY FS_EmptySet, FS_CardinalityType
<1>4. SumOf(ones) = Cardinality(DOMAIN f)
  <2>. DEFINE n == Cardinality(DOMAIN f)
  <2>1. SumOf(ones) = 2 * 0 + n
    BY <1>1, <1>2, <1>3
  <2>. HIDE DEF ones, n
  <2>2. n \in Nat
    BY <1>3 DEF n
  <2>3. QED BY <2>1, <2>2 DEF n
<1>5. DOMAIN f = DOMAIN ones /\ \A x \in DOMAIN ones : ones[x] \in Int /\ f[x] = c * ones[x]
  OBVIOUS
<1>. HIDE DEF ones
<1>6. SumOf(f) = c * SumOf(ones)
  BY <1>5, SumTimes
<1>7. QED BY <1>4, <1>6
\* What is left of a number for each.
LEMMA SumOfRest ==
    ASSUME NEW f, NEW g, IsFiniteSet(DOMAIN f), DOMAIN g = DOMAIN f, NEW c \in Int,
           \A x \in DOMAIN f : f[x] \in Int /\ g[x] = c - f[x]
    PROVE  SumOf(f) \in Int /\ SumOf(g) = c * Cardinality(DOMAIN f) - SumOf(f)
<1>. DEFINE both == [x \in DOMAIN f |-> c]
            n == Cardinality(DOMAIN f)
<1>1. DOMAIN both = DOMAIN f /\ \A x \in DOMAIN both : both[x] = c
  OBVIOUS
<1>. HIDE DEF both
<1>2. \A x \in DOMAIN f : f[x] \in Int /\ g[x] \in Int /\ both[x] = f[x] + g[x]
  BY <1>1
<1>3. SumOf(f) \in Int /\ SumOf(g) \in Int /\ SumOf(both) = SumOf(f) + SumOf(g)
  BY <1>1, <1>2, SumPlus
<1>4. SumOf(both) = c * Cardinality(DOMAIN both)
  BY <1>1, SumOfOne
<1>5. n \in Nat /\ SumOf(both) = c * n
  BY <1>1, <1>4, FS_CardinalityType
<1>6. c * n \in Int
  BY <1>5
<1>. HIDE DEF n
<1>7. SumOf(g) = c * n - SumOf(f)
  BY <1>3, <1>5, <1>6
<1>8. QED BY <1>3, <1>7 DEF n

\* A table of numbers sums to the same by rows and by columns.
ByColumn(D, p) == [s \in D |-> SumOf([k \in D |-> p[k][s]])]
ByRow(D, p) == [k \in D |-> SumOf([s \in D |-> p[k][s]])]

LEMMA Crosswise ==
    ASSUME NEW D, IsFiniteSet(D), NEW p, \A k, s \in D : p[k][s] \in Int
    PROVE  /\ \A x \in D : ByColumn(D, p)[x] \in Int /\ ByRow(D, p)[x] \in Int
           /\ SumOf(ByColumn(D, p)) = SumOf(ByRow(D, p))
<1>. DEFINE column(s) == [k \in D |-> p[k][s]]
            row(k) == [s \in D |-> p[k][s]]
            byColumn == [s \in D |-> SumOf(column(s))]
            byRow == [k \in D |-> SumOf(row(k))]
            a == Adding(byColumn)
            part(T) == [k \in D |-> Adding(row(k))[T]]
            Good == {T \in SUBSET D : a[T] = SumOf(part(T))}
<1>1. \A s \in D : /\ DOMAIN column(s) = D
                   /\ \A k \in D : column(s)[k] = p[k][s] /\ column(s)[k] \in Int
  OBVIOUS
<1>2. \A k \in D : /\ DOMAIN row(k) = D
                   /\ \A s \in D : row(k)[s] = p[k][s] /\ row(k)[s] \in Int
  OBVIOUS
<1>. HIDE DEF column, row
<1>3. \A s \in D : SumOf(column(s)) \in Int
  <2>1. SUFFICES ASSUME NEW s \in D PROVE SumOf(column(s)) \in Int
    OBVIOUS
  <2>2. /\ DOMAIN column(s) = D /\ IsFiniteSet(DOMAIN column(s))
        /\ \A k \in DOMAIN column(s) : column(s)[k] \in Int
    BY <1>1
  <2>3. Adding(column(s))[DOMAIN column(s)] \in Int
    BY <2>2, AddingSteps
  <2>4. QED BY <2>3, SumOfIs
<1>4. ASSUME NEW k \in D
      PROVE  /\ Adding(row(k))[{}] = 0
             /\ \A T \in SUBSET D : Adding(row(k))[T] \in Int
             /\ \A T \in SUBSET D : \A x \in T : Adding(row(k))[T] = p[k][x] + Adding(row(k))[T \ {x}]
  <2>1. /\ DOMAIN row(k) = D /\ IsFiniteSet(DOMAIN row(k))
        /\ \A s \in DOMAIN row(k) : row(k)[s] \in Int
    BY <1>2
  <2>2. /\ Adding(row(k))[{}] = 0
        /\ \A T \in SUBSET D : Adding(row(k))[T] \in Int
        /\ \A T \in SUBSET D : \A x \in T : Adding(row(k))[T] = row(k)[x] + Adding(row(k))[T \ {x}]
    BY <2>1, AddingSteps
  <2>3. QED BY <1>2, <2>2
<1>5. \A k \in D : SumOf(row(k)) \in Int /\ SumOf(row(k)) = Adding(row(k))[D]
  BY <1>2, <1>4, SumOfIs
<1>6. /\ DOMAIN byColumn = D
      /\ \A x \in D : byColumn[x] = SumOf(column(x)) /\ byColumn[x] \in Int
  BY <1>3
<1>7. /\ DOMAIN byRow = D
      /\ \A x \in D : byRow[x] = SumOf(row(x)) /\ byRow[x] \in Int
  BY <1>5
<1>8. \A T \in SUBSET D : /\ DOMAIN part(T) = D
                          /\ \A k \in D : part(T)[k] = Adding(row(k))[T] /\ part(T)[k] \in Int
  BY <1>4
<1>. HIDE DEF byColumn, part
<1>9. /\ a[{}] = 0
      /\ \A T \in SUBSET D : \A x \in T : a[T] = byColumn[x] + a[T \ {x}]
  BY <1>6, AddingSteps
<1>. HIDE DEF a
<1>10. ASSUME NEW T \in SUBSET D, \A x \in T : T \ {x} \in Good PROVE T \in Good
  <2>1. CASE T = {}
    <3>1. \A k \in DOMAIN part(T) : part(T)[k] = 0
      BY <1>4, <1>8, <2>1
    <3>2. IsFiniteSet(DOMAIN part(T))
      BY <1>8
    <3>3. SumOf(part(T)) = 0 * Cardinality(DOMAIN part(T))
      BY <3>1, <3>2, SumOfOne
    <3>4. Cardinality(DOMAIN part(T)) \in Nat
      BY <3>2, FS_CardinalityType
    <3>5. SumOf(part(T)) = 0
      BY <3>3, <3>4
    <3>6. QED BY <1>9, <2>1, <3>5
  <2>2. CASE T # {}
    <3>1. PICK x \in T : TRUE
      BY <2>2
    <3>2. a[T \ {x}] = SumOf(part(T \ {x}))
      BY <1>10
    <3>3. x \in D /\ T \ {x} \in SUBSET D
      OBVIOUS
    <3>. DEFINE f == column(x)
                g == part(T \ {x})
                e == part(T)
    <3>4. DOMAIN f = D /\ DOMAIN g = D /\ DOMAIN e = D
      BY <1>1, <1>8, <3>3
    <3>5. ASSUME NEW k \in D PROVE f[k] \in Int /\ g[k] \in Int /\ e[k] = f[k] + g[k]
      <4>1. f[k] = p[k][x] /\ f[k] \in Int
        BY <1>1, <3>3
      <4>2. g[k] = Adding(row(k))[T \ {x}] /\ g[k] \in Int /\ e[k] = Adding(row(k))[T]
        BY <1>8, <3>3
      <4>3. Adding(row(k))[T] = p[k][x] + Adding(row(k))[T \ {x}]
        BY <1>4
      <4>4. QED BY <4>1, <4>2, <4>3
    <3>. HIDE DEF f, g, e
    <3>6. SumOf(e) = SumOf(f) + SumOf(g)
      BY <3>4, <3>5, SumPlus
    <3>7. a[T] = SumOf(f) + a[T \ {x}]
      BY <1>6, <1>9, <3>3 DEF f
    <3>8. a[T] = SumOf(part(T))
      BY <3>2, <3>6, <3>7 DEF e, g
    <3>9. QED BY <3>8
  <2>3. QED BY <2>1, <2>2
<1>. HIDE DEF Good
<1>11. D \in Good
  <2>1. \A T \in SUBSET D : (\A x \in T : T \ {x} \in Good) => T \in Good
    BY <1>10
  <2>2. \A T \in SUBSET D : T \in Good
    BY <2>1, Shrinking
  <2>3. QED BY <2>2
<1>12. part(D) = byRow
  BY <1>5 DEF part
<1>13. SumOf(byColumn) = SumOf(byRow)
  BY <1>6, <1>11, <1>12, SumOfIs DEF Good, a
<1>14. byColumn = ByColumn(D, p) /\ byRow = ByRow(D, p)
  BY DEF byColumn, column, row, ByColumn, ByRow
<1>. HIDE DEF byRow
<1>15. QED BY <1>6, <1>7, <1>13, <1>14

\* Where what k has of s and s of k adds up to 2, each has as many as there are,
\* on average.
LEMMA Shared ==
    ASSUME NEW D, IsFiniteSet(D), NEW p,
           \A k, s \in D : p[k][s] \in Int /\ p[k][s] + p[s][k] = 2
    PROVE  /\ \A s \in D : ByColumn(D, p)[s] \in Int
           /\ SumOf(ByColumn(D, p)) = Cardinality(D) * Cardinality(D)
<1>. DEFINE n == Cardinality(D)
            w == ByColumn(D, p)
            v == ByRow(D, p)
            both == [x \in D |-> 2 * n]
<1>1. /\ \A x \in D : w[x] \in Int /\ v[x] \in Int
      /\ SumOf(w) = SumOf(v)
  BY Crosswise
<1>2. n \in Nat
  BY FS_CardinalityType
<1>3. ASSUME NEW x \in D PROVE both[x] = w[x] + v[x]
  <2>. DEFINE f == [k \in D |-> p[k][x]]
              g == [k \in D |-> p[x][k]]
              e == [k \in D |-> 2]
  <2>1. DOMAIN f = D /\ DOMAIN g = D /\ DOMAIN e = D
        /\ \A k \in D : f[k] \in Int /\ g[k] \in Int /\ e[k] = 2 /\ e[k] = f[k] + g[k]
    OBVIOUS
  <2>2. w[x] = SumOf(f) /\ v[x] = SumOf(g)
    BY DEF ByColumn, ByRow
  <2>. HIDE DEF f, g, e
  <2>3. SumOf(e) = SumOf(f) + SumOf(g)
    BY <2>1, SumPlus
  <2>4. SumOf(e) = 2 * Cardinality(DOMAIN e)
    BY <2>1, SumOfOne
  <2>5. SumOf(e) = 2 * n
    BY <2>1, <2>4
  <2>6. both[x] = 2 * n
    OBVIOUS
  <2>. HIDE DEF both, w, v
  <2>7. QED BY <2>2, <2>3, <2>5, <2>6
<1>4. DOMAIN w = D /\ DOMAIN v = D /\ DOMAIN both = D /\ \A x \in D : both[x] = 2 * n
  BY DEF ByColumn, ByRow
<1>. HIDE DEF w, v, both, n
<1>5. SumOf(w) \in Int /\ SumOf(v) \in Int /\ SumOf(both) = SumOf(w) + SumOf(v)
  BY <1>1, <1>3, <1>4, SumPlus
<1>6. SumOf(both) = (2 * n) * n
  <2>1. 2 * n \in Int
    BY <1>2
  <2>2. SumOf(both) = (2 * n) * Cardinality(DOMAIN both)
    BY <1>4, <2>1, SumOfOne
  <2>3. QED BY <1>4, <2>2 DEF n
<1>7. (2 * n) * n = 2 * (n * n) /\ n * n \in Int
  BY <1>2
<1>8. SumOf(w) = n * n
  <2>. DEFINE q == n * n
  <2>1. q \in Int /\ SumOf(both) = 2 * q
    BY <1>6, <1>7
  <2>. HIDE DEF q
  <2>2. SumOf(w) = q
    BY <1>1, <1>5, <2>1
  <2>3. QED BY <2>2 DEF q
<1>9. QED BY <1>1, <1>8 DEF n, w

-----------------------------------------------------------------------------
(* Mid-ranks.                                                              *)

\* What u has of v: two if it is below, one if it is the same.
Duel(u, v) == IF Less(u, v) THEN 2 ELSE IF Same(u, v) THEN 1 ELSE 0

LEMMA DuelIs ==
    ASSUME NEW u \in Fraction, NEW v \in Fraction
    PROVE  /\ Duel(u, v) \in {0, 1, 2} /\ Duel(u, v) + Duel(v, u) = 2
           /\ Duel(u, v) = 2 <=> Less(u, v)
           /\ Duel(u, v) = 1 <=> Same(u, v)
<1>1. u[1] * v[2] \in Int /\ v[1] * u[2] \in Int
  BY FractionIs
<1>2. QED BY <1>1 DEF Duel, Less, Same

\* Twice the mid-rank of v.
Rank(v, cohort) == 2 * Cardinality(Below(v, cohort)) + Cardinality(Equal(v, cohort))
Ranks(cohort) == [s \in DOMAIN cohort |-> Rank(cohort[s], cohort)]
AreValues(cohort) == IsFiniteSet(DOMAIN cohort) /\ \A k \in DOMAIN cohort : cohort[k] \in Fraction

LEMMA RanksShared ==
    ASSUME NEW cohort, AreValues(cohort)
    PROVE  LET n == Cardinality(DOMAIN cohort)
           IN  /\ \A s \in DOMAIN cohort : Ranks(cohort)[s] \in Int
               /\ SumOf(Ranks(cohort)) = n * n
<1>. DEFINE D == DOMAIN cohort
            p == [k \in D |-> [s \in D |-> Duel(cohort[k], cohort[s])]]
<1>1. IsFiniteSet(D) /\ \A k \in D : cohort[k] \in Fraction
  BY DEF AreValues
<1>2. \A k, s \in D : p[k][s] \in Int /\ p[k][s] + p[s][k] = 2
  <2>1. ASSUME NEW k \in D, NEW s \in D PROVE p[k][s] \in Int /\ p[k][s] + p[s][k] = 2
    <3>1. p[k][s] = Duel(cohort[k], cohort[s]) /\ p[s][k] = Duel(cohort[s], cohort[k])
      OBVIOUS
    <3>2. Duel(cohort[k], cohort[s]) \in {0, 1, 2}
          /\ Duel(cohort[k], cohort[s]) + Duel(cohort[s], cohort[k]) = 2
      BY <1>1, DuelIs
    <3>3. QED BY <3>1, <3>2
  <2>2. QED BY <2>1
<1>3. ASSUME NEW s \in D PROVE SumOf([k \in D |-> p[k][s]]) = Rank(cohort[s], cohort)
  <2>. DEFINE f == [k \in D |-> p[k][s]]
  <2>1. DOMAIN f = D /\ \A k \in D : f[k] = Duel(cohort[k], cohort[s])
    OBVIOUS
  <2>. HIDE DEF f
  <2>2. \A k \in D : /\ f[k] \in {0, 1, 2}
                     /\ f[k] = 2 <=> Less(cohort[k], cohort[s])
                     /\ f[k] = 1 <=> Same(cohort[k], cohort[s])
    BY <1>1, <2>1, DuelIs
  <2>3. SumOf(f) = 2 * Cardinality({k \in DOMAIN f : f[k] = 2}) + Cardinality({k \in DOMAIN f : f[k] = 1})
    BY <1>1, <2>1, <2>2, SumCounts
  <2>4. {k \in DOMAIN f : f[k] = 2} = Below(cohort[s], cohort)
    BY <2>1, <2>2 DEF Below
  <2>5. {k \in DOMAIN f : f[k] = 1} = Equal(cohort[s], cohort)
    BY <2>1, <2>2 DEF Equal
  <2>6. SumOf(f) = Rank(cohort[s], cohort)
    BY <2>3, <2>4, <2>5 DEF Rank
  <2>7. QED BY <2>6 DEF f
<1>. HIDE DEF p
<1>4. ByColumn(D, p) = Ranks(cohort)
  BY <1>3 DEF ByColumn, Ranks
<1>5. /\ \A s \in D : ByColumn(D, p)[s] \in Int
      /\ SumOf(ByColumn(D, p)) = Cardinality(D) * Cardinality(D)
  <2>. HIDE DEF D
  <2>1. QED BY <1>1, <1>2, Shared
<1>6. QED BY <1>4, <1>5

LEMMA SameIsTransitive ==
    ASSUME NEW x \in Fraction, NEW y \in Fraction, NEW z \in Fraction
    PROVE  /\ Same(x, x) /\ (Same(x, y) => Same(y, x))
           /\ Same(x, y) => (Same(z, x) <=> Same(z, y))
           /\ Same(x, y) => (Less(z, x) <=> Less(z, y))
           /\ Same(x, y) /\ Less(y, z) => Less(x, z)
<1>. DEFINE Not(u, v) == ~Less(u, v)
<1>1. \A u, v \in Fraction : /\ Same(u, v) <=> ~Less(u, v) /\ ~Less(v, u)
                             /\ ~(Less(u, v) /\ Less(v, u))
  <2>1. ASSUME NEW u \in Fraction, NEW v \in Fraction
        PROVE  /\ Same(u, v) <=> ~Less(u, v) /\ ~Less(v, u)
               /\ ~(Less(u, v) /\ Less(v, u))
    <3>1. u[1] * v[2] \in Int /\ v[1] * u[2] \in Int
      BY FractionIs
    <3>2. QED BY <3>1 DEF Less, Same
  <2>2. QED BY <2>1
<1>2. \A u, v, w \in Fraction : Less(u, v) /\ Less(v, w) => Less(u, w)
  BY LessIsTransitive
<1>3. \A u, v, w \in Fraction : ~Less(u, v) /\ ~Less(v, w) => ~Less(u, w)
  BY NotLessIsTransitive
<1>4. ~Less(x, x)
  BY LessIsStrict
<1>5. QED BY <1>1, <1>2, <1>3, <1>4

\* Who is the same has the same rank, who is less a lower one.
LEMMA RanksOrdered ==
    ASSUME NEW cohort, AreValues(cohort), NEW u \in DOMAIN cohort, NEW v \in DOMAIN cohort
    PROVE  /\ Same(cohort[u], cohort[v]) => Ranks(cohort)[u] = Ranks(cohort)[v]
           /\ Less(cohort[u], cohort[v]) => Ranks(cohort)[u] < Ranks(cohort)[v]
<1>. DEFINE x == cohort[u]
            y == cohort[v]
<1>1. IsFiniteSet(DOMAIN cohort) /\ x \in Fraction /\ y \in Fraction
      /\ \A k \in DOMAIN cohort : cohort[k] \in Fraction
  BY DEF AreValues
<1>2. Ranks(cohort)[u] = Rank(x, cohort) /\ Ranks(cohort)[v] = Rank(y, cohort)
  BY DEF Ranks
<1>3. ASSUME Same(x, y) PROVE Rank(x, cohort) = Rank(y, cohort)
  <2>1. Below(x, cohort) = Below(y, cohort)
    BY <1>1, <1>3, SameIsTransitive DEF Below
  <2>2. Equal(x, cohort) = Equal(y, cohort)
    BY <1>1, <1>3, SameIsTransitive DEF Equal
  <2>3. QED BY <2>1, <2>2 DEF Rank
<1>4. ASSUME Less(x, y) PROVE Rank(x, cohort) < Rank(y, cohort)
  <2>. DEFINE Lx == Below(x, cohort)
              Ex == Equal(x, cohort)
              Ly == Below(y, cohort)
              Ey == Equal(y, cohort)
  <2>1. Lx \cup Ex \in SUBSET Ly
    <3>1. \A k \in Lx : Less(cohort[k], y)
      BY <1>1, <1>4, LessIsTransitive DEF Below
    <3>2. \A k \in Ex : Less(cohort[k], y)
      BY <1>1, <1>4, SameIsTransitive DEF Equal
    <3>3. QED BY <3>1, <3>2 DEF Below, Equal
  <2>2. Lx \cap Ex = {}
    <3>1. \A k \in DOMAIN cohort : ~(Less(cohort[k], x) /\ Same(cohort[k], x))
      BY <1>1, DuelIs
    <3>2. QED BY <3>1 DEF Below, Equal
  <2>3. v \in Ey
    BY <1>1, SameIsTransitive DEF Equal
  <2>4. /\ IsFiniteSet(Lx) /\ IsFiniteSet(Ex) /\ IsFiniteSet(Ly) /\ IsFiniteSet(Ey)
    <3>1. /\ Lx \in SUBSET DOMAIN cohort /\ Ex \in SUBSET DOMAIN cohort
          /\ Ly \in SUBSET DOMAIN cohort /\ Ey \in SUBSET DOMAIN cohort
      BY DEF Below, Equal
    <3>2. QED BY <1>1, <3>1, FS_Subset
  <2>. HIDE DEF Lx, Ex, Ly, Ey
  <2>5. Cardinality(Lx \cup Ex) = Cardinality(Lx) + Cardinality(Ex) - Cardinality({})
        /\ Cardinality({}) = 0
    BY <2>2, <2>4, FS_Union, FS_EmptySet
  <2>6. Cardinality(Lx \cup Ex) <= Cardinality(Ly)
    BY <2>1, <2>4, FS_Subset
  <2>7. Cardinality(Ey) # 0
    BY <2>3, <2>4, FS_EmptySet
  <2>8. /\ Cardinality(Lx) \in Nat /\ Cardinality(Ex) \in Nat
        /\ Cardinality(Ly) \in Nat /\ Cardinality(Ey) \in Nat
    BY <2>4, FS_CardinalityType
  <2>9. 2 * Cardinality(Lx) + Cardinality(Ex) < 2 * Cardinality(Ly) + Cardinality(Ey)
    <3>1. \A b, e, c, d \in Nat : b + e - 0 <= c /\ d # 0 => 2 * b + e < 2 * c + d
      OBVIOUS
    <3>2. Cardinality(Lx) + Cardinality(Ex) - 0 <= Cardinality(Ly)
      BY <2>5, <2>6
    <3>3. QED BY <2>7, <2>8, <3>1, <3>2
  <2>10. QED BY <2>9 DEF Rank, Lx, Ex, Ly, Ey
<1>5. QED BY <1>2, <1>3, <1>4

LEMMA ExactQuotient ==
    ASSUME NEW n \in Nat, n > 0, NEW w \in Int
    PROVE  (n * w) \div n = w
<1>. DEFINE q == (n * w) \div n
            r == (n * w) % n
<1>1. q \in Int /\ r \in Int /\ n * w = n * q + r /\ 0 <= r /\ r < n
  OBVIOUS
<1>. HIDE DEF q, r
<1>2. q <= w
  <2>1. SUFFICES ASSUME q >= w + 1 PROVE FALSE
    BY <1>1
  <2>2. n * q >= n * (w + 1)
    BY <1>1, <2>1
  <2>3. n * (w + 1) = n * w + n
    OBVIOUS
  <2>4. n * w \in Int
    OBVIOUS
  <2>5. QED BY <1>1, <2>2, <2>3, <2>4
<1>3. q >= w
  <2>1. SUFFICES ASSUME q <= w - 1 PROVE FALSE
    BY <1>1
  <2>2. n * q <= n * (w - 1)
    BY <1>1, <2>1
  <2>3. n * (w - 1) = n * w - n
    OBVIOUS
  <2>4. n * w \in Int
    OBVIOUS
  <2>5. QED BY <1>1, <2>2, <2>3, <2>4
<1>4. QED BY <1>1, <1>2, <1>3 DEF q

\* The percentiles of a cohort, if the points are fine enough, are fair.
LEMMA FairRanks ==
    ASSUME NEW cohort, AreValues(cohort), NEW m,
           LET n == Cardinality(DOMAIN cohort) IN n # 0 => (50 * Scale) % n = 0
    PROVE  IsFair(cohort, [s \in DOMAIN cohort |-> Ranked(m, cohort[s], cohort)], m)
<1>. DEFINE D == DOMAIN cohort
            n == Cardinality(D)
            w == Ranks(cohort)
            p == [s \in D |-> Ranked(m, cohort[s], cohort)]
<1>1. IsFiniteSet(D) /\ n \in Nat
  BY FS_CardinalityType DEF AreValues
<1>2. CASE D = {}
  <2>1. n = 0
    BY <1>2, FS_EmptySet
  <2>2. SumOf(p) = 0
    BY <1>2, SumOfNothing
  <2>3. Scale \in Nat
    BY BoundsOf
  <2>. HIDE DEF p
  <2>4. SumOf(p) = 50 * Scale * n
    BY <2>1, <2>2, <2>3
  <2>. HIDE DEF n
  <2>5. QED BY <1>2, <2>4 DEF IsFair, n, p
<1>3. CASE D # {}
  <2>. DEFINE c == 50 * Scale
              q == c \div n
  <2>1. n # 0
    BY <1>1, <1>3, FS_EmptySet
  <2>2. c \in Nat /\ c > 0 /\ c % n = 0
    BY <2>1, BoundsOf
  <2>. HIDE DEF n
  <2>3. q \in Int /\ c = n * q
    <3>. HIDE DEF c
    <3>1. c = n * (c \div n) + (c % n) /\ c \div n \in Int
      BY <1>1, <2>1, <2>2
    <3>2. n * (c \div n) \in Int
      BY <1>1, <3>1
    <3>3. QED BY <2>2, <3>1, <3>2
  <2>. HIDE DEF q
  <2>4. q > 0
    <3>1. SUFFICES ASSUME q <= 0 PROVE FALSE
      BY <2>3
    <3>2. n * q <= n * 0
      BY <1>1, <2>3, <3>1
    <3>3. n * 0 = 0
      BY <1>1
    <3>. HIDE DEF c
    <3>4. QED BY <2>2, <2>3, <3>2, <3>3
  <2>5. /\ DOMAIN w = D
        /\ \A s \in D : w[s] \in Int
        /\ SumOf(w) = n * n
    BY RanksShared DEF n, Ranks
  <2>6. ASSUME NEW s \in D PROVE Percentile(cohort[s], cohort) = q * w[s]
    <3>1. w[s] = 2 * Cardinality(Below(cohort[s], cohort)) + Cardinality(Equal(cohort[s], cohort))
      BY DEF Ranks, Rank
    <3>2. Percentile(cohort[s], cohort) = (c * w[s]) \div n
      BY <3>1 DEF Percentile, Below, Equal, n
    <3>3. w[s] \in Int
      BY <2>5
    <3>. DEFINE x == w[s]
    <3>. HIDE DEF x, c
    <3>4. x \in Int
      BY <3>3 DEF x
    <3>5. c * x = n * (q * x) /\ q * x \in Int
      BY <1>1, <2>3, <3>4
    <3>6. (n * (q * x)) \div n = q * x
      BY <1>1, <2>1, <3>5, ExactQuotient
    <3>7. QED BY <3>2, <3>5, <3>6 DEF x
  <2>. DEFINE e == [s \in D |-> q * w[s]]
  <2>. HIDE DEF w, c
  <2>7. DOMAIN e = D /\ \A s \in D : e[s] = q * w[s] /\ e[s] \in Int
    BY <2>3, <2>5
  <2>. HIDE DEF e
  <2>8. SumOf(e) = q * (n * n)
    BY <1>1, <2>3, <2>5, <2>7, SumTimes
  <2>9. q * (n * n) = c * n /\ c * n \in Int
    BY <1>1, <2>2, <2>3
  <2>10. \A s \in D : p[s] = IF m \in LowerBetter THEN 2 * c - e[s] ELSE e[s]
    <3>1. 100 * Scale = 2 * c
      BY BoundsOf DEF c
    <3>2. QED BY <2>6, <2>7, <3>1 DEF Ranked, Invert
  <2>11. DOMAIN p = D
    OBVIOUS
  <2>12. p = [s \in D |-> p[s]]
    OBVIOUS
  <2>. HIDE DEF p
  <2>13. SumOf(p) = c * n
    <3>1. CASE m \in LowerBetter
      <4>1. \A s \in D : e[s] \in Int /\ p[s] = 2 * c - e[s]
        BY <2>7, <2>10, <3>1
      <4>2. 2 * c \in Int
        BY <2>2
      <4>3. SumOf(e) \in Int /\ SumOf(p) = (2 * c) * Cardinality(DOMAIN e) - SumOf(e)
        BY <1>1, <2>7, <2>11, <4>1, <4>2, SumOfRest
      <4>4. Cardinality(DOMAIN e) = n
        BY <2>7 DEF n
      <4>5. (2 * c) * n = 2 * (c * n)
        BY <1>1, <2>2
      <4>. DEFINE x == c * n
      <4>6. x \in Int /\ SumOf(e) = x /\ SumOf(p) = 2 * x - x
        BY <2>8, <2>9, <4>3, <4>4, <4>5
      <4>. HIDE DEF x
      <4>7. SumOf(p) = x
        BY <4>6
      <4>8. QED BY <4>7 DEF x
    <3>2. CASE m \notin LowerBetter
      <4>1. e = [s \in D |-> e[s]]
        BY DEF e
      <4>2. \A s \in D : p[s] = e[s]
        BY <2>10, <3>2
      <4>3. p = e
        BY <2>7, <2>12, <4>1, <4>2
      <4>4. QED BY <2>8, <2>9, <4>3
    <3>3. QED BY <3>1, <3>2
  <2>14. ASSUME NEW u \in D, NEW v \in D
         PROVE  /\ Same(cohort[u], cohort[v]) => p[u] = p[v]
                /\ Less(cohort[u], cohort[v]) => IF m \in LowerBetter THEN p[u] > p[v] ELSE p[u] < p[v]
    <3>1. /\ Same(cohort[u], cohort[v]) => w[u] = w[v]
          /\ Less(cohort[u], cohort[v]) => w[u] < w[v]
      BY RanksOrdered DEF w
    <3>2. w[u] \in Int /\ w[v] \in Int /\ e[u] = q * w[u] /\ e[v] = q * w[v]
          /\ e[u] \in Int /\ e[v] \in Int
      BY <2>5, <2>7
    <3>3. w[u] < w[v] => e[u] < e[v]
      <4>1. \A x, y \in Int : x < y => q * x < q * y
        BY <2>3, <2>4
      <4>2. QED BY <3>2, <4>1
    <3>4. w[u] = w[v] => e[u] = e[v]
      BY <3>2
    <3>5. p[u] = (IF m \in LowerBetter THEN 2 * c - e[u] ELSE e[u])
          /\ p[v] = (IF m \in LowerBetter THEN 2 * c - e[v] ELSE e[v])
      BY <2>10
    <3>6. 2 * c \in Int
      BY <2>2
    <3>. HIDE DEF D
    <3>7. QED BY <3>1, <3>2, <3>3, <3>4, <3>5, <3>6
  <2>15. SumOf(p) = 50 * Scale * Cardinality(DOMAIN cohort)
    BY <2>13 DEF c, n
  <2>16. IsFair(cohort, p, m)
    BY <2>14, <2>15 DEF IsFair
  <2>17. QED BY <2>16 DEF p
<1>4. QED BY <1>2, <1>3

-----------------------------------------------------------------------------
(* What is told of some seats in one set of rows and in another.           *)

\* The rows that are picked to tell why a metric is not there.
PickedFirst(rows, keys) ==
    [m \in DOMAIN Telling(rows, keys) |-> First(Telling(rows, keys)[m])]
PickedLast(rows, keys) ==
    [m \in DOMAIN Telling(rows, keys) |-> Last(Telling(rows, keys)[m])]

\* The two say the same of these seats.
Repeats(rows, other, keys) ==
    \A k \in keys : /\ other[k].metrics = rows[k].metrics
                    /\ other[k].unavailable = rows[k].unavailable

LEMMA ObservedAgain ==
    ASSUME NEW rows, NEW other, NEW keys, Repeats(rows, other, keys)
    PROVE  Observed(other, keys) = Observed(rows, keys)
<1>. DEFINE of(r, m) == {k \in keys : m \in DOMAIN r[k].metrics}
            seen(r, m) == [k \in of(r, m) |-> r[k].metrics[m]]
<1>1. \A m : of(other, m) = of(rows, m)
  BY DEF Repeats
<1>2. \A m : \A k \in of(rows, m) : other[k].metrics[m] = rows[k].metrics[m]
  BY DEF Repeats
<1>3. \A m : seen(other, m) = seen(rows, m)
  <2>1. SUFFICES ASSUME NEW m PROVE seen(other, m) = seen(rows, m)
    OBVIOUS
  <2>. DEFINE S == of(rows, m)
  <2>2. \A k \in S : other[k].metrics[m] = rows[k].metrics[m]
    BY <1>2
  <2>3. of(other, m) = S
    BY <1>1
  <2>. HIDE DEF of, S
  <2>4. [k \in S |-> other[k].metrics[m]] = [k \in S |-> rows[k].metrics[m]]
    BY <2>2
  <2>5. QED BY <2>3, <2>4 DEF S
<1>4. Observed(other, keys) = [m \in Metric |-> seen(other, m)]
      /\ Observed(rows, keys) = [m \in Metric |-> seen(rows, m)]
  BY DEF Observed
<1>. HIDE DEF seen
<1>5. QED BY <1>3, <1>4

LEMMA ToldAgain ==
    ASSUME NEW rows, NEW other, NEW keys \in SUBSET (Match \X Account), Repeats(rows, other, keys),
           NEW published
    PROVE  /\ Unavailable(other, PickedFirst(other, keys), published)
                = Unavailable(rows, PickedFirst(rows, keys), published)
           /\ Unavailable(other, PickedLast(other, keys), published)
                = Unavailable(rows, PickedLast(rows, keys), published)
<1>. DEFINE of(r, m) == {k \in keys : m \in DOMAIN r[k].unavailable}
            told == Telling(rows, keys)
<1>1. \A m : of(other, m) = of(rows, m)
  BY DEF Repeats
<1>2. /\ Telling(other, keys) = [m \in {m \in Metric : of(other, m) # {}} |-> of(other, m)]
      /\ told = [m \in {m \in Metric : of(rows, m) # {}} |-> of(rows, m)]
  BY DEF Telling
<1>3. \A m \in DOMAIN told : told[m] # {} /\ told[m] \in SUBSET keys
  BY <1>2
<1>. HIDE DEF of
<1>4. Telling(other, keys) = told
  BY <1>1, <1>2
<1>. HIDE DEF told
<1>5. ASSUME NEW m \in DOMAIN told PROVE First(told[m]) \in keys /\ Last(told[m]) \in keys
  <2>1. told[m] # {} /\ told[m] \in SUBSET keys /\ told[m] \in SUBSET (Match \X Account)
    BY <1>3
  <2>2. First(told[m]) \in told[m] /\ Last(told[m]) \in told[m]
    BY <2>1, PickedAreThere
  <2>3. QED BY <2>1, <2>2
<1>6. /\ PickedFirst(other, keys) = PickedFirst(rows, keys)
      /\ PickedLast(other, keys) = PickedLast(rows, keys)
  BY <1>4 DEF PickedFirst, PickedLast, told
<1>7. /\ \A m \in DOMAIN PickedFirst(rows, keys) : PickedFirst(rows, keys)[m] \in keys
      /\ \A m \in DOMAIN PickedLast(rows, keys) : PickedLast(rows, keys)[m] \in keys
  BY <1>5 DEF PickedFirst, PickedLast, told
<1>8. ASSUME NEW picked, \A m \in DOMAIN picked : picked[m] \in keys
      PROVE  Unavailable(other, picked, published) = Unavailable(rows, picked, published)
  <2>1. \A m \in DOMAIN picked : other[picked[m]].unavailable[m] = rows[picked[m]].unavailable[m]
    BY <1>8 DEF Repeats
  <2>2. QED BY <2>1 DEF Unavailable
<1>9. QED BY <1>6, <1>7, <1>8

-----------------------------------------------------------------------------
(* The rows of a role.                                                     *)

InThatRole(rows, r) == {k \in DOMAIN rows : rows[k].role = r}
RowsOf(rows, r) == Only(rows, InThatRole(rows, r))

LEMMA RowsOfAre ==
    ASSUME NEW rows, NEW r
    PROVE  /\ DOMAIN RowsOf(rows, r) = InThatRole(rows, r)
           /\ \A k \in InThatRole(rows, r) : RowsOf(rows, r)[k] = rows[k]
  BY DEF RowsOf, Only, InThatRole

LEMMA TournamentAlone ==
    ASSUME NEW rows, Faithful(rows), NEW r, NEW s, s[2] = r
    PROVE  Tournament(RowsOf(rows, r), s) = Tournament(rows, s)
<1>. DEFINE other == RowsOf(rows, r)
            keys == KeysOf(rows, s)
<1>1. DOMAIN other = InThatRole(rows, r) /\ \A k \in DOMAIN other : other[k] = rows[k]
  BY RowsOfAre
<1>2. keys \in SUBSET InThatRole(rows, r)
  <2>1. SUFFICES ASSUME NEW k \in keys PROVE k \in DOMAIN rows /\ rows[k].role = r
    BY DEF InThatRole
  <2>2. k \in DOMAIN rows /\ <<rows[k].account, rows[k].role>> = s
    BY DEF KeysOf
  <2>3. QED BY <2>2
<1>. HIDE DEF other
<1>3. KeysOf(other, s) = keys
  <2>1. KeysOf(other, s) \in SUBSET keys
    BY <1>1 DEF KeysOf, InThatRole
  <2>2. keys \in SUBSET KeysOf(other, s)
    BY <1>1, <1>2 DEF KeysOf
  <2>3. QED BY <2>1, <2>2
<1>4. Repeats(rows, other, keys) /\ keys \in SUBSET (Match \X Account)
  <2>1. keys \in SUBSET DOMAIN rows
    BY DEF KeysOf
  <2>2. DOMAIN rows \in SUBSET (Match \X Account)
    BY FinitelyMany DEF Faithful
  <2>3. QED BY <1>1, <1>2, <2>1, <2>2 DEF Repeats
<1>5. ASSUME NEW o
      PROVE  LET p == Pool(Observed(o, KeysOf(o, s)), "player_tournament", s, NoMatch)
             IN  Tournament(o, s) =
                    [matches |-> Matches(KeysOf(o, s)), metrics |-> p,
                     unavailable |-> Unavailable(o, PickedLast(o, KeysOf(o, s)), DOMAIN p)]
  BY DEF Tournament, KeysOf, PickedLast
<1>. HIDE DEF keys
<1>6. Observed(other, keys) = Observed(rows, keys)
  BY <1>4, ObservedAgain
<1>7. \A published : Unavailable(other, PickedLast(other, keys), published)
                        = Unavailable(rows, PickedLast(rows, keys), published)
  BY <1>4, ToldAgain
<1>8. Tournament(other, s) = Tournament(rows, s)
  BY <1>3, <1>5, <1>6, <1>7 DEF keys
<1>9. QED BY <1>8 DEF other

LEMMA PlayerAlone ==
    ASSUME NEW rows, Faithful(rows), NEW s \in Subjects(rows)
    PROVE  LET other == RowsOf(rows, s[2])
           IN  /\ s \in Subjects(other)
               /\ ScorePlayer(Corpus(other), s) = ScorePlayer(Corpus(rows), s)
<1>. DEFINE r == s[2]
            other == RowsOf(rows, r)
            c1 == Corpus(rows).tournaments
            c2 == Corpus(other).tournaments
<1>1. DOMAIN other = InThatRole(rows, r) /\ \A k \in DOMAIN other : other[k] = rows[k]
  BY RowsOfAre
<1>2. c1 = [u \in Subjects(rows) |-> Tournament(rows, u)]
      /\ c2 = [u \in Subjects(other) |-> Tournament(other, u)]
  BY CorpusIs
<1>3. \A u : u[2] = r => Tournament(other, u) = Tournament(rows, u)
  BY TournamentAlone
<1>. HIDE DEF other, c1, c2
<1>4. Subjects(other) = {u \in Subjects(rows) : u[2] = r}
  <2>1. ASSUME NEW u \in Subjects(other) PROVE u \in Subjects(rows) /\ u[2] = r
    <3>1. PICK k \in DOMAIN other : u = <<other[k].account, other[k].role>>
      BY DEF Subjects
    <3>2. k \in DOMAIN rows /\ rows[k].role = r /\ u = <<rows[k].account, rows[k].role>>
      BY <1>1, <3>1 DEF InThatRole
    <3>3. QED BY <3>2 DEF Subjects
  <2>2. ASSUME NEW u \in Subjects(rows), u[2] = r PROVE u \in Subjects(other)
    <3>1. PICK k \in DOMAIN rows : u = <<rows[k].account, rows[k].role>>
      BY DEF Subjects
    <3>2. k \in InThatRole(rows, r)
      BY <2>2, <3>1 DEF InThatRole
    <3>3. k \in DOMAIN other /\ u = <<other[k].account, other[k].role>>
      BY <1>1, <3>1, <3>2
    <3>4. QED BY <3>3 DEF Subjects
  <2>3. QED BY <2>1, <2>2
<1>5. s \in Subjects(other)
  BY <1>4
<1>6. c2[s] = c1[s]
  BY <1>2, <1>3, <1>5
<1>7. Peers(Corpus(other), s) = Peers(Corpus(rows), s)
  <2>1. /\ Peers(Corpus(other), s) = [u \in {u \in DOMAIN c2 : u[2] = r} |-> c2[u]]
        /\ Peers(Corpus(rows), s) = [u \in {u \in DOMAIN c1 : u[2] = r} |-> c1[u]]
    BY DEF Peers, c1, c2
  <2>2. {u \in DOMAIN c2 : u[2] = r} = {u \in DOMAIN c1 : u[2] = r}
    BY <1>2, <1>4
  <2>3. \A u \in {u \in DOMAIN c1 : u[2] = r} : c2[u] = c1[u]
    BY <1>2, <1>3, <1>4
  <2>4. QED BY <2>1, <2>2, <2>3
<1>8. ScorePlayer(Corpus(other), s) = ScorePlayer(Corpus(rows), s)
  BY <1>6, <1>7 DEF ScorePlayer, c1, c2
<1>9. QED BY <1>5, <1>8 DEF other

-----------------------------------------------------------------------------
(* What roles are to a team.                                               *)

\* The two differ in the accounts and roles of the rows at most.
SameTeams(rows, other) ==
    /\ DOMAIN other = DOMAIN rows
    /\ \A k \in DOMAIN rows : /\ other[k].team = rows[k].team
                              /\ other[k].metrics = rows[k].metrics
                              /\ other[k].unavailable = rows[k].unavailable

LEMMA TeamsWhateverRoles ==
    ASSUME NEW rows, Faithful(rows), NEW other, SameTeams(rows, other)
    PROVE  Corpus(other).teams = Corpus(rows).teams
<1>1. DOMAIN other = DOMAIN rows
      /\ \A k \in DOMAIN rows : other[k].team = rows[k].team
  BY DEF SameTeams
<1>2. DOMAIN rows \in SUBSET (Match \X Account)
  BY FinitelyMany DEF Faithful
<1>3. \A keys \in SUBSET DOMAIN rows : Repeats(rows, other, keys)
  BY DEF SameTeams, Repeats
<1>4. TeamsOf(other) = TeamsOf(rows)
  BY <1>1 DEF TeamsOf
<1>5. \A t : OfTeam(other, t) = OfTeam(rows, t) /\ OfTeam(rows, t) \in SUBSET DOMAIN rows
  BY <1>1 DEF OfTeam
<1>6. \A t, n : TeamMatch(other, t, n) = TeamMatch(rows, t, n)
  <2>1. SUFFICES ASSUME NEW t, NEW n PROVE TeamMatch(other, t, n) = TeamMatch(rows, t, n)
    OBVIOUS
  <2>2. TeamKeys(other, t, n) = TeamKeys(rows, t, n) /\ TeamKeys(rows, t, n) \in SUBSET DOMAIN rows
    BY <1>1 DEF TeamKeys
  <2>3. Observed(other, TeamKeys(rows, t, n)) = Observed(rows, TeamKeys(rows, t, n))
    BY <1>3, <2>2, ObservedAgain
  <2>4. \A o : TeamMatch(o, t, n) = Pool(Observed(o, TeamKeys(o, t, n)), "team_match", t, n)
    BY DEF TeamMatch, TeamKeys
  <2>5. QED BY <2>2, <2>3, <2>4
<1>7. TeamMatches(other) = TeamMatches(rows)
  <2>1. \A o : TeamMatches(o) = [t \in TeamsOf(o) |->
                                    [n \in Matches(OfTeam(o, t)) |-> TeamMatch(o, t, n)]]
    BY DEF TeamMatches, OfTeam
  <2>. DEFINE byMatch(o, t) == [n \in Matches(OfTeam(o, t)) |-> TeamMatch(o, t, n)]
  <2>2. \A t : byMatch(other, t) = byMatch(rows, t)
    BY <1>5, <1>6
  <2>3. TeamMatches(other) = [t \in TeamsOf(other) |-> byMatch(other, t)]
        /\ TeamMatches(rows) = [t \in TeamsOf(rows) |-> byMatch(rows, t)]
    BY <2>1
  <2>. HIDE DEF byMatch
  <2>4. QED BY <1>4, <2>2, <2>3
<1>8. \A t, b : TeamTournament(other, t, b) = TeamTournament(rows, t, b)
  <2>1. SUFFICES ASSUME NEW t, NEW b PROVE TeamTournament(other, t, b) = TeamTournament(rows, t, b)
    OBVIOUS
  <2>. DEFINE observed == [metric \in Metric |->
                 [m \in {m \in DOMAIN b : metric \in DOMAIN b[m]} |-> AsObservation(b[m][metric])]]
              p == Pool(observed, "team_tournament", t, NoMatch)
              keys == OfTeam(rows, t)
  <2>2. \A o : TeamTournament(o, t, b) =
                  [matches |-> Matches(OfTeam(o, t)), metrics |-> p,
                   unavailable |-> Unavailable(o, PickedFirst(o, OfTeam(o, t)), DOMAIN p)]
    BY DEF TeamTournament, OfTeam, PickedFirst
  <2>3. keys \in SUBSET (Match \X Account) /\ Repeats(rows, other, keys)
    BY <1>2, <1>3, <1>5
  <2>. HIDE DEF p, keys
  <2>4. Unavailable(other, PickedFirst(other, keys), DOMAIN p)
           = Unavailable(rows, PickedFirst(rows, keys), DOMAIN p)
    BY <2>3, ToldAgain
  <2>5. OfTeam(other, t) = keys /\ OfTeam(rows, t) = keys
    BY <1>5 DEF keys
  <2>6. QED BY <2>2, <2>4, <2>5
<1>9. /\ Corpus(rows).teams = [t \in TeamsOf(rows) |-> TeamTournament(rows, t, TeamMatches(rows)[t])]
      /\ Corpus(other).teams = [t \in TeamsOf(other) |-> TeamTournament(other, t, TeamMatches(other)[t])]
  BY CorpusIs
<1>10. QED BY <1>4, <1>7, <1>8, <1>9

LEMMA TeamScoresWhateverRoles ==
    ASSUME NEW rows, Faithful(rows), NEW other, SameTeams(rows, other)
    PROVE  ScoresOf(Corpus(other)).teams = ScoresOf(Corpus(rows)).teams
<1>1. Corpus(other).teams = Corpus(rows).teams
  BY TeamsWhateverRoles
<1>2. \A t : ScoreTeam(Corpus(other), t) = ScoreTeam(Corpus(rows), t)
  BY <1>1 DEF ScoreTeam
<1>3. /\ ScoresOf(Corpus(rows)).teams =
            [t \in DOMAIN Corpus(rows).teams |-> ScoreTeam(Corpus(rows), t)]
      /\ ScoresOf(Corpus(other)).teams =
            [t \in DOMAIN Corpus(other).teams |-> ScoreTeam(Corpus(other), t)]
  BY ScoresAre
<1>4. QED BY <1>1, <1>2, <1>3

-----------------------------------------------------------------------------
(* Who is ranked of a role.                                                *)

\* Those of a role that have a percentile of a metric.
RankedOf(rows, r, m) == {s \in Subjects(rows) : s[2] = r /\ m \in DOMAIN PercentilesOf(rows, s)}

LEMMA CohortOfRole ==
    ASSUME NEW rows, Faithful(rows), NEW m \in Metric, NEW s \in Subjects(rows), NEW u \in Subjects(rows),
           u[2] = s[2]
    PROVE  CohortOf(rows, u, m) = CohortOf(rows, s, m)
<1>1. Peers(Corpus(rows), u) = Peers(Corpus(rows), s)
  BY DEF Peers
<1>2. QED BY <1>1 DEF CohortOf

LEMMA RankedAreCohort ==
    ASSUME NEW rows, Faithful(rows), NEW r, NEW m \in Metric, NEW s \in RankedOf(rows, r, m)
    PROVE  /\ RankedOf(rows, r, m) = DOMAIN CohortOf(rows, s, m)
           /\ \A u \in RankedOf(rows, r, m) :
                 /\ CohortOf(rows, s, m)[u] = Tournament(rows, u).metrics[m].value
                 /\ PercentilesOf(rows, u)[m] =
                        Ranked(m, CohortOf(rows, s, m)[u], CohortOf(rows, s, m))
<1>. DEFINE cohort == CohortOf(rows, s, m)
<1>0. s \in Subjects(rows) /\ s[2] = r /\ m \in DOMAIN PercentilesOf(rows, s)
  BY DEF RankedOf
<1>1. /\ DOMAIN cohort = InRole(Having(rows, r, m), r)
      /\ \A u \in DOMAIN cohort : cohort[u] = Tournament(rows, u).metrics[m].value
  BY <1>0, CohortIs
<1>2. Cardinality(Having(rows, r, m)) >= MinMatches
  BY <1>0, PercentilesAre DEF RankedThere
<1>. HIDE DEF cohort
<1>3. \A u \in Subjects(rows) : u[2] = r => (m \in DOMAIN PercentilesOf(rows, u) <=> Counts(rows, u, m))
  BY <1>2, PercentilesAre DEF RankedThere
<1>4. \A u : u \in RankedOf(rows, r, m) <=> u \in Subjects(rows) /\ u[2] = r /\ Counts(rows, u, m)
  BY <1>3 DEF RankedOf
<1>5. RankedOf(rows, r, m) \in SUBSET DOMAIN cohort
  <2>1. SUFFICES ASSUME NEW u \in RankedOf(rows, r, m) PROVE u \in DOMAIN cohort
    OBVIOUS
  <2>2. u \in Subjects(rows) /\ u[2] = r /\ Counts(rows, u, m)
    BY <1>4
  <2>3. u = <<u[1], r>> /\ u[1] \in Account
    BY <2>2, SubjectsAre
  <2>4. Counts(rows, <<u[1], r>>, m)
    BY <2>2, <2>3
  <2>5. u[1] \in Having(rows, r, m)
    BY <2>3, <2>4 DEF Having
  <2>6. QED BY <1>1, <2>3, <2>5 DEF InRole
<1>6. DOMAIN cohort \in SUBSET RankedOf(rows, r, m)
  <2>1. SUFFICES ASSUME NEW u \in DOMAIN cohort PROVE u \in RankedOf(rows, r, m)
    OBVIOUS
  <2>2. PICK a \in Having(rows, r, m) : u = <<a, r>>
    BY <1>1 DEF InRole
  <2>3. Counts(rows, u, m) /\ u[2] = r
    BY <2>2 DEF Having
  <2>4. KeysOf(rows, u) # {}
    BY <2>3 DEF Counts, Shows
  <2>5. u \in Subjects(rows)
    BY <2>4, SubjectsAre
  <2>6. QED BY <1>4, <2>3, <2>5
<1>7. ASSUME NEW u \in RankedOf(rows, r, m)
      PROVE  PercentilesOf(rows, u)[m] = Ranked(m, cohort[u], cohort)
  <2>1. u \in Subjects(rows) /\ u[2] = s[2] /\ m \in DOMAIN PercentilesOf(rows, u)
    BY <1>0 DEF RankedOf
  <2>2. CohortOf(rows, u, m) = cohort
    BY <1>0, <2>1, CohortOfRole DEF cohort
  <2>3. PercentilesOf(rows, u)[m]
           = Ranked(m, Peers(Corpus(rows), u)[u].metrics[m].value, CohortOf(rows, u, m))
    BY <2>1 DEF PercentilesOf, Percentiles, CohortOf
  <2>4. Peers(Corpus(rows), u)[u] = Tournament(rows, u)
    BY <2>1, PeersAre
  <2>5. cohort[u] = Tournament(rows, u).metrics[m].value
    BY <1>1, <1>5
  <2>6. QED BY <2>2, <2>3, <2>4, <2>5
<1>8. QED BY <1>1, <1>5, <1>6, <1>7 DEF cohort

\* A cohort is not larger than the accounts are many.
LEMMA ScaleServes ==
    ASSUME NEW rows, Faithful(rows), NEW m \in Metric, NEW s \in Subjects(rows)
    PROVE  LET n == Cardinality(DOMAIN CohortOf(rows, s, m)) IN n # 0 => (50 * Scale) % n = 0
<1>. DEFINE n == Cardinality(DOMAIN CohortOf(rows, s, m))
<1>1. n = Cardinality(Having(rows, s[2], m))
  BY CohortCount
<1>2. Having(rows, s[2], m) \in SUBSET Account /\ IsFiniteSet(Account)
  BY RootAssumption DEF Having
<1>3. n <= Cardinality(Account) /\ n \in Nat /\ Cardinality(Account) \in Nat
  BY <1>1, <1>2, FS_Subset, FS_CardinalityType
<1>. HIDE DEF n
<1>4. n # 0 => n \in 1 .. Cardinality(Account)
  BY <1>3
<1>5. n # 0 => (50 * Scale) % n = 0
  BY <1>4, ScaleAssumption
<1>6. QED BY <1>5 DEF n

LEMMA RoleRankedFairly ==
    ASSUME NEW rows, Faithful(rows), NEW r, NEW m \in Metric
    PROVE  LET ranked == RankedOf(rows, r, m)
           IN  IsFair([s \in ranked |-> Tournament(rows, s).metrics[m].value],
                      [s \in ranked |-> PercentilesOf(rows, s)[m]], m)
<1>. DEFINE ranked == RankedOf(rows, r, m)
            values == [s \in ranked |-> Tournament(rows, s).metrics[m].value]
            percentiles == [s \in ranked |-> PercentilesOf(rows, s)[m]]
<1>1. CASE ranked = {}
  <2>1. DOMAIN values = {} /\ DOMAIN percentiles = {}
    BY <1>1
  <2>. HIDE DEF values, percentiles
  <2>2. SumOf(percentiles) = 0
    BY <2>1, SumOfNothing
  <2>3. Cardinality(DOMAIN values) = 0
    BY <2>1, FS_EmptySet
  <2>4. Scale \in Nat
    BY BoundsOf
  <2>5. SumOf(percentiles) = 50 * Scale * Cardinality(DOMAIN values)
    BY <2>2, <2>3, <2>4
  <2>6. IsFair(values, percentiles, m)
    BY <2>1, <2>5 DEF IsFair
  <2>7. QED BY <2>6 DEF values, percentiles
<1>2. CASE ranked # {}
  <2>1. PICK s \in ranked : TRUE
    BY <1>2
  <2>. DEFINE cohort == CohortOf(rows, s, m)
              fair == [u \in DOMAIN cohort |-> Ranked(m, cohort[u], cohort)]
  <2>2. s \in Subjects(rows)
    BY DEF RankedOf
  <2>3. AreValues(cohort)
    BY <2>2, CohortIs DEF AreValues
  <2>4. LET n == Cardinality(DOMAIN cohort) IN n # 0 => (50 * Scale) % n = 0
    BY <2>2, ScaleServes
  <2>5. /\ ranked = DOMAIN cohort
        /\ \A u \in ranked : /\ cohort[u] = Tournament(rows, u).metrics[m].value
                             /\ PercentilesOf(rows, u)[m] = Ranked(m, cohort[u], cohort)
    BY RankedAreCohort
  <2>6. cohort = [u \in DOMAIN cohort |-> cohort[u]]
    BY DEF CohortOf, Cohort
  <2>. HIDE DEF cohort
  <2>7. IsFair(cohort, fair, m)
    BY <2>3, <2>4, FairRanks
  <2>. HIDE DEF ranked
  <2>8. values = cohort /\ percentiles = fair
    BY <2>5, <2>6
  <2>9. QED BY <2>7, <2>8 DEF ranked
<1>3. QED BY <1>1, <1>2

-----------------------------------------------------------------------------
(* What is stored.                                                         *)

LEMMA AsRegistered ==
    ASSUME NEW rows, AreRows(rows)
    PROVE  SameTeams(rows, [k \in DOMAIN rows |-> [rows[k] EXCEPT !.role = Registered[k[2]]]])
<1>. DEFINE other == [k \in DOMAIN rows |-> [rows[k] EXCEPT !.role = Registered[k[2]]]]
<1>1. ASSUME NEW k \in DOMAIN rows
      PROVE  /\ other[k].team = rows[k].team
             /\ other[k].metrics = rows[k].metrics
             /\ other[k].unavailable = rows[k].unavailable
  <2>1. PICK account, team, role, metrics, unavailable :
           rows[k] = [account |-> account, team |-> team, role |-> role,
                      metrics |-> metrics, unavailable |-> unavailable]
    BY DEF AreRows, IsRow
  <2>2. other[k] = [rows[k] EXCEPT !.role = Registered[k[2]]]
    OBVIOUS
  <2>. HIDE DEF other
  <2>3. QED BY <2>1, <2>2
<1>2. DOMAIN other = DOMAIN rows
  OBVIOUS
<1>. HIDE DEF other
<1>3. SameTeams(rows, other)
  BY <1>1, <1>2 DEF SameTeams
<1>4. QED BY <1>3 DEF other

LEMMA StoredPlayer ==
    \A rows : \A s \in Subjects(rows) : ScoresOf(Corpus(rows)).players[s] = ScorePlayer(Corpus(rows), s)
<1>1. SUFFICES ASSUME NEW rows, NEW s \in Subjects(rows)
               PROVE  ScoresOf(Corpus(rows)).players[s] = ScorePlayer(Corpus(rows), s)
  OBVIOUS
<1>2. Corpus(rows).tournaments = [u \in Subjects(rows) |-> Tournament(rows, u)]
  BY CorpusIs
<1>3. ScoresOf(Corpus(rows)).players =
         [u \in DOMAIN Corpus(rows).tournaments |-> ScorePlayer(Corpus(rows), u)]
  BY ScoresAre
<1>4. QED BY <1>2, <1>3

\* The players of a role are scored as if there were no others, and ranked
\* fairly; the teams whatever the roles (Peers, MidRankPercentile, ScoreTeam).
THEOREM RolesKeptApart == Spec => []RolesApart
<1>1. Told /\ Typed => RolesApart
  <2>1. SUFFICES ASSUME Told, Typed, Scored PROVE RolesApart
    BY DEF RolesApart
  <2>. DEFINE rows == Rows
              asRegistered == [k \in DOMAIN rows |-> [rows[k] EXCEPT !.role = Registered[k[2]]]]
  <2>2. Faithful(rows) /\ scores = ScoresOf(Corpus(rows)) /\ scores.matches = rows
    BY <2>1, StoredIs
  <2>. HIDE DEF rows
  <2>3. Players = Subjects(rows)
    BY <2>2, PlayersThere DEF Players
  <2>4. \A s \in Subjects(rows) : /\ scores.players[s].percentiles = PercentilesOf(rows, s)
                                  /\ scores.players[s].record = Tournament(rows, s)
    BY <2>2, PlayerIs
  <2>. DEFINE same(r) == {s \in Players : s[2] = r}
              ranked(r, m) == {s \in same(r) : m \in DOMAIN scores.players[s].percentiles}
              Alone(r, alone) == \A s \in same(r) : scores.players[s] = alone.players[s]
              Fair(r) == \A m \in Metric :
                    IsFair([s \in ranked(r, m) |-> scores.players[s].record.metrics[m].value],
                           [s \in ranked(r, m) |-> scores.players[s].percentiles[m]], m)
  <2>5. ASSUME NEW r PROVE Alone(r, ScoresOf(Corpus(RowsOf(rows, r))))
    <3>1. SUFFICES ASSUME NEW s \in Subjects(rows), s[2] = r
                   PROVE  scores.players[s] = ScoresOf(Corpus(RowsOf(rows, r))).players[s]
      BY <2>3
    <3>. DEFINE other == RowsOf(rows, r)
    <3>2. s \in Subjects(other) /\ ScorePlayer(Corpus(other), s) = ScorePlayer(Corpus(rows), s)
      BY <2>2, <3>1, PlayerAlone
    <3>. HIDE DEF other
    <3>3. \A o : \A u \in Subjects(o) : ScoresOf(Corpus(o)).players[u] = ScorePlayer(Corpus(o), u)
      BY StoredPlayer
    <3>4. /\ scores.players[s] = ScorePlayer(Corpus(rows), s)
          /\ ScoresOf(Corpus(other)).players[s] = ScorePlayer(Corpus(other), s)
      BY <2>2, <3>2, <3>3
    <3>5. QED BY <3>2, <3>4 DEF other
  <2>6. ASSUME NEW r PROVE Fair(r)
    <3>1. SUFFICES ASSUME NEW m \in Metric
                   PROVE  IsFair([s \in ranked(r, m) |-> scores.players[s].record.metrics[m].value],
                                 [s \in ranked(r, m) |-> scores.players[s].percentiles[m]], m)
      OBVIOUS
    <3>2. ranked(r, m) = RankedOf(rows, r, m)
      BY <2>3, <2>4 DEF RankedOf
    <3>. HIDE DEF ranked
    <3>. DEFINE S == RankedOf(rows, r, m)
    <3>3. S \in SUBSET Subjects(rows)
      BY DEF RankedOf
    <3>. HIDE DEF S
    <3>4. /\ [s \in S |-> scores.players[s].record.metrics[m].value]
                = [s \in S |-> Tournament(rows, s).metrics[m].value]
          /\ [s \in S |-> scores.players[s].percentiles[m]] = [s \in S |-> PercentilesOf(rows, s)[m]]
      BY <2>4, <3>3
    <3>5. IsFair([s \in S |-> Tournament(rows, s).metrics[m].value],
                 [s \in S |-> PercentilesOf(rows, s)[m]], m)
      BY <2>2, RoleRankedFairly DEF S
    <3>6. QED BY <3>2, <3>4, <3>5 DEF S
  <2>7. scores.teams = ScoresOf(Corpus(asRegistered)).teams
    <3>1. SameTeams(rows, asRegistered)
      BY <2>2, AsRegistered DEF Faithful, Grounded
    <3>. HIDE DEF asRegistered
    <3>2. ScoresOf(Corpus(asRegistered)).teams = ScoresOf(Corpus(rows)).teams
      BY <2>2, <3>1, TeamScoresWhateverRoles
    <3>3. QED BY <2>2, <3>2
  <2>8. RolesApart <=>
           /\ \A r \in Role :
                 \A others \in {RowsOf(rows, r)} : \A alone \in Scorings(others) :
                     Alone(r, alone) /\ Fair(r)
           /\ \A others \in {asRegistered} : \A alone \in Scorings(others) :
                 scores.teams = alone.teams
    BY <2>1, <2>2 DEF RolesApart, RowsOf, InThatRole
  <2>. HIDE DEF Alone, Fair, asRegistered
  <2>9. QED BY <2>5, <2>6, <2>7, <2>8, ScoringsAre
<1>2. QED BY <1>1, AlwaysTold, AlwaysTyped, PTL

=============================================================================
