----------------------------- MODULE MCScoreCorpus -----------------------------
EXTENDS ScoreCorpus

\* Three teams, each with a player of either role; each plays each other.
MCAccount == 1 .. 6
MCTeam == {"A", "B", "C"}
MCRole == {"1", "2"}
MCMatch == 1 .. 3
TeamOf(a) == IF a <= 2 THEN "A" ELSE IF a <= 4 THEN "B" ELSE "C"
Pairing == <<{"A", "B"}, {"B", "C"}, {"A", "C"}>>
MCPlays == [m \in MCMatch |-> [a \in {a \in MCAccount : TeamOf(a) \in Pairing[m]} |-> TeamOf(a)]]
MCRegistered == [a \in MCAccount |-> IF a % 2 = 1 THEN "1" ELSE "2"]

MCRequests == {<<1, 1, "2">>, <<2, 3, "2">>, <<2, 5, "2">>, <<3, 2, "1">>}

MCMetric == {"rate", "deaths", "timing", "saves"}
MCRule == [m \in MCMetric |-> CASE m = "rate" -> "rate" [] m = "deaths" -> "sum"
                                [] m = "timing" -> "percentile" [] m = "saves" -> "seconds"]
MCLowerBetter == {"deaths"}
MCOfficial == {"rate", "deaths", "timing"}
MCExperimental == {"saves"}

Weights(S, w) == [m \in S |-> w]
MCAxis == {"laning", "fight", "vision", "endgame"}
\* The axes of role 2 are fewer, and one asks for a metric that is V3.
MCComponent == [r \in MCRole |-> [x \in MCAxis |->
    CASE x = "laning" -> [rate |-> 10]
      [] x = "fight" -> IF r = "1" THEN [rate |-> 4, deaths |-> 6] ELSE [deaths |-> 10]
      [] x = "vision" -> IF r = "1" THEN [timing |-> 10] ELSE [saves |-> 10]
      [] x = "endgame" -> IF r = "1" THEN [deaths |-> 10] ELSE <<>>]]
MCAxisWeight == [r \in MCRole |->
    IF r = "1" THEN [laning |-> 4, fight |-> 3, vision |-> 2, endgame |-> 1]
    ELSE [laning |-> 7, fight |-> 3, vision |-> 0, endgame |-> 0]]
MCMandatory == [r \in MCRole |-> IF r = "1" THEN {"laning"} ELSE {"laning", "fight"}]
MCV3Component == [x \in MCAxis |-> IF x = "fight" THEN {} ELSE {"saves"}]
MCTeamComponent == [laning |-> [rate |-> 10], fight |-> [rate |-> 5, deaths |-> 5],
                    vision |-> [timing |-> 10], endgame |-> [deaths |-> 10]]
MCTeamWeight == [laning |-> 4, fight |-> 3, vision |-> 2, endgame |-> 1]
MCTeamMandatory == {"laning"}
MCTeamOptional == {"fight", "vision", "endgame"}

Obs(v, num, den) == [value |-> v, num |-> num, den |-> den]
Share(n, d) == Obs(<<n, d>>, <<<<n, 1>>>>, <<<<d, 1>>>>)
Count(n) == Obs(<<n, 1>>, <<<<n, 1>>>>, <<>>)

\* Full: everything is measured, no two players of a match are the same. Even:
\* there are ties, and a timing that does not say of how many. Gaps: no timing,
\* and a player who had no chance. Blind: no rates.
Skill == <<1, 2, 2, 3, 3, 1>>
NoChance == Obs(<<0, 1>>, <<<<0, 1>>>>, <<<<0, 1>>>>)
MCForm == {"full", "even", "gaps", "blind"}
MCMeasured == [f \in MCForm |-> [m \in MCMatch |-> [a \in DOMAIN MCPlays[m] |->
    CASE f = "full" -> [rate |-> Share(Skill[a], 2 + m), deaths |-> Count(Skill[a] + m),
                        timing |-> Share(Skill[a], 2), saves |-> Count(4 - Skill[a])]
      [] f = "even" -> [rate |-> Share(1, 2), deaths |-> Count(2),
                        timing |-> IF a = 5 THEN Count(2) ELSE Share(Skill[a], 2)]
      [] f = "gaps" -> IF Skill[a] = 1 THEN [rate |-> NoChance, deaths |-> Count(0)]
                       ELSE [rate |-> Share(Skill[a], 1), deaths |-> Count(2), saves |-> Count(2)]
      [] f = "blind" -> [deaths |-> Count(1), timing |-> Share(1, Skill[a]),
                         saves |-> Count(1)]]]]
MCWithheld == [f \in MCForm |-> [m \in MCMatch |-> [a \in DOMAIN MCPlays[m] |->
    [metric \in MCMetric \ DOMAIN MCMeasured[f][m][a] |-> "gates_not_met"]]]]
=============================================================================
