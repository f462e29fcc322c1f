------------------------------- MODULE Episodes -------------------------------
(***************************************************************************)
(* The behaviour episodes of a match, found in one pass over its fact file *)
(* (internal/replay/episodes).  Ward placements and respawns are handled   *)
(* by the code and left out here: no fact builder emits them.              *)
(***************************************************************************)
EXTENDS MatchFacts

CONSTANT FightGap       \* time after a death that ends a fight (30 seconds)

ASSUME EpisodesAssumption == FightGap \in Nat

Episode(kind, start, end, who, evidence) ==
    [kind |-> kind, start |-> start, end |-> end, who |-> who, evidence |-> evidence]

NoFight == [open |-> FALSE, start |-> 0, last |-> 0, accounts |-> {}, seqs |-> <<>>]
NoRound == <<>>         \* otherwise <<time of the death>>

\* What Build carries along the file.
NewBuild == [list |-> <<>>, rounds |-> [h \in Hero |-> NoRound],
             fight |-> NoFight, smokes |-> {}]

Add(b, episode) == [b EXCEPT !.list = Append(@, episode)]

\* fightWindow.close: a fight takes two accounts.
CloseFight(b) ==
    LET w == b.fight IN
    [(IF w.open /\ Cardinality(w.accounts) >= 2
      THEN Add(b, Episode("fight", w.start, w.last + Second, w.accounts, w.seqs))
      ELSE b) EXCEPT !.fight = NoFight]

\* A slip: a fight lasts FightGap from its first death.
AddDeath_FromStart(b, f) ==
    LET c == IF b.fight.open /\ f.at - b.fight.start > FightGap THEN CloseFight(b) ELSE b
        w == IF c.fight.open THEN c.fight
             ELSE [start |-> f.at, accounts |-> {}, seqs |-> <<>>]
    IN  [c EXCEPT !.fight = [open |-> TRUE, start |-> w.start, last |-> f.at,
                             accounts |-> w.accounts \cup {f.account},
                             seqs |-> Append(w.seqs, f.src)]]

\* fightWindow.addDeath.
AddDeath(b, f) ==
    LET c == IF b.fight.open /\ f.at - b.fight.last > FightGap THEN CloseFight(b) ELSE b
        w == IF c.fight.open THEN c.fight
             ELSE [start |-> f.at, accounts |-> {}, seqs |-> <<>>]
    IN  [c EXCEPT !.fight = [open |-> TRUE, start |-> w.start, last |-> f.at,
                             accounts |-> w.accounts \cup {f.account},
                             seqs |-> Append(w.seqs, f.src)]]

\* handleDeath: a second death takes the place of the first.
HandleDeath(b, f) ==
    IF f.account = Nobody THEN b
    ELSE [AddDeath(b, f) EXCEPT !.rounds[f.account] = <<f.at>>]

\* handleBuyback.
HandleBuyback(b, f) ==
    IF f.account = Nobody \/ b.rounds[f.account] = NoRound THEN b
    ELSE LET died == b.rounds[f.account][1] IN
         [Add(b, Episode("round", died, f.at + Second, {f.account}, <<Whole(died)>>))
             EXCEPT !.rounds[f.account] = NoRound]

\* objectiveEpisode.
HandleObjective(b, f) ==
    IF f.name \notin Building THEN b
    ELSE Add(b, Episode("objective", f.at, f.at + Second,
                        IF f.helpers = {} THEN {f.by} \ {Nobody} ELSE f.helpers,
                        <<Whole(f.at)>>))

\* One smoke per account and second ("off" is the end of one, or another
\* modifier); an entry of no account counts as one.
HandleSmoke(b, f) ==
    IF f.name = "off" \/ <<f.account, Whole(f.at)>> \in b.smokes THEN b
    ELSE [Add(b, Episode("smoke", f.at, f.at + Second, {f.account}, <<f.src>>))
             EXCEPT !.smokes = @ \cup {<<f.account, Whole(f.at)>>}]

HandleFact(b, f) ==
    CASE f.type = "death"    -> HandleDeath(b, f)
      [] f.type = "buyback"  -> HandleBuyback(b, f)
      [] f.type = "building" -> HandleObjective(b, f)
      [] f.type = "modifier" -> HandleSmoke(b, f)
      [] OTHER               -> b

\* Build: the episodes of a list of facts.  Their order by start and kind is
\* left out.
Build(facts) ==
    LET pass[i \in 0 .. Len(facts)] ==
            IF i = 0 THEN NewBuild ELSE HandleFact(pass[i - 1], facts[i])
    IN  CloseFight(pass[Len(facts)]).list

-----------------------------------------------------------------------------
(* What the episodes of a list of facts are, fact by fact.                 *)

HeroDeaths(facts) ==
    {i \in DOMAIN facts : facts[i].type = "death" /\ facts[i].account # Nobody}

\* Deaths i and j are of one fight: no quiet stretch parts them.
SameFight(facts, i, j) ==
    \A d \in HeroDeaths(facts) : i < d /\ d <= j =>
        \E c \in HeroDeaths(facts) : c < d /\ facts[d].at - facts[c].at <= FightGap

\* The n-th of a set of places.
Nth(places, n) == CHOOSE d \in places : Cardinality({c \in places : c <= d}) = n

FightOf(facts, first) ==
    LET deaths == {d \in HeroDeaths(facts) : d >= first /\ SameFight(facts, first, d)}
        last == CHOOSE d \in deaths : \A c \in deaths : c <= d
    IN  Episode("fight", facts[first].at, facts[last].at + Second,
                {facts[d].account : d \in deaths},
                [n \in 1 .. Cardinality(deaths) |-> facts[Nth(deaths, n)].src])

Fights(facts) ==
    LET firsts == {d \in HeroDeaths(facts) :
                       \A c \in HeroDeaths(facts) :
                           c < d => facts[d].at - facts[c].at > FightGap}
    IN  {f \in {FightOf(facts, d) : d \in firsts} : Cardinality(f.who) >= 2}

\* A buyback ends the round its hero's last death began, unless another did.
RoundEnds(facts) ==
    {p \in HeroDeaths(facts) \X DOMAIN facts :
        /\ p[1] < p[2] /\ facts[p[2]].type = "buyback"
        /\ facts[p[2]].account = facts[p[1]].account
        /\ \A k \in p[1] + 1 .. p[2] - 1 :
               facts[k].type \in {"death", "buyback"} =>
                   facts[k].account # facts[p[1]].account}

Rounds(facts) ==
    {Episode("round", facts[p[1]].at, facts[p[2]].at + Second, {facts[p[1]].account},
             <<Whole(facts[p[1]].at)>>) : p \in RoundEnds(facts)}

Smokes(facts) ==
    {Episode("smoke", facts[i].at, facts[i].at + Second, {facts[i].account}, <<facts[i].src>>) :
        i \in {i \in DOMAIN facts :
                  /\ facts[i].type = "modifier" /\ facts[i].name # "off"
                  /\ \A j \in 1 .. i - 1 :
                        ~(/\ facts[j].type = "modifier" /\ facts[j].name # "off"
                          /\ facts[j].account = facts[i].account
                          /\ Whole(facts[j].at) = Whole(facts[i].at))}}

Objectives(facts) ==
    {i \in DOMAIN facts : facts[i].type = "building" /\ facts[i].name \in Building}
=============================================================================
