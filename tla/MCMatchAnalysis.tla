--------------------------- MODULE MCMatchAnalysis ---------------------------
EXTENDS MatchAnalysis, TLC

CONSTANTS h1, h2, h3

Combat(type, actor, target, helpers) ==
    [kind |-> "combat", type |-> type, actor |-> actor, target |-> target,
     helpers |-> helpers]
Snapshot(hero, alive) == [kind |-> "hero_state", hero |-> hero, alive |-> alive]

\* Fights: deaths on both sides, one of them at the hand of an ally.
FightFeed == {Combat("death", h3, h1, {}), Combat("death", h1, h3, {h2}),
              Combat("death", h1, h2, {})}
\* Rounds; a creep's death; an entry that gives no fact.
RoundFeed == {Combat("death", h3, h1, {}), Combat("buyback", h1, Nobody, {}),
              Combat("death", h1, "creep", {}), Combat("playerstats", h1, h2, {})}
\* The lives of one hero; in a game with pauses, snapshots come later.
LifeFeed == {Combat("death", h3, h1, {}), Snapshot(h1, "alive"), Snapshot(h1, "dead"),
             Snapshot(h1, Unknown)}
PauseFeed == {Combat("death", h3, h1, {}), Snapshot(h1, "alive"), Snapshot(h1, "dead"),
              [kind |-> "pause"]}
\* Damage to enemies, allies and objectives.
DamageFeed == {Combat("damage", h1, h3, {}), Combat("damage", h1, h2, {}),
               Combat("damage", h1, "tower", {})}
\* Buildings, smokes, and what is no hero of the match.
OtherFeed == {Combat("building", h1, "filler", {h2}), Combat("modifier", h3, h1, {}),
              Combat("modifier", h3, "off", {}), Snapshot("illusion", "alive")}

MCFeeds == {FightFeed, RoundFeed, LifeFeed, PauseFeed, DamageFeed, OtherFeed}
MCSteps == {1, 4}
MCStart == -3

Cut(phase, start, end) == [phase |-> phase, start |-> start, end |-> end]
MCStreams ==
    {[eligible |-> 2, intervals |-> <<Cut("laning", 0, 1), Cut("midgame", 1, 2)>>],
     [eligible |-> 2, intervals |-> <<Cut("midgame", 0, 1), Cut("midgame", 1, 2)>>],
     [eligible |-> 3, intervals |-> <<Cut("laning", 0, 2)>>]}

\* What the gates read: the match, and one that never ends.
Binds(account, hero, side) == [account |-> account, hero |-> hero, side |-> side]
P1 == Binds("p1", "axe", "radiant")
P2 == Binds("p2", "lina", "dire")
MCManifests ==
    {[match |-> 7, teams |-> [A |-> "radiant", B |-> "dire"], players |-> {P1, P2},
      duration |-> d] : d \in {3000, 0}}

Slot(binds) == [binds |-> binds, fake |-> FALSE]
FileInfo(match, radiant, dire, players) ==
    [kind |-> "file_info", match |-> match, radiant |-> radiant, dire |-> dire,
     players |-> players]
Both == <<Slot(P2), Slot(P1)>>
Team(number, team) == [kind |-> "team", number |-> number, team |-> team]
State(state, at) == [kind |-> "game_state", state |-> state, at |-> at, tick |-> 0]
Plain == {FileInfo(7, "A", "B", Both), State("in_progress", 1), State("postgame", 3001)}

\* Who plays: another match, a player twice, a bot, the wrong hero, too few.
PlayerDemo ==
    Plain \cup {FileInfo(8, "A", "B", Both), FileInfo(7, "A", "B", <<Slot(P1), Slot(P1)>>),
                FileInfo(7, "A", "B", <<Slot(P1), [Slot(P2) EXCEPT !.fake = TRUE]>>)}
SlotDemo ==
    Plain \cup {FileInfo(7, "A", "B", <<Slot(P1), Slot(Binds("p2", "axe", "dire"))>>),
                FileInfo(7, "A", "B", <<Slot(P1)>>)}
\* For whom: sides exchanged, one team on both, one named by entities only.
SideDemo ==
    Plain \cup {FileInfo(7, "B", "A", Both), FileInfo(7, "B", "B", Both), Team(3, "B")}
TeamDemo ==
    {FileInfo(7, "A", "none", Both), State("in_progress", 1), State("postgame", 3001),
     Team(3, "B"), Team(3, "C"), Team(2, "none")}
\* How long: ends too early, just in time and too late; an anchor at zero.
ClockDemo ==
    {FileInfo(7, "A", "B", Both), State("in_progress", 0), State("in_progress", 1),
     State("postgame", 1), State("postgame", 3004), State("postgame", 3005)}

MCDemos == {PlayerDemo, SlotDemo, SideDemo, TeamDemo, ClockDemo}
=============================================================================
