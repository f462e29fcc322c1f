----------------------------- MODULE MatchGates -----------------------------
(***************************************************************************)
(* Whether a demo may be analysed at all: the parser writes what it is     *)
(* told (parser.ParseStream), ScanSummary reads it back, and identity.     *)
(* Build and clock.Build hold it against the manifest; the runner goes on  *)
(* only if both agree (runner.RunMatch, stages 2 and 3).                   *)
(*                                                                         *)
(* Only what the gates read is here.  Why a gate refuses is text in the    *)
(* status; that it refuses is state.  A side is the game's team 2 or 3.    *)
(* Times are seconds of the combat log.                                    *)
(***************************************************************************)
EXTENDS Integers, FiniteSets, SequencesExt

CONSTANTS
    Manifests,      \* entries of the manifest: match, teams with their sides,
                    \* players (account, hero, side), public duration
    DemoFeeds,      \* sets of messages a demo may consist of, each at most once
    PlayerCount,    \* ten
    Tolerance,      \* seconds by which a duration may always be off: two
    NoTeam,         \* the team id 0 or a missing one
    MaxMessages     \* bound on the messages of a demo

ASSUME GatesAssumption ==
    /\ PlayerCount \in Nat \ {0} /\ Tolerance \in Nat /\ MaxMessages \in Nat
    /\ \A m \in Manifests : /\ IsFiniteSet(m.players) /\ Cardinality(m.players) = PlayerCount
                            /\ \A p, q \in m.players : p.account = q.account => p = q
                            /\ NoTeam \notin DOMAIN m.teams
                            /\ IsFiniteSet(DOMAIN m.teams) /\ Cardinality(DOMAIN m.teams) = 2
                            /\ m.duration \in Int

\* What the parser hands on: players in a list, times in whole seconds.
ASSUME DemosAssumption ==
    \A m \in UNION DemoFeeds :
        /\ m.kind = "file_info" => DOMAIN m.players = 1 .. Len(m.players)
        /\ m.kind = "game_state" => m.at \in Int

VARIABLES
    manifest,       \* the entry of this match
    messages,       \* the messages the demo consists of
    observed,       \* raw.jsonl: what the parser was told
    gate            \* where the run of the match is

gateVars == <<manifest, messages, observed, gate>>

GateInit ==
    /\ manifest \in Manifests /\ messages \in DemoFeeds
    /\ observed = <<>> /\ gate = "parse"

-----------------------------------------------------------------------------
(* ScanSummary: of file info and of each team the last is kept, of the     *)
(* game's states all.                                                      *)

At(kind) == {i \in DOMAIN observed : observed[i].kind = kind}

LastOf(kind) == {observed[i] : i \in {i \in At(kind) : \A j \in At(kind) : j <= i}}

\* The teams the entities name in the end.
EntityTeams ==
    LET last(i) == \A j \in At("team") : observed[j].number = observed[i].number => j <= i
    IN  {observed[i].team : i \in {i \in At("team") : last(i)}} \ {NoTeam}

-----------------------------------------------------------------------------
(* identity.Build                                                          *)

\* fileTeams: the dire team is entered last.
FileTeams(info) ==
    [t \in {info.radiant, info.dire} \ {NoTeam} |->
        IF t = info.dire THEN "dire" ELSE "radiant"]

\* A slip: a team without a side is no mismatch.
GateTeams_KnownOnly(info) ==
    LET sides == FileTeams(info)
    IN  /\ \A t \in DOMAIN sides \cap DOMAIN manifest.teams : manifest.teams[t] = sides[t]
        /\ Cardinality(DOMAIN sides \cup EntityTeams) >= 2

\* The file info names a side twice even if both are the same team.
Names(info) == Cardinality({s \in {"radiant", "dire"} : info[s] # NoTeam})

GateTeams(info) ==
    LET sides == FileTeams(info)
        teams == DOMAIN sides \cup EntityTeams
    IN  /\ teams \subseteq DOMAIN manifest.teams
        /\ \A t \in DOMAIN sides : manifest.teams[t] = sides[t]
        /\ Names(info) + Cardinality(EntityTeams \ DOMAIN sides) >= 2

\* A slip: the same player may stand in two slots.
GateParticipants_Twice(players) ==
    /\ Len(players) = PlayerCount
    /\ \A i \in DOMAIN players : ~players[i].fake /\ players[i].binds \in manifest.players

\* buildParticipants; a hero that is not in the registry is none of the manifest.
GateParticipants(players) ==
    LET human == {i \in DOMAIN players : ~players[i].fake}
        seen == {players[i].binds.account : i \in human}
    IN  /\ Len(players) = PlayerCount
        /\ human = DOMAIN players
        /\ \A i \in human : players[i].binds \in manifest.players
        /\ Cardinality(seen) = PlayerCount

Verified ==
    \E info \in LastOf("file_info") :
        /\ info.match = manifest.match
        /\ \E done \in LastOf("parse_done") : done.build # 0
        /\ GateParticipants(info.players)
        /\ GateTeams(info)

-----------------------------------------------------------------------------
(* clock.Build                                                             *)

\* A slip: the transition kept is the last one.
First_Latest(state) ==
    LET all == {i \in At("game_state") : observed[i].state = state}
    IN  {observed[i] : i \in {i \in all : \A j \in all : j <= i}}

\* The first transition to a state, if there is one.
First(state) ==
    LET all == {i \in At("game_state") : observed[i].state = state}
    IN  {observed[i] : i \in {i \in all : \A j \in all : i <= j}}

\* The duration may be off by the tolerance or by a thousandth; an anchor at
\* zero in both clocks is taken for none.
Calibrated ==
    /\ manifest.duration > 0
    /\ \E anchor \in First("in_progress"), end \in First("postgame") :
          LET length == end.at - anchor.at
              delta == IF length > manifest.duration THEN length - manifest.duration
                       ELSE manifest.duration - length
          IN  /\ anchor.at # 0 \/ anchor.tick # 0
              /\ length > 0
              /\ delta <= Tolerance \/ 1000 * delta <= manifest.duration

-----------------------------------------------------------------------------
\* The callbacks of the parser: each writes what it was told.
Observe ==
    /\ gate = "parse" /\ Len(observed) < MaxMessages
    /\ \E m \in messages \ ToSet(observed) : observed' = Append(observed, m)
    /\ UNCHANGED <<manifest, messages, gate>>

\* The demo ends; manta found its build or did not.
ParseDone ==
    /\ gate = "parse" /\ gate' = "identity"
    /\ \E build \in 0 .. 1 :
          observed' = Append(observed, [kind |-> "parse_done", build |-> build])
    /\ UNCHANGED <<manifest, messages>>

\* The demo cannot be decoded or a file cannot be read or written: nothing of
\* it is looked at again.
Stop ==
    /\ gate \in {"parse", "identity", "clock"} /\ gate' = "stopped"
    /\ observed' = <<>>
    /\ UNCHANGED <<manifest, messages>>

IdentityGate ==
    /\ gate = "identity"
    /\ gate' = IF Verified THEN "clock" ELSE "quarantined"
    /\ UNCHANGED <<manifest, messages, observed>>

\* The gates have spoken: nothing later reads what they read.
ClockGate ==
    /\ gate = "clock"
    /\ gate' = IF Calibrated THEN "accepted" ELSE "quarantined"
    /\ messages' = {} /\ observed' = <<>>
    /\ UNCHANGED manifest

GateNext == Observe \/ ParseDone \/ Stop \/ IdentityGate \/ ClockGate

-----------------------------------------------------------------------------
(* What the messages prove, message by message.                            *)

\* The i-th message says x, and none that counts more says otherwise.
IsLast(i, kind) ==
    observed[i].kind = kind /\ \A j \in i + 1 .. Len(observed) : observed[j].kind # kind
IsFirst(i, state) ==
    LET says(j) == observed[j].kind = "game_state" /\ observed[j].state = state
    IN  says(i) /\ \A j \in 1 .. i - 1 : ~says(j)

\* The teams the i-th message, an info, and the entities speak of.
TeamsOf(i) ==
    ({observed[i].radiant, observed[i].dire}
        \cup {observed[j].team : j \in {j \in DOMAIN observed :
                /\ observed[j].kind = "team"
                /\ \A k \in j + 1 .. Len(observed) :
                      observed[k].kind = "team" => observed[k].number # observed[j].number}})
    \ {NoTeam}

\* Nobody plays against himself.
TwoSided ==
    \A i \in DOMAIN observed :
        IsLast(i, "file_info") => observed[i].radiant # observed[i].dire

Proven ==
    /\ \E i \in DOMAIN observed :
          /\ IsLast(i, "file_info") /\ observed[i].match = manifest.match
          /\ \A p \in ToSet(observed[i].players) : ~p.fake
          /\ {p.binds : p \in ToSet(observed[i].players)} = manifest.players
          /\ Len(observed[i].players) = Cardinality(manifest.players)
          /\ TeamsOf(i) = DOMAIN manifest.teams
          /\ \A s \in {"radiant", "dire"} :
                observed[i][s] # NoTeam => manifest.teams[observed[i][s]] = s
    /\ \E i \in DOMAIN observed : IsLast(i, "parse_done") /\ observed[i].build # 0
    /\ \E i, j \in DOMAIN observed :
          /\ IsFirst(i, "in_progress") /\ IsFirst(j, "postgame")
          /\ <<observed[i].at, observed[i].tick>> # <<0, 0>>
          /\ LET off == Max({Tolerance, manifest.duration \div 1000}) IN
             observed[j].at - observed[i].at
                \in Max({1, manifest.duration - off}) .. manifest.duration + off
    /\ manifest.duration > 0

\* A match is analysed only if the demo proves that it is the match of the
\* manifest, played by its players for its two teams as long as is known in
\* public; and one that is proven is never held back.  (Only the last file info
\* counts, and the first horn and end.  A demo that names one team for both
\* sides is excepted: with the dire team twice the gate passes.)
OnlyProvenAnalysed ==
    [][TwoSided =>
          /\ gate # "accepted" /\ gate' = "accepted" => Proven
          /\ gate # "quarantined" /\ gate' = "quarantined" => ~Proven]_gateVars
=============================================================================
