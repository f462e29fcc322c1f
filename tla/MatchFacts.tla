------------------------------ MODULE MatchFacts ------------------------------
(***************************************************************************)
(* The fact file of a match: Builder.Build reads the raw observations of a *)
(* demo in order and writes one line per fact (internal/replay/facts,      *)
(* runner.buildFacts).  A combat-log entry gives at most one fact, hero    *)
(* snapshots are thinned to one per hero and half second.                  *)
(*                                                                         *)
(* Times are quarters of a second from the horn.  The combat log counts    *)
(* game time; hero snapshots carry demo ticks, which GameSecondOfTick maps *)
(* to game time by one fixed offset: every pause puts them later.          *)
(*                                                                         *)
(* Names stand for what the builder and its readers tell apart: a hero of  *)
(* a participant, a building, a boss, any other unit, or none.  Payload    *)
(* fields nobody modelled reads, and the summary's position gaps, are left *)
(* out.                                                                    *)
(***************************************************************************)
EXTENDS Integers, FiniteSets, SequencesExt

CONSTANTS
    Hero,           \* the heroes; each has one account, which stands for it
    Feeds,          \* sets of entries a demo may consist of
    MaxEntries,      \* bound on the entries of a demo
    Steps,          \* time between two entries
    FirstTime,      \* time of the first entry, before the horn
    MaxPause        \* bound on the time the game is paused

ASSUME FactsAssumption ==
    /\ IsFiniteSet(Hero) /\ Hero # {}
    /\ MaxEntries \in Nat /\ MaxPause \in Nat
    /\ Steps \subseteq Nat /\ FirstTime \in Int

Unknown == "unknown"                    \* liveness a snapshot does not carry
Nobody == "nobody"
ASSUME EntriesAssumption ==
    /\ Nobody \notin Hero
    /\ \A e \in UNION Feeds : e.kind = "hero_state" => e.alive \in {"alive", "dead", Unknown}

VARIABLES
    feed,           \* the entries this demo consists of, from when they are read
    raw,            \* the entries read so far, each with when it was and its
                    \* game second
    paused,         \* how long the game has been paused
    lastEmit,       \* half second of the last snapshot written, per hero
    counted,        \* facts the summary counts
    file,           \* the lines of the fact file
    disk,           \* "ok", or how the first failing write left the file
    stage           \* where the run of the match is

factVars == <<feed, raw, paused, lastEmit, counted, file, disk, stage>>

Second == 4
HalfSecond == 2
\* int64(t): towards zero.
Trunc(t, unit) == IF t >= 0 THEN t \div unit ELSE -((-t) \div unit)
Whole(t) == Trunc(t, Second)

Building == {"tower", "filler"}         \* what classifyBuilding takes for real

\* playerRef.
PlayerRef(name) == IF name \in Hero THEN name ELSE Nobody

\* The family of fact each type of combat-log entry gives; other types give none.
FamilyOf == [death |-> "death", buyback |-> "death", gold |-> "economy",
             purchase |-> "item", item |-> "item", ability |-> "ability",
             modifier |-> "modifier", building |-> "objective",
             damage |-> "combat", heal |-> "combat"]

\* The account a fact is about.
AccountOf(c) ==
    PlayerRef(IF c.type \in {"buyback", "item", "ability"} THEN c.actor
              ELSE IF c.type = "gold" /\ c.target = Nobody THEN c.actor
              ELSE c.target)

Fact(family, type, account, by, name, helpers, at, src, alive) ==
    [family |-> family, type |-> type, account |-> account, by |-> by, name |-> name,
     helpers |-> helpers, at |-> at, src |-> src, alive |-> alive]

\* factDeath, factBuyback, factObjective, ...: an entry read, the src-th of the
\* combat log.
CombatFact(read, src) ==
    LET c == read.entry IN
    Fact(FamilyOf[c.type], c.type, AccountOf(c), PlayerRef(c.actor), c.target,
         c.helpers \cap Hero, read.at, src, Unknown)

SampleFact(read) ==
    LET h == read.entry
    IN  Fact("hero_state", "sample", h.hero, Nobody, h.hero, {}, read.at, 0, h.alive)

Header ==
    <<Fact("match_state", "match", Nobody, Nobody, Nobody, {}, 0, 0, Unknown)>>
    \o [i \in 1 .. Cardinality(Hero) |->
            LET h == SetToSeq(Hero)[i]
            IN  Fact("participant", "binding", h, Nobody, h, {}, 0, 0, Unknown)]

Now == IF raw = <<>> THEN FirstTime ELSE Last(raw).now
CombatSeq(entries) == Cardinality({i \in DOMAIN entries : entries[i].entry.kind = "combat"})

-----------------------------------------------------------------------------
FactsInit ==
    /\ feed = {}
    /\ raw = <<>> /\ paused = 0
    /\ lastEmit = [h \in Hero |-> -1]
    /\ counted = 0
    /\ file = <<>> /\ disk = "ok"
    /\ stage = "start"

\* json.Encoder on the temporary file: after the first error it writes nothing.
Encode(fact) ==
    \/ disk = "ok" /\ file' = Append(file, fact) /\ UNCHANGED disk
    \/ disk = "ok" /\ disk' \in {"short", "torn"} /\ UNCHANGED file
    \/ disk # "ok" /\ UNCHANGED <<file, disk>>

\* The match and its participants come first, and nobody looks whether they
\* were written.
Begin ==
    /\ stage = "start" /\ stage' = "facts"
    /\ feed' \in Feeds
    /\ counted' = Len(Header)
    /\ \/ file' = Header /\ UNCHANGED disk
       \/ \E n \in 0 .. Len(Header) - 1 :
              file' = SubSeq(Header, 1, n) /\ disk' \in {"short", "torn"}
    /\ UNCHANGED <<raw, paused, lastEmit>>

Reads(e, now, at) ==
    /\ stage = "facts" /\ Len(raw) < MaxEntries
    /\ raw' = Append(raw, [entry |-> e, now |-> now, at |-> at])

\* A slip: nobody looks whether the fact of a combat entry was written.
EmitCombat_Unchecked(c, now) ==
    /\ Reads(c, now, now)
    /\ IF c.type \notin DOMAIN FamilyOf THEN UNCHANGED <<counted, file, disk>>
       ELSE counted' = counted + 1 /\ Encode(CombatFact(Last(raw'), CombatSeq(raw')))
    /\ UNCHANGED <<feed, paused, lastEmit, stage>>

\* emitCombat: a failing write ends the build, and the file is thrown away.
EmitCombat(c, now) ==
    /\ Reads(c, now, now)
    /\ IF c.type \notin DOMAIN FamilyOf THEN UNCHANGED <<counted, file, disk, stage>>
       ELSE /\ counted' = counted + 1
            /\ Encode(CombatFact(Last(raw'), CombatSeq(raw')))
            /\ stage' = IF disk' = "ok" THEN stage ELSE "failed"
    /\ UNCHANGED <<feed, paused, lastEmit>>

\* A slip: the pauses are counted with the wrong sign.
Sample_Ahead(h, now) ==
    /\ Reads(h, now, now - paused)
    /\ UNCHANGED <<feed, paused, lastEmit, counted, file, disk, stage>>

\* A snapshot before the horn, or in the half second of the last one, gives
\* nothing; whether the fact of any other was written, nobody looks.
Sample(h, now) ==
    LET bin == Trunc(now + paused, HalfSecond) IN
    /\ Reads(h, now, now + paused)
    /\ IF h.hero \notin Hero \/ bin < 0 \/ bin <= lastEmit[h.hero]
       THEN UNCHANGED <<lastEmit, counted, file, disk>>
       ELSE /\ lastEmit' = [lastEmit EXCEPT ![h.hero] = bin]
            /\ counted' = counted + 1
            /\ Encode(SampleFact(Last(raw')))
    /\ UNCHANGED <<feed, paused, stage>>

\* The players pause the game, where the demo has pauses.
Pause ==
    /\ stage = "facts" /\ paused < MaxPause
    /\ \E e \in feed : e.kind = "pause"
    /\ paused' = paused + 1
    /\ UNCHANGED <<feed, raw, lastEmit, counted, file, disk, stage>>

\* StreamWriter.Close: the file takes its place, whatever was written to it,
\* unless that fails.
Publish ==
    /\ stage = "facts" /\ stage' \in {"published", "failed"}
    /\ UNCHANGED <<feed, raw, paused, lastEmit, counted, file, disk>>

FactsNext ==
    \/ Begin \/ Pause \/ Publish
    \/ \E e \in feed, step \in Steps :
          \/ e.kind = "combat" /\ EmitCombat(e, Now + step)
          \/ e.kind = "hero_state" /\ Sample(e, Now + step)

-----------------------------------------------------------------------------
\* The entries a fact is owed for: those of a type that gives one, and the
\* first snapshot of a hero in each half second after the horn.
Owed(entries, i) ==
    LET e == entries[i].entry
        halfSecond(j) == Trunc(entries[j].at, HalfSecond)
    IN  \/ e.kind = "combat" /\ e.type \in DOMAIN FamilyOf
        \/ /\ e.kind = "hero_state" /\ e.hero \in Hero
           /\ halfSecond(i) >= 0
           /\ \A j \in 1 .. i - 1 :
                  /\ entries[j].entry.kind = "hero_state"
                  /\ entries[j].entry.hero = e.hero
                  => halfSecond(j) < halfSecond(i)

OwedFact(entries, i) ==
    IF entries[i].entry.kind = "combat"
    THEN CombatFact(entries[i], CombatSeq(SubSeq(entries, 1, i)))
    ELSE SampleFact(entries[i])

OwedFacts(entries) ==
    LET owed[n \in 0 .. Len(entries)] ==
            IF n = 0 THEN Header
            ELSE IF Owed(entries, n) THEN Append(owed[n - 1], OwedFact(entries, n))
            ELSE owed[n - 1]
    IN  owed[Len(entries)]

\* The fact file says what the demo says: every fact owed, once and in order,
\* and no other.  When the disk fails, a combat fact is never lost from a file
\* that is published; only a tail of snapshots (or all lines of a match with
\* no combat fact) can be, and the summary counts them all the same
\* (Builder.Build, emitFact).
FactsAreComplete ==
    stage \notin {"start", "failed"} =>
        LET owed == OwedFacts(raw) IN
        /\ counted = Len(owed)
        /\ IsPrefix(file, owed)
        /\ disk = "ok" => file = owed
        /\ \A n \in Len(file) + 1 .. Len(owed) :
               owed[n].family \in {"match_state", "participant", "hero_state"}
=============================================================================
