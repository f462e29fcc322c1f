---------------------------- MODULE LiveAnalytics ----------------------------
(***************************************************************************)
(* Live analytics: analytics.Engine derives events from the difference of  *)
(* two consecutive ticks and keeps bounded views of them; after each tick  *)
(* the projection writes the summary of the session.  AnalyzeSession, a    *)
(* process of its own, does the whole session again from raw.jsonl and     *)
(* writes the same summary.                                                *)
(*                                                                         *)
(* The game is one hero, some buildings and Roshan; the ticks show it with *)
(* blocks left out.  A pointer that may be nil is a set of at most one     *)
(* value.  kills stands for the counters, wards for the ward counters;     *)
(* gold and net worth (reported above a threshold), abilities and the      *)
(* tormentor are left out, and so is the text form of the summary.         *)
(***************************************************************************)
EXTENDS Naturals, Sequences, FiniteSets, SequencesExt

CONSTANTS
    Building, Slot, Item,
    Empty, Nothing,         \* a slot without an item; no value
    StartItems,             \* what the hero carries at first
    Hidings,                \* the sets of blocks a tick may leave out
    MaxEvents,              \* maxEvents
    RecentEventsAPI,        \* recentEventsAPI
    MaxObservationsAPI,     \* maxObservationsAPI
    MaxHealth,              \* hits a building withstands
    MaxChanges,             \* bound on changes of the game
    MaxTicks,               \* bound on ticks
    MaxHidings,             \* bound on ticks that leave something out
    MaxFaults               \* bound on failing writes of a file

ASSUME ConstantsAssumption ==
    /\ {Empty, Nothing} \cap Item = {} /\ Empty # Nothing
    /\ IsFiniteSet(Building) /\ IsFiniteSet(Slot) /\ IsFiniteSet(Item)
    /\ {MaxChanges, MaxTicks, MaxHidings, MaxFaults} \subseteq Nat
    /\ StartItems \in [Slot -> Item \cup {Empty}]
    /\ MaxHealth \in Nat \ {0}
    /\ {MaxEvents, RecentEventsAPI, MaxObservationsAPI} \subseteq Nat \ {0}
    /\ RecentEventsAPI <= MaxEvents - MaxEvents \div 4

VARIABLES
    game,           \* what happens, whether seen or not
    raw,            \* the ticks of raw.jsonl
    engine,         \* analytics.Engine
    derived,        \* for each tick, what Observe returned
    analysis,       \* AnalyzeSession under way: what it will write
    summary,        \* analytics_summary.json
    events,         \* derived_events.jsonl
    truth,          \* how often each thing happened in a match
    shown,          \* for each tick, the match it is of
    blind,          \* why changes may be unseen
    bounds

vars == <<game, raw, engine, derived, analysis, summary, events, truth,
          shown, blind, bounds>>
source == <<game, truth, shown, blind>>
files == <<summary, events>>

ObservationOf ==
    [roshan_state_changed |-> "roshan", building_destroyed |-> "buildings",
     ward_counter_changed |-> "wards", ward_purchase_started |-> "wards",
     ward_purchase_cooldown_changed |-> "wards"]
Observations == {"roshan", "buildings", "wards"}
Counted == {"hero_death", "hero_respawn", "kill_counter", "building_health_loss"}
           \cup DOMAIN ObservationOf
ItemTypes == {"item_acquired", "item_removed", "item_replaced", "item_slot_changed"}
EventTypes == Counted \cup ItemTypes

\* An event: its type, the building or slot it is about, the item it brings,
\* and the slot the item was in.
Event(type, key, item, from) ==
    [type |-> type, key |-> key, item |-> item, from |-> from]
Plain(type) == Event(type, Nothing, Nothing, Nothing)
If(condition, event) == IF condition THEN <<event>> ELSE <<>>
ForEach(S, EventsOf(_)) ==
    LET seq == SetToSeq(S) IN FlattenSeq([i \in DOMAIN seq |-> EventsOf(seq[i])])

-----------------------------------------------------------------------------
(* Ticks                                                                   *)

Seen(hidden, block, x) == IF block \in hidden THEN {} ELSE {x}

\* A hero is there when any of his three blocks is.
PlayersView(g, hidden) ==
    IF {"player", "hero", "items"} \subseteq hidden THEN {}
    ELSE {[kills |-> Seen(hidden, "player", g.kills),
           wards |-> Seen(hidden, "player", g.wards),
           alive |-> Seen(hidden, "hero", g.alive),
           items |-> IF "items" \in hidden THEN <<>> ELSE g.items]}

\* Normalize: only what the payload has.  gone are the buildings without an
\* entry; an entry may lack its health.
View(g, hidden, gone) ==
    [running |-> g.running /\ "map" \notin hidden,
     roshan |-> Seen(hidden, "map", g.roshan),
     cooldown |-> Seen(hidden, "map", g.cooldown),
     buildings |-> [b \in IF "buildings" \in hidden THEN {} ELSE Building \ gone
                      |-> Seen(hidden, "health", g.health[b])],
     players |-> PlayersView(g, hidden)]

\* itemRealName of the item in a slot, if any
RealName(items, s) ==
    IF s \in DOMAIN items /\ items[s] # Empty THEN {items[s]} ELSE {}

-----------------------------------------------------------------------------
(* The differences of two ticks                                            *)

Rises(prev, cur) == \E p \in prev, c \in cur : c > p

DeriveRoshan(cur, prev) ==
    If(\E p \in prev, c \in cur : p # c, Plain("roshan_state_changed"))

Destroyed(b) == Event("building_destroyed", b, Nothing, Nothing)

\* Health lost, and destruction seen.
BuildingEvents(b, cur, prev) ==
    LET Both(Test(_, _)) ==
            b \in DOMAIN prev \cap DOMAIN cur
            /\ \E p \in prev[b], c \in cur[b] : Test(p, c)
    IN If(Both(LAMBDA p, c : p > c), Event("building_health_loss", b, Nothing, Nothing))
       \o If(Both(LAMBDA p, c : p > 0 /\ c = 0), Destroyed(b))

\* A building that stood and has no entry any more.
Vanished(b, cur, prev) ==
    b \in DOMAIN prev \ DOMAIN cur /\ \E p \in prev[b] : p > 0

\* A slip: the absence counts after the game as well.
DeriveBuildings_AnyTime(cur, prev, running) ==
    ForEach(Building, LAMBDA b : BuildingEvents(b, cur, prev))
    \o ForEach(Building, LAMBDA b : If(Vanished(b, cur, prev), Destroyed(b)))

DeriveBuildings(cur, prev, running) ==
    ForEach(Building, LAMBDA b : BuildingEvents(b, cur, prev))
    \o ForEach(Building, LAMBDA b : If(running /\ Vanished(b, cur, prev), Destroyed(b)))

\* The cooldown begins or ends; that it runs down is no event.
WardCooldownEvent(cur, prev) ==
    If(\E p \in prev, c \in cur : p = 0 /\ c > 0, Plain("ward_purchase_started"))
    \o If(\E p \in prev, c \in cur : p > 0 /\ c = 0,
          Plain("ward_purchase_cooldown_changed"))

DeriveAlive(cur, prev) ==
    If(\E p \in prev, c \in cur : p /\ ~c, Plain("hero_death"))
    \o If(\E p \in prev, c \in cur : ~p /\ c, Plain("hero_respawn"))

SlotEvent(s, cur, prev) ==
    LET was == RealName(prev, s)
        is == RealName(cur, s)
    IN If(was = {} /\ is # {}, Event("item_acquired", s, CHOOSE x \in is : TRUE, Nothing))
       \o If(was # {} /\ is = {}, Event("item_removed", s, Nothing, Nothing))
       \o If(was # {} /\ is # {} /\ was # is,
             Event("item_replaced", s, CHOOSE x \in is : TRUE, Nothing))

\* The code takes any slot the item left and any it went to; so does CHOOSE.
Relocation(item, cur, prev) ==
    LET was == {s \in Slot : RealName(prev, s) = {item}}
        is == {s \in Slot : RealName(cur, s) = {item}}
    IN If(was \ is # {} /\ is \ was # {},
          Event("item_slot_changed", CHOOSE s \in is \ was : TRUE, item,
                CHOOSE s \in was \ is : TRUE))

\* A slip: an item that goes from one slot to another is also said to have
\* gone back.
DeriveItems_BothWays(cur, prev) ==
    ForEach(Slot, LAMBDA s : SlotEvent(s, cur, prev))
    \o ForEach(Item, LAMBDA x : Relocation(x, cur, prev))
    \o ForEach(Item, LAMBDA x : Relocation(x, prev, cur))

\* Within one tick the code follows the order of Go's maps, which is open;
\* the model takes one order, and no property tells them apart.
DeriveItems(cur, prev) ==
    ForEach(Slot, LAMBDA s : SlotEvent(s, cur, prev))
    \o ForEach(Item, LAMBDA x : Relocation(x, cur, prev))

DerivePlayer(cur, prev) ==
    DeriveAlive(cur.alive, prev.alive)
    \o If(Rises(prev.kills, cur.kills), Plain("kill_counter"))
    \o DeriveItems(cur.items, prev.items)
    \o If(Rises(prev.wards, cur.wards), Plain("ward_counter_changed"))

Derive(cur, prev) ==
    DeriveRoshan(cur.roshan, prev.roshan)
    \o DeriveBuildings(cur.buildings, prev.buildings, cur.running)
    \o WardCooldownEvent(cur.cooldown, prev.cooldown)
    \o IF cur.players # {} /\ prev.players # {}
       THEN DerivePlayer(CHOOSE p \in cur.players : TRUE, CHOOSE p \in prev.players : TRUE)
       ELSE <<>>

-----------------------------------------------------------------------------
(* The engine                                                              *)

NewEngine ==
    [prev |-> {}, playerTick |-> {}, events |-> <<>>, ticks |-> 0,
     counts |-> [t \in EventTypes |-> 0],
     observed |-> [o \in Observations |-> <<>>],
     totals |-> [o \in Observations |-> 0]]

\* The last n elements of a sequence, all of them if there are fewer.
LastOf(seq, n) == IF Len(seq) <= n THEN seq ELSE SubSeq(seq, Len(seq) - n + 1, Len(seq))

\* A slip: the ring is cut to a quarter.
Ring_KeepsQuarter(list) ==
    IF Len(list) <= MaxEvents THEN list ELSE LastOf(list, MaxEvents \div 4)

\* Over the limit, the oldest quarter goes as well.
Ring(list) ==
    IF Len(list) <= MaxEvents THEN list
    ELSE SubSeq(list, Len(list) - MaxEvents + MaxEvents \div 4 + 1, Len(list))

RecordEvent(e, ev) ==
    LET o == IF ev.type \in DOMAIN ObservationOf THEN {ObservationOf[ev.type]} ELSE {}
    IN [e EXCEPT
          !.events = Ring(Append(@, ev)),
          !.counts[ev.type] = @ + 1,
          !.observed = [x \in Observations |->
                          IF x \in o THEN LastOf(Append(@[x], ev), MaxObservationsAPI)
                          ELSE @[x]],
          !.totals = [x \in Observations |-> IF x \in o THEN @[x] + 1 ELSE @[x]]]

Recorded(e, list) ==
    LET upTo[n \in 0 .. Len(list)] ==
            IF n = 0 THEN e ELSE RecordEvent(upTo[n - 1], list[n])
    IN upTo[Len(list)]

\* What Observe derives from a tick.
DerivedBy(e, tick) ==
    IF e.prev = {} THEN <<>> ELSE Derive(tick, CHOOSE p \in e.prev : TRUE)

\* A slip: only ticks with events are counted.
Observe_CountsEventful(e, tick) ==
    [Recorded(e, DerivedBy(e, tick)) EXCEPT
        !.ticks = @ + IF DerivedBy(e, tick) = <<>> THEN 0 ELSE 1,
        !.prev = {tick},
        !.playerTick = IF tick.players # {} THEN {tick} ELSE @]

Observe(e, tick) ==
    [Recorded(e, DerivedBy(e, tick)) EXCEPT
        !.ticks = @ + 1,
        !.prev = {tick},
        !.playerTick = IF tick.players # {} THEN {tick} ELSE @]

Truncated(e) == \E o \in Observations : e.totals[o] > Len(e.observed[o])

\* economyFromTick, of one number
Economy(e) == {p.kills : p \in UNION {t.players : t \in e.playerTick}}

Snapshot(e) ==
    [ticks |-> e.ticks, counts |-> e.counts,
     observed |-> e.observed, totals |-> e.totals,
     truncated |-> Truncated(e), economy |-> Economy(e)]

\* The tail that /api/events and the snapshot show.
RecentEvents(e) == LastOf(e.events, RecentEventsAPI)

\* The events of some types, in their order.
Select(list, types) ==
    LET upTo[n \in 0 .. Len(list)] ==
            IF n = 0 THEN <<>>
            ELSE IF list[n].type \in types THEN Append(upTo[n - 1], list[n])
            ELSE upTo[n - 1]
    IN upTo[Len(list)]

TypesOf(o) == {t \in DOMAIN ObservationOf : ObservationOf[t] = o}

\* observationEvents
Partition(list) == [o \in Observations |-> Select(list, TypesOf(o))]

\* A slip: the arrays are those of the engine, called complete.
OfflineSummary_OfEngine(e, list) == [Snapshot(e) EXCEPT !.truncated = FALSE]

\* buildSummaryJSON given the complete list: nothing is cut off.
OfflineSummary(e, list) ==
    [Snapshot(e) EXCEPT
        !.observed = Partition(list),
        !.totals = [o \in Observations |-> Len(Partition(list)[o])],
        !.truncated = FALSE]

\* AnalyzeSession: every tick through an engine of its own, every event kept.
ObservedToo(pass, tick) ==
    [engine |-> Observe(pass.engine, tick),
     events |-> pass.events \o DerivedBy(pass.engine, tick)]

Replayed(ticks) ==
    LET upTo[n \in 0 .. Len(ticks)] ==
            IF n = 0 THEN [engine |-> NewEngine, events |-> <<>>]
            ELSE ObservedToo(upTo[n - 1], ticks[n])
    IN upTo[Len(ticks)]

Analyzed(ticks) ==
    LET end == Replayed(ticks)
    IN [events |-> end.events, summary |-> OfflineSummary(end.engine, end.events)]

-----------------------------------------------------------------------------
(* The game                                                                *)

\* The match with a number, when it begins.
NewGame(match) ==
    [match |-> match, running |-> TRUE, roshan |-> "alive", cooldown |-> 0,
     health |-> [b \in Building |-> MaxHealth], kills |-> 0, wards |-> 0,
     alive |-> TRUE, items |-> StartItems]

Swapped(items, s, t) == [items EXCEPT ![s] = items[t], ![t] = items[s]]

\* What one change of the game makes of it.
Changed(g) ==
    {[g EXCEPT !.kills = @ + 1], [g EXCEPT !.wards = @ + 1],
     [g EXCEPT !.alive = ~@], [g EXCEPT !.cooldown = 1 - @],
     [g EXCEPT !.roshan = IF @ = "alive" THEN "respawning" ELSE "alive"]}
    \cup {[g EXCEPT !.health[b] = @ - 1] : b \in {x \in Building : g.health[x] > 0}}
    \cup {[g EXCEPT !.items[s] = IF @ = Empty THEN x ELSE Empty] : s \in Slot, x \in Item}
    \cup {[g EXCEPT !.items = Swapped(g.items, s, t)] : s \in Slot, t \in Slot}

Plus(a, b) == [t \in Counted |-> a[t] + b[t]]

\* How often a change makes each type of event true.  That another match is
\* shown is no event of either.
Happened(g, h) ==
    LET One(c) == IF c /\ g.match = h.match THEN 1 ELSE 0
        hit == {b \in Building : g.match = h.match /\ h.health[b] < g.health[b]}
    IN [t \in Counted |->
          CASE t = "hero_death" -> One(g.alive /\ ~h.alive)
            [] t = "hero_respawn" -> One(~g.alive /\ h.alive)
            [] t = "kill_counter" -> One(h.kills > g.kills)
            [] t = "ward_counter_changed" -> One(h.wards > g.wards)
            [] t = "roshan_state_changed" -> One(g.roshan # h.roshan)
            [] t = "ward_purchase_started" -> One(g.cooldown = 0 /\ h.cooldown > 0)
            [] t = "ward_purchase_cooldown_changed" -> One(g.cooldown > 0 /\ h.cooldown = 0)
            [] t = "building_health_loss" -> Cardinality(hit)
            [] OTHER -> Cardinality({b \in hit : h.health[b] = 0})]

\* counts, after the game went through course.
Counting(counts, course) ==
    LET upTo[n \in 0 .. Len(course) - 1] ==
            IF n = 0 THEN counts
            ELSE Plus(upTo[n - 1], Happened(course[n], course[n + 1]))
    IN upTo[Len(course) - 1]

\* The game goes on, or ends, or another match is shown, with another hero at
\* the same place and everything anew.
Following(g) ==
    {NewGame(g.match + 1)} \cup IF g.running THEN Changed(g) \cup {[g EXCEPT !.running = FALSE]} ELSE {}

\* What the game does between two ticks: nothing, one thing or two.
Courses(g) ==
    {<<g>>} \cup {<<g, h>> : h \in Following(g) \ {g}}
    \cup UNION {{<<g, h, i>> : i \in Following(h) \ {h}} : h \in Following(g) \ {g}}

-----------------------------------------------------------------------------
(* The two programs                                                        *)

\* What a write leaves of a file: what was to be written or, if it fails, a
\* file that nobody can read, the same as none.
Written(content, fails) == IF fails THEN {} ELSE {content}
CountFault(b, fails) == [b EXCEPT !.faults = @ + IF fails THEN 1 ELSE 0]
MayFail == IF bounds.faults < MaxFaults THEN BOOLEAN ELSE {FALSE}

\* The game goes on, a tick of it is appended to raw.jsonl and projected:
\* Observe, then WriteSummaryFiles.
Tick(course, hidden, gone, fails) ==
    LET tick == View(Last(course), hidden, gone)
        changes == Len(course) - 1
    IN /\ game' = Last(course)
       /\ truth' = Counting(truth, course)
       /\ shown' = Append(shown, Last(course).match)
       /\ blind' = blind \cup hidden
                   \cup (IF changes > 1 THEN {"rushed"} ELSE {})
                   \cup (IF tick.running /\ "buildings" \in hidden THEN {"lost"} ELSE {})
       /\ raw' = Append(raw, tick)
       /\ derived' = Append(derived, DerivedBy(engine, tick))
       /\ engine' = Observe(engine, tick)
       /\ summary' = Written(Snapshot(engine'), fails)
       /\ bounds' = CountFault([bounds EXCEPT
                                  !.hidings = @ + IF hidden = {} THEN 0 ELSE 1,
                                  !.changes = @ + changes], fails)
       /\ UNCHANGED <<analysis, events>>

Capture ==
    /\ Len(raw) < MaxTicks
    /\ \E course \in IF raw = <<>> THEN {<<game>>} ELSE Courses(game), fails \in MayFail,
          hidden \in IF bounds.hidings < MaxHidings THEN Hidings ELSE {{}} :
          /\ bounds.changes + Len(course) - 1 <= MaxChanges
          /\ \E gone \in SUBSET {b \in Building : Last(course).health[b] = 0} :
                Tick(course, hidden, gone, fails)

\* AnalyzeSession reads the committed lines.
ReadRaw ==
    /\ analysis.at = "idle"
    /\ analysis' = [at |-> "write", of |-> Analyzed(raw)]
    /\ UNCHANGED <<source, raw, engine, derived, files, bounds>>

\* WriteArtifacts: the events, then, unless that failed, the summary, over the
\* one the live program keeps.  Nothing else writes or reads the events.
WriteArtifacts(eventsFail, summaryFails) ==
    /\ analysis.at = "write"
    /\ analysis' = [analysis EXCEPT !.at = "done"]
    /\ events' = Written([ticks |-> analysis.of.summary.ticks, list |-> analysis.of.events],
                         eventsFail)
    /\ summary' = IF eventsFail THEN summary ELSE Written(analysis.of.summary, summaryFails)
    /\ bounds' = CountFault(bounds, eventsFail \/ summaryFails)
    /\ UNCHANGED <<source, raw, engine, derived>>

Init ==
    /\ game = NewGame(0)
    /\ raw = <<>> /\ derived = <<>> /\ engine = NewEngine
    /\ analysis = [at |-> "idle", of |-> Analyzed(<<>>)]
    /\ summary = {} /\ events = {}
    /\ truth = [t \in Counted |-> 0]
    /\ shown = <<>> /\ blind = {}
    /\ bounds = [changes |-> 0, hidings |-> 0, faults |-> 0]

Next ==
    \/ Capture
    \/ ReadRaw
    \/ \E eventsFail, summaryFails \in MayFail : WriteArtifacts(eventsFail, summaryFails)

Spec == Init /\ [][Next]_vars

-----------------------------------------------------------------------------
(* Properties                                                              *)

Reported(n) == FlattenSeq(SubSeq(derived, 1, n))
OfType(list, type) == Select(list, {type})

\* Types, and the histories in step.
TypeOK ==
    /\ game.health \in [Building -> 0..MaxHealth]
    /\ game.items \in [Slot -> Item \cup {Empty}]
    /\ shown \in Seq(Nat) /\ Len(shown) = Len(raw)
    /\ engine.counts \in [EventTypes -> Nat]
    /\ engine.ticks = Len(raw) /\ Len(derived) = Len(raw)
    /\ engine.prev = (IF raw = <<>> THEN {} ELSE {raw[Len(raw)]})
    /\ analysis.at \in {"idle", "write", "done"}
    /\ Cardinality(summary) <= 1 /\ Cardinality(events) <= 1
    /\ truth \in [Counted -> Nat]
    /\ bounds.changes <= MaxChanges /\ bounds.hidings <= MaxHidings
    /\ bounds.faults <= MaxFaults

\* However the ring and the arrays are cut, the live API shows the latest
\* events there were, of each kind the latest, exact totals, and the economy of
\* the last tick with players (engine.go recordEvent, summary.go Snapshot).
BoundedViews ==
    LET all == Reported(Len(derived))
        withPlayers == {n \in DOMAIN raw : raw[n].players # {}}
        latest == {n \in withPlayers : \A m \in withPlayers : m <= n}
    IN /\ Len(engine.events) <= MaxEvents
       /\ RecentEvents(engine) = LastOf(all, RecentEventsAPI)
       /\ \A o \in Observations :
             LET list == Select(all, TypesOf(o))
             IN /\ engine.observed[o] = LastOf(list, MaxObservationsAPI)
                /\ engine.totals[o] = Len(list)
       /\ \A t \in EventTypes : engine.counts[t] = Len(OfType(all, t))
       /\ Economy(engine) = {p.kills : p \in UNION {raw[n].players : n \in latest}}

\* Whichever program wrote the summary last, and whatever ticks came since, it
\* is true of the ticks it counts: totals and counts are exact, and what is not
\* marked as truncated is complete; so is the offline list of events
\* (summary.go buildSummaryJSON, analyze.go AnalyzeSession).
SummaryHonest ==
    /\ \A s \in summary :
          LET all == Reported(s.ticks)
          IN /\ s.ticks <= Len(raw)
             /\ \A t \in EventTypes : s.counts[t] = Len(OfType(all, t))
             /\ \A o \in Observations :
                   LET list == Select(all, TypesOf(o))
                   IN /\ s.totals[o] = Len(list)
                      /\ ~s.truncated => s.observed[o] = list
    /\ \A f \in events : f.list = Reported(f.ticks)

\* What is cut off is cut off at the right end, counted, and told: on the live
\* API at any time, in whatever was written last (resource bounds of engine.go
\* recordEvent, truncation of summary.go).
CutIsHonest == BoundedViews /\ SummaryHonest

\* What the engine can take for an event when the next tick is of another
\* match: it compares by place, and asks no tick which match it is of.
ByPlace == {"hero_respawn", "roshan_state_changed", "ward_purchase_cooldown_changed"}
Misread(t) == IF t \in ByPlace THEN game.match ELSE 0

\* No event is reported more often than the thing happened within a match; and
\* each is reported when every tick showed all and no two changes fell between
\* two ticks, but for the health a building loses with its entry.  Except: a
\* block of buildings left out while the game runs is taken for their
\* destruction, and each time another match is shown a respawn, a change of
\* Roshan and an end of the cooldown may be made up (engine.go derive).
ChangesReconcile ==
    /\ \A t \in Counted :
          \/ t = "building_destroyed" /\ "lost" \in blind
          \/ engine.counts[t] <= truth[t] + Misread(t)
    /\ blind = {} =>
          \A t \in Counted \ {"building_health_loss"} : engine.counts[t] >= truth[t]

\* Between two ticks of one match that both show the items, the item events
\* turn the slots shown before into those shown now, and an item said to have
\* moved was where it is said to come from and is where it is said to be
\* (engine.go deriveItems, deriveItemRelocations).
ItemsReplayed ==
    LET n == Len(raw)
        Items(tick) == {p.items : p \in tick.players} \ {<<>>}
        now == derived[n]
        Brought(s) == {i \in DOMAIN now : /\ now[i].key = s
                                          /\ now[i].type \in ItemTypes \ {"item_slot_changed"}}
    IN n >= 2 /\ shown[n - 1] = shown[n] =>
       \A prev \in Items(raw[n - 1]), cur \in Items(raw[n]) :
          /\ \A s \in Slot :
                IF Brought(s) = {} THEN RealName(cur, s) = RealName(prev, s)
                ELSE \E i \in Brought(s) : /\ Brought(s) = {i}
                                           /\ RealName(cur, s) = {now[i].item} \ {Nothing}
          /\ \A i \in DOMAIN now : now[i].type = "item_slot_changed" =>
                /\ RealName(prev, now[i].from) = {now[i].item}
                /\ RealName(cur, now[i].key) = {now[i].item}

\* The events of a session tell its changes: counts never above what happened
\* in its matches, not below it when all was shown, and slots replayed by them
\* from tick to tick.
EventsReconcile == ChangesReconcile /\ ItemsReplayed

\* As documented: an event "only ever references fields that were observed in
\* two consecutive ticks" (engine.go Event), so an item event tells that this
\* tick and the one before show the items.  deriveItems takes a missing block
\* for empty slots.
ItemsObserved ==
    Len(raw) >= 2 /\ (\E i \in DOMAIN derived[Len(raw)] :
                       derived[Len(raw)][i].type \in ItemTypes)
    => \A tick \in {raw[Len(raw) - 1], raw[Len(raw)]} :
          \E p \in tick.players : p.items # <<>>
=============================================================================
