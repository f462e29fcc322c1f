# Verification of dota2-ob in TLA+

This directory models the stateful parts of dota2-ob and says, for each, what
must hold whatever the interleaving, the failure or the order of the calls.
TLC checks the models on small instances; the proofs of `*_proofs.tla` are
checked by TLAPS and hold for every value of the constants. `PROJECT.json`
lists the components, the runs, the definitions with the lines they stand for,
the hazards and the findings.

## The system

dota2-ob has two planes that share nothing but the machine.

**Live plane** (`internal/gsi`, `capture`, `session`, `operator`, `lifecycle`,
`analytics`, `profile`, `state`). The game posts snapshots over HTTP. Each is
appended to `raw.jsonl` and then given, under one mutex, to three projections:
latest record, field profile, live analytics. A signal stops the server, which
drains the requests inside and closes the file.

**Replay plane** (`internal/replay`, `cmd/dota2-ob/replay_cmd.go`). A batch
command takes the demos of a manifest and builds, for each match, a directory
of artifacts: verification, raw facts, identity, clock, facts, episodes,
phases, metrics, report, status, and last a completion marker. `replay score`
computes scores from the published matches. `replay serve` shows everything
and takes reviews and role overrides. These are separate processes over the
same files, and no file is locked between them.

| Component | State | Operations | What makes it hard | What makes it correct |
|---|---|---|---|---|
| review transaction (`review.go`, `store.go`) | journal, audit log, review documents, mutex | commit, roll back, recover | fails or dies between any two of rename, fsync, unlink | document and log always agree; what was acknowledged stays |
| review workflow (`review.go`, handlers) | corrections, phase operations, overlay, category decisions, final snapshots, revision | correct, edit, decide, sign off, read and migrate old documents | forms are stale; the machine's analysis changes underneath | a signed match was signed for what it says; stale forms stay stale |
| phase edits (`phase_ops.go`) | effective stream | accept, move, relabel, add, delete, split, merge | long series of splices of a list | each second has exactly one phase, and only the asked ones change |
| phase engine (`phase.go`) | windows, current phase, intervals, resets | feed, judge a second, end | late inputs, windows of different length, seconds without inputs | the match is covered, no boundary looks ahead |
| live capture | raw file, sequence, seal, gate, mutex, tracker | post, append, roll back, project, shut down, recover | torn writes, sealed store, requests during shutdown, kill | committed lines are never lost or changed; answers are true |
| replay runner (`runner.go`, `store.go`) | the match directory, marker, status | build, resume, validate, verify, catalogue | killed or failing between artifacts, changed inputs, rotting files | a marker covers one whole build; verified is earned |
| score store and override (`scoring/store.go`, `api_scores.go`) | override file, report, scores, corpus | score, override, restore | several files changed by two programs without a lock | an acknowledged override is effective; a refused one leaves nothing |
| facts (`facts.go`) | fact file, counts of the summary | emit a combat fact, thin snapshots, publish | two clocks, a disk that fails while nobody looks | every fact owed, once, in order |
| episodes (`episodes.go`) | open fight, open rounds, smokes seen | one pass | what is open is decided by later facts | the episodes of the whole file |
| metrics (`metrics.go`) | counters, life events | one pass, then rows per phase and match | phase edges, gaps, deaths by allies | phases add up to the match; only proven lives count |
| scoring rules (`scoring.go`) | none: a corpus is built anew each time | pool, rank, axes, totals, links, validate | missing matches and metrics, ties, roles that change by match, experimental metrics beside official ones | exactly what is earned is published; the validator refuses no corpus that was built |
| extraction (`parser`, `raw`) | the file of what the parser was told | write, summarise | the same message again and again, in any order | the last counts, of the game's states the first |
| identity, clock (`identity.go`, `clock.go`) | none | verdict on a replay | fail closed on every gap, never on a proven match | only what is proven is analysed |
| archive and manifest (`archive.go`) | none | verdict on a file | files that change while they are used | a run is skipped only for the same bytes |
| replay API (`api.go`) | none | read what the runner wrote | it is written meanwhile; links by id | a page is of one build; every link leads to one thing |
| live analytics | last tick, ring of events, bounded arrays, totals, summary file | observe, snapshot, analyse offline | ticks with missing blocks, limits of different kinds, two writers of the summary | nothing is made up, missed or counted wrong; what is cut off is marked |
| profiler, latest | field counts, last record | observe | | applied once and in order (`RawCapture`) |
| preflight, pages, tables, version | none | | | not modelled |

Interactions: `gsi` calls `capture`, which calls `session`, `operator` and the
projections; `lifecycle` drains `gsi` and closes `session`. `runner` calls the
gates, the stages and `store`; the `api` handlers call `review`, `roles`,
`scoring` and `report` and read what `runner` wrote. The phase engine's stream
is what phase edits start from, and the sign-off checks it again.

## The modules

| Module | Models | Composition |
|---|---|---|
| `ReviewLedger` | the promise: document and log change in one step, answers are true | abstract specification |
| `ReviewCommit` | the transaction, step by step, with faults, kills and power loss | implements `ReviewLedger` |
| `ReviewWorkflow` | what reviewers do to one match, with revisions and re-analysis | one step per transaction: `ReviewCommit` justifies that |
| `Review_proofs` | seven theorems about the two | extends both |
| `PhaseTimeline` | the promise: a line of seconds with cuts, repainted by edits | abstract specification |
| `PhaseStream` | intervals and `validateStream` | shared by the next two |
| `PhaseOps` | the seven edits of a list of intervals | implements `PhaseTimeline` |
| `PhaseOps_proofs` | two theorems about it | extends `PhaseOps` |
| `PhaseEngine` | the engine that emits the machine's stream | its output is judged by `PhaseStream` |
| `PhaseEngine_proofs` | four theorems about it | extends `PhaseEngine` |
| `PhaseReview` | what the engine returned is what the edits start from | composes the engine and the edits |
| `RawCapture` | gate, processor, store, tracker and shutdown together | one module: they share the request's life |
| `RawCapture_proofs` | four theorems about it | extends `RawCapture` |
| `LiveAnalytics` | the engine, its bounded views and summaries, the offline analysis, a game they look at | the projection `RawCapture` applies |
| `LiveAnalytics_proofs` | three theorems about it | extends `LiveAnalytics` |
| `ReplayRunner` | the runner, `replay verify`, the override of the report, catalog and API as readers | |
| `ScoreStore` | `replay score` and the override handler over their files | |
| `ScoreStore_proofs` | four theorems about it | extends `ScoreStore` |
| `MatchFacts` | from demo entries to the fact file | base of the next two |
| `Episodes` | the pass that finds episodes, and what they are of a whole file | extends `MatchFacts` |
| `MatchMetrics` | attribution, lives, rows of the direct metrics | extends `MatchFacts` |
| `MatchGates` | from the messages of a demo to accepted or quarantined | a prefix of the next |
| `MatchAnalysis` | the runner's stages 2 to 5 | composes the last three and `MatchFacts` |
| `Replay_proofs` | eight theorems about the runner and what it computes | extends `ReplayRunner` and `MatchAnalysis` |
| `Scoring` | the rules: pools, percentiles, axes, totals | operators only |
| `ScoreGraph` | the corpus of a set of rows, its links and its validator | extends `Scoring` |
| `ScoreCorpus` | a data root whose matches, roles and rules change, scored at any time | extends `ScoreGraph`; what becomes of the files is `ScoreStore` |
| `ScoreCorpus_proofs` | six theorems about it | extends `ScoreCorpus` |

`MC*.tla` give the constants of the runs that need more than a `.cfg` can say.
Definitions named `X_Something` are slips: forms of `X` with a plausible bug,
used to see that a property can fail. Nothing else refers to them.

### Review transaction

`commitReviewAndAudit` writes a journal with the prior contents, promotes the
audit log, promotes the document and unlinks the journal; every failure
restores. `pc` is the place in that function or in `restoreTransaction`.
`store.WriteAtomic` is two steps: the rename (`Change`), seen at once, and the
fsync of the directory (`Sync`), after which a power loss cannot undo it;
`journalAlt`, `auditAlt` and `reviewAlt` are the contents a power loss may
still leave. `Kill` keeps the visible files. Writes to the temporary file are
not steps: nobody reads it before the rename.

An absent file and an empty document are the same here, because the loader
makes them so. `MkdirAll` of a match directory is assumed durable. A file that
cannot be decoded is outside the model (`Refuse` covers an unreadable log).

### Review workflow

A document is a record of its histories; a revision, a hash in the code, is
the content it hashes. `form` is the revision a reviewer's page shows and
`context` the analysis a handler has read before it calls the store, outside
the store's mutex. Documents of earlier schemas are initial states.

### Phases

`PhaseOps` asks for one edit at a time (`asked`) and answers it, so that the
refinement relates the answer to the same request. `PhaseTimeline` has neither
intervals nor lists: which seconds have which phase, and where the cuts are.
`Streams`, the streams the edits start from, are some that `validateStream`
accepts; when the machine's stream is one, `PhaseEngine` says (`MatchIsCovered`).
`PhaseReview` puts the two together: `Present` is what lies between `End` and the
first edit, `phases.json` and the handler that reads it. Since the line of seconds
may not change by itself, the stream is foretold in the first state, and only a
match in which the engine does emit it goes on to edits. After `Present` the
engine's state is the initial one, for nothing looks at it any more.
`RoundIndex` and the reference syntax are left out: no edit depends on them.

`PhaseEngine` keeps the code's windows. The rule on lane structure is a stub
that never holds, so positions only make seconds pass. Thresholds are
constants: with the code's values (120, 20, 30, 30 seconds, six heroes) no run
would be small. The runs keep their order: buybacks count longer than a round
needs quiet.

### Live capture

A record is its sequence and the request it came from; a file is its lines and
a tail that may be torn. `Serve(r)` is what one goroutine does, `Shutdown` what
the main goroutine does. Left out: exit codes, the ring of recent errors,
clocks. Records are not fsynced, by design
(`docs/specs/2026-08-05-mvp3-block-a-operator-hardening.md:49`), so power loss is not modelled.
The program starts a session of its own each time; that a killed session can be
opened again is what `session.Store` offers and its tests exercise.

### Live analytics

`game` is what really happens; a tick shows it with blocks left out
(`Hidings`). A pointer that may be nil is a set of at most one value, so that
missing and zero differ as they do in the code. `engine` is
`analytics.Engine`; `derived` keeps what `Observe` returned for each tick, which
the live program throws away and the offline one writes. `truth` counts what
happened within a match; that another match is shown (`game.match`) is no event
of either, although the engine, which compares by place, may take it for one.
`shown` is the match each tick is of, `blind` why some of it may be unseen. One step is what the game does
between two posts (`Courses`) and the post itself. One hero and one counter of
each kind stand for all; gold and net worth, abilities and the tormentor are
left out. The order of events within a tick follows Go's maps and is open; the
model takes one.

### Replay runner

Artifacts carry the inputs they were built from. `run.at` walks the stages.
`Rot` and changes of input happen between runs; a failed read or write may
come anywhere, as may a kill. Two runs of the same match at once are excluded:
the batch command runs a match once. Power loss and temporary files are left
out. The other processes act during a run too; `bounds.together` counts that.
`Page` is what the server makes of the tree when a report is asked for.

### Gates

`MatchGates` keeps the messages the parser may be told, each at most once and
in any order, and the summary the gates read of them: the last file info, the
last state of each team entity, the first time of each state of the game. A
refusal's reasons are text in the status; that it refuses is state. Hero,
account and side of a player are one value (`binds`), which is in the manifest
or not. When the gates have spoken the messages are forgotten: nothing later
reads them. The rules are taken as the code writes them, with what it counts
(`Names`, `Cardinality(seen)`); `Proven` says it once more of the messages
themselves, with quantifiers.

### Match analysis

A demo is a sequence of entries from a small alphabet (`Feeds`), each after
some time; times are quarters of a second, so that the half seconds of the
sampler and the whole seconds of the phases both have an inside and an edge.
Combat entries count game time. Snapshots carry demo ticks, which
`GameSecondOfTick` maps by one offset, so every pause puts them later
(`clock.go:78`, although
`docs/specs/2026-08-17-ti2026-phase-state-machine.md:33` excludes pauses). A
failing disk stops the encoder: the file then ends after a whole line
(`short`) or in the middle of one (`torn`); only `emitCombat` looks at the
error.

`Build` and `ProvenLives` are the code's passes; the properties compare them
with definitions over the whole file that have no state (`Fights`, `Rounds`,
`IsLife`). Metrics other than the five direct ones are unavailable in the code
whatever the facts. A hit counts one. Phase streams are given, two valid, of
which one takes midgame up twice, and one not; the engine that makes them is `PhaseEngine`. Left out: the order in
which episodes are listed, evidence lists, position gaps, ward and respawn
episodes, whose facts nothing emits (nor does the file list them as
unavailable).

### Scoring

A raw value is a fraction, a percentile a whole number of `1/Scale` points and
an axis of `1/(Scale * Whole)`: every mean is exact but one, that of the V3
components of an axis (`ExperimentalAxes`), which is rounded down and which no
property measures. The rounding of the code's floats is not modelled. `Scale` is such that half the points of a cohort
divide by its size, for every size up to the number of accounts
(`ScaleAssumption`), so that a mean rank is exact. A lineage, a sorted list without duplicates in the code, is a set.
Numerators and denominators, pointers in the code, are sequences of at most one
fraction. Left out: versions (all artifacts of a run are of one), opportunity
counts and what is only shown. Contracts are constants under
`ContractAssumption`, which is what `Contract.Validate` and
`TeamContract.Validate` check: the official components of a player need not be
official metrics, so the run has one that is not. What the frozen contracts
(`docs/specs/ti2026-radar-scoring-v1.json`) have beyond that is
`FrozenAssumption`: no weight is below 0, and of the mandatory axes of a role
not all are without weight. `Validate` would let a contract through whose
mandatory axes weigh nothing; a player with only those would have a coverage
that earns a total, and none to show. `RootAssumption` says what a data root holds:
finitely many matches and accounts, numerators and denominators that are
fractions, a reason for whatever is withheld, and, of a rate or a percentile
that is published, a chance to have done it (`HasChance`: `finalizeDirectValue` has
nothing to say of a metric without opportunities or time).

`ScoreCorpus` changes the data root in any order and scores it. `Scorings` is a
set of one: quantifying over it makes TLC compute each stage once.

### Score store

A row is what scores were made from: the metrics' run and the override.
Every match has one account. No lock keeps handlers and commands apart, in the
code as in the model: `MaxTogether` bounds how many are at work at a time. A
snapshot is taken and put back file by file, in the order of
`roleMutationPaths` (`Files`), scores are written match by match. The review
store's mutex covers its transactions (`desk`), in which document and log are
read in one step and committed in another (`ReviewCommit` has the steps
between), but not the restoration, which writes both files without it.
One step each: reading what the rows are made of, the preflight and the reading of the
catalog by the score command. Report and status are one file.

Four histories serve the properties: the files as each request found them
(`found`), who was at work meanwhile (`met`), who wrote scores last without
being interrupted (`writer`), and the commits of other reviewers (`acked`).

## Runs

| Run | Question | Bounds |
|---|---|---|
| `review_commit_kill` | types, no split is served, the ledger is implemented, calls end | 3 calls on 2 matches, 3 faults, 2 kills; no failing fsync right after an unlink |
| `review_commit_loss` | what was acknowledged stays, under everything | 3 faults, 2 crashes of either kind |
| `review_workflow` | sign-offs are current, expired forms stay stale | 2 reviewers, 2 analyses, 3 commits |
| `phase_review` | coverage, quiet before a reset, no look-ahead; edits of intervals are edits of seconds | engine: 4 inputs, 6 seconds and 2 beyond; edits: a match of 4 seconds that went through all phases, every request with one label, none or an unknown one |
| `match_analysis` | gates that open for the proven match and for no other, complete fact files, episodes and lives of the whole file, phases that add up | 2 players, 5 messages out of 5 demos, 2 public durations, of which one is missing; then 3 heroes, 4 entries out of 6 alphabets, 1 pause, a disk that may fail |
| `raw_capture` | evidence and answers, projections and status, shutdown | 3 posts, 1 fault, 2 processes |
| `live_analytics` | cut views and summaries that say so, no event made up or missed, item diffs | 3 ticks, 2 changes, of which any may be to another match, 1 tick that leaves something out, 1 failing write, ring of 4 |
| `items_observed` | *violated*: a tick without the block of items makes item events | as `live_analytics` |
| `replay_runner` | a marker covers one whole build, so does a page, verified is earned and published as such, a run ends | 2 runs, any kills, 2 changes, failures, rotten files or other writers |
| `score_store` | an acknowledged override is effective, a refused one leaves nothing, scoring repeats | 2 overrides of 2 matches; with or beside them 2 of: a score command, a re-analysis, change of status or review, 2 failures or kills; 2 programs at work at a time |
| `scoring` | what is earned is published, official scores without V3, roles apart, teams pool their players, links lead | 3 matches, 3 teams of 2, 4 forms a match may take, 2 overrides, 1 change of rules |
| `score_lost` | *violated*: one of two overlapping overrides is lost | 2 overrides |

Why these bounds are enough. The transaction concerns two files and a journal:
three calls give a committed one, a failing one and one that finds its
remains, two of them on one document and one on another; two faults are needed
for a failing roll-back and two crashes for an interrupted recovery. Three
commits suffice for sign, edit, sign again. Four seconds hold four intervals,
or two wide enough to move a cut both ways; laning as the one label of a request
is the one that a line of seconds may have to refuse. Four inputs are one more than the
longest path to a round and its reset (tower, two buybacks). Two processes
show what a restart finds; two runs and a change show what a resume reads, and
two events what a failed restoration or a second cause adds. Inputs change one
at a time. Two changes in three ticks give more events than the ring of four
holds (an item that moves is three), a kill before and after a switch of
match, and two of one kind between or across ticks. Two matches show what an override of one does to the
other; two requests, or one and a command, meet at every pair of their steps, and
two failures stop one of them twice, or each. Two overrides of one match are in
the proofs only. Four entries hold a life with a gap in it, or three deaths of which the
first and the last are too far apart for one fight; the times reach before the
horn, the edge of two phases and beyond the end. Five messages hold a match that is
proven (file info, horn, end, the end of the demo) and one or two that
contradict, confirm or repeat: each demo is made of such contradictions of one kind.
Three matches in which each team misses one give subjects above and below the
minimum of two matches (three in the code) and cohorts above and below it; an
override may divide a player's matches between two roles. Four axes (eight in
the code) hold one that is mandatory, one that weighs several metrics, one with
an experimental component and one a role does not have.

`CHECK_DEADLOCK FALSE` is in every configuration but `ScoreCorpus.cfg` since the systems may rightly
stop: bounds on calls, faults and runs are used up, a match ends, a process is
down and nobody starts it again.

### Fairness

- `ReviewCommit!FairSpec`: the steps of a call that runs are scheduled; it
  holds the mutex and waits for nobody. Nothing forces a new call or a crash.
- `RawCapture!FairSpec`: goroutines of handlers and the main goroutine are
  scheduled. Nothing makes a client send its body: only the header has a read
  timeout. `StopsWhenAsked` therefore assumes that no body is withheld for ever,
  and says nothing without that.
- `ReplayRunner!FairSpec`: a run that began goes on; its stages are ordinary
  sequential code.

The other specifications have none, and no liveness is claimed of them.

## Proofs

`Review_proofs` is about two modules. Of `ReviewCommit`, for any matches, requests and bounds, from
`ConstantsAssumption` alone unless said otherwise:

- `TypeCorrect`: `TypeOK` always holds. Inductive with `Promoting` (a call that
  writes log or document is a request, not the recovery at construction).
- `AcknowledgedSurvive`: `AckedNeverLost`, under every failure, kill and power
  loss. The invariant `AckInv` says that everything that may still appear on
  disk is safe: each content in `journalAlt`, `auditAlt` and `reviewAlt`, not
  only the visible one, holds every acknowledged request, or, for a journal,
  would restore contents that do. A journal whose removal was not synced may
  come back, which is why its contents must stay safe until then.
- `NoSplit`: `SplitNeverServed`, assuming `KillOnly`: no power loss, and no
  failing fsync after an unlink; without the second it is false. `SplitInv` ties `pc` to which of the two contents each file has
  (`Stage`), so that the effective contents, those recovery would restore,
  change at one step only.
- `Implements`: under the same assumption `Ledger!Spec`: that one step, the
  visible removal of the journal, is the ledger's `Commit`; all others stutter
  or tell.

`RawCapture_proofs`, for any requests, fault and restart bounds and a process
killed at any step, from `ConstantsAssumption` alone: the requests are finitely
many (the counts of the gate and of the tracker are cardinalities), and the
invalid posts are among them. One inductive invariant of five parts:

- `Base`: types; whoever is inside the processor holds its mutex; a server that
  has drained, closed or died has nobody inside; a tail that is not clean is
  being written by the holder, or the store is sealed. The last is why a line
  is never appended to half a line.
- `Answered`: line i has sequence number i, no request has two lines, and each
  request's place and answer fit whether it has one.
- `Reported`: the raw failure the tracker shows is the seal, but for the one
  request that has sealed the store and not yet reported it.
- `Counted`: gate and tracker count the requests in the places that they
  should, one more or less in a place for each step.
- `Progress`: each projection has seen the records up to the last one, or up to
  the one before while the holder is still on its way to that projection.

From it: `TypeCorrect` (`TypeOK`), `Evidence` (`EvidenceTruthful`), `Projected`
(`ProjectedOnceInOrder`) and `Drain` (`DrainedBeforeClose`). `Evidence` and
`Projected` need all the parts: the properties only speak of requests that are
over and of moments when nobody is inside, and a step from there into the
processor must be traced to its end.

Of `ReviewWorkflow`, for any bound on commits and any documents of earlier
schemas of the shape the loader makes of them (`LegacyDoc`), from
`WorkflowAssumption`:

- `WorkflowTypeCorrect`: `WorkflowTypeOK`.
- `Signature`: `SignedIsCurrent`. The theorem needs that the current decision
  is one of the document's, and that a sign-off is a decision which names
  the content it was given for.
- `StaleForGood`: `ExpiredStaysStale`. A correction, an edit, a decision and a
  sign-off each add an entry to a history and none removes one, so that the
  document grows strictly: no later document is one a reviewer was shown before.

`PhaseEngine_proofs`, for any inputs, windows and length of a match, from
`ConstantsAssumption`: `TypeCorrect` (`TypeOK`), `Covered` (`MatchIsCovered`),
`QuietReset` (`ResetAfterQuiet`) and `Causal` (`NoLookAhead`). The invariant has
two parts. `Sound`: the intervals emitted so far cut the match from 0 to the
start of the open one and leave laning once; every reset was preceded by quiet
seconds; evidence is never from the future. `Waiting`: everything judged lies
before the second that is to be judged next, which is why a fact of that second
cannot contradict an interval or a reset already written. While a second is
judged `Decided` takes its place.

`Replay_proofs` is about two modules. Of `ReplayRunner`, for any closures, rules and bounds, a kill at any step
and reports overridden at any time, from `ConstantsAssumption`: `TypeCorrect`
(`TypeOK`), `PublishesWhole` (`CompletePublished`) and `AnswersAreEarned`
(`VerifiedIsEarned`). The invariant has four parts:

- `Shape`: types, the order of the stages, and who is at work.
  With no override seen during a run, nobody else is on the match.
- `Progress`: while they stayed `Apart` so, every stage before the present one
  left what a good build of the inputs the run read at its start makes.
- `MarkerWhole`: under the same condition, a marker names inputs that pass all gates
  and covers the tree a build of them makes, whatever became of the files
  since. So a resume that finds its marker valid has found that very tree.
- `Published`: what a run has answered fits what it left.

Of `MatchAnalysis`, for any manifests, demos of any length, pauses, failing disk and
phase streams, from `GatesAssumption`, `DemosAssumption`, `FactsAssumption`,
`EntriesAssumption`, `MetricsAssumption` and `StreamsAssumption`: `AnalysisTyped`
(`AnalysisTypeOK`), `FactsComplete` (`FactsAreComplete`), `EpisodesTold`
(`EpisodesTellMatch`), `ProvenOnly` (`OnlyProvenAnalysed`) and `MetricsReconciled`
(`MetricsReconcile`). The assumptions are those of the data: a snapshot says alive,
dead or neither; the manifest names two teams and its accounts are distinct, as
they are in the frozen one (`archive.Manifest.Validate` only counts the
entries); a stream is a list of intervals of whole seconds, valid or not.

`FactsComplete`, `EpisodesTold` and `MetricsReconciled` compare a pass over a list
with a definition over the whole list. A pass is a function for each length by a climb over the naturals
(`PassIs`), and there is one only (`PassOnce`); what one element more does is then a
lemma for each kind of element.

- `FactsComplete`: what the demo owes is the pass over the entries read, so the
  invariant is that the file is what is owed, cut off where the disk failed
  (`Tells`). What is owed of a snapshot depends on all snapshots of its hero
  before, what is written on one number; `LastBin` ties them: no snapshot
  after the horn was in a later half second than the last one written.
- `EpisodesTold`: `Told` says what `Build` carries after any part of the file.
  The open fight is the one the deaths so far tell and has not ended
  (`FightsTold`), the rounds are those of the buybacks so far. It rests on
  deaths being in the order of their times (`Past`), which combat time, never
  going back, gives.
- `ProvenOnly`: `GatesInv` adds to the types that who waits for the clock has
  shown who he is. Last and first of a kind are said by comparing indices and by
  counting through the list (`LastIs`, `FirstIs`). That ten slots with ten distinct
  accounts of the manifest are all of its players is a count of a finite set.
- `MetricsReconciled` has three parts. `AllAnswered` follows from how the rows are
  listed. For `PhasesAddUp`, a valid stream cuts the match: each time lies in
  exactly one interval (`TimeInCut`, `CutOnce`), so that what is accepted is the
  disjoint union over the phases (`PhasesPart`), and cardinalities add up. A phase
  without time or opportunity has no row and nothing to count (`CountNeedsTime`).
- `LivesAreProven` needs to know what the pass over life events knows:
  `KnowsLife` says of the facts heard so far whether the hero was never seen,
  is dead, or lives since a fact nothing contradicts, and whether a silent
  sample came since. So the life that an event ends is the one that is going
  on (`EndsNow`), and the list is exactly of the lives the facts prove, one after
  the other in time (`ListsLives`). Their time in the match is at most its length
  because each lies between the end of the one before and its own
  (`TotalTime`); what an interval holds of a life is how far the nearest point of
  the life moves while time goes through it (`PartIsGrowth`). Deaths add up as the
  lives are parted by the phase of their end (`DeathsPart`), but for those with no
  part in it, which end as it starts (`EdgeStarts`).

`ScoreStore_proofs`, for any number of matches and requests, any programs at work at
once and any bounds, from `ConstantsAssumption` alone: `TypeCorrect` (`TypeOK`),
`Kept` (`AckedKept`), `Repeatable` (`ScoresAgree`) and `Refused`
(`RefusedLeavesNothing`). The invariant speaks of handlers that overlap:

- `Types`, and `Turns`: a handler that met no other writer of overrides and scores
  was alone among those, so that at most one at work is such a one, and while it
  is, no command is at work.
- `AllHeld`: what a handler has in its snapshot of a file that nobody else wrote
  meanwhile is what it found, and, until it writes that file, what the file has.
- `Effective`: an override that was acknowledged and met no other writer is in
  force on disk, and also in whatever an unmixed handler at work would restore. Without the
  second half a failing override could take back an acknowledged one.
- `Recorded`: a commit of another reviewer is in document and log, and in what
  the transaction under way will write; a handler that was at work then, and may
  fail yet, is the exception that `AckedReviewKept` makes.
- `Agreement`: as long as nothing failed and no match changed its status,
  whoever wrote scores writes those of the same matches, and a writer that was not
  interrupted has written the same rows in all of them and will in the corpus.

A writer goes over the matches in order, each time to the least that is left.
`LeastIs` has that there is one from `WFMin` and the well-foundedness of < on the
naturals, which takes the place of an induction.

`PhaseOps_proofs`, for a match of any length, any labels and any streams that
`validateStream` accepts, from `EditConstants`: `Refines` (`EditsTheLine`:
every answer of the seven edits, refusals included, is one that `PhaseTimeline`
gives to the same request, and leaves the same line) and `StaysValid` (`Inv`: the
stream is always one `validateStream` accepts, so that no sequence of edits
makes a stream the next edit would refuse). The argument:

- Exactly one interval of a valid stream holds a second (`OneHolds`), its start
  is the abstract `Holder` and its end the abstract `Stop`. That ties lists to
  the line, and a reference that an edit finds to the cut it names.
- Every accepted edit is one splice: neighbours are replaced by one, two or three
  intervals that cover the same seconds (`SplicedTiles`). What it does to
  phases and cuts is stated once (`SplicedLine`, `SplicedStarts`). The edits that
  write in place, a move, a relabelling, a deletion, are shown to be splices too.
- The sort after an edit then changes nothing (`SortedIs`): a stream without
  holes is in order already. No edit depends on the sort.
- What is put together stays without holes, so that the check of the whole
  result can fail for one reason only: laning is taken up again (`LaningIs`).

`LiveAnalytics_proofs`, for sessions of any length, any finite sets of buildings,
slots and items, any limits of the windows, failing writes, and the offline
analysis at any time, from `ConstantsAssumption`: `TypeCorrect` (`TypeOK`),
`CutHonestly` (`CutIsHonest`) and `Reconciles` (`EventsReconcile`). The windows are
what passes over a list have kept so far, so the proof needs what such a pass does
for a list of any length:

- A pass is a recursive function. That there is one for a list of any length is
  a climb over the naturals: the least length without one cannot be
  (`LeastOf`, `Climb`). What a pass makes of one element more is then a lemma each
  (`SelectMore`, `FlattenMore`, `ReplayedMore`).
- The invariant has three parts. `Types`. `Live`: the engine `Shows` all that was
  derived, that is, its ring is an end of that list, long enough for the API, each
  array is the end of the selected list, totals and counts are exact; and a
  replay of the same ticks gives the same engine and the same list. `Files`:
  what is written, or about to be, is `Honest` of the ticks it counts, whatever
  ticks came since.
- That the ring stays long enough when it is cut is where
  `RecentEventsAPI <= MaxEvents - MaxEvents \div 4` is needed (`RingIs`); with the
  code's 200 and 10000 it holds.

`Reconciles` rests on a second invariant, `Told`. The counts alone are not
inductive: what the next tick tells depends on what the last one showed. So `Told`
adds `Sees`: the last tick shows nothing of the game that is not so (`Partial`),
and all of it (`Whole`) while nothing was ever left out.

- How many events of a type a list has is `Count`; it adds up over lists put
  together (`CountConcat`), and going over a set counts the elements that give
  one (`CountEach`). So `DeriveCounts` says for each type how many a tick brings.
- `TickTells`: from a partial view of a game to a partial view of a later one, at
  most as many as the two games differ by (`Differs`), and as many if both are
  whole and no building is hit as the game ends. That is where the block of
  buildings left out comes in: what has no entry must have fallen (`Standing`).
- What differs is what happened, unless another match is shown: within one they are
  the same (`DiffersWithin`); a new match has all standing, everyone alive and every
  counter at nought, so that only the three things of `ByPlace` can differ and
  none of the others (`DiffersAnew`). Two changes between two ticks are counted one
  by one, and what shows is less or the same (`Triangle`, `CourseTells`).
- For items it is not how many but what they say: of each slot the list of a tick
  says nothing, or exactly one event says what it has now (`Once`, `ItemsSay`); the
  events about other things leave that alone (`SaysAround`).

`ScoreCorpus_proofs`, for any matches, players, teams, roles, metrics and
measurements and any contracts, after any changes of the data root, from
`ContractAssumption`, `FrozenAssumption`, `RootAssumption` and `ScaleAssumption`:
`TypeCorrect` (`TypeOK`), `OfficialApart` (`OfficialKnowsNoV3`), `LinksResolve`
(`GraphResolves`), `ScoresAreEarned` (`PublishedIsEarned`), `TeamsArePools`
(`TeamsPoolPlayers`) and `RolesKeptApart` (`RolesApart`). The state's part is small: what a
score run published are the scores of the rows it was told (`Told`, `Typed`). The
rest is about the pure rules.

- What they lack is induction over sets. A total over a finite set is that of
  what is left when one element is taken away; that there is such a function
  for each finite set, the same in whatever order, is a climb over
  cardinalities (`Shrinking`, `GoneOver`). From it come that a sum of fractions is
  above zero iff one of them is, that a weighted mean lies between the least and
  the greatest, and that a total of the totals of parts is the total.
- `OfficialApart`: two data roots that differ in experimental metrics only give
  the same observations, cohorts, axes and totals, stage by stage.
- `LinksResolve`: each aggregation, axis and total refers to what was built one
  stage before from the same key (`Leads`, `Grounds`), and no two have the same key
  (`Unique`). That the first and last match of a subject exist is `LeastOf` and
  `GreatestOf`. So the validator refuses no corpus that was built (`BuiltIsValid`).
- `ScoresAreEarned`: the cohort of a metric is the players of the role who have
  it; a score has a percentile of that cohort, an axis the coverage it needs, a
  total its mandatory axes. That a total can be computed once they are there is where
  `FrozenAssumption` is needed.
- `TeamsArePools`: putting the players' matches together, in one sum or player
  by player, is the same; a match without a chance adds a zero, which is where
  `HasChance` is needed; the greatest of the greatest is the greatest.
- `RolesKeptApart`: rows of other roles are never looked at (`ObservedAgain`,
  `PlayerAlone`), those of teams in whatever role (`TeamsWhateverRoles`). That ranks are
  fair counts twice: each two players of a cohort have two points to share, one
  each for a tie (`Duel`); a table of them has the same sum by rows and by
  columns (`Crosswise`), so that n players share n * n (`Shared`).

Model-checked only: liveness (`CallsEnd`, `StopsWhenAsked`, `RunEnds`, every `~>`).
The prover does not know ENABLED, and fairness rests on it. Every invariant and
every action property that a passing run checks is also a theorem.

## Findings

In short; `PROJECT.json` has the lines and the quotations.

- Of two overlapping overrides, both acknowledged, one is lost (`score_lost`).
- A tick that leaves the items out makes item events, "observed" ones, although
  an event is said to be of fields observed in two consecutive ticks
  (`items_observed`).

## Conditions the properties carry

Some promises hold only under a condition that the code does not enforce. The
property states the condition; dropping it makes TLC find the case.

- `SplitNeverServed`, `LedgerSpec`: no failing fsync right after an unlink. If
  removing the journal fails that way and the roll-back then fails at the log,
  document and log stay apart with no journal left (`UnlinkSyncMayFail`).
- `ExpiredStaysStale` is about corrections, phase edits, decisions and
  sign-offs. A revision hashes content, so a status moved there and back makes
  an older form acceptable again.
- `SignedIsCurrent` is about what reviewers do: a re-analysis of the match
  replaces the machine's stream under a review that stays reviewed.
- `VerifiedIsEarned` allows metrics of any closure contract, because the
  fingerprint does not cover it, and asks, as the part of `CompletePublished`
  on the marker does, that run and override stayed `Apart`: no lock keeps them so.
- What `CompletePublished` says of the catalog, which reads `status.json`, asks
  that the last run came to an answer: a rebuild that is cut off has removed
  the marker but not the old status.
- What it says of a page (`PageIsWhole`) excepts the report of an earlier run:
  the server reads `report.json`, and after a run that ended at an early gate
  that still is the run before, verified if that one was. Without a report the
  page is put together from the tree, and may be called verified by an old
  status beside phases that exist.
- `OnlyProvenAnalysed` excepts a demo that names one team on both sides.
  `identity.go:205` means that both teams of the manifest are there; what is
  counted are the names, the same one twice included. A team that only an
  entity names is enough for the second, and its side is not compared. The
  anchor may not be at zero in both clocks: that counts as missing.
- `EventsReconcile` excepts, of `building_destroyed`, a tick of a running game that
  lacks the whole block of buildings: the engine takes that for the destruction of
  them all, and says "inferred". It allows, each time another match is shown, one
  respawn, one change of Roshan and one end of the ward cooldown too many: the
  engine compares by place and asks no tick which match it is of. Of items it
  speaks between two ticks of one match that both show them: a tick without
  the block has its items removed (`items_observed`), and the hero of the next match
  is told as an exchange of items.
- `EpisodesTellMatch` takes the code's fights, not the comment's. The comment says
  a fight is "a cluster of >=2 deaths and ends 30 seconds after the last death"
  (`episodes.go:321-323`). The code asks for two distinct heroes among them
  (`:370`), so that two deaths of one hero are no fight, and ends it one second
  after the last death (`:378`); the 30 seconds only part one fight from the next.
- `ScoresAgree` asks that nothing failed: a failing override restores the
  scores of its own match only, after it rewrote those of all. It also excludes
  a scored match that is quarantined later: the next score run succeeds, leaves
  that match's file behind, and the one after it is refused for that file.
- `TeamsPoolPlayers` holds for a metric of percentiles only if every
  observation has a denominator. Otherwise stored percentiles are averaged,
  although the registry says "never average stored percentiles". It rests on
  `HasChance`, too: a rate over no chance at all would be pooled as if it were one.
- The scoring model publishes official metrics. Today's adapter has them
  unavailable, so that every axis is suppressed; artifacts with such metrics
  are what the tests of the package score.
- A player's total does not tell of an optional axis that is missing, a team's
  does, with the weight 0. The matches of a subject count those that lack a
  metric. Both are as the code has them, and `PublishedIsEarned` says no more.
- `AckedKept` promises an override only if no other override and no score
  command was at work meanwhile: otherwise it may be lost (`score_lost`). A commit
  of another reviewer may be taken back by an override that was at work then
  and failed. `ScoresAgree` also asks that whoever wrote the scores last was not
  interrupted in it by another writer.
- `RefusedLeavesNothing` is about the files a handler restores, each unless one who
  writes that file met it: who wrote it meanwhile is overwritten. The scores of
  other matches are not among them: the request scores the whole corpus
  (`scoring/store.go:829-833`) and snapshots the files of its own match only
  (`api_scores.go:679`), although "any failure restores every touched file to its
  pre-mutation bytes" (`:508-511`).
- `ResetAfterQuiet` does not say that a round starts again for a new cause: two
  buybacks count for 120 seconds, longer than a round needs to be quiet.

- `MatchIsCovered` promises a stream that ends with the match only if an ancient
  fell. Otherwise a fact after the end may let the engine draw a boundary
  beyond it, and `validateStream` then refuses every edit and the sign-off.
- `FactsAreComplete` allows a published file to lack a tail of snapshots, all
  of them counted by the summary: `emitFact` drops the error of a write.
- `MetricsReconcile` asks for equal kills and assists only where every credited
  death is an opposing one. `feedAccepted` credits whoever kills a hero, an
  allied one too, while
  `docs/specs/ti2026-role-phase-metrics-v1.json` (`kill_count`) speaks of
  opposing heroes: kills may exceed their opportunities, and a phase with such
  kills only has no row.
- `MetricsReconcile` leaves out lives that end at the very start of a phase
  and have no other part in that phase: the match counts that death and no
  phase does. (A phase may come back: midgame is one phase in two intervals.)

## Plan

Done: the review plane, live capture and analytics, the runner, the score
store, the phases, gates, facts, episodes and direct metrics, scoring.

Next, in this order, most consequential first:

1. `GateOf` in `ReplayRunner`, a constant verdict, could be `MatchGates`, so
   that a resume reads what a gate read.
2. `ReviewMigration`: the file migration of v1 documents, once something calls it.
3. The field profile and the latest record as folds with their own limits.

Theorem to prove next: that the session of `RawCapture` feeds `LiveAnalytics` each
of its records once and in order, which joins the theorems about the two.

## Not modelled

The decoding of demos (a library), pages and their scripts, display fields,
constant tables, preflight checks, which keep no state. The rounding of floats.
The two phase rules and the metrics that the code declares and does not
compute: there is nothing to translate. Of the read endpoints only those whose
answer is put together from several files: the others decode one.
