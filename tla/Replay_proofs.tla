---------------------------- MODULE Replay_proofs ----------------------------
(***************************************************************************)
(* Proofs about the replay of matches. First the output tree of a match,   *)
(* for any demos, registries and closures, and any number of runs,         *)
(* overrides, failures and damages: what the marker covers is one whole    *)
(* build, and what is published rests on it.  Then what a run computes     *)
(* from a demo, for any manifest, any feed of any length and any failure   *)
(* of the disk: the fact file is complete but for a tail of snapshots, the *)
(* episodes found in one pass are the ones the whole file tells, the gates *)
(* open for the right match, and the metrics of any phases add up.         *)
(***************************************************************************)
EXTENDS ReplayRunner, MatchAnalysis, SequenceTheorems, FiniteSetTheorems,
        WellFoundedInduction, TLAPS

-----------------------------------------------------------------------------
(* The shape of the state.                                                 *)

Says == {"absent", "rotten", "verified", "calibrated", "ok",
         "missing", "corrupt", "parse_error", "quarantined"}
SourceArtifact ==
    [of : Demo \cup {None}, with : {None} \cup (Registry \X Closure), says : Says]
Number == 0 .. MaxEvents
Reports ==
    [from : {None} \cup [Embedded -> SourceArtifact], registry : Registry \cup {None},
     override : Number \cup {None}, says : Outcomes \cup Unreadable]
Fingerprints == [demo : Demo, registry : Registry]
Statuses == [of : Fingerprints \cup {None}, says : Outcomes \cup Unreadable]
RunAt == Source \cup {"idle", "validate", "resume", "invalidate", "terminal",
                      "report", "status", "marker"}
ApiAt == {"idle", "report", "status", "scores", "undo-override", "undo-report", "undo-status"}
Bounds == [together : Nat, runs : Nat, changes : Nat, faults : Nat, rot : Nat, others : Nat]

Types ==
    /\ archive \in ArchiveStates /\ config \in Config
    /\ source \in [Source -> SourceArtifact]
    /\ report \in Reports /\ status \in Statuses
    /\ run \in [at : RunAt, with : Config, says : Outcomes \cup {"none"}]
    /\ answer \in [says : Outcomes \cup {"none", "error", "killed"}, resumed : BOOLEAN]
    /\ serving \in Registry /\ override \in Number
    /\ api \in [at : ApiAt, says : Outcomes \cup {"none"}, report : Reports, status : Statuses,
                override : Number]
    /\ bounds \in Bounds

\* An outcome is known by the time it is written.
Spoken ==
    /\ run.at \in {"validate", "resume", "invalidate", "report"} => run.says = "none"
    /\ run.at \in Source \ {"raw-meta"} => run.says = "none"
    /\ run.at = "raw-meta" => run.says \in {"none", "parse_failed"}
    /\ run.at = "terminal" => run.says \in Outcomes \ {"verified"}
    /\ run.at \in {"status", "marker"} => run.says \in Outcomes
    /\ api.at = "status" => api.says \in Outcomes

\* Nobody else is on the match while a run is, unless they were seen together.
Alone ==
    /\ Apart /\ run.at # "idle" => api.at = "idle"
    /\ bounds.others = 0 => api.at = "idle" /\ Apart

Shape == Types /\ Spoken /\ Alone

-----------------------------------------------------------------------------
(* The order of the stages.                                                *)

LEMMA Order ==
    /\ DOMAIN Stages = 1..11 /\ Len(Stages) = 11
    /\ Stages[1] = "input" /\ Stages[2] = "verification" /\ Stages[3] = "raw"
    /\ Stages[4] = "raw-meta" /\ Stages[5] = "identity" /\ Stages[6] = "clock"
    /\ Stages[7] = "facts" /\ Stages[8] = "facts-summary" /\ Stages[9] = "episodes"
    /\ Stages[10] = "phases" /\ Stages[11] = "metrics"
BY DEF Stages

LEMMA SourceIs ==
    Source = {"input", "verification", "raw", "raw-meta", "identity", "clock",
              "facts", "facts-summary", "episodes", "phases", "metrics"}
<1>1. \A i \in 1..11 : i \in {1, 2, 3, 4, 5, 6, 7, 8, 9, 10, 11}
  OBVIOUS
<1>2. QED BY <1>1, Order DEF Source

LEMMA Distinct ==
    ASSUME NEW i \in 1..11, NEW j \in 1..11, Stages[i] = Stages[j]
    PROVE  i = j
<1>1. \A k \in 1..11 : k \in {1, 2, 3, 4, 5, 6, 7, 8, 9, 10, 11}
  OBVIOUS
<1>2. QED BY <1>1, Order

Refusing == {"missing", "corrupt", "parse_error", "quarantined"}

\* The stage after one that made this content.
LEMMA Follows ==
    ASSUME NEW i \in 1..11, NEW content
    PROVE  After(Stages[i], content) = IF content.says \in Refusing THEN "terminal"
                                       ELSE IF i = 11 THEN "report" ELSE Stages[i + 1]
<1>1. (CHOOSE j \in DOMAIN Stages : Stages[j] = Stages[i]) = i
  BY Distinct, Order
<1>2. QED BY <1>1, Order DEF After, Refusing

\* Every artifact a stage makes has the shape of one.
LEMMA ContentIs ==
    ASSUME NEW s \in Source, NEW c \in Config, NEW found \in ArchiveStates, NEW parsed \in BOOLEAN
    PROVE  /\ Content(s, c, found, parsed) \in SourceArtifact
           /\ Content(s, c, found, parsed).says \in Refusing \cup {"verified", "calibrated", "ok"}
<1>1. c.demo \in Demo /\ c.registry \in Registry /\ c.closure \in Closure
  BY ConstantsAssumption
<1>2. PICK with \in {None} \cup (Registry \X Closure),
           says \in Refusing \cup {"verified", "calibrated", "ok"} :
          Content(s, c, found, parsed) = Artifact(c.demo, with, says)
  BY <1>1 DEF Content, Refusal, Refusing, ArchiveStates
<1>3. QED BY <1>1, <1>2 DEF Artifact, SourceArtifact, Refusing, Says

\* What a gate let pass does not depend on what the archive and parser found.
LEMMA Passed ==
    ASSUME NEW s \in Source, NEW c \in Config, NEW found \in ArchiveStates, NEW parsed \in BOOLEAN,
           Content(s, c, found, parsed).says \notin Refusing
    PROVE  /\ Content(s, c, found, parsed) = Content(s, c, "verified", TRUE)
           /\ s = "raw-meta" => parsed
           /\ s \in {"identity", "clock"} => GateOf[c.demo] # s
BY DEF Content, Artifact, Refusal, Refusing, ArchiveStates

\* A report has the shape of one, whatever it is built from.
LEMMA ReportIs ==
    ASSUME NEW src \in [Source -> SourceArtifact], NEW registry \in Registry, NEW o \in Number
    PROVE  BuildReport(src, registry, o) \in Reports /\ BuildReport(src, registry, o).says \in Outcomes
<1>1. ReportState(src, registry) \in Outcomes
  BY DEF ReportState, Outcomes
<1>2. Absent \in SourceArtifact
  BY DEF Absent, Artifact, SourceArtifact, Says
<1>3. [s \in Embedded |-> IF src[s] = Rotten THEN Absent ELSE src[s]] \in [Embedded -> SourceArtifact]
  BY <1>2 DEF Embedded
<1>4. QED BY <1>1, <1>3 DEF BuildReport, Reports

-----------------------------------------------------------------------------
(* The shape is kept.                                                      *)

\* An event is counted, those of b and no others.
LEMMA Spent ==
    ASSUME bounds \in Bounds, NEW b \in {"changes", "faults", "rot", "others"}, Spend(b)
    PROVE  /\ bounds' \in Bounds /\ bounds'.together = bounds.together
           /\ bounds'.others = IF b = "others" THEN bounds.others + 1 ELSE bounds.others
           /\ bounds'.rot = IF b = "rot" THEN bounds.rot + 1 ELSE bounds.rot
BY DEF Spend, Bounds

\* An event of another process is one, and seen together with a run.
LEMMA SpentOther ==
    ASSUME bounds \in Bounds, SpendOther
    PROVE  /\ bounds' \in Bounds /\ bounds'.others = bounds.others + 1
           /\ bounds'.others \in Number /\ bounds'.others # 0
           /\ bounds'.together = IF run.at = "idle" THEN bounds.together ELSE bounds.together + 1
<1>1. PICK n \in {0, 1} : /\ n = IF run.at = "idle" THEN 0 ELSE 1
                          /\ bounds' = [bounds EXCEPT !.others = @ + 1, !.together = @ + n]
  BY DEF SpendOther, Meets
<1>2. bounds' \in Bounds /\ bounds'.others = bounds.others + 1 /\ bounds'.together = bounds.together + n
  <2>1. n \in Nat /\ bounds.others \in Nat /\ bounds.together \in Nat
    BY DEF Bounds
  <2>2. bounds.others + 1 \in Nat /\ bounds.together + n \in Nat
    BY <2>1
  <2>3. PICK o \in Nat, m \in Nat : o = bounds.others + 1 /\ m = bounds.together + n
    BY <2>2
  <2>4. bounds' = [bounds EXCEPT !.others = o, !.together = m]
    BY <1>1, <2>3 DEF Bounds
  <2>5. QED BY <2>3, <2>4 DEF Bounds
<1>3. bounds.others + 1 \in Number
  <2>1. /\ bounds.changes \in Nat /\ bounds.faults \in Nat /\ bounds.rot \in Nat
        /\ bounds.others \in Nat /\ MaxEvents \in Nat
        /\ bounds.changes + bounds.faults + bounds.rot + bounds.others < MaxEvents
    BY ConstantsAssumption DEF Bounds, SpendOther
  <2>2. QED BY <2>1 DEF Number
<1>4. bounds.together + 0 = bounds.together /\ bounds.others + 1 # 0
  BY DEF Bounds
<1>5. QED BY <1>1, <1>2, <1>3, <1>4

LEMMA InitShape == Init => Shape
<1> SUFFICES ASSUME Init PROVE Shape
  OBVIOUS
<1>1. /\ Absent \in SourceArtifact /\ NoReport \in Reports /\ NoStatus \in Statuses /\ 0 \in Number
  BY ConstantsAssumption
     DEF Absent, Artifact, SourceArtifact, Says, NoReport, Reports, NoStatus, Statuses,
         Number, Unreadable
<1>2. /\ archive \in ArchiveStates /\ config \in Config
      /\ source \in [Source -> SourceArtifact]
      /\ report \in Reports /\ status \in Statuses
  BY <1>1 DEF Init, ArchiveStates
<1>3. /\ run \in [at : RunAt, with : Config, says : Outcomes \cup {"none"}]
      /\ answer \in [says : Outcomes \cup {"none", "error", "killed"}, resumed : BOOLEAN]
  BY <1>2 DEF Init, RunAt
<1>4. serving \in Registry /\ override \in Number
  BY <1>1, <1>2, ConstantsAssumption DEF Init
<1>5. api \in [at : ApiAt, says : Outcomes \cup {"none"}, report : Reports, status : Statuses,
               override : Number]
  BY <1>1 DEF Init, ApiAt
<1>6. bounds \in Bounds
  BY DEF Init, Bounds
<1>7. Spoken /\ Alone
  BY SourceIs DEF Init, Spoken, Alone, Apart
<1>8. QED BY <1>2, <1>3, <1>4, <1>5, <1>6, <1>7 DEF Types, Shape

\* What a step that is not one of another process does to the bounds.
CountedUp ==
    /\ bounds' \in Bounds /\ bounds'.together = bounds.together
    /\ bounds'.others = bounds.others /\ (bounds.rot # 0 => bounds'.rot # 0)

LEMMA SpentCounted ==
    ASSUME bounds \in Bounds,
           UNCHANGED bounds \/ \E b \in {"changes", "faults", "rot"} : Spend(b)
    PROVE  CountedUp
BY Spent DEF CountedUp, Bounds

\* What a step of a run leaves in shape.
LEMMA RunStep ==
    ASSUME Shape, run.at # "idle", CountedUp, UNCHANGED <<inputs, others>>,
           source' \in [Source -> SourceArtifact], report' \in Reports, status' \in Statuses,
           run' \in [at : RunAt, with : Config, says : Outcomes \cup {"none"}],
           answer' \in [says : Outcomes \cup {"none", "error", "killed"}, resumed : BOOLEAN],
           Spoken'
    PROVE  Shape'
<1>1. Types'
  BY DEF Shape, Types, CountedUp, inputs, others
<1>2. Alone'
  BY DEF Shape, Alone, Apart, CountedUp, others
<1>3. QED BY <1>1, <1>2 DEF Shape

\* A run goes to its next step, or returns.
LEMMA Goes ==
    ASSUME Types, NEW at \in RunAt, Goto(at)
    PROVE  /\ run' \in [at : RunAt, with : Config, says : Outcomes \cup {"none"}]
           /\ run'.at = at /\ run'.with = run.with /\ run'.says = run.says
BY DEF Goto, Types

LEMMA Returns ==
    ASSUME Types, NEW says \in Outcomes \cup {"error", "killed"}, NEW resumed \in BOOLEAN,
           Return(says, resumed)
    PROVE  /\ run' \in [at : RunAt, with : Config, says : Outcomes \cup {"none"}]
           /\ run'.at = "idle" /\ run'.with = run.with
           /\ answer' \in [says : Outcomes \cup {"none", "error", "killed"}, resumed : BOOLEAN]
           /\ answer'.says = says
BY DEF Return, Types, RunAt

\* A source artifact takes the content that a run makes of it.
LEMMA Makes ==
    ASSUME Types, NEW s \in Source,
           source' = [source EXCEPT ![s] =
                        Content(s, run.with, archive, run.says # "parse_failed")]
    PROVE  source' \in [Source -> SourceArtifact]
<1>1. run.with \in Config /\ archive \in ArchiveStates
  BY DEF Types
<1>2. Content(s, run.with, archive, run.says # "parse_failed") \in SourceArtifact
  BY <1>1, ContentIs
<1>3. QED BY <1>2 DEF Types

LEMMA StatusIs ==
    ASSUME NEW says \in Outcomes, NEW c \in Config
    PROVE  NewStatus(says, c) \in Statuses
<1>1. Fingerprint(c) \in Fingerprints
  BY ConstantsAssumption DEF Fingerprint, Fingerprints
<1>2. QED BY <1>1 DEF NewStatus, Statuses

LEMMA RunnerShape ==
    ASSUME Shape, Runner
    PROVE  Shape'
<1>0. /\ Types /\ Spoken /\ bounds \in Bounds
      /\ UNCHANGED bounds => CountedUp
      /\ source \in [Source -> SourceArtifact] /\ report \in Reports /\ status \in Statuses
      /\ answer \in [says : Outcomes \cup {"none", "error", "killed"}, resumed : BOOLEAN]
      /\ run.with \in Config /\ run.with.registry \in Registry /\ run.says \in Outcomes \cup {"none"}
      /\ "idle" \notin Source /\ "raw" \in Source /\ "raw-meta" \in Source /\ "input" \in Source
      /\ 0 \in Number
  BY SpentCounted, SourceIs, ConstantsAssumption DEF Shape, Types, Number
<1>1. CASE Validate
  <2>1. PICK at \in {"resume", "invalidate"} : Goto(at)
    BY <1>1 DEF Validate
  <2>2. Spoken'
    BY <1>0, <1>1, <2>1, Goes, SourceIs DEF Validate, Spoken, others, RunAt
  <2>3. QED BY <1>0, <1>1, <2>1, <2>2, Goes, RunStep DEF Validate, tree, RunAt
<1>2. CASE Resume
  <2>1. CASE status.says \notin Unreadable /\ Return(status.says, TRUE) /\ UNCHANGED bounds
    <3>1. status.says \in Outcomes
      BY <1>0, <2>1 DEF Statuses
    <3>2. Spoken'
      BY <1>0, <1>2, <2>1, <3>1, Returns, SourceIs DEF Resume, Spoken, others
    <3>3. QED BY <1>0, <1>2, <2>1, <3>1, <3>2, Returns, RunStep DEF Resume, tree
  <2>2. CASE Goto("input") /\ UNCHANGED answer /\ (UNCHANGED bounds \/ Spend("faults"))
    <3>1. Spoken'
      BY <1>0, <1>2, <2>2, Goes, SourceIs DEF Resume, Spoken, others, RunAt
    <3>2. CountedUp
      BY <1>0, <2>2, SpentCounted
    <3>3. QED BY <1>0, <1>2, <2>2, <3>1, <3>2, Goes, RunStep DEF Resume, tree, RunAt
  <2>3. QED BY <1>2, <2>1, <2>2 DEF Resume
<1>3. CASE Invalidate
  <2>1. Spoken'
    BY <1>0, <1>3, Goes, SourceIs DEF Invalidate, Spoken, others, RunAt
  <2>2. QED BY <1>0, <1>3, <2>1, Goes, RunStep DEF Invalidate, RunAt
<1>4. CASE ParseFails
  <2>1. /\ run' \in [at : RunAt, with : Config, says : Outcomes \cup {"none"}]
        /\ run'.at = "raw-meta" /\ run'.says = "parse_failed"
    BY <1>0, <1>4 DEF ParseFails, Types, RunAt, Outcomes
  <2>2. Spoken'
    BY <1>0, <1>4, <2>1, SourceIs DEF ParseFails, Spoken, others
  <2>3. CountedUp
    BY <1>0, <1>4, SpentCounted DEF ParseFails
  <2>4. QED BY <1>0, <1>4, <2>1, <2>2, <2>3, RunStep DEF ParseFails, tree
<1>5. ASSUME NEW s \in Source, WriteSource(s) PROVE Shape'
  <2>1. PICK content : content = Content(s, run.with, archive, run.says # "parse_failed")
    OBVIOUS
  <2>2. content.says \in Refusing \cup {"verified", "calibrated", "ok"}
    BY <1>0, <2>1, ContentIs DEF Types
  <2>3. /\ run.at = s /\ run' = [run EXCEPT !.at = After(s, content), !.says = Outcome(content)]
        /\ source' = [source EXCEPT ![s] = content]
        /\ UNCHANGED <<inputs, report, status, marker, answer, others, bounds>>
    BY <1>5, <2>1 DEF WriteSource
  <2>4. PICK i \in 1..11 : s = Stages[i]
    BY Order DEF Source
  <2>5. /\ content.says \in Refusing => After(s, content) = "terminal"
        /\ content.says \notin Refusing => After(s, content) \in Source \cup {"report"}
    BY <2>4, Follows, Order DEF Source
  <2>6. /\ content.says \in Refusing => Outcome(content) \in Outcomes \ {"verified"}
        /\ content.says \notin Refusing => Outcome(content) = run.says
    BY DEF Outcome, Outcomes, Refusing
  <2>7. /\ run' \in [at : RunAt, with : Config, says : Outcomes \cup {"none"}]
        /\ run'.at = After(s, content) /\ run'.says = Outcome(content)
    BY <1>0, <2>3, <2>5, <2>6 DEF Types, RunAt
  <2>8. source' \in [Source -> SourceArtifact]
    BY <1>0, <2>1, <2>3, Makes
  <2>9. Spoken'
    <3>1. UNCHANGED api
      BY <2>3 DEF others
    <3>3. CASE content.says \in Refusing
      BY <1>0, <2>5, <2>6, <2>7, <3>1, <3>3, SourceIs DEF Spoken
    <3>4. CASE content.says \notin Refusing
      <4>1. run.says = "none"
        <5>1. s = "raw-meta" => run.says # "parse_failed"
          BY <1>0, <2>1, <3>4, Passed DEF Types
        <5>2. QED BY <1>0, <2>3, <5>1 DEF Spoken
      <4>2. QED BY <1>0, <2>5, <2>6, <2>7, <3>1, <3>4, <4>1, SourceIs DEF Spoken
    <3>5. QED BY <3>3, <3>4
  <2>10. QED BY <1>0, <2>3, <2>7, <2>8, <2>9, RunStep
<1>6. CASE Terminal
  <2>1. run.says \in Outcomes
    BY <1>0, <1>6 DEF Terminal, Spoken
  <2>2. Spoken'
    BY <1>0, <1>6, <2>1, Returns, SourceIs DEF Terminal, Spoken, others
  <2>3. QED BY <1>0, <1>6, <2>1, <2>2, Returns, StatusIs, RunStep DEF Terminal
<1>7. CASE WriteReport
  <2>1. report' \in Reports /\ report'.says \in Outcomes
    BY <1>0, <1>7, ReportIs DEF WriteReport
  <2>2. /\ run' \in [at : RunAt, with : Config, says : Outcomes \cup {"none"}]
        /\ run'.at = "status" /\ run'.says = report'.says
    BY <1>0, <1>7, <2>1 DEF WriteReport, Types, RunAt
  <2>3. Spoken'
    BY <1>0, <1>7, <2>1, <2>2, SourceIs DEF WriteReport, Spoken, others
  <2>4. QED BY <1>0, <1>7, <2>1, <2>2, <2>3, RunStep DEF WriteReport
<1>8. CASE WriteStatus
  <2>1. run.says \in Outcomes
    BY <1>0, <1>8 DEF WriteStatus, Spoken
  <2>2. Spoken'
    BY <1>0, <1>8, <2>1, Goes, SourceIs DEF WriteStatus, Spoken, others, RunAt
  <2>3. QED BY <1>0, <1>8, <2>1, <2>2, Goes, StatusIs, RunStep DEF WriteStatus, RunAt
<1>9. CASE WriteMarker
  <2>1. run.says \in Outcomes
    BY <1>0, <1>9 DEF WriteMarker, Spoken
  <2>2. Spoken'
    BY <1>0, <1>9, <2>1, Returns, SourceIs DEF WriteMarker, Spoken, others
  <2>3. QED BY <1>0, <1>9, <2>1, <2>2, Returns, RunStep DEF WriteMarker
<1>10. QED BY <1>1, <1>2, <1>3, <1>4, <1>5, <1>6, <1>7, <1>8, <1>9 DEF Runner

LEMMA StartShape ==
    ASSUME Shape, Start
    PROVE  Shape'
<1>1. PICK n \in {0, 1} : /\ n = IF api.at # "idle" THEN 1 ELSE 0
                          /\ bounds' = [bounds EXCEPT !.runs = @ + 1, !.together = @ + n]
  BY DEF Start, Meets
<1>2. /\ bounds' \in Bounds /\ bounds'.others = bounds.others
      /\ bounds'.together = IF api.at # "idle" THEN bounds.together + 1 ELSE bounds.together
      /\ bounds.together \in Nat
  <2>1. n \in Nat /\ bounds \in Bounds /\ bounds.runs \in Nat /\ bounds.together \in Nat
    BY DEF Shape, Types, Bounds
  <2>2. PICK r \in Nat, m \in Nat : r = bounds.runs + 1 /\ m = bounds.together + n
    BY <2>1
  <2>3. bounds' = [bounds EXCEPT !.runs = r, !.together = m]
    BY <1>1, <2>1, <2>2 DEF Bounds
  <2>4. m = IF api.at # "idle" THEN bounds.together + 1 ELSE bounds.together
    BY <1>1, <2>1, <2>2
  <2>5. QED BY <2>1, <2>3, <2>4 DEF Bounds
<1>3. /\ run' \in [at : RunAt, with : Config, says : Outcomes \cup {"none"}]
      /\ run'.at = "validate" /\ run'.says = "none"
  BY DEF Start, Shape, Types, RunAt
<1>4. Types'
  BY <1>2, <1>3 DEF Start, Shape, Types, inputs, tree, others
<1>5. Spoken'
  BY <1>3, SourceIs DEF Start, Shape, Spoken, others
<1>6. Alone'
  BY <1>2 DEF Start, Shape, Alone, Apart, others
<1>7. QED BY <1>4, <1>5, <1>6 DEF Shape

LEMMA StopShape ==
    ASSUME Shape, StageFails \/ Kill
    PROVE  Shape'
<1>0. /\ Types /\ Spoken /\ bounds \in Bounds
      /\ UNCHANGED bounds => CountedUp
      /\ source \in [Source -> SourceArtifact] /\ report \in Reports /\ status \in Statuses
      /\ run.with \in Config /\ run.with.registry \in Registry /\ 0 \in Number
      /\ "idle" \notin Source
  BY SpentCounted, SourceIs, ConstantsAssumption DEF Shape, Types, Number
<1>1. /\ run.at # "idle" /\ UNCHANGED <<inputs, others>>
      /\ Return("error", FALSE) \/ Return("killed", FALSE)
      /\ UNCHANGED bounds \/ Spend("faults")
  BY DEF StageFails, Kill, Working
<1>2. CountedUp
  BY <1>0, <1>1, SpentCounted
<1>3. /\ run' \in [at : RunAt, with : Config, says : Outcomes \cup {"none"}]
      /\ run'.at = "idle"
      /\ answer' \in [says : Outcomes \cup {"none", "error", "killed"}, resumed : BOOLEAN]
  BY <1>0, <1>1, Returns
<1>4. Spoken'
  BY <1>0, <1>1, <1>3 DEF Spoken, others
<1>5. source' \in [Source -> SourceArtifact] /\ report' \in Reports /\ status' \in Statuses
  <2>1. CASE UNCHANGED tree
    BY <1>0, <2>1 DEF tree
  <2>2. CASE /\ run.at \in Source
             /\ source' = [source EXCEPT ![run.at] =
                   Content(run.at, run.with, archive, run.says # "parse_failed")]
             /\ UNCHANGED <<report, status, marker>>
    BY <1>0, <2>2, Makes
  <2>3. CASE /\ report' = BuildReport(source, run.with.registry, 0)
             /\ UNCHANGED <<source, status, marker>>
    BY <1>0, <2>3, ReportIs
  <2>4. CASE /\ run.at \in {"status", "terminal"}
             /\ status' = NewStatus(run.says, run.with)
             /\ UNCHANGED <<source, report, marker>>
    BY <1>0, <2>4, StatusIs DEF Spoken
  <2>5. CASE UNCHANGED <<source, report, status>>
    BY <1>0, <2>5
  <2>6. CASE StageFails
    BY <2>1, <2>2, <2>3, <2>4, <2>5, <2>6 DEF StageFails
  <2>7. CASE Kill
    BY <2>1, <2>7 DEF Kill
  <2>8. QED BY <2>6, <2>7
<1>6. QED BY <1>1, <1>2, <1>3, <1>4, <1>5, RunStep

LEMMA OthersShape ==
    ASSUME Shape, Others
    PROVE  Shape'
<1>0. /\ Types /\ Spoken /\ Alone /\ bounds \in Bounds
      /\ UNCHANGED bounds => CountedUp
      /\ source \in [Source -> SourceArtifact] /\ report \in Reports /\ status \in Statuses
      /\ serving \in Registry /\ override \in Number /\ archive \in ArchiveStates
      /\ config \in Config /\ config.registry \in Registry
      /\ api \in [at : ApiAt, says : Outcomes \cup {"none"}, report : Reports, status : Statuses,
                  override : Number]
      /\ {"idle", "report", "status", "scores", "undo-override", "undo-report", "undo-status"}
            \subseteq ApiAt
  BY SpentCounted, ConstantsAssumption DEF Shape, Types, ApiAt
<1>1. ASSUME SpendOther PROVE bounds'.others # 0 /\ (run.at # "idle" => ~Apart') /\ bounds' \in Bounds
  BY <1>0, <1>1, SpentOther DEF Apart, Bounds
<1>2. CASE VerifyCommand
  <2>1. Content("verification", config, archive, TRUE) \in SourceArtifact
    BY <1>0, ContentIs, SourceIs
  <2>2. Types'
    <3>1. source' \in [Source -> SourceArtifact] /\ bounds' \in Bounds
      BY <1>0, <1>1, <1>2, <2>1 DEF VerifyCommand
    <3>2. QED BY <1>0, <1>2, <3>1 DEF VerifyCommand, Types, inputs, others
  <2>3. Spoken'
    BY <1>0, <1>2 DEF VerifyCommand, Spoken, others
  <2>4. Alone'
    BY <1>0, <1>1, <1>2 DEF VerifyCommand, Alone
  <2>5. QED BY <2>2, <2>3, <2>4 DEF Shape
<1>3. CASE ServeRestarts
  <2>1. Types'
    BY <1>0, <1>3 DEF ServeRestarts, Types, inputs, tree
  <2>2. Spoken' /\ Alone'
    BY <1>0, <1>3 DEF ServeRestarts, Spoken, Alone, Apart
  <2>3. QED BY <2>1, <2>2 DEF Shape
<1>4. CASE OverrideBegins
  <2>1. /\ override' \in Number /\ bounds' \in Bounds
    BY <1>0, <1>4, SpentOther DEF OverrideBegins
  <2>2. api'.at = "report" /\ api' \in [at : ApiAt, says : Outcomes \cup {"none"}, report : Reports,
                                       status : Statuses, override : Number]
    BY <1>0, <1>4 DEF OverrideBegins
  <2>3. Types'
    BY <1>0, <1>4, <2>1, <2>2 DEF OverrideBegins, Types, inputs, tree
  <2>4. Spoken'
    BY <1>0, <1>4, <2>2 DEF OverrideBegins, Spoken
  <2>5. Alone'
    BY <1>0, <1>1, <1>4 DEF OverrideBegins, Alone
  <2>6. QED BY <2>3, <2>4, <2>5 DEF Shape
\* A later step of the handler: it was there before, so no run is alone now.
<1>5. ASSUME api.at # "idle", CountedUp, UNCHANGED <<inputs, source, marker, run, answer, serving>>,
             report' \in Reports, status' \in Statuses, override' \in Number,
             api' \in [at : ApiAt, says : Outcomes \cup {"none"}, report : Reports,
                       status : Statuses, override : Number],
             api'.at = "status" => api'.says \in Outcomes
      PROVE  Shape'
  <2>1. Types'
    BY <1>0, <1>5 DEF Types, inputs, CountedUp
  <2>2. Spoken'
    BY <1>0, <1>5 DEF Spoken
  <2>3. Alone'
    BY <1>0, <1>5 DEF Alone, Apart, CountedUp
  <2>4. QED BY <2>1, <2>2, <2>3 DEF Shape
<1>6. CASE OverrideReport
  <2>1. report' \in Reports /\ report'.says \in Outcomes
    BY <1>0, <1>6, ReportIs DEF OverrideReport
  <2>2. /\ api' \in [at : ApiAt, says : Outcomes \cup {"none"}, report : Reports,
                     status : Statuses, override : Number]
        /\ api'.at = "status" /\ api'.says = report'.says
    BY <1>0, <1>6, <2>1 DEF OverrideReport
  <2>3. QED BY <1>0, <1>5, <1>6, <2>1, <2>2 DEF OverrideReport
<1>7. CASE OverrideStatus
  <2>1. status' \in Statuses
    BY <1>0, <1>7 DEF OverrideStatus, Statuses, Spoken
  <2>2. /\ api' \in [at : ApiAt, says : Outcomes \cup {"none"}, report : Reports,
                     status : Statuses, override : Number]
        /\ api'.at = "scores"
    BY <1>0, <1>7 DEF OverrideStatus
  <2>3. QED BY <1>0, <1>5, <1>7, <2>1, <2>2 DEF OverrideStatus
<1>8. CASE OverrideEnds
  <2>1. /\ api' \in [at : ApiAt, says : Outcomes \cup {"none"}, report : Reports,
                     status : Statuses, override : Number]
        /\ api'.at = "idle"
    BY <1>0, <1>8 DEF OverrideEnds
  <2>2. CountedUp
    BY <1>0, <1>8, SpentCounted DEF OverrideEnds
  <2>3. QED BY <1>0, <1>5, <1>8, <2>1, <2>2 DEF OverrideEnds, tree
<1>9. CASE OverrideFails
  <2>1. /\ api' \in [at : ApiAt, says : Outcomes \cup {"none"}, report : Reports,
                     status : Statuses, override : Number]
        /\ api'.at = "undo-override"
    BY <1>0, <1>9 DEF OverrideFails
  <2>2. CountedUp
    BY <1>0, <1>9, SpentCounted DEF OverrideFails
  <2>3. QED BY <1>0, <1>5, <1>9, <2>1, <2>2 DEF OverrideFails, tree
<1>10. CASE Restore
  <2>1. PICK at \in {"undo-report", "undo-status", "idle"} : api' = [api EXCEPT !.at = at]
    BY <1>10 DEF Restore
  <2>2. /\ api' \in [at : ApiAt, says : Outcomes \cup {"none"}, report : Reports,
                     status : Statuses, override : Number]
        /\ api'.at # "status"
    BY <1>0, <2>1
  <2>3. report' \in Reports /\ status' \in Statuses /\ override' \in Number
    BY <1>0, <1>10 DEF Restore
  <2>4. api.at # "idle"
    BY <1>10 DEF Restore
  <2>5. QED BY <1>0, <1>5, <1>10, <2>2, <2>3, <2>4 DEF Restore
<1>11. QED BY <1>2, <1>3, <1>4, <1>6, <1>7, <1>8, <1>9, <1>10 DEF Others

LEMMA EnvironmentShape ==
    ASSUME Shape, Reconfigure \/ ArchiveChanges \/ Rot
    PROVE  Shape'
<1>0. /\ Types /\ Spoken /\ Alone
      /\ source \in [Source -> SourceArtifact] /\ report \in Reports /\ status \in Statuses
  BY DEF Shape, Types
<1>1. CountedUp
  BY <1>0, SpentCounted DEF Types, Reconfigure, ArchiveChanges, Rot
<1>2. /\ UNCHANGED <<run, answer, others>> /\ archive' \in ArchiveStates /\ config' \in Config
  BY <1>0 DEF Types, Reconfigure, ArchiveChanges, Rot, inputs
<1>3. Rotten \in SourceArtifact
  BY DEF Rotten, Artifact, SourceArtifact, Says
<1>4. [NoReport EXCEPT !.says = "rotten"] \in Reports /\ [NoStatus EXCEPT !.says = "rotten"] \in Statuses
  BY DEF NoReport, Reports, NoStatus, Statuses, Unreadable
<1>5. source' \in [Source -> SourceArtifact] /\ report' \in Reports /\ status' \in Statuses
  <2>1. CASE Reconfigure \/ ArchiveChanges
    BY <1>0, <2>1 DEF Reconfigure, ArchiveChanges, tree
  <2>2. CASE Rot
    BY <1>0, <1>3, <1>4, <2>2 DEF Rot
  <2>3. QED BY <2>1, <2>2
<1>6. Types'
  BY <1>0, <1>1, <1>2, <1>5 DEF Types, CountedUp, others
<1>7. Spoken' /\ Alone'
  BY <1>0, <1>1, <1>2 DEF Spoken, Alone, Apart, CountedUp, others
<1>8. QED BY <1>6, <1>7 DEF Shape

\* Every step keeps the shape.
LEMMA NextShape == Shape /\ [Next]_vars => Shape'
<1> SUFFICES ASSUME Shape, [Next]_vars PROVE Shape'
  OBVIOUS
<1>1. CASE UNCHANGED vars
  BY <1>1 DEF vars, inputs, tree, others, Shape, Types, Spoken, Alone, Apart
<1>2. QED
  BY <1>1, RunnerShape, StartShape, StopShape, OthersShape, EnvironmentShape DEF Next

LEMMA ShapeKept == Spec => []Shape
BY InitShape, NextShape, PTL DEF Spec

-----------------------------------------------------------------------------
(* What a run has built so far, and what the marker covers.                *)

\* Stage i of the current run may begin: those before it made what a good
\* build of the run's inputs makes, and no gate among them refused.
Reached(i) ==
    /\ \A j \in 1..(i - 1) : source[Stages[j]] = Content(Stages[j], run.with, "verified", TRUE)
    /\ i > 3 => GateOf[run.with.demo] # "parse"
    /\ i > 5 => GateOf[run.with.demo] # "identity"
    /\ i > 6 => GateOf[run.with.demo] # "clock"

WholeBuild == source = Built(run.with) /\ Passes(run.with)
Reported == WholeBuild /\ report = BuildReport(source, run.with.registry, 0) /\ run.says = report.says

\* How far a run that nobody met has come.
Progress ==
    /\ \A i \in 1..11 : run.at = Stages[i] /\ run.says # "parse_failed" => Reached(i)
    /\ run.at = "report" => WholeBuild
    /\ run.at \in {"status", "marker"} => Reported
    /\ run.at = "marker" => status = NewStatus(run.says, run.with)
    /\ run.at = "resume" => Valid(run.with)

\* The tree of a good build from inputs c.
GoodReport(c) == BuildReport(Built(c), c.registry, 0)
GoodTree(c) == <<Built(c), GoodReport(c), NewStatus(GoodReport(c).says, c)>>

\* A marker covers the tree of a good build, whatever became of the files.
MarkerWhole ==
    marker \notin {NoMarker, BadMarker} =>
        \E c \in Config : Passes(c) /\ marker = [of |-> Fingerprint(c), covers |-> GoodTree(c)]

\* With no damage and nobody else on the tree, what it answered is published.
Untouched == bounds.rot = 0 /\ bounds.others = 0
Published ==
    /\ Untouched /\ run.at = "idle" /\ answer.says \in Outcomes =>
          /\ status.says = answer.says
          /\ answer.says = "verified" => Intact /\ report.registry \in Complete
    /\ Untouched /\ report.says = "verified" =>
          \E c \in Config : Passes(c) /\ report.from = GoodReport(c).from

Inv == Shape /\ (Apart => Progress /\ MarkerWhole) /\ Published

-----------------------------------------------------------------------------
(* What the marker gives.                                                  *)

\* A report on a good build keeps all of it.
LEMMA GoodFrom ==
    ASSUME NEW c \in Config
    PROVE  /\ GoodReport(c).from = [s \in Embedded |-> Built(c)[s]]
           /\ Built(c) \in [Source -> SourceArtifact]
           /\ GoodReport(c).says = "verified" => c.registry \in Complete
           /\ GoodReport(c).registry = c.registry
<1>1. Built(c) \in [Source -> SourceArtifact]
  BY ContentIs DEF Built, ArchiveStates
<1>2. \A s \in Source : Built(c)[s] # Rotten
  <2>1. \A s \in Source : Built(c)[s].says \in Refusing \cup {"verified", "calibrated", "ok"}
    BY ContentIs DEF Built, ArchiveStates
  <2>2. Rotten.says = "rotten"
    BY DEF Rotten, Artifact
  <2>3. QED BY <2>1, <2>2 DEF Refusing
<1>3. GoodReport(c).from = [s \in Embedded |-> Built(c)[s]]
  BY <1>2 DEF GoodReport, BuildReport, Embedded
<1>4. GoodReport(c).says = "verified" => c.registry \in Complete
  BY DEF GoodReport, BuildReport, ReportState
<1>5. QED BY <1>1, <1>3, <1>4 DEF GoodReport, BuildReport

\* A marker that covers the tree shows a good build of inputs it names.
LEMMA Covers ==
    ASSUME MarkerWhole, Intact
    PROVE  \E c \in Config :
              /\ Passes(c) /\ Fingerprint(c) = marker.of /\ source = Built(c)
              /\ report = GoodReport(c) /\ status = NewStatus(GoodReport(c).says, c)
              /\ marker \notin {NoMarker, BadMarker}
<1>1. marker \notin {NoMarker, BadMarker}
  BY DEF Intact, Covered, NoMarker, BadMarker
<1>2. PICK c \in Config : Passes(c) /\ marker = [of |-> Fingerprint(c), covers |-> GoodTree(c)]
  BY <1>1 DEF MarkerWhole
<1>3. Covered = GoodTree(c)
  BY <1>2 DEF Intact
<1>4. QED BY <1>1, <1>2, <1>3 DEF Covered, GoodTree

-----------------------------------------------------------------------------
(* Every step keeps the invariant.                                         *)

\* Nothing is asked of the progress of a run that is over.
LEMMA Rests == run'.at = "idle" => Progress'
BY Order DEF Progress

\* Nor of that of one which is at its first stage.
LEMMA Begins == run'.at = "input" => Progress'
<1> SUFFICES ASSUME run'.at = "input" PROVE Progress'
  OBVIOUS
<1>1. \A i \in 1..11 : run'.at = Stages[i] => i = 1
  BY Order, Distinct
<1>2. Reached(1)'
  <2>1. 1 - 1 = 0 /\ ~(1 > 3) /\ ~(1 > 5) /\ ~(1 > 6) /\ 1..0 = {}
    OBVIOUS
  <2>2. 1..(1 - 1) = {}
    BY <2>1
  <2>3. QED BY <2>1, <2>2 DEF Reached
<1>3. QED BY <1>1, <1>2 DEF Progress

\* A stage of the current run writes its artifact.
LEMMA StageDone ==
    ASSUME Inv, Shape', Apart, NEW s \in Source, WriteSource(s)
    PROVE  Progress'
<1>1. PICK i \in 1..11 : s = Stages[i]
  BY Order DEF Source
<1>2. PICK content : content = Content(s, run.with, archive, run.says # "parse_failed")
  OBVIOUS
<1>3. /\ run.at = s /\ (s = "raw" => GateOf[run.with.demo] # "parse")
      /\ source' = [source EXCEPT ![s] = content]
      /\ run'.at = After(s, content) /\ run'.with = run.with /\ run'.says = Outcome(content)
      /\ source \in [Source -> SourceArtifact] /\ archive \in ArchiveStates
      /\ run.with \in Config
  BY <1>2 DEF WriteSource, Inv, Shape, Types
<1>4. CASE content.says \in Refusing
  <2>1. run'.at = "terminal"
    BY <1>1, <1>3, <1>4, Follows
  <2>2. QED BY <2>1, Order DEF Progress
<1>5. CASE content.says \notin Refusing
  <2>1. /\ content = Content(s, run.with, "verified", TRUE)
        /\ s = "raw-meta" => run.says # "parse_failed"
        /\ s \in {"identity", "clock"} => GateOf[run.with.demo] # s
    BY <1>2, <1>3, <1>5, Passed
  <2>2. run.says = "none" /\ run'.says = "none"
    <3>1. run.says = "none"
      BY <1>3, <2>1 DEF Inv, Shape, Spoken
    <3>2. QED BY <1>3, <1>5, <3>1 DEF Outcome, Refusing
  <2>3. Reached(i)
    BY <1>1, <1>3, <2>2 DEF Inv, Progress
  <2>4. \A j \in 1..i : source'[Stages[j]] = Content(Stages[j], run.with, "verified", TRUE)
    <3>1. SUFFICES ASSUME NEW j \in 1..i
                   PROVE  source'[Stages[j]] = Content(Stages[j], run.with, "verified", TRUE)
      OBVIOUS
    <3>2. j \in 1..11 /\ Stages[j] \in Source
      BY Order DEF Source
    <3>3. CASE j = i
      BY <1>1, <1>3, <2>1, <3>2, <3>3
    <3>4. CASE j # i
      <4>1. Stages[j] # s /\ j \in 1..(i - 1)
        BY <1>1, <3>2, <3>4, Distinct
      <4>2. QED BY <1>3, <2>3, <3>2, <4>1 DEF Reached
    <3>5. QED BY <3>3, <3>4
  <2>5. /\ i > 2 => GateOf[run.with.demo] # "parse"
        /\ i > 4 => GateOf[run.with.demo] # "identity"
        /\ i > 5 => GateOf[run.with.demo] # "clock"
    <3>1. /\ i = 3 => s = "raw"
          /\ i = 5 => s = "identity"
          /\ i = 6 => s = "clock"
      BY <1>1, Order
    <3>2. QED BY <1>3, <2>1, <2>3, <3>1 DEF Reached
  <2>6. CASE i = 11
    <3>1. run'.at = "report"
      BY <1>1, <1>3, <1>5, <2>6, Follows
    <3>2. source' = Built(run.with)
      <4>1. \A t \in Source : source'[t] = Content(t, run.with, "verified", TRUE)
        BY <2>4, <2>6, Order DEF Source
      <4>2. source' \in [Source -> SourceArtifact]
        BY DEF Shape, Types
      <4>3. QED BY <4>1, <4>2 DEF Built
    <3>3. Passes(run.with)
      <4>1. GateOf[run.with.demo] \in Gates
        BY <1>3, ConstantsAssumption
      <4>2. QED BY <2>5, <2>6, <4>1 DEF Passes, Gates
    <3>4. WholeBuild'
      BY <1>3, <3>2, <3>3 DEF WholeBuild
    <3>5. QED BY <3>1, <3>4, Order DEF Progress
  <2>7. CASE i # 11
    <3>1. i + 1 \in 1..11 /\ run'.at = Stages[i + 1]
      BY <1>1, <1>3, <1>5, <2>7, Follows
    <3>2. Reached(i + 1)'
      <4>1. /\ (i + 1) - 1 = i
            /\ i + 1 > 3 => i > 2
            /\ i + 1 > 5 => i > 4
            /\ i + 1 > 6 => i > 5
        OBVIOUS
      <4>2. \A j \in 1..((i + 1) - 1) :
                source'[Stages[j]] = Content(Stages[j], run'.with, "verified", TRUE)
        BY <1>3, <2>4, <4>1
      <4>3. /\ i + 1 > 3 => GateOf[run'.with.demo] # "parse"
            /\ i + 1 > 5 => GateOf[run'.with.demo] # "identity"
            /\ i + 1 > 6 => GateOf[run'.with.demo] # "clock"
        BY <1>3, <2>5, <4>1
      <4>4. QED BY <4>2, <4>3 DEF Reached
    <3>3. \A k \in 1..11 : run'.at = Stages[k] => k = i + 1
      BY <3>1, Distinct
    <3>4. run'.at \in Source
      BY <3>1, Order DEF Source
    <3>5. QED BY <3>2, <3>3, <3>4, SourceIs DEF Progress
  <2>8. QED BY <2>6, <2>7
<1>6. QED BY <1>4, <1>5

\* A report on the whole tree of this run is one on a good build.
LEMMA ReportDone ==
    ASSUME run.with \in Config, WholeBuild, report' = BuildReport(source, run.with.registry, 0)
    PROVE  /\ Passes(run.with) /\ report' = GoodReport(run.with)
           /\ \E c \in Config : Passes(c) /\ report'.from = GoodReport(c).from
BY DEF WholeBuild, GoodReport

\* So is a marker over what this run reported.
LEMMA MarkerDone ==
    ASSUME run.with \in Config, Reported, status = NewStatus(run.says, run.with),
           marker' = NewMarker(run.with)
    PROVE  /\ MarkerWhole' /\ marker'.covers = Covered
           /\ status.says = run.says
           /\ run.says = "verified" => run.with.registry \in Complete /\ report.registry \in Complete
<1>1. report = GoodReport(run.with) /\ source = Built(run.with) /\ Passes(run.with)
  BY DEF Reported, WholeBuild, GoodReport
<1>2. Covered = GoodTree(run.with) /\ run.says = GoodReport(run.with).says
  BY <1>1 DEF Covered, GoodTree, Reported
<1>3. QED BY <1>1, <1>2, GoodFrom DEF MarkerWhole, NewMarker, NewStatus

LEMMA RunnerInv ==
    ASSUME Inv, Shape', Runner
    PROVE  Inv'
<1>0. /\ Shape /\ Published /\ run.with \in Config /\ "idle" \notin Source
      /\ "raw" \in Source /\ "raw-meta" \in Source /\ "input" \in Source
      /\ Apart => Progress /\ MarkerWhole
      /\ bounds.others = 0 => Apart
  BY SourceIs DEF Inv, Shape, Types, Alone
<1>1. CountedUp
  <2>1. UNCHANGED bounds \/ Spend("faults")
    BY DEF Runner, Validate, Resume, Invalidate, ParseFails, WriteSource, Terminal,
           WriteReport, WriteStatus, WriteMarker
  <2>2. QED BY <1>0, <2>1, SpentCounted DEF Shape, Types
<1>2. Apart' = Apart /\ (Untouched' => Untouched /\ Apart)
  BY <1>0, <1>1 DEF CountedUp, Apart, Untouched
<1>3. ASSUME UNCHANGED <<report, marker>>, run'.at # "idle", Apart => Progress'
      PROVE  Inv'
  BY <1>0, <1>2, <1>3 DEF Inv, Published, MarkerWhole
<1>4. CASE Validate
  <2>1. Apart => Progress'
    BY <1>0, <1>4, Order DEF Validate, Goto, Progress, Valid, Covered, tree, Shape, Types
  <2>2. QED BY <1>0, <1>3, <1>4, <2>1 DEF Validate, Goto, tree, Shape, Types
<1>5. CASE Resume
  <2>1. CASE Goto("input")
    <3>1. run'.at = "input"
      BY <1>0, <2>1, Goes DEF Shape, RunAt
    <3>2. QED BY <1>3, <1>5, <3>1, Begins DEF Resume, tree
  <2>2. CASE Return(status.says, TRUE)
    <3>1. UNCHANGED tree /\ run.at = "resume" /\ run'.at = "idle" /\ answer'.says = status.says
      BY <1>0, <1>5, <2>2 DEF Resume, Return, Shape, Types
    <3>2. ASSUME Apart PROVE Intact /\ (status.says = "verified" => report.registry \in Complete)
      <4>1. Valid(run.with)
        BY <1>0, <3>1, <3>2 DEF Progress
      <4>2. Intact
        BY <4>1 DEF Valid, Intact
      <4>3. PICK c \in Config : report = GoodReport(c) /\ status = NewStatus(GoodReport(c).says, c)
        BY <1>0, <3>2, <4>2, Covers
      <4>4. QED BY <4>2, <4>3, GoodFrom DEF NewStatus
    <3>3. Published'
      BY <1>0, <1>2, <3>1, <3>2 DEF Published, Intact, Covered, tree
    <3>4. QED BY <1>0, <1>2, <3>1, <3>3, Rests DEF Inv, MarkerWhole, tree
  <2>3. QED BY <1>5, <2>1, <2>2 DEF Resume
<1>6. CASE Invalidate
  <2>1. run'.at = "input"
    BY <1>0, <1>6, Goes DEF Invalidate, Shape, RunAt
  <2>2. MarkerWhole' /\ Published'
    BY <1>0, <1>2, <1>6, <2>1 DEF Invalidate, MarkerWhole, Published
  <2>3. QED BY <2>1, <2>2, Begins DEF Inv
<1>7. CASE ParseFails
  <2>1. run'.at = "raw-meta" /\ run'.says = "parse_failed"
    BY <1>0, <1>7 DEF ParseFails, Shape, Types
  <2>2. Progress'
    BY <2>1 DEF Progress
  <2>3. QED BY <1>3, <1>7, <2>1, <2>2 DEF ParseFails, tree
<1>8. ASSUME NEW s \in Source, WriteSource(s) PROVE Inv'
  <2>1. Apart => Progress'
    BY <1>8, StageDone
  <2>2. run'.at # "idle"
    <3>1. PICK i \in 1..11 : s = Stages[i]
      BY Order DEF Source
    <3>2. PICK content : run'.at = After(s, content)
      BY <1>0, <1>8 DEF WriteSource, Shape, Types
    <3>3. QED BY <1>0, <3>1, <3>2, Follows, Order DEF Source
  <2>3. QED BY <1>3, <1>8, <2>1, <2>2 DEF WriteSource
<1>9. CASE Terminal
  <2>1. /\ run.says # "verified" /\ status'.says = run.says /\ answer'.says = run.says
        /\ run'.at = "idle" /\ UNCHANGED <<report, marker>>
    BY <1>0, <1>9, SourceIs DEF Terminal, NewStatus, Return, Shape, Types, Spoken
  <2>2. Published'
    BY <1>0, <1>2, <2>1 DEF Published
  <2>3. QED BY <1>0, <1>2, <2>1, <2>2, Rests DEF Inv, MarkerWhole
<1>10. CASE WriteReport
  <2>1. /\ run.at = "report" /\ report' = BuildReport(source, run.with.registry, 0)
        /\ run'.at = "status" /\ run'.says = report'.says /\ run'.with = run.with
        /\ UNCHANGED <<source, status, marker>>
    BY <1>0, <1>10 DEF WriteReport, Shape, Types
  <2>2. ASSUME Apart PROVE WholeBuild /\ Progress'
    <3>1. WholeBuild
      BY <1>0, <2>1, <2>2 DEF Progress
    <3>2. Reported'
      BY <2>1, <3>1 DEF WholeBuild, Reported
    <3>3. QED BY <2>1, <3>1, <3>2, Order DEF Progress
  <2>3. Published'
    BY <1>0, <1>2, <2>1, <2>2, ReportDone DEF Published
  <2>4. QED BY <1>0, <1>2, <2>1, <2>2, <2>3 DEF Inv, MarkerWhole
<1>11. CASE WriteStatus
  <2>1. /\ run.at = "status" /\ status' = NewStatus(run.says, run.with)
        /\ run'.at = "marker" /\ run'.says = run.says /\ run'.with = run.with
        /\ UNCHANGED <<source, report, marker>>
    BY <1>0, <1>11 DEF WriteStatus, Goto, Shape, Types
  <2>2. ASSUME Apart PROVE Progress'
    <3>1. Reported'
      BY <1>0, <2>1, <2>2 DEF Progress, WholeBuild, Reported
    <3>2. QED BY <2>1, <3>1, Order DEF Progress
  <2>3. QED BY <1>3, <2>1, <2>2
<1>12. CASE WriteMarker
  <2>1. /\ run.at = "marker" /\ marker' = NewMarker(run.with)
        /\ run'.at = "idle" /\ answer'.says = run.says
        /\ UNCHANGED <<source, report, status>>
    BY <1>0, <1>12 DEF WriteMarker, Return, Shape, Types
  <2>2. ASSUME Apart
        PROVE  /\ MarkerWhole' /\ marker'.covers = Covered /\ status.says = run.says
               /\ run.says = "verified" => report.registry \in Complete
    <3>1. Reported /\ status = NewStatus(run.says, run.with)
      BY <1>0, <2>1, <2>2 DEF Progress
    <3>2. QED BY <1>0, <2>1, <3>1, MarkerDone
  <2>3. Published'
    BY <1>0, <1>2, <2>1, <2>2 DEF Published, Intact, Covered
  <2>4. QED BY <1>2, <2>1, <2>2, <2>3, Rests DEF Inv
<1>13. QED BY <1>4, <1>5, <1>6, <1>7, <1>8, <1>9, <1>10, <1>11, <1>12 DEF Runner

LEMMA StartInv ==
    ASSUME Inv, Shape', Start
    PROVE  Inv'
<1>0. /\ Types /\ Alone /\ Published /\ (Apart => MarkerWhole)
      /\ UNCHANGED <<tree, answer>> /\ run'.at = "validate"
  BY DEF Inv, Shape, Start
<1>1. Apart' => Apart
  <2>1. PICK n \in {0, 1} : bounds' = [bounds EXCEPT !.runs = @ + 1, !.together = @ + n]
    BY DEF Start, Meets
  <2>2. bounds'.together = bounds.together + n /\ bounds.together \in Nat /\ n \in Nat
    BY <1>0, <2>1 DEF Types, Bounds
  <2>3. QED BY <2>2 DEF Apart
<1>2. Untouched' => Untouched
  <2>1. bounds'.rot = bounds.rot /\ bounds'.others = bounds.others
    BY <1>0 DEF Start, Types, Bounds
  <2>2. QED BY <2>1 DEF Untouched
<1>3. Progress'
  BY <1>0, Order DEF Progress
<1>4. MarkerWhole' <=> MarkerWhole
  BY <1>0 DEF tree, MarkerWhole
<1>5. Published'
  BY <1>0, <1>2 DEF tree, Published
<1>6. QED BY <1>0, <1>1, <1>3, <1>4, <1>5 DEF Inv

\* A run that fails may leave the file it was at, whole, but no answer.
LEMMA StopInv ==
    ASSUME Inv, Shape', StageFails \/ Kill
    PROVE  Inv'
<1>0. /\ Types /\ Published /\ run.with \in Config
      /\ Apart => Progress /\ MarkerWhole
      /\ bounds.others = 0 => Apart
  BY DEF Inv, Shape, Types, Alone
<1>1. /\ Return("error", FALSE) \/ Return("killed", FALSE)
      /\ UNCHANGED bounds \/ Spend("faults")
  BY DEF StageFails, Kill
<1>2. /\ Apart' = Apart
      /\ Untouched' => Untouched /\ Apart
      /\ run'.at = "idle" /\ answer'.says \notin Outcomes
  <2>1. CountedUp
    BY <1>0, <1>1, SpentCounted DEF Types
  <2>2. run'.at = "idle" /\ answer'.says \in {"error", "killed"}
    BY <1>0, <1>1, Returns
  <2>3. QED BY <1>0, <2>1, <2>2 DEF CountedUp, Apart, Untouched, Outcomes
<1>3. SUFFICES /\ Apart => MarkerWhole'
               /\ Untouched /\ Apart /\ report'.says = "verified" =>
                     \E c \in Config : Passes(c) /\ report'.from = GoodReport(c).from
  BY <1>2, Rests DEF Inv, Published
<1>4. CASE UNCHANGED <<report, marker>>
  BY <1>0, <1>4 DEF MarkerWhole, Published
<1>5. CASE /\ run.at = "report"
           /\ report' = BuildReport(source, run.with.registry, 0)
           /\ UNCHANGED <<source, status, marker>>
  <2>1. Apart => WholeBuild
    BY <1>0, <1>5 DEF Progress
  <2>2. QED BY <1>0, <1>5, <2>1, ReportDone DEF MarkerWhole
<1>6. CASE /\ run.at = "marker" /\ marker' = NewMarker(run.with)
           /\ UNCHANGED <<source, report, status>>
  <2>1. Apart => Reported /\ status = NewStatus(run.says, run.with)
    BY <1>0, <1>6 DEF Progress
  <2>2. QED BY <1>0, <1>6, <2>1, MarkerDone DEF Published
<1>7. QED BY <1>4, <1>5, <1>6 DEF StageFails, Kill, tree

\* The others do not touch the marker, and what else they touch counts as theirs.
LEMMA OthersInv ==
    ASSUME Inv, Shape', Others
    PROVE  Inv'
<1>0. /\ Types /\ Alone /\ Published /\ bounds \in Bounds
      /\ Apart => Progress /\ MarkerWhole
  BY DEF Inv, Shape, Types
<1>1. UNCHANGED <<marker, run, answer>>
  BY DEF Others, VerifyCommand, ServeRestarts, OverrideBegins, OverrideReport, OverrideStatus,
         OverrideEnds, OverrideFails, Restore, tree
<1>2. MarkerWhole' <=> MarkerWhole
  BY <1>1 DEF MarkerWhole
<1>3. CASE ServeRestarts
  <2>1. UNCHANGED <<tree, run, answer, bounds>>
    BY <1>3 DEF ServeRestarts
  <2>2. Progress' = Progress
    BY <2>1 DEF Progress, Reached, WholeBuild, Reported, Valid, Covered, tree
  <2>3. Published'
    BY <1>0, <2>1 DEF Published, Untouched, Intact, Covered, tree
  <2>4. QED BY <1>0, <1>2, <2>1, <2>2, <2>3 DEF Inv, Apart
<1>4. ASSUME ~Untouched', Apart' => Apart /\ run.at = "idle"
      PROVE  Inv'
  <2>1. Apart' => Progress' /\ MarkerWhole'
    BY <1>0, <1>1, <1>2, <1>4, Rests
  <2>2. QED BY <1>4, <2>1 DEF Inv, Published
<1>5. CASE VerifyCommand \/ OverrideBegins
  <2>1. SpendOther
    BY <1>5 DEF VerifyCommand, OverrideBegins
  <2>2. ~Untouched' /\ (Apart' => Apart /\ run.at = "idle")
    BY <1>0, <2>1, SpentOther DEF Untouched, Apart, Bounds
  <2>3. QED BY <1>4, <2>2
<1>6. CASE OverrideReport \/ OverrideStatus \/ OverrideEnds \/ OverrideFails \/ Restore
  <2>1. api.at # "idle" /\ (UNCHANGED bounds \/ Spend("faults"))
    BY <1>6 DEF OverrideReport, OverrideStatus, OverrideEnds, OverrideFails, Restore
  <2>2. CountedUp
    BY <1>0, <2>1, SpentCounted
  <2>3. ~Untouched' /\ (Apart' => Apart /\ run.at = "idle")
    BY <1>0, <2>1, <2>2 DEF Alone, CountedUp, Untouched, Apart
  <2>4. QED BY <1>4, <2>3
<1>7. QED BY <1>3, <1>5, <1>6 DEF Others

LEMMA EnvironmentInv ==
    ASSUME Inv, Shape', Reconfigure \/ ArchiveChanges \/ Rot
    PROVE  Inv'
<1>0. /\ Types /\ Published /\ bounds \in Bounds
      /\ Apart => Progress /\ MarkerWhole
  BY DEF Inv, Shape, Types
<1>1. UNCHANGED <<run, answer>>
  BY DEF Reconfigure, ArchiveChanges, Rot
<1>2. CASE Reconfigure \/ ArchiveChanges
  <2>1. UNCHANGED tree /\ Spend("changes")
    BY <1>2 DEF Reconfigure, ArchiveChanges
  <2>2. Apart' = Apart /\ Untouched' = Untouched
    BY <1>0, <2>1, Spent DEF Apart, Untouched
  <2>3. Progress' = Progress /\ MarkerWhole' = MarkerWhole
    BY <1>1, <2>1
       DEF Progress, Reached, WholeBuild, Reported, Valid, Covered, MarkerWhole, tree
  <2>4. Published'
    BY <1>0, <1>1, <2>1, <2>2 DEF Published, Intact, Covered, tree
  <2>5. QED BY <1>0, <2>2, <2>3, <2>4 DEF Inv
<1>3. CASE Rot
  <2>1. /\ Spend("rot") /\ run.at = "idle"
        /\ marker' = marker \/ marker' = BadMarker
    BY <1>3 DEF Rot
  <2>2. Apart' = Apart /\ ~Untouched'
    BY <1>0, <2>1, Spent DEF Apart, Untouched, Bounds
  <2>3. Progress'
    BY <1>1, <2>1, Rests
  <2>4. MarkerWhole => MarkerWhole'
    BY <2>1 DEF MarkerWhole
  <2>5. QED BY <1>0, <2>2, <2>3, <2>4 DEF Inv, Published
<1>4. QED BY <1>2, <1>3

LEMMA InitInv == Init => Inv
<1> SUFFICES ASSUME Init PROVE Inv
  OBVIOUS
<1>1. run.at = "idle" /\ answer.says = "none" /\ report.says = "absent" /\ marker = NoMarker
  BY DEF Init, NoReport
<1>2. Progress /\ MarkerWhole /\ Published
  BY <1>1, Order DEF Progress, MarkerWhole, Published, Outcomes
<1>3. QED BY <1>2, InitShape DEF Inv

LEMMA NextInv == Inv /\ [Next]_vars => Inv'
<1> SUFFICES ASSUME Inv, [Next]_vars PROVE Inv'
  OBVIOUS
<1>1. Shape'
  BY NextShape DEF Inv
<1>2. CASE UNCHANGED vars
  <2>1. UNCHANGED <<tree, run, answer, bounds>>
    BY <1>2 DEF vars
  <2>2. Progress' = Progress /\ MarkerWhole' = MarkerWhole /\ Published' = Published
    BY <2>1 DEF Progress, Reached, WholeBuild, Reported, Valid, Covered, MarkerWhole, Published,
                Untouched, Intact, tree
  <2>3. QED BY <1>1, <2>1, <2>2 DEF Inv, Apart
<1>3. QED
  BY <1>1, <1>2, StartInv, RunnerInv, StopInv, OthersInv, EnvironmentInv DEF Next

LEMMA Invariant == Spec => []Inv
BY InitInv, NextInv, PTL DEF Spec

-----------------------------------------------------------------------------
(* The properties.                                                         *)

(***************************************************************************)
(* Every variable has its type, and the runner, the override and the       *)
(* answer stand where the code can stand.                                  *)
(***************************************************************************)
THEOREM TypeCorrect == Spec => []TypeOK
<1>1. Types => TypeOK
  BY DEF Types, TypeOK, SourceArtifact, Reports, Statuses, RunAt, ApiAt, Number
<1>2. QED BY <1>1, Invariant, PTL DEF Inv, Shape

\* What the invariant says of the three places where a build is published.
LEMMA Publishes ==
    ASSUME Inv
    PROVE  CompletePublished
<1>0. /\ Types /\ Published /\ (Apart => MarkerWhole)
      /\ report \in Reports /\ status \in Statuses
  BY DEF Inv, Shape, Types
<1>1. MarkerMeansComplete
  <2>1. SUFFICES ASSUME Apart, Intact
                 PROVE  \E c \in Config :
                           /\ Fingerprint(c) = marker.of /\ Passes(c) /\ source = Built(c)
                           /\ report = BuildReport(source, c.registry, 0)
                           /\ status = NewStatus(report.says, c)
    BY DEF MarkerMeansComplete
  <2>2. QED BY <1>0, <2>1, Covers DEF GoodReport
<1>2. PublishedIsComplete
  <2>1. SUFFICES ASSUME run.at = "idle", answer.says \in Outcomes, Untouched, Row = "verified"
                 PROVE  Intact /\ report.registry \in Complete
    BY DEF PublishedIsComplete, Untouched
  <2>2. status.says = answer.says
    BY <1>0, <2>1 DEF Published
  <2>3. Row = status.says
    BY <2>1, <2>2 DEF Row, Outcomes, Unreadable
  <2>4. QED BY <1>0, <2>1, <2>2, <2>3 DEF Published
<1>3. PageIsWhole
  <2>1. SUFFICES ASSUME report.says \notin Unreadable, Page.says = "verified", Untouched
                 PROVE  \E c \in Config :
                           Passes(c) /\ Page.from = [s \in Embedded |-> Built(c)[s]]
    BY DEF PageIsWhole, Untouched
  <2>2. Page.says = report.says /\ Page.from = report.from
    BY <1>0, <2>1 DEF Page, Reports
  <2>3. PICK c \in Config : Passes(c) /\ report.from = GoodReport(c).from
    BY <1>0, <2>1, <2>2 DEF Published
  <2>4. QED BY <2>2, <2>3, GoodFrom
<1>4. QED BY <1>1, <1>2, <1>3 DEF CompletePublished

(***************************************************************************)
(* The marker covers only a whole build, the catalog shows verified only   *)
(* under such a marker, the page only over one: however many runs, inputs, *)
(* failures and overrides there were, with the exceptions each part names. *)
(***************************************************************************)
THEOREM PublishesWhole == Spec => []CompletePublished
BY Invariant, Publishes, PTL

\* What an answer of verified rests on.
Earned(c) ==
    /\ Passes(c) /\ c.registry \in Complete
    /\ \E k \in Closure : source = Built([c EXCEPT !.closure = k])
    /\ Valid(c)

\* A tree that is valid for inputs c and says verified is a good build of them.
LEMMA ValidIsEarned ==
    ASSUME MarkerWhole, NEW c \in Config, Valid(c), status.says = "verified"
    PROVE  Earned(c)
<1>1. PICK d \in Config :
          /\ Passes(d) /\ Fingerprint(d) = marker.of /\ source = Built(d)
          /\ status = NewStatus(GoodReport(d).says, d)
  <2>1. Intact
    BY DEF Valid, Intact
  <2>2. QED BY <2>1, Covers
<1>2. d.demo = c.demo /\ d.registry = c.registry
  BY <1>1 DEF Valid, Fingerprint
<1>3. d = [c EXCEPT !.closure = d.closure] /\ d.closure \in Closure
  BY <1>2, ConstantsAssumption
<1>4. c.registry \in Complete
  BY <1>1, <1>2, GoodFrom DEF NewStatus
<1>5. QED BY <1>1, <1>2, <1>3, <1>4 DEF Earned, Passes

\* A step that ends a run keeps the inputs it ran with.
LEMMA AtTheEnd ==
    ASSUME Inv, [Next]_vars, run.at # "idle"
    PROVE  run'.with = run.with
<1>0. Types /\ run.at # "idle"
  BY DEF Inv, Shape
<1>1. CASE Runner \/ StageFails \/ Kill
  BY <1>0, <1>1 DEF Runner, Validate, Resume, Invalidate, ParseFails, WriteSource, Terminal,
                   WriteReport, WriteStatus, WriteMarker, StageFails, Kill, Goto, Return, Types
<1>2. CASE Others \/ Reconfigure \/ ArchiveChanges \/ Rot \/ UNCHANGED vars
  BY <1>2 DEF Others, VerifyCommand, ServeRestarts, OverrideBegins, OverrideReport,
              OverrideStatus, OverrideEnds, OverrideFails, Restore, Reconfigure,
              ArchiveChanges, Rot, vars
<1>3. CASE Start
  BY <1>0, <1>3 DEF Start
<1>4. QED BY <1>1, <1>2, <1>3 DEF Next

\* A run that ends with an outcome earned it.
LEMMA StepIsEarned ==
    ASSUME Inv, [Next]_vars, Apart, run.at # "idle", run'.at = "idle", answer'.says \in Outcomes
    PROVE  /\ status'.says = answer'.says
           /\ answer'.says = "verified" => Earned(run.with)'
<1>0. /\ Types /\ Spoken /\ Progress /\ MarkerWhole /\ run.with \in Config
      /\ "idle" \notin Source /\ "input" \in Source
  BY SourceIs DEF Inv, Shape, Types
<1>1. CASE Resume
  <2>1. Goto("input") => run'.at = "input"
    BY <1>0, Goes DEF RunAt
  <2>2. /\ Return(status.says, TRUE) /\ UNCHANGED tree /\ Valid(run.with)
    BY <1>1, <1>0, <2>1 DEF Resume, Progress
  <2>3. UNCHANGED <<source, report, status, marker>> /\ run'.with = run.with
        /\ answer'.says = status.says
    BY <1>0, <2>2 DEF tree, Return, Types
  <2>4. answer'.says = "verified" => Earned(run.with)
    BY <1>0, <2>2, <2>3, ValidIsEarned
  <2>5. Earned(run.with)' = Earned(run.with)
    BY <2>3 DEF Earned, Valid, Covered
  <2>6. QED BY <2>3, <2>4, <2>5
<1>2. CASE Terminal
  BY <1>0, <1>2 DEF Terminal, NewStatus, Return, Spoken
<1>3. CASE WriteMarker
  <2>1. /\ run.at = "marker" /\ marker' = NewMarker(run.with)
        /\ run'.with = run.with /\ answer'.says = run.says
        /\ UNCHANGED <<source, report, status>>
    BY <1>0, <1>3 DEF WriteMarker, Return, Types
  <2>2. Reported /\ status = NewStatus(run.says, run.with)
    BY <1>0, <2>1 DEF Progress
  <2>3. /\ marker'.covers = Covered /\ status.says = run.says
        /\ run.says = "verified" => run.with.registry \in Complete
        /\ MarkerWhole'
    BY <1>0, <2>1, <2>2, MarkerDone
  <2>4. Valid(run.with)'
    <3>1. marker' = [of |-> Fingerprint(run.with), covers |-> Covered]
      BY <2>1 DEF NewMarker
    <3>2. Covered # <<>> /\ Covered # <<"rotten">>
      BY DEF Covered
    <3>3. marker' \notin {NoMarker, BadMarker}
      BY <3>1, <3>2 DEF NoMarker, BadMarker
    <3>4. QED BY <2>1, <3>1, <3>3 DEF Valid, Covered
  <2>5. /\ Passes(run.with)
        /\ \E k \in Closure : source = Built([run.with EXCEPT !.closure = k])
    <3>1. run.with = [run.with EXCEPT !.closure = run.with.closure] /\ run.with.closure \in Closure
      BY <1>0, ConstantsAssumption
    <3>2. QED BY <2>2, <3>1 DEF Reported, WholeBuild
  <2>6. QED BY <2>1, <2>3, <2>4, <2>5 DEF Earned
<1>4. CASE StageFails \/ Kill
  <2>1. answer'.says \in {"error", "killed"}
    BY <1>4 DEF StageFails, Kill, Return
  <2>2. QED BY <2>1 DEF Outcomes
<1>5. ASSUME NEW s \in Source, WriteSource(s) PROVE FALSE
  <2>1. PICK i \in 1..11 : s = Stages[i]
    BY Order DEF Source
  <2>2. PICK content : run'.at = After(s, content)
    BY <1>0, <1>5 DEF WriteSource, Types
  <2>3. QED BY <1>0, <2>1, <2>2, Follows, Order DEF Source
<1>6. CASE Validate \/ Invalidate \/ ParseFails \/ WriteReport \/ WriteStatus
  BY <1>0, <1>6 DEF Validate, Invalidate, ParseFails, WriteReport, WriteStatus, Goto, Types
<1>7. CASE Start \/ Others \/ Reconfigure \/ ArchiveChanges \/ Rot \/ UNCHANGED vars
  <2>1. ~Start /\ UNCHANGED run
    BY <1>7 DEF Start, Others, VerifyCommand, ServeRestarts, OverrideBegins, OverrideReport,
                OverrideStatus, OverrideEnds, OverrideFails, Restore, Reconfigure,
                ArchiveChanges, Rot, vars
  <2>2. QED BY <2>1
<1>8. QED BY <1>1, <1>2, <1>3, <1>4, <1>5, <1>6, <1>7 DEF Next, Runner

(***************************************************************************)
(* A run answers what it wrote, and verified only over a whole tree of its *)
(* own inputs that pass every gate (but for the closure contract): no      *)
(* quarantine, changed input or interruption becomes verified on a rerun.  *)
(***************************************************************************)
THEOREM AnswersAreEarned == Spec => VerifiedIsEarned
<1>1. Inv /\ Inv' /\ [Next]_vars =>
        [Apart /\ run.at # "idle" /\ run'.at = "idle" /\ answer'.says \in Outcomes =>
           /\ status'.says = answer'.says
           /\ answer'.says = "verified" =>
                 /\ Passes(run.with) /\ run.with.registry \in Complete
                 /\ \E k \in Closure : source' = Built([run.with EXCEPT !.closure = k])
                 /\ Valid(run.with)']_vars
  <2>1. SUFFICES ASSUME Inv, [Next]_vars, Apart, run.at # "idle", run'.at = "idle",
                        answer'.says \in Outcomes
                 PROVE  /\ status'.says = answer'.says
                        /\ answer'.says = "verified" =>
                              /\ Passes(run.with) /\ run.with.registry \in Complete
                              /\ \E k \in Closure : source' = Built([run.with EXCEPT !.closure = k])
                              /\ Valid(run.with)'
    OBVIOUS
  <2>2. run'.with = run.with
    BY <2>1, AtTheEnd
  <2>3. QED BY <2>1, <2>2, StepIsEarned DEF Earned
<1>2. QED BY <1>1, Invariant, PTL DEF Spec, VerifiedIsEarned

-----------------------------------------------------------------------------
(* Passes over a list.                                                     *)

\* A set of natural numbers has a least one.
LEMMA LeastOf ==
    ASSUME NEW S \in SUBSET Nat, S # {}
    PROVE  \E m \in S : \A n \in S : m <= n
<1>1. OpToRel(<, Nat) = {ss \in Nat \X Nat : ss[1] < ss[2]}
  BY DEF OpToRel
<1>2. PICK R : R = {ss \in Nat \X Nat : ss[1] < ss[2]} /\ IsWellFoundedOn(R, Nat)
  BY <1>1, NatLessThanWellFounded
<1>3. PICK m \in S : \A n \in S : ~ (<<n, m>> \in R)
  BY <1>2, WFMin
<1>4. ASSUME NEW n \in S PROVE m <= n
  <2>1. n < m => <<n, m>> \in R
    BY <1>2
  <2>2. QED BY <1>3, <2>1
<1>5. QED BY <1>4

\* A set with 0 and with the successors of its elements is all of them.
LEMMA Climb ==
    ASSUME NEW S \in SUBSET Nat, 0 \in S, \A n \in S : n + 1 \in S
    PROVE  \A n \in Nat : n \in S
<1>1. SUFFICES ASSUME Nat \ S # {} PROVE FALSE
  OBVIOUS
<1>2. PICK m \in Nat \ S : \A n \in Nat \ S : m <= n
  BY <1>1, LeastOf
<1>3. m # 0 /\ m - 1 \in Nat /\ ~(m <= m - 1) /\ (m - 1) + 1 = m
  BY <1>2
<1>4. m - 1 \in S
  BY <1>2, <1>3
<1>5. QED BY <1>2, <1>3, <1>4

\* f goes through n steps from a.
PassesOver(f, a, g, n) ==
    f[0] = a /\ \A k \in 1 .. n : f[k] = g[k][f[k - 1]]

\* There is such a function.
LEMMA PassIs ==
    ASSUME NEW T, NEW a \in T, NEW N \in Nat, NEW g \in [1 .. N -> [T -> T]]
    PROVE  \E f \in [0 .. N -> T] : PassesOver(f, a, g, N)
<1>. DEFINE PassUpTo == {n \in Nat : n <= N => \E f \in [0 .. n -> T] : PassesOver(f, a, g, n)}
<1>1. 0 \in PassUpTo
  <2>1. [k \in 0 .. 0 |-> a] \in [0 .. 0 -> T] /\ PassesOver([k \in 0 .. 0 |-> a], a, g, 0)
    BY DEF PassesOver
  <2>2. QED BY <2>1
<1>2. ASSUME NEW n \in PassUpTo PROVE n + 1 \in PassUpTo
  <2>1. SUFFICES ASSUME n + 1 <= N
                 PROVE  \E f \in [0 .. n + 1 -> T] : PassesOver(f, a, g, n + 1)
    OBVIOUS
  <2>2. n \in Nat /\ n <= N /\ n \in 0 .. n /\ n + 1 \in 1 .. N
    BY <2>1
  <2>3. PICK f \in [0 .. n -> T] : PassesOver(f, a, g, n)
    BY <2>2
  <2>4. g[n + 1] \in [T -> T] /\ f[n] \in T
    BY <2>2
  <2>5. g[n + 1][f[n]] \in T
    BY <2>4
  <2>. DEFINE h == [k \in 0 .. n + 1 |-> IF k <= n THEN f[k] ELSE g[n + 1][f[n]]]
  <2>6. h \in [0 .. n + 1 -> T]
    BY <2>2, <2>5
  <2>7. PassesOver(h, a, g, n + 1)
    <3>1. h[0] = a
      BY <2>2, <2>3 DEF PassesOver
    <3>2. ASSUME NEW k \in 1 .. n + 1 PROVE h[k] = g[k][h[k - 1]]
      <4>1. k \in 0 .. n + 1 /\ k - 1 \in 0 .. n + 1 /\ k - 1 <= n
        BY <2>2
      <4>2. h[k - 1] = f[k - 1]
        BY <4>1
      <4>3. CASE k <= n
        <5>1. k \in 1 .. n /\ h[k] = f[k]
          BY <2>2, <4>1, <4>3
        <5>2. QED BY <2>3, <4>2, <5>1 DEF PassesOver
      <4>4. CASE ~(k <= n)
        <5>1. k = n + 1 /\ k - 1 = n
          BY <2>2, <4>4
        <5>2. h[k] = g[n + 1][f[n]]
          BY <4>1, <4>4
        <5>3. QED BY <4>2, <5>1, <5>2
      <4>5. QED BY <4>3, <4>4
    <3>3. QED BY <3>1, <3>2 DEF PassesOver
  <2>8. QED BY <2>6, <2>7
<1>3. N \in PassUpTo
  <2>. HIDE DEF PassUpTo
  <2>1. PassUpTo \in SUBSET Nat
    BY DEF PassUpTo
  <2>2. QED BY <1>1, <1>2, <2>1, Climb
<1>4. QED BY <1>3

\* And only one.
LEMMA PassOnce ==
    ASSUME NEW N \in Nat, NEW a, NEW f, NEW g, NEW h, NEW k \in Nat, k <= N,
           PassesOver(f, a, h, N), PassesOver(g, a, h, N)
    PROVE  f[k] = g[k]
<1>. DEFINE Same == {n \in Nat : n <= N => f[n] = g[n]}
<1>1. 0 \in Same
  BY DEF PassesOver
<1>2. ASSUME NEW n \in Same PROVE n + 1 \in Same
  <2>1. SUFFICES ASSUME n + 1 <= N PROVE f[n + 1] = g[n + 1]
    OBVIOUS
  <2>2. n \in Nat /\ n + 1 \in 1 .. N /\ (n + 1) - 1 = n /\ f[n] = g[n]
    BY <2>1
  <2>3. QED BY <2>2 DEF PassesOver
<1>3. k \in Same
  <2>. HIDE DEF Same
  <2>1. Same \in SUBSET Nat
    BY DEF Same
  <2>2. QED BY <1>1, <1>2, <2>1, Climb
<1>4. QED BY <1>3

-----------------------------------------------------------------------------
(* What is read of a demo, and the facts it is owed.                       *)

Entry == UNION Feeds
Reading == [entry : Entry, now : Int, at : Int]
Families == {"match_state", "participant", "death", "economy", "item", "ability",
             "modifier", "objective", "combat", "hero_state"}
FactTypes == DOMAIN FamilyOf \cup {"match", "binding", "sample"}
FactNames == {e.target : e \in Entry} \cup Hero \cup {Nobody}
Liveness == {"alive", "dead", Unknown}
Whose == Hero \cup {Nobody}
FactT == [family : Families, type : FactTypes, account : Whose, by : Whose, name : FactNames,
          helpers : SUBSET Hero, at : Int, src : Nat, alive : Liveness]

LEMMA FamiliesAre ==
    /\ FamilyOf \in [DOMAIN FamilyOf -> Families \ {"match_state", "participant", "hero_state"}]
    /\ \A t \in DOMAIN FamilyOf : t \notin {"match", "binding", "sample"}
    /\ {"death", "buyback", "building", "modifier", "damage"} \subseteq DOMAIN FamilyOf
  BY DEF FamilyOf, Families

LEMMA FactTyped ==
    ASSUME NEW family \in Families, NEW type \in FactTypes, NEW account \in Whose,
           NEW by \in Whose, NEW name \in FactNames, NEW helpers \in SUBSET Hero,
           NEW at \in Int, NEW src \in Nat, NEW alive \in Liveness
    PROVE  Fact(family, type, account, by, name, helpers, at, src, alive) \in FactT
  BY DEF Fact, FactT

LEMMA CombatTyped ==
    ASSUME NEW r \in Reading, r.entry.type \in DOMAIN FamilyOf, NEW n \in Nat
    PROVE  /\ CombatFact(r, n) \in FactT
           /\ CombatFact(r, n).family \notin {"match_state", "participant", "hero_state"}
<1>. DEFINE c == r.entry
<1>1. c \in Entry /\ r.at \in Int
  BY DEF Reading
<1>2. FamilyOf[c.type] \in Families /\ c.type \in FactTypes
      /\ FamilyOf[c.type] \notin {"match_state", "participant", "hero_state"}
  BY FamiliesAre DEF FactTypes
<1>3. AccountOf(c) \in Whose /\ PlayerRef(c.actor) \in Whose
  BY DEF AccountOf, PlayerRef, Whose
<1>4. c.target \in FactNames /\ Unknown \in Liveness /\ c.helpers \cap Hero \in SUBSET Hero
  BY <1>1 DEF FactNames, Liveness
<1>5. CombatFact(r, n) = Fact(FamilyOf[c.type], c.type, AccountOf(c), PlayerRef(c.actor),
                              c.target, c.helpers \cap Hero, r.at, n, Unknown)
  BY DEF CombatFact
<1>6. CombatFact(r, n).family = FamilyOf[c.type]
  BY <1>5 DEF Fact
<1>. HIDE DEF c
<1>7. QED BY <1>1, <1>2, <1>3, <1>4, <1>5, <1>6, FactTyped

LEMMA SampleTyped ==
    ASSUME NEW r \in Reading, r.entry.kind = "hero_state", r.entry.hero \in Hero
    PROVE  SampleFact(r) \in FactT /\ SampleFact(r).family = "hero_state"
<1>. DEFINE h == r.entry
<1>1. h \in Entry /\ r.at \in Int /\ h.alive \in Liveness
  BY EntriesAssumption DEF Reading, Liveness, Entry
<1>2. h.hero \in Whose /\ h.hero \in FactNames /\ Nobody \in Whose /\ 0 \in Nat
      /\ {} \in SUBSET Hero /\ "hero_state" \in Families /\ "sample" \in FactTypes
  BY DEF Whose, FactNames, Families, FactTypes
<1>3. SampleFact(r) = Fact("hero_state", "sample", h.hero, Nobody, h.hero, {}, r.at, 0, h.alive)
  BY DEF SampleFact
<1>4. SampleFact(r).family = "hero_state"
  BY <1>3 DEF Fact
<1>. HIDE DEF h
<1>5. QED BY <1>1, <1>2, <1>3, <1>4, FactTyped

\* A finite set has a list of its elements.
LEMMA SetListed ==
    ASSUME NEW S, IsFiniteSet(S)
    PROVE  SetToSeq(S) \in [1 .. Cardinality(S) -> S]
<1>. DEFINE n == Cardinality(S)
<1>1. n \in Nat
  BY FS_CardinalityType
<1>2. PICK f : f \in Bijection(1 .. n, S)
  BY FS_CardinalityType DEF ExistsBijection
<1>3. f \in [1 .. n -> S]
  BY <1>2 DEF Bijection, Injection
<1>4. IsInjective(f)
  BY <1>2 DEF Bijection, Injection, IsInjective
<1>5. SetToSeq(S) \in [1 .. n -> S]
  BY <1>3, <1>4 DEF SetToSeq
<1>6. QED BY <1>5

LEMMA HeaderTyped ==
    /\ Header \in Seq(FactT)
    /\ Len(Header) = Cardinality(Hero) + 1 /\ Cardinality(Hero) \in Nat
    /\ \A n \in 1 .. Len(Header) : /\ Header[n].family \in {"match_state", "participant"}
                                   /\ Header[n].type \in {"match", "binding"}
<1>. DEFINE bound(h) == Fact("participant", "binding", h, Nobody, h, {}, 0, 0, Unknown)
            first == Fact("match_state", "match", Nobody, Nobody, Nobody, {}, 0, 0, Unknown)
            q == SetToSeq(Hero)
            rest == [i \in 1 .. Cardinality(Hero) |-> bound(q[i])]
<1>1. Cardinality(Hero) \in Nat /\ q \in [1 .. Cardinality(Hero) -> Hero]
  BY FactsAssumption, FS_CardinalityType, SetListed
<1>2. first \in FactT /\ first.family = "match_state" /\ first.type = "match"
  <2>1. Nobody \in Whose /\ Nobody \in FactNames /\ 0 \in Nat /\ 0 \in Int
        /\ {} \in SUBSET Hero /\ "match_state" \in Families /\ "match" \in FactTypes
        /\ Unknown \in Liveness
    BY DEF Whose, FactNames, Families, FactTypes, Liveness
  <2>2. QED BY <2>1, FactTyped DEF Fact
<1>3. ASSUME NEW h \in Hero PROVE bound(h) \in FactT /\ bound(h).family = "participant" /\ bound(h).type = "binding"
  <2>1. h \in Whose /\ h \in FactNames /\ Nobody \in Whose /\ 0 \in Nat /\ 0 \in Int
        /\ {} \in SUBSET Hero /\ "participant" \in Families /\ "binding" \in FactTypes
        /\ Unknown \in Liveness
    BY DEF Whose, FactNames, Families, FactTypes, Liveness
  <2>2. QED BY <2>1, FactTyped DEF Fact
<1>4. Header = <<first>> \o rest
  BY DEF Header
<1>. HIDE DEF bound, first, q
<1>5. rest \in Seq(FactT) /\ Len(rest) = Cardinality(Hero)
      /\ \A i \in 1 .. Len(rest) : rest[i].family = "participant" /\ rest[i].type = "binding"
  BY <1>1, <1>3
<1>6. <<first>> \in Seq(FactT) /\ Len(<<first>>) = 1 /\ <<first>>[1] = first
  BY <1>2
<1>. HIDE DEF rest
<1>7. Header \in Seq(FactT) /\ Len(Header) = 1 + Len(rest)
      /\ \A n \in 1 .. Len(Header) :
             Header[n] = IF n <= 1 THEN <<first>>[n] ELSE rest[n - 1]
  BY <1>4, <1>5, <1>6
<1>8. ASSUME NEW n \in 1 .. Len(Header)
      PROVE  /\ Header[n].family \in {"match_state", "participant"}
             /\ Header[n].type \in {"match", "binding"}
  <2>1. CASE n <= 1
    BY <1>1, <1>2, <1>5, <1>6, <1>7, <2>1
  <2>2. CASE ~(n <= 1)
    <3>1. n - 1 \in 1 .. Len(rest)
      BY <1>1, <1>5, <1>7, <2>2
    <3>2. QED BY <1>5, <1>7, <2>2, <3>1
  <2>3. QED BY <2>1, <2>2
<1>9. QED BY <1>1, <1>5, <1>7, <1>8

LEMMA OwedTyped ==
    ASSUME NEW entries \in Seq(Reading), NEW i \in 1 .. Len(entries), Owed(entries, i)
    PROVE  /\ OwedFact(entries, i) \in FactT
           /\ OwedFact(entries, i).family \notin {"match_state", "participant"}
           /\ OwedFact(entries, i).family = "hero_state" <=> entries[i].entry.kind # "combat"
<1>. DEFINE r == entries[i]
<1>1. r \in Reading
  OBVIOUS
<1>2. CASE r.entry.kind = "combat"
  <2>1. r.entry.type \in DOMAIN FamilyOf
    BY <1>2 DEF Owed
  <2>2. CombatSeq(SubSeq(entries, 1, i)) \in Nat
    <3>1. IsFiniteSet(DOMAIN SubSeq(entries, 1, i))
      <4>1. DOMAIN SubSeq(entries, 1, i) = 1 .. i
        OBVIOUS
      <4>2. QED BY <4>1, FS_Interval
    <3>2. IsFiniteSet({j \in DOMAIN SubSeq(entries, 1, i) :
                          SubSeq(entries, 1, i)[j].entry.kind = "combat"})
      BY <3>1, FS_Subset
    <3>3. QED BY <3>2, FS_CardinalityType DEF CombatSeq
  <2>3. OwedFact(entries, i) = CombatFact(r, CombatSeq(SubSeq(entries, 1, i)))
    BY <1>2 DEF OwedFact
  <2>. HIDE DEF r
  <2>4. CombatFact(r, CombatSeq(SubSeq(entries, 1, i))) \in FactT
        /\ CombatFact(r, CombatSeq(SubSeq(entries, 1, i))).family
              \notin {"match_state", "participant", "hero_state"}
    BY <1>1, <2>1, <2>2, CombatTyped
  <2>5. QED BY <1>2, <2>3, <2>4 DEF r
<1>3. CASE r.entry.kind # "combat"
  <2>1. r.entry.kind = "hero_state" /\ r.entry.hero \in Hero
    BY <1>3 DEF Owed
  <2>2. OwedFact(entries, i) = SampleFact(r)
    BY <1>3 DEF OwedFact
  <2>. HIDE DEF r
  <2>3. SampleFact(r) \in FactT /\ SampleFact(r).family = "hero_state"
    BY <1>1, <2>1, SampleTyped
  <2>4. QED BY <1>3, <2>2, <2>3 DEF r
<1>4. QED BY <1>2, <1>3

OwedStep(entries, f, n) ==
    IF Owed(entries, n) THEN Append(f[n - 1], OwedFact(entries, n)) ELSE f[n - 1]

\* The facts owed, from the front.
LEMMA OwedIs ==
    ASSUME NEW entries \in Seq(Reading)
    PROVE  \E f \in [0 .. Len(entries) -> Seq(FactT)] :
              /\ f[0] = Header
              /\ \A n \in 1 .. Len(entries) : f[n] = OwedStep(entries, f, n)
              /\ OwedFacts(entries) = f[Len(entries)]
<1>. DEFINE N == Len(entries)
            step(n) == [s \in Seq(FactT) |-> IF Owed(entries, n)
                                             THEN Append(s, OwedFact(entries, n)) ELSE s]
            g == [n \in 1 .. N |-> step(n)]
            Body(f, n) == IF n = 0 THEN Header
                          ELSE IF Owed(entries, n) THEN Append(f[n - 1], OwedFact(entries, n))
                          ELSE f[n - 1]
            Pass(f) == f = [n \in 0 .. N |-> Body(f, n)]
<1>1. N \in Nat /\ Header \in Seq(FactT)
  BY HeaderTyped
<1>2. ASSUME NEW n \in 1 .. N PROVE step(n) \in [Seq(FactT) -> Seq(FactT)]
  <2>1. Owed(entries, n) => OwedFact(entries, n) \in FactT
    BY OwedTyped
  <2>2. ASSUME NEW s \in Seq(FactT)
        PROVE  (IF Owed(entries, n) THEN Append(s, OwedFact(entries, n)) ELSE s) \in Seq(FactT)
    BY <2>1
  <2>3. QED BY <2>2
<1>3. g \in [1 .. N -> [Seq(FactT) -> Seq(FactT)]]
  <2>. HIDE DEF step
  <2>1. QED BY <1>2
<1>4. PICK f \in [0 .. N -> Seq(FactT)] : PassesOver(f, Header, g, N)
  <2>. HIDE DEF g, N
  <2>1. QED BY <1>1, <1>3, PassIs
<1>5. ASSUME NEW n \in 1 .. N PROVE f[n] = OwedStep(entries, f, n)
  <2>1. f[n - 1] \in Seq(FactT)
    <3>1. n - 1 \in 0 .. N
      BY <1>1
    <3>. HIDE DEF N
    <3>2. QED BY <3>1
  <2>2. f[n] = g[n][f[n - 1]]
    BY <1>4 DEF PassesOver
  <2>3. g[n] = step(n)
    OBVIOUS
  <2>4. step(n)[f[n - 1]] = OwedStep(entries, f, n)
    BY <2>1 DEF OwedStep
  <2>. HIDE DEF g, step
  <2>5. QED BY <2>2, <2>3, <2>4
<1>6. f[0] = Header
  BY <1>4 DEF PassesOver
<1>7. Pass(f)
  <2>1. ASSUME NEW n \in 0 .. N PROVE f[n] = Body(f, n)
    <3>1. n = 0 \/ n \in 1 .. N
      BY <1>1
    <3>2. QED BY <1>5, <1>6, <3>1 DEF OwedStep
  <2>. HIDE DEF Body
  <2>2. QED BY <2>1
<1>8. ASSUME NEW h, Pass(h) PROVE h[N] = f[N]
  <2>1. ASSUME NEW n \in 0 .. N PROVE h[n] = Body(h, n)
    <3>. HIDE DEF Body
    <3>1. QED BY <1>8
  <2>. DEFINE Same == {n \in Nat : n <= N => h[n] = f[n]}
  <2>2. 0 \in Same
    BY <1>1, <1>6, <2>1
  <2>3. ASSUME NEW n \in Same PROVE n + 1 \in Same
    <3>1. SUFFICES ASSUME n + 1 <= N PROVE h[n + 1] = f[n + 1]
      OBVIOUS
    <3>2. n \in Nat /\ n + 1 \in 0 .. N /\ n + 1 \in 1 .. N /\ (n + 1) - 1 = n /\ n + 1 # 0
          /\ h[n] = f[n]
      BY <1>1, <3>1
    <3>3. h[n + 1] = Body(h, n + 1) /\ f[n + 1] = OwedStep(entries, f, n + 1)
      BY <1>5, <2>1, <3>2
    <3>4. QED BY <3>2, <3>3 DEF OwedStep
  <2>4. N \in Same
    <3>. HIDE DEF Same
    <3>1. Same \in SUBSET Nat
      BY DEF Same
    <3>2. QED BY <1>1, <2>2, <2>3, <3>1, Climb
  <2>5. QED BY <1>1, <2>4
<1>9. OwedFacts(entries) = f[N]
  <2>1. \E h : h = (CHOOSE k : Pass(k)) /\ OwedFacts(entries) = h[N]
    BY DEF OwedFacts
  <2>2. PICK h : h = (CHOOSE k : Pass(k)) /\ OwedFacts(entries) = h[N]
    BY <2>1
  <2>. HIDE DEF Pass
  <2>3. Pass(h)
    BY <1>7, <2>2
  <2>4. QED BY <1>8, <2>2, <2>3
<1>10. QED BY <1>5, <1>6, <1>9

\* What is owed for the first entries is the same when more follow.
LEMMA OwedFirst ==
    ASSUME NEW entries \in Seq(Reading), NEW r \in Reading, NEW i \in 1 .. Len(entries)
    PROVE  /\ Owed(Append(entries, r), i) <=> Owed(entries, i)
           /\ OwedFact(Append(entries, r), i) = OwedFact(entries, i)
<1>. DEFINE more == Append(entries, r)
<1>1. Len(entries) \in Nat /\ \A j \in 1 .. i : more[j] = entries[j]
  OBVIOUS
<1>2. SubSeq(more, 1, i) = SubSeq(entries, 1, i)
  OBVIOUS
<1>3. i \in 1 .. i /\ \A j \in 1 .. i - 1 : j \in 1 .. i
  OBVIOUS
<1>. HIDE DEF more
<1>4. Owed(more, i) <=> Owed(entries, i)
  BY <1>1, <1>3 DEF Owed
<1>5. OwedFact(more, i) = OwedFact(entries, i)
  BY <1>1, <1>2, <1>3 DEF OwedFact
<1>6. QED BY <1>4, <1>5 DEF more

\* One entry more is owed one fact more, or none.
LEMMA OwedMore ==
    ASSUME NEW entries \in Seq(Reading), NEW r \in Reading
    PROVE  LET more == Append(entries, r)
               n == Len(more)
           IN  OwedFacts(more) = IF Owed(more, n)
                                 THEN Append(OwedFacts(entries), OwedFact(more, n))
                                 ELSE OwedFacts(entries)
<1>. DEFINE more == Append(entries, r)
            N == Len(entries)
<1>1. more \in Seq(Reading) /\ Len(more) = N + 1 /\ N \in Nat
  OBVIOUS
<1>2. PICK f \in [0 .. N -> Seq(FactT)] :
              /\ f[0] = Header
              /\ \A n \in 1 .. N : f[n] = OwedStep(entries, f, n)
              /\ OwedFacts(entries) = f[N]
  BY OwedIs
<1>3. PICK h \in [0 .. N + 1 -> Seq(FactT)] :
              /\ h[0] = Header
              /\ \A n \in 1 .. N + 1 : h[n] = OwedStep(more, h, n)
              /\ OwedFacts(more) = h[N + 1]
  <2>. HIDE DEF more, N
  <2>1. QED BY <1>1, OwedIs
<1>4. \A i \in 1 .. N : /\ Owed(more, i) <=> Owed(entries, i)
                        /\ OwedFact(more, i) = OwedFact(entries, i)
  BY OwedFirst
<1>. HIDE DEF more
<1>. DEFINE Same == {n \in Nat : n <= N => h[n] = f[n]}
<1>5. 0 \in Same
  BY <1>2, <1>3
<1>6. ASSUME NEW n \in Same PROVE n + 1 \in Same
  <2>1. SUFFICES ASSUME n + 1 <= N PROVE h[n + 1] = f[n + 1]
    OBVIOUS
  <2>2. n \in Nat /\ n + 1 \in 1 .. N /\ n + 1 \in 1 .. N + 1 /\ (n + 1) - 1 = n /\ h[n] = f[n]
    BY <1>1, <2>1
  <2>3. h[n + 1] = OwedStep(more, h, n + 1) /\ f[n + 1] = OwedStep(entries, f, n + 1)
    BY <1>2, <1>3, <2>2
  <2>4. QED BY <1>4, <2>2, <2>3 DEF OwedStep
<1>7. h[N] = f[N]
  <2>1. N \in Same
    <3>. HIDE DEF Same
    <3>1. Same \in SUBSET Nat
      BY DEF Same
    <3>2. QED BY <1>1, <1>5, <1>6, <3>1, Climb
  <2>2. QED BY <1>1, <2>1
<1>8. N + 1 \in 1 .. N + 1 /\ (N + 1) - 1 = N
  BY <1>1
<1>9. h[N + 1] = OwedStep(more, h, N + 1)
  BY <1>3, <1>8
<1>10. OwedFacts(more) = IF Owed(more, N + 1)
                         THEN Append(OwedFacts(entries), OwedFact(more, N + 1))
                         ELSE OwedFacts(entries)
  BY <1>2, <1>3, <1>7, <1>8, <1>9 DEF OwedStep
<1>11. QED BY <1>1, <1>10 DEF more

LEMMA OwedNone == OwedFacts(<<>>) = Header
<1>1. <<>> \in Seq(Reading) /\ Len(<<>>) = 0
  OBVIOUS
<1>2. QED BY <1>1, OwedIs

LEMMA OwedListed ==
    ASSUME NEW entries \in Seq(Reading)
    PROVE  OwedFacts(entries) \in Seq(FactT)
<1>1. PICK f \in [0 .. Len(entries) -> Seq(FactT)] : OwedFacts(entries) = f[Len(entries)]
  BY OwedIs
<1>2. Len(entries) \in 0 .. Len(entries)
  OBVIOUS
<1>3. QED BY <1>1, <1>2

-----------------------------------------------------------------------------
(* The fact file.                                                          *)

LEMMA PrefixIs ==
    ASSUME NEW S, NEW s \in Seq(S), NEW t \in Seq(S)
    PROVE  IsPrefix(s, t) <=> Len(s) <= Len(t) /\ \A i \in 1 .. Len(s) : s[i] = t[i]
<1>1. SubSeq(s, 1, Len(s)) = s
  OBVIOUS
<1>2. CASE Len(s) <= Len(t)
  <2>1. SubSeq(t, 1, Len(s)) \in Seq(S) /\ Len(SubSeq(t, 1, Len(s))) = Len(s)
        /\ \A i \in 1 .. Len(s) : SubSeq(t, 1, Len(s))[i] = t[i]
    BY <1>2
  <2>2. SubSeq(t, 1, Len(s)) = s <=> \A i \in 1 .. Len(s) : s[i] = t[i]
    BY <2>1
  <2>3. QED BY <1>1, <1>2, <2>2 DEF IsPrefix
<1>3. CASE ~(Len(s) <= Len(t))
  BY <1>3 DEF IsPrefix
<1>4. QED BY <1>2, <1>3

\* What a list of facts may be of those owed, when so many are counted.
Tells(f, owed, c, d) ==
    /\ c = Len(owed)
    /\ Len(f) <= Len(owed) /\ \A i \in 1 .. Len(f) : f[i] = owed[i]
    /\ d = "ok" => f = owed
    /\ \A n \in Len(f) + 1 .. Len(owed) :
           owed[n].family \in {"match_state", "participant", "hero_state"}

LEMMA TellsOneMore ==
    ASSUME NEW f \in Seq(FactT), NEW owed \in Seq(FactT), NEW c \in Nat, NEW d,
           Tells(f, owed, c, d), NEW x \in FactT
    PROVE  /\ d = "ok" => Tells(Append(f, x), Append(owed, x), c + 1, d)
           /\ x.family = "hero_state" => /\ d # "ok" => Tells(f, Append(owed, x), c + 1, d)
                                         /\ \A e \in {"short", "torn"} :
                                               Tells(f, Append(owed, x), c + 1, e)
<1>. DEFINE more == Append(owed, x)
<1>1. /\ c = Len(owed) /\ Len(f) \in Nat /\ Len(f) <= Len(owed)
      /\ \A i \in 1 .. Len(f) : f[i] = owed[i]
      /\ \A n \in Len(f) + 1 .. Len(owed) :
             owed[n].family \in {"match_state", "participant", "hero_state"}
  BY DEF Tells
<1>2. Len(more) = Len(owed) + 1 /\ more[Len(owed) + 1] = x /\ Len(owed) \in Nat
      /\ \A i \in 1 .. Len(owed) : more[i] = owed[i]
  OBVIOUS
<1>3. ASSUME d = "ok" PROVE Tells(Append(f, x), more, c + 1, d)
  <2>1. Append(f, x) = more
    BY <1>3 DEF Tells
  <2>. HIDE DEF more
  <2>2. QED BY <1>1, <1>2, <2>1 DEF Tells
<1>4. ASSUME x.family = "hero_state", NEW e, e # "ok" PROVE Tells(f, more, c + 1, e)
  <2>. HIDE DEF more
  <2>1. \A i \in 1 .. Len(f) : i \in 1 .. Len(owed)
    BY <1>1, <1>2
  <2>2. ASSUME NEW n \in Len(f) + 1 .. Len(owed) + 1
        PROVE  more[n].family \in {"match_state", "participant", "hero_state"}
    <3>1. n = Len(owed) + 1 \/ (n \in Len(f) + 1 .. Len(owed) /\ n \in 1 .. Len(owed))
      BY <1>1, <1>2
    <3>2. QED BY <1>1, <1>2, <1>4, <3>1
  <2>3. QED BY <1>1, <1>2, <1>4, <2>1, <2>2 DEF Tells
<1>5. QED BY <1>3, <1>4

FactsTyped ==
    /\ feed \in Feeds \cup {{}}
    /\ raw \in Seq(Reading) /\ Len(raw) <= MaxEntries
    /\ paused \in 0 .. MaxPause
    /\ \A i \in DOMAIN raw : raw[i].at >= raw[i].now
    /\ lastEmit \in [Hero -> Nat \cup {-1}]
    /\ counted \in Nat
    /\ file \in Seq(FactT)
    /\ disk \in {"ok", "short", "torn"}
    /\ stage \in {"start", "facts", "published", "episodes", "done", "failed"}

NotBegun ==
    stage = "start" => /\ raw = <<>> /\ file = <<>> /\ disk = "ok"
                       /\ lastEmit = [h \in Hero |-> -1]

\* Snapshot j of hero h.
Shows(entries, j, h) == entries[j].entry.kind = "hero_state" /\ entries[j].entry.hero = h
Bin(entries, j) == Trunc(entries[j].at, HalfSecond)

\* e is the last half second in which a snapshot of h was written.
LastBin(entries, h, e) ==
    /\ \A j \in 1 .. Len(entries) : Shows(entries, j, h) /\ Bin(entries, j) >= 0 =>
                                        Bin(entries, j) <= e
    /\ e = -1 \/ \E j \in 1 .. Len(entries) : Shows(entries, j, h) /\ Bin(entries, j) = e

Whole_file ==
    stage \notin {"start", "failed"} =>
        /\ Tells(file, OwedFacts(raw), counted, disk)
        /\ \A h \in Hero : LastBin(raw, h, lastEmit[h])

FactsInv == FactsTyped /\ NotBegun /\ Whole_file

LEMMA FactsInvComplete == FactsInv => FactsAreComplete
<1>1. SUFFICES ASSUME FactsInv, stage \notin {"start", "failed"}
               PROVE  LET owed == OwedFacts(raw) IN
                      /\ counted = Len(owed)
                      /\ IsPrefix(file, owed)
                      /\ disk = "ok" => file = owed
                      /\ \A n \in Len(file) + 1 .. Len(owed) :
                             owed[n].family \in {"match_state", "participant", "hero_state"}
  BY DEF FactsAreComplete
<1>2. OwedFacts(raw) \in Seq(FactT) /\ file \in Seq(FactT)
  BY <1>1, OwedListed DEF FactsInv, FactsTyped
<1>3. Tells(file, OwedFacts(raw), counted, disk)
  BY <1>1 DEF FactsInv, Whole_file
<1>4. QED BY <1>2, <1>3, PrefixIs DEF Tells

LEMMA TruncTyped == \A t \in Int : Trunc(t, HalfSecond) \in Int
  BY DEF Trunc, HalfSecond

LEMMA NowTyped ==
    ASSUME FactsTyped, NEW step \in Steps
    PROVE  Now + step \in Int
<1>1. FirstTime \in Int /\ step \in Nat
  BY FactsAssumption
<1>2. raw # <<>> => Len(raw) \in 1 .. Len(raw) /\ raw[Len(raw)].now \in Int
  <2>1. raw # <<>> => Len(raw) \in 1 .. Len(raw)
    BY DEF FactsTyped
  <2>2. ASSUME NEW i \in 1 .. Len(raw) PROVE raw[i].now \in Int
    <3>1. raw[i] \in Reading
      BY DEF FactsTyped
    <3>2. QED BY <3>1 DEF Reading
  <2>3. QED BY <2>1, <2>2
<1>3. QED BY <1>1, <1>2 DEF Now, Last

LEMMA ReadsTyped ==
    ASSUME FactsTyped, NEW e \in Entry, NEW now \in Int, NEW at \in Int, at >= now,
           Reads(e, now, at)
    PROVE  LET r == [entry |-> e, now |-> now, at |-> at]
           IN  /\ r \in Reading /\ raw' = Append(raw, r) /\ Last(raw') = r
               /\ raw' \in Seq(Reading) /\ Len(raw') <= MaxEntries
               /\ Len(raw') = Len(raw) + 1
               /\ raw'[Len(raw')] = r /\ \A j \in 1 .. Len(raw) : raw'[j] = raw[j]
               /\ \A i \in DOMAIN raw' : raw'[i].at >= raw'[i].now
<1>. DEFINE r == [entry |-> e, now |-> now, at |-> at]
<1>1. r \in Reading /\ raw' = Append(raw, r)
  BY DEF Reading, Reads
<1>2. r.at >= r.now
  OBVIOUS
<1>. HIDE DEF r
<1>3. raw' \in Seq(Reading) /\ Len(raw') = Len(raw) + 1 /\ Len(raw) \in Nat
      /\ raw'[Len(raw')] = r /\ \A j \in 1 .. Len(raw) : raw'[j] = raw[j]
  BY <1>1 DEF FactsTyped
<1>4. Len(raw') <= MaxEntries
  BY <1>3, FactsAssumption DEF Reads
<1>5. ASSUME NEW i \in DOMAIN raw' PROVE raw'[i].at >= raw'[i].now
  <2>1. i \in 1 .. Len(raw) \/ i = Len(raw')
    BY <1>3
  <2>2. CASE i \in 1 .. Len(raw)
    <3>1. i \in DOMAIN raw
      BY <2>2 DEF FactsTyped
    <3>2. QED BY <1>3, <2>2, <3>1 DEF FactsTyped
  <2>3. QED BY <1>2, <1>3, <2>1, <2>2
<1>6. QED BY <1>1, <1>3, <1>4, <1>5 DEF Last, r

\* An entry that is no snapshot of h that counts leaves the last one.
LEMMA LastBinStays ==
    ASSUME NEW entries \in Seq(Reading), NEW r \in Reading, NEW h, NEW e \in Int,
           LastBin(entries, h, e),
           \/ r.entry.kind # "hero_state" \/ r.entry.hero # h
           \/ Trunc(r.at, HalfSecond) < 0 \/ Trunc(r.at, HalfSecond) <= e
    PROVE  LastBin(Append(entries, r), h, e)
<1>. DEFINE more == Append(entries, r)
            N == Len(entries)
<1>1. N \in Nat /\ Len(more) = N + 1 /\ more[N + 1] = r /\ \A j \in 1 .. N : more[j] = entries[j]
  OBVIOUS
<1>2. Trunc(r.at, HalfSecond) \in Int
  BY TruncTyped DEF Reading
<1>. HIDE DEF more
<1>3. ASSUME NEW j \in 1 .. Len(more), Shows(more, j, h), Bin(more, j) >= 0
      PROVE  Bin(more, j) <= e
  <2>1. CASE j = N + 1
    BY <1>1, <1>2, <1>3, <2>1 DEF Shows, Bin
  <2>2. CASE j # N + 1
    <3>1. j \in 1 .. N /\ more[j] = entries[j]
      BY <1>1, <2>2
    <3>2. QED BY <1>3, <3>1 DEF Shows, Bin, LastBin
  <2>3. QED BY <2>1, <2>2
<1>4. e = -1 \/ \E j \in 1 .. Len(more) : Shows(more, j, h) /\ Bin(more, j) = e
  <2>1. ASSUME NEW j \in 1 .. N, Shows(entries, j, h), Bin(entries, j) = e
        PROVE  j \in 1 .. Len(more) /\ Shows(more, j, h) /\ Bin(more, j) = e
    BY <1>1, <2>1 DEF Shows, Bin
  <2>2. QED BY <2>1 DEF LastBin
<1>5. QED BY <1>3, <1>4 DEF LastBin, more

\* A snapshot in a later half second is owed a fact and is the last one.
LEMMA LastBinMoves ==
    ASSUME NEW entries \in Seq(Reading), NEW r \in Reading, NEW h \in Hero, NEW e \in Int,
           LastBin(entries, h, e), e >= -1,
           r.entry.kind = "hero_state", r.entry.hero = h
    PROVE  LET bin == Trunc(r.at, HalfSecond)
               more == Append(entries, r)
           IN  /\ Owed(more, Len(more)) <=> ~(bin < 0 \/ bin <= e)
               /\ ~(bin < 0 \/ bin <= e) => LastBin(more, h, bin)
<1>. DEFINE more == Append(entries, r)
            N == Len(entries)
            bin == Trunc(r.at, HalfSecond)
<1>1. N \in Nat /\ Len(more) = N + 1 /\ more[N + 1] = r /\ \A j \in 1 .. N : more[j] = entries[j]
  OBVIOUS
<1>2. bin \in Int /\ \A j \in 1 .. N : Bin(entries, j) \in Int
  <2>1. ASSUME NEW s \in Reading PROVE Trunc(s.at, HalfSecond) \in Int
    BY TruncTyped DEF Reading
  <2>2. \A j \in 1 .. N : entries[j] \in Reading
    OBVIOUS
  <2>3. QED BY <2>1, <2>2 DEF Bin
<1>. HIDE DEF more, bin
<1>3. \A j \in 1 .. N : /\ Shows(entries, j, h) <=> Shows(more, j, h)
                        /\ Bin(entries, j) = Bin(more, j)
  BY <1>1 DEF Shows, Bin
<1>4. Owed(more, N + 1) <=> /\ bin >= 0
                            /\ \A j \in 1 .. N : Shows(more, j, h) => Bin(more, j) < bin
  <2>1. (N + 1) - 1 = N /\ Trunc(more[N + 1].at, HalfSecond) = bin
    BY <1>1 DEF bin
  <2>2. QED BY <1>1, <2>1 DEF Owed, Shows, Bin
<1>5. ASSUME ~(bin < 0 \/ bin <= e)
      PROVE  Owed(more, N + 1) /\ LastBin(more, h, bin)
  <2>1. ASSUME NEW j \in 1 .. N, Shows(entries, j, h) PROVE Bin(entries, j) < bin
    <3>1. Bin(entries, j) >= 0 => Bin(entries, j) <= e
      BY <2>1 DEF LastBin
    <3>2. Bin(entries, j) \in Int
      BY <1>2
    <3>3. QED BY <1>2, <1>5, <3>1, <3>2
  <2>2. Owed(more, N + 1)
    BY <1>2, <1>3, <1>4, <1>5, <2>1
  <2>3. ASSUME NEW j \in 1 .. Len(more), Shows(more, j, h), Bin(more, j) >= 0
        PROVE  Bin(more, j) <= bin
    <3>1. CASE j = N + 1
      BY <1>1, <1>2, <3>1 DEF Bin, bin
    <3>2. CASE j # N + 1
      <4>1. j \in 1 .. N
        BY <1>1, <3>2
      <4>2. Bin(entries, j) < bin /\ Bin(entries, j) \in Int
        BY <1>2, <1>3, <2>1, <2>3, <4>1
      <4>3. QED BY <1>2, <1>3, <4>1, <4>2
    <3>3. QED BY <3>1, <3>2
  <2>4. N + 1 \in 1 .. Len(more) /\ Shows(more, N + 1, h) /\ Bin(more, N + 1) = bin
    BY <1>1 DEF Shows, Bin, bin
  <2>5. QED BY <2>2, <2>3, <2>4 DEF LastBin
<1>6. ASSUME bin < 0 \/ bin <= e PROVE ~Owed(more, N + 1)
  <2>1. SUFFICES ASSUME bin >= 0 PROVE \E j \in 1 .. N : Shows(more, j, h) /\ ~(Bin(more, j) < bin)
    BY <1>2, <1>4
  <2>2. bin <= e /\ e # -1
    BY <1>2, <1>6, <2>1
  <2>3. PICK j \in 1 .. N : Shows(entries, j, h) /\ Bin(entries, j) = e
    BY <2>2 DEF LastBin
  <2>4. QED BY <1>2, <1>3, <2>2, <2>3
<1>7. QED BY <1>1, <1>5, <1>6 DEF more, bin

\* What EmitCombat and Sample do when an entry is owed a fact.
LEMMA EncodeTells ==
    ASSUME FactsTyped, NEW owed \in Seq(FactT), NEW x \in FactT, Encode(x),
           Tells(file, owed, counted, disk)
    PROVE  /\ file' \in Seq(FactT) /\ disk' \in {"ok", "short", "torn"}
           /\ disk' = "ok" \/ x.family = "hero_state" =>
                 Tells(file', Append(owed, x), counted + 1, disk')
<1>1. file \in Seq(FactT) /\ counted \in Nat /\ disk \in {"ok", "short", "torn"}
  BY DEF FactsTyped
<1>2. /\ disk = "ok" => Tells(Append(file, x), Append(owed, x), counted + 1, disk)
      /\ x.family = "hero_state" =>
             /\ disk # "ok" => Tells(file, Append(owed, x), counted + 1, disk)
             /\ \A e \in {"short", "torn"} : Tells(file, Append(owed, x), counted + 1, e)
  BY <1>1, TellsOneMore
<1>3. CASE disk = "ok" /\ file' = Append(file, x) /\ UNCHANGED disk
  BY <1>1, <1>2, <1>3
<1>4. CASE disk = "ok" /\ disk' \in {"short", "torn"} /\ UNCHANGED file
  BY <1>1, <1>2, <1>4
<1>5. CASE disk # "ok" /\ UNCHANGED <<file, disk>>
  BY <1>1, <1>2, <1>5
<1>6. QED BY <1>3, <1>4, <1>5 DEF Encode

LEMMA FeedsAre ==
    ASSUME FactsTyped, NEW e \in feed
    PROVE  e \in Entry
  BY DEF FactsTyped, Entry

LEMMA EmitCombatInv ==
    ASSUME FactsInv, NEW e \in feed, NEW step \in Steps, e.kind = "combat",
           EmitCombat(e, Now + step)
    PROVE  FactsInv'
<1>. DEFINE now == Now + step
            r == [entry |-> e, now |-> now, at |-> now]
            n == Len(raw')
<1>1. FactsTyped /\ e \in Entry /\ now \in Int /\ now >= now
  BY NowTyped, FeedsAre DEF FactsInv
<1>2. /\ r \in Reading /\ raw' = Append(raw, r) /\ Last(raw') = r
      /\ raw' \in Seq(Reading) /\ Len(raw') <= MaxEntries
      /\ raw'[n] = r
      /\ \A i \in DOMAIN raw' : raw'[i].at >= raw'[i].now
  <2>1. Reads(e, now, now)
    BY DEF EmitCombat
  <2>. HIDE DEF now
  <2>2. QED BY <1>1, <2>1, ReadsTyped
<1>3. stage = "facts" /\ Tells(file, OwedFacts(raw), counted, disk)
      /\ OwedFacts(raw) \in Seq(FactT) /\ raw \in Seq(Reading) /\ file \in Seq(FactT)
      /\ counted \in Nat /\ lastEmit \in [Hero -> Nat \cup {-1}]
      /\ \A h \in Hero : LastBin(raw, h, lastEmit[h])
  BY OwedListed DEF EmitCombat, Reads, FactsInv, Whole_file, FactsTyped
<1>4. r.entry = e /\ UNCHANGED <<feed, paused, lastEmit>>
  BY DEF EmitCombat
<1>. HIDE DEF r, now
<1>5. Owed(raw', n) <=> e.type \in DOMAIN FamilyOf
  BY <1>2, <1>4 DEF Owed
<1>6. OwedFacts(raw') = IF Owed(raw', n) THEN Append(OwedFacts(raw), OwedFact(raw', n))
                        ELSE OwedFacts(raw)
  BY <1>2, <1>3, OwedMore
<1>7. \A h \in Hero : LastBin(raw', h, lastEmit'[h])
  <2>1. ASSUME NEW h \in Hero PROVE LastBin(Append(raw, r), h, lastEmit[h])
    <3>1. lastEmit[h] \in Int /\ LastBin(raw, h, lastEmit[h])
      BY <1>3
    <3>2. r \in Reading /\ raw \in Seq(Reading) /\ r.entry.kind # "hero_state"
      BY <1>2, <1>3, <1>4
    <3>3. QED BY <3>1, <3>2, LastBinStays
  <2>2. QED BY <1>2, <1>4, <2>1
<1>8. CASE e.type \notin DOMAIN FamilyOf
  <2>1. UNCHANGED <<counted, file, disk, stage>>
    BY <1>8 DEF EmitCombat
  <2>2. Whole_file'
    BY <1>3, <1>5, <1>6, <1>7, <1>8, <2>1 DEF Whole_file
  <2>3. FactsTyped'
    BY <1>1, <1>2, <1>4, <2>1 DEF FactsTyped
  <2>4. NotBegun'
    BY <1>3, <2>1 DEF NotBegun
  <2>5. QED BY <2>2, <2>3, <2>4 DEF FactsInv
<1>9. CASE e.type \in DOMAIN FamilyOf
  <2>. DEFINE x == OwedFact(raw', n)
  <2>1. x = CombatFact(Last(raw'), CombatSeq(raw'))
    <3>1. SubSeq(raw', 1, n) = raw'
      BY <1>2
    <3>2. QED BY <1>2, <1>4, <3>1 DEF OwedFact
  <2>2. n \in 1 .. Len(raw')
    BY <1>2, <1>3
  <2>3. x \in FactT
    BY <1>2, <1>5, <1>9, <2>2, OwedTyped
  <2>4. /\ counted' = counted + 1 /\ Encode(x)
        /\ stage' = IF disk' = "ok" THEN stage ELSE "failed"
    BY <1>9, <2>1 DEF EmitCombat, now
  <2>. HIDE DEF x, n
  <2>5. /\ file' \in Seq(FactT) /\ disk' \in {"ok", "short", "torn"}
        /\ disk' = "ok" => Tells(file', Append(OwedFacts(raw), x), counted + 1, disk')
    BY <1>1, <1>3, <2>3, <2>4, EncodeTells
  <2>6. OwedFacts(raw') = Append(OwedFacts(raw), x)
    BY <1>5, <1>6, <1>9 DEF x
  <2>7. Whole_file'
    BY <1>3, <1>7, <2>4, <2>5, <2>6 DEF Whole_file
  <2>8. FactsTyped'
    BY <1>1, <1>2, <1>3, <1>4, <2>4, <2>5 DEF FactsTyped
  <2>9. NotBegun'
    BY <1>3, <2>4 DEF NotBegun
  <2>10. QED BY <2>7, <2>8, <2>9 DEF FactsInv
<1>10. QED BY <1>8, <1>9

LEMMA SampleInv ==
    ASSUME FactsInv, NEW e \in feed, NEW step \in Steps, e.kind = "hero_state",
           Sample(e, Now + step)
    PROVE  FactsInv'
<1>. DEFINE now == Now + step
            r == [entry |-> e, now |-> now, at |-> now + paused]
            n == Len(raw')
            bin == Trunc(now + paused, HalfSecond)
            x == OwedFact(raw', n)
<1>1. FactsTyped /\ e \in Entry /\ now \in Int /\ now + paused \in Int /\ now + paused >= now
  <2>1. now \in Int /\ paused \in Nat
    BY NowTyped, FactsAssumption DEF FactsInv, FactsTyped
  <2>. HIDE DEF now
  <2>2. QED BY <2>1, FeedsAre DEF FactsInv
<1>2. /\ r \in Reading /\ raw' = Append(raw, r) /\ Last(raw') = r
      /\ raw' \in Seq(Reading) /\ Len(raw') <= MaxEntries
      /\ raw'[n] = r
      /\ \A i \in DOMAIN raw' : raw'[i].at >= raw'[i].now
  <2>1. Reads(e, now, now + paused)
    BY DEF Sample
  <2>. HIDE DEF now
  <2>2. QED BY <1>1, <2>1, ReadsTyped
<1>3. stage = "facts" /\ Tells(file, OwedFacts(raw), counted, disk)
      /\ OwedFacts(raw) \in Seq(FactT) /\ raw \in Seq(Reading) /\ file \in Seq(FactT)
      /\ counted \in Nat /\ lastEmit \in [Hero -> Nat \cup {-1}]
      /\ \A h \in Hero : LastBin(raw, h, lastEmit[h])
  BY OwedListed DEF Sample, Reads, FactsInv, Whole_file, FactsTyped
<1>4. r.entry = e /\ r.at = now + paused /\ UNCHANGED <<feed, paused, stage>>
  BY DEF Sample
<1>5. bin \in Int
  BY <1>1, TruncTyped
<1>6. IF e.hero \notin Hero \/ bin < 0 \/ bin <= lastEmit[e.hero]
      THEN UNCHANGED <<lastEmit, counted, file, disk>>
      ELSE /\ lastEmit' = [lastEmit EXCEPT ![e.hero] = bin]
           /\ counted' = counted + 1
           /\ Encode(SampleFact(Last(raw')))
  BY DEF Sample
<1>7. Trunc(r.at, HalfSecond) = bin
  BY <1>4
<1>. HIDE DEF r, now, bin, x, n
<1>8. OwedFacts(raw') = IF Owed(raw', n) THEN Append(OwedFacts(raw), x) ELSE OwedFacts(raw)
  BY <1>2, <1>3, OwedMore DEF n, x
<1>9. Owed(raw', n) <=> ~(e.hero \notin Hero \/ bin < 0 \/ bin <= lastEmit[e.hero])
  <2>1. CASE e.hero \notin Hero
    BY <1>2, <1>4, <2>1 DEF Owed
  <2>2. CASE e.hero \in Hero
    <3>1. lastEmit[e.hero] \in Int /\ lastEmit[e.hero] >= -1
      BY <1>3, <2>2
    <3>2. Owed(Append(raw, r), Len(Append(raw, r))) <=>
              ~(Trunc(r.at, HalfSecond) < 0 \/ Trunc(r.at, HalfSecond) <= lastEmit[e.hero])
      BY <1>2, <1>3, <1>4, <2>2, <3>1, LastBinMoves
    <3>3. QED BY <1>2, <1>7, <2>2, <3>2 DEF n
  <2>3. QED BY <2>1, <2>2
<1>10. CASE e.hero \notin Hero \/ bin < 0 \/ bin <= lastEmit[e.hero]
  <2>1. UNCHANGED <<lastEmit, counted, file, disk>>
    BY <1>6, <1>10
  <2>2. ASSUME NEW h \in Hero PROVE LastBin(raw', h, lastEmit[h])
    <3>1. e.hero # h \/ Trunc(r.at, HalfSecond) < 0 \/ Trunc(r.at, HalfSecond) <= lastEmit[h]
      BY <1>7, <1>10
    <3>2. lastEmit[h] \in Int /\ LastBin(raw, h, lastEmit[h])
      BY <1>3
    <3>3. QED BY <1>2, <1>3, <1>4, <3>1, <3>2, LastBinStays
  <2>3. Whole_file'
    BY <1>3, <1>4, <1>8, <1>9, <1>10, <2>1, <2>2 DEF Whole_file
  <2>4. FactsTyped'
    BY <1>1, <1>2, <1>4, <2>1 DEF FactsTyped
  <2>5. NotBegun'
    BY <1>3, <1>4 DEF NotBegun
  <2>6. QED BY <2>3, <2>4, <2>5 DEF FactsInv
<1>11. CASE ~(e.hero \notin Hero \/ bin < 0 \/ bin <= lastEmit[e.hero])
  <2>1. e.hero \in Hero /\ Owed(raw', n) /\ bin >= 0
    BY <1>5, <1>9, <1>11
  <2>2. x = SampleFact(Last(raw'))
    BY <1>2, <1>4 DEF OwedFact, n, x
  <2>3. n \in 1 .. Len(raw')
    BY <1>2, <1>3 DEF n
  <2>4. x \in FactT /\ x.family = "hero_state"
    <3>1. raw'[n].entry.kind # "combat"
      BY <1>2, <1>4 DEF n
    <3>2. QED BY <1>2, <2>1, <2>3, <3>1, OwedTyped DEF x
  <2>5. /\ lastEmit' = [lastEmit EXCEPT ![e.hero] = bin]
        /\ counted' = counted + 1 /\ Encode(x)
    BY <1>6, <1>11, <2>2
  <2>6. /\ file' \in Seq(FactT) /\ disk' \in {"ok", "short", "torn"}
        /\ Tells(file', Append(OwedFacts(raw), x), counted + 1, disk')
    BY <1>1, <1>3, <2>4, <2>5, EncodeTells
  <2>7. ASSUME NEW h \in Hero PROVE LastBin(raw', h, lastEmit'[h])
    <3>1. lastEmit[h] \in Int /\ lastEmit[h] >= -1 /\ LastBin(raw, h, lastEmit[h])
      BY <1>3
    <3>2. CASE h = e.hero
      <4>1. lastEmit'[h] = bin
        BY <1>3, <2>5, <3>2
      <4>2. ~(Trunc(r.at, HalfSecond) < 0 \/ Trunc(r.at, HalfSecond) <= lastEmit[h])
        BY <1>7, <1>11, <3>2
      <4>3. LastBin(Append(raw, r), h, Trunc(r.at, HalfSecond))
        BY <1>2, <1>3, <1>4, <3>1, <3>2, <4>2, LastBinMoves
      <4>4. QED BY <1>2, <1>7, <4>1, <4>3
    <3>3. CASE h # e.hero
      <4>1. lastEmit'[h] = lastEmit[h]
        BY <1>3, <2>5, <3>3
      <4>2. QED BY <1>2, <1>3, <1>4, <3>1, <3>3, <4>1, LastBinStays
    <3>4. QED BY <3>2, <3>3
  <2>8. lastEmit' \in [Hero -> Nat \cup {-1}]
    BY <1>3, <1>5, <2>1, <2>5
  <2>9. Whole_file'
    BY <1>3, <1>4, <1>8, <2>1, <2>5, <2>6, <2>7 DEF Whole_file
  <2>10. FactsTyped'
    BY <1>1, <1>2, <1>3, <1>4, <2>5, <2>6, <2>8 DEF FactsTyped
  <2>11. NotBegun'
    BY <1>3, <1>4 DEF NotBegun
  <2>12. QED BY <2>9, <2>10, <2>11 DEF FactsInv
<1>12. QED BY <1>10, <1>11

LEMMA BeginInv == FactsInv /\ Begin => FactsInv'
<1>1. SUFFICES ASSUME FactsInv, Begin PROVE FactsInv'
  OBVIOUS
<1>2. stage = "start" /\ stage' = "facts" /\ feed' \in Feeds /\ counted' = Len(Header)
      /\ UNCHANGED <<raw, paused, lastEmit>>
  BY <1>1 DEF Begin
<1>3. raw = <<>> /\ file = <<>> /\ disk = "ok" /\ lastEmit = [h \in Hero |-> -1] /\ FactsTyped
  BY <1>1, <1>2 DEF FactsInv, NotBegun
<1>4. Header \in Seq(FactT) /\ Len(Header) \in Nat
      /\ \A n \in 1 .. Len(Header) : Header[n].family \in {"match_state", "participant"}
  BY HeaderTyped
<1>5. file' \in Seq(FactT) /\ disk' \in {"ok", "short", "torn"}
      /\ Tells(file', Header, counted', disk')
  <2>1. CASE file' = Header /\ UNCHANGED disk
    BY <1>2, <1>3, <1>4, <2>1 DEF Tells
  <2>2. CASE \E n \in 0 .. Len(Header) - 1 :
                file' = SubSeq(Header, 1, n) /\ disk' \in {"short", "torn"}
    <3>1. PICK n \in 0 .. Len(Header) - 1 :
                file' = SubSeq(Header, 1, n) /\ disk' \in {"short", "torn"}
      BY <2>2
    <3>2. file' \in Seq(FactT) /\ Len(file') = n /\ n <= Len(Header)
          /\ \A i \in 1 .. n : file'[i] = Header[i]
      BY <1>4, <3>1
    <3>3. \A i \in n + 1 .. Len(Header) : i \in 1 .. Len(Header)
      BY <1>4
    <3>4. QED BY <1>2, <1>4, <3>1, <3>2, <3>3 DEF Tells
  <2>3. QED BY <1>1, <2>1, <2>2 DEF Begin
<1>6. \A h \in Hero : LastBin(raw', h, lastEmit'[h])
  <2>1. \A j \in 1 .. Len(raw') : FALSE
    BY <1>2, <1>3
  <2>2. \A h \in Hero : lastEmit'[h] = -1
    BY <1>2, <1>3
  <2>3. QED BY <2>1, <2>2 DEF LastBin
<1>7. FactsTyped'
  BY <1>2, <1>3, <1>4, <1>5 DEF FactsTyped
<1>8. Whole_file'
  BY <1>2, <1>3, <1>5, <1>6, OwedNone DEF Whole_file
<1>9. QED BY <1>2, <1>7, <1>8 DEF FactsInv, NotBegun

LEMMA StageInv ==
    FactsInv /\ (Pause \/ Publish \/ BuildEpisodes \/ BuildMetrics \/ UNCHANGED factVars)
        => FactsInv'
<1>1. ASSUME FactsInv, Pause PROVE FactsInv'
  <2>1. stage = "facts" /\ paused' = paused + 1 /\ paused < MaxPause
        /\ UNCHANGED <<feed, raw, lastEmit, counted, file, disk, stage>>
    BY <1>1 DEF Pause
  <2>2. FactsTyped'
    BY <1>1, <2>1, FactsAssumption DEF FactsInv, FactsTyped
  <2>3. QED BY <1>1, <2>1, <2>2 DEF FactsInv, NotBegun, Whole_file
<1>2. ASSUME FactsInv, UNCHANGED <<feed, raw, paused, lastEmit, counted, file, disk>>,
             \/ stage' = stage
             \/ /\ stage' \in {"published", "failed", "episodes", "done"}
                /\ stage \notin {"start", "failed"}
      PROVE  FactsInv'
  <2>1. FactsTyped'
    BY <1>2 DEF FactsInv, FactsTyped
  <2>2. NotBegun'
    BY <1>2 DEF FactsInv, NotBegun
  <2>3. Whole_file'
    BY <1>2 DEF FactsInv, Whole_file
  <2>4. QED BY <2>1, <2>2, <2>3 DEF FactsInv
<1>3. QED BY <1>1, <1>2 DEF Publish, BuildEpisodes, BuildMetrics, factVars

LEMMA FactsStep == FactsInv /\ [AnalysisNext]_analysisVars => FactsInv'
<1>1. SUFFICES ASSUME FactsInv, [AnalysisNext]_analysisVars PROVE FactsInv'
  OBVIOUS
<1>2. CASE FactsNext
  <2>1. CASE Begin \/ Pause \/ Publish
    BY <1>1, <2>1, BeginInv, StageInv
  <2>2. ASSUME NEW e \in feed, NEW step \in Steps, e.kind = "combat", EmitCombat(e, Now + step)
        PROVE  FactsInv'
    BY <1>1, <2>2, EmitCombatInv
  <2>3. ASSUME NEW e \in feed, NEW step \in Steps, e.kind = "hero_state", Sample(e, Now + step)
        PROVE  FactsInv'
    BY <1>1, <2>3, SampleInv
  <2>4. QED BY <1>2, <2>1, <2>2, <2>3 DEF FactsNext
<1>3. CASE BuildEpisodes \/ BuildMetrics \/ UNCHANGED factVars
  BY <1>1, <1>3, StageInv
<1>4. QED BY <1>1, <1>2, <1>3 DEF AnalysisNext, analysisVars

LEMMA FactsBegin == AnalysisInit => FactsInv
<1>1. SUFFICES ASSUME AnalysisInit PROVE FactsInv
  OBVIOUS
<1>2. /\ feed = {} /\ raw = <<>> /\ paused = 0
      /\ lastEmit = [h \in Hero |-> -1]
      /\ counted = 0 /\ file = <<>> /\ disk = "ok" /\ stage = "start"
  BY <1>1 DEF AnalysisInit, FactsInit
<1>3. <<>> \in Seq(Reading) /\ Len(<<>>) = 0 /\ <<>> \in Seq(FactT) /\ DOMAIN <<>> = {}
  OBVIOUS
<1>4. FactsTyped
  BY <1>2, <1>3, FactsAssumption DEF FactsTyped
<1>5. QED BY <1>2, <1>4 DEF FactsInv, NotBegun, Whole_file

LEMMA AlwaysFacts == AnalysisSpec => []FactsInv
  BY FactsBegin, FactsStep, PTL DEF AnalysisSpec

\* The fact file says what the demo says, whatever the demo, its pauses and the
\* disk (Builder.Build, emitFact).
THEOREM FactsComplete == AnalysisSpec => []FactsAreComplete
  BY AlwaysFacts, FactsInvComplete, PTL

-----------------------------------------------------------------------------
(* What Build carries along.                                               *)

EpisodeKinds == {"fight", "round", "smoke", "objective"}
EpisodeT == [kind : EpisodeKinds, start : Int, end : Int, who : SUBSET Whose,
             evidence : Seq(Int)]
FightT == [open : BOOLEAN, start : Int, last : Int, accounts : SUBSET Whose, seqs : Seq(Int)]
BuildT == [list : Seq(EpisodeT), rounds : [Hero -> Seq(Int)], fight : FightT,
           smokes : SUBSET (Whose \X Int)]

Carries(list, rounds, fight, smokes) ==
    [list |-> list, rounds |-> rounds, fight |-> fight, smokes |-> smokes]
Window(start, last, accounts, seqs) ==
    [open |-> TRUE, start |-> start, last |-> last, accounts |-> accounts, seqs |-> seqs]

LEMMA CarriesTyped ==
    ASSUME NEW list \in Seq(EpisodeT), NEW rounds \in [Hero -> Seq(Int)], NEW fight \in FightT,
           NEW smokes \in SUBSET (Whose \X Int)
    PROVE  Carries(list, rounds, fight, smokes) \in BuildT
  BY DEF Carries, BuildT

LEMMA WindowTyped ==
    ASSUME NEW start \in Int, NEW last \in Int, NEW accounts \in SUBSET Whose,
           NEW seqs \in Seq(Int)
    PROVE  Window(start, last, accounts, seqs) \in FightT
  BY DEF Window, FightT

LEMMA EpisodeTyped ==
    ASSUME NEW kind \in EpisodeKinds, NEW start \in Int, NEW end \in Int,
           NEW who \in SUBSET Whose, NEW evidence \in Seq(Int)
    PROVE  Episode(kind, start, end, who, evidence) \in EpisodeT
  BY DEF Episode, EpisodeT

LEMMA CarriesIs ==
    ASSUME NEW b \in BuildT
    PROVE  /\ b = Carries(b.list, b.rounds, b.fight, b.smokes)
           /\ b.list \in Seq(EpisodeT) /\ b.rounds \in [Hero -> Seq(Int)]
           /\ b.fight \in FightT /\ b.smokes \in SUBSET (Whose \X Int)
           /\ b.fight.open \in BOOLEAN /\ b.fight.start \in Int /\ b.fight.last \in Int
           /\ b.fight.accounts \in SUBSET Whose /\ b.fight.seqs \in Seq(Int)
  BY DEF Carries, BuildT, FightT

LEMMA FactIs ==
    ASSUME NEW f \in FactT
    PROVE  /\ f.type \in FactTypes /\ f.account \in Whose /\ f.by \in Whose
           /\ f.helpers \in SUBSET Hero /\ f.at \in Int /\ f.src \in Nat
           /\ f.alive \in Liveness /\ f.family \in Families
           /\ f.account # Nobody => f.account \in Hero
  BY DEF FactT, Whose

LEMMA WholeTyped == \A t \in Int : Whole(t) \in Int
  BY DEF Whole, Trunc, Second

\* The fight so far, as it is listed.
FightSoFar(w) == Episode("fight", w.start, w.last + Second, w.accounts, w.seqs)

LEMMA CloseFightIs ==
    ASSUME NEW b \in BuildT
    PROVE  /\ CloseFight(b) =
                Carries(IF b.fight.open /\ Cardinality(b.fight.accounts) >= 2
                        THEN Append(b.list, FightSoFar(b.fight)) ELSE b.list,
                        b.rounds, NoFight, b.smokes)
           /\ CloseFight(b) \in BuildT
<1>. DEFINE w == b.fight
            e == FightSoFar(w)
            listed == w.open /\ Cardinality(w.accounts) >= 2
<1>1. /\ b = Carries(b.list, b.rounds, b.fight, b.smokes)
      /\ b.list \in Seq(EpisodeT) /\ b.rounds \in [Hero -> Seq(Int)]
      /\ b.smokes \in SUBSET (Whose \X Int)
  BY CarriesIs
<1>2. e \in EpisodeT
  <2>1. "fight" \in EpisodeKinds /\ w.start \in Int /\ w.last + Second \in Int
        /\ w.accounts \in SUBSET Whose /\ w.seqs \in Seq(Int)
    BY CarriesIs DEF EpisodeKinds, Second
  <2>. HIDE DEF w
  <2>2. QED BY <2>1, EpisodeTyped DEF FightSoFar
<1>3. CloseFight(b) = [(IF listed THEN Add(b, e) ELSE b) EXCEPT !.fight = NoFight]
  BY DEF CloseFight, FightSoFar
<1>4. NoFight \in FightT
  BY DEF NoFight, FightT
<1>. HIDE DEF e, listed
<1>5. CASE listed
  <2>1. CloseFight(b) = Carries(Append(b.list, e), b.rounds, NoFight, b.smokes)
    BY <1>1, <1>3, <1>5 DEF Add, Carries
  <2>2. Append(b.list, e) \in Seq(EpisodeT)
    BY <1>1, <1>2
  <2>3. QED BY <1>1, <1>4, <1>5, <2>1, <2>2, CarriesTyped DEF e, listed
<1>6. CASE ~listed
  <2>1. CloseFight(b) = Carries(b.list, b.rounds, NoFight, b.smokes)
    BY <1>1, <1>3, <1>6 DEF Carries
  <2>2. QED BY <1>1, <1>4, <1>6, <2>1, CarriesTyped DEF listed
<1>7. QED BY <1>5, <1>6

\* A fight that a quiet time has ended.
Quiet(b, f) == b.fight.open /\ f.at - b.fight.last > FightGap

LEMMA HandleDeathIs ==
    ASSUME NEW b \in BuildT, NEW f \in FactT, f.account # Nobody
    PROVE  LET fight == IF Quiet(b, f) \/ ~b.fight.open
                        THEN Window(f.at, f.at, {f.account}, <<f.src>>)
                        ELSE Window(b.fight.start, f.at, b.fight.accounts \cup {f.account},
                                    Append(b.fight.seqs, f.src))
               list == IF Quiet(b, f) /\ Cardinality(b.fight.accounts) >= 2
                       THEN Append(b.list, FightSoFar(b.fight)) ELSE b.list
           IN  /\ HandleDeath(b, f) = Carries(list, [b.rounds EXCEPT ![f.account] = <<f.at>>],
                                              fight, b.smokes)
               /\ HandleDeath(b, f) \in BuildT
<1>. DEFINE c == IF Quiet(b, f) THEN CloseFight(b) ELSE b
            w == IF c.fight.open THEN c.fight
                 ELSE [start |-> f.at, accounts |-> {}, seqs |-> <<>>]
            fight == IF Quiet(b, f) \/ ~b.fight.open
                     THEN Window(f.at, f.at, {f.account}, <<f.src>>)
                     ELSE Window(b.fight.start, f.at, b.fight.accounts \cup {f.account},
                                 Append(b.fight.seqs, f.src))
            list == IF Quiet(b, f) /\ Cardinality(b.fight.accounts) >= 2
                    THEN Append(b.list, FightSoFar(b.fight)) ELSE b.list
            rounds == [b.rounds EXCEPT ![f.account] = <<f.at>>]
            fresh == [start |-> f.at, accounts |-> {}, seqs |-> <<>>]
            moved(x) == Window(x.start, f.at, x.accounts \cup {f.account},
                               Append(x.seqs, f.src))
<1>1. /\ b = Carries(b.list, b.rounds, b.fight, b.smokes)
      /\ b.list \in Seq(EpisodeT) /\ b.rounds \in [Hero -> Seq(Int)]
      /\ b.fight \in FightT /\ b.smokes \in SUBSET (Whose \X Int)
      /\ b.fight.start \in Int /\ b.fight.accounts \in SUBSET Whose /\ b.fight.seqs \in Seq(Int)
  BY CarriesIs
<1>2. f.account \in Whose /\ f.account \in Hero /\ f.at \in Int /\ f.src \in Int
  BY FactIs
<1>3. HandleDeath(b, f) = [AddDeath(b, f) EXCEPT !.rounds[f.account] = <<f.at>>]
  BY DEF HandleDeath
<1>4. AddDeath(b, f) = [c EXCEPT !.fight = moved(w)]
  BY DEF AddDeath, Quiet, Window
<1>5. c = Carries(list, b.rounds, IF Quiet(b, f) THEN NoFight ELSE b.fight, b.smokes)
      /\ list \in Seq(EpisodeT)
  <2>1. CASE Quiet(b, f)
    <3>1. c = CloseFight(b) /\ b.fight.open
      BY <2>1 DEF Quiet
    <3>2. CloseFight(b) \in BuildT /\ CloseFight(b) = Carries(list, b.rounds, NoFight, b.smokes)
      BY <2>1, <3>1, CloseFightIs
    <3>. HIDE DEF list, c
    <3>3. Carries(list, b.rounds, NoFight, b.smokes).list = list
      BY DEF Carries
    <3>4. QED BY <2>1, <3>1, <3>2, <3>3, CarriesIs
  <2>2. CASE ~Quiet(b, f)
    BY <1>1, <2>2
  <2>3. QED BY <2>1, <2>2
<1>6. moved(w) = fight /\ fight \in FightT
  <2>1. moved(fresh) = Window(f.at, f.at, {f.account}, <<f.src>>)
    <3>1. {} \cup {f.account} = {f.account} /\ Append(<<>>, f.src) = <<f.src>>
      OBVIOUS
    <3>2. moved(fresh) = Window(f.at, f.at, {} \cup {f.account}, Append(<<>>, f.src))
      OBVIOUS
    <3>. HIDE DEF moved, fresh
    <3>3. QED BY <3>1, <3>2
  <2>2. CASE Quiet(b, f) \/ ~b.fight.open
    <3>1. ~c.fight.open
      <4>1. c.fight = IF Quiet(b, f) THEN NoFight ELSE b.fight
        <5>. HIDE DEF c, list
        <5>1. QED BY <1>5 DEF Carries
      <4>. HIDE DEF c
      <4>2. QED BY <2>2, <4>1 DEF NoFight
    <3>2. w = fresh
      BY <3>1
    <3>3. fight = Window(f.at, f.at, {f.account}, <<f.src>>)
      BY <2>2
    <3>. HIDE DEF c, w, fight, moved, fresh
    <3>4. {f.account} \in SUBSET Whose /\ <<f.src>> \in Seq(Int)
      BY <1>2
    <3>5. QED BY <1>2, <2>1, <3>2, <3>3, <3>4, WindowTyped
  <2>3. CASE ~(Quiet(b, f) \/ ~b.fight.open)
    <3>1. c = b /\ w = b.fight
      BY <2>3
    <3>2. moved(b.fight) = Window(b.fight.start, f.at, b.fight.accounts \cup {f.account},
                                  Append(b.fight.seqs, f.src))
      OBVIOUS
    <3>3. fight = Window(b.fight.start, f.at, b.fight.accounts \cup {f.account},
                         Append(b.fight.seqs, f.src))
      BY <2>3
    <3>4. b.fight.accounts \cup {f.account} \in SUBSET Whose
          /\ Append(b.fight.seqs, f.src) \in Seq(Int)
      BY <1>1, <1>2
    <3>. HIDE DEF c, w, fight, moved
    <3>5. QED BY <1>1, <1>2, <3>1, <3>2, <3>3, <3>4, WindowTyped
  <2>4. QED BY <2>2, <2>3
<1>. HIDE DEF c, w, fight, list, moved
<1>7. AddDeath(b, f) = Carries(list, b.rounds, fight, b.smokes)
  BY <1>4, <1>5, <1>6 DEF Carries
<1>8. HandleDeath(b, f) = Carries(list, rounds, fight, b.smokes)
  BY <1>3, <1>7 DEF Carries
<1>9. rounds \in [Hero -> Seq(Int)]
  <2>1. <<f.at>> \in Seq(Int)
    BY <1>2
  <2>2. QED BY <1>1, <2>1
<1>10. HandleDeath(b, f) \in BuildT
  <2>. HIDE DEF rounds
  <2>1. QED BY <1>1, <1>5, <1>6, <1>8, <1>9, CarriesTyped
<1>11. QED BY <1>8, <1>10 DEF fight, list

LEMMA AddIs ==
    ASSUME NEW b \in BuildT, NEW e \in EpisodeT
    PROVE  /\ Add(b, e) = Carries(Append(b.list, e), b.rounds, b.fight, b.smokes)
           /\ Append(b.list, e) \in Seq(EpisodeT)
<1>1. b = Carries(b.list, b.rounds, b.fight, b.smokes) /\ b.list \in Seq(EpisodeT)
  BY CarriesIs
<1>2. QED BY <1>1 DEF Add, Carries

\* The episodes the handlers list.
RoundOf(died, f) == Episode("round", died, f.at + Second, {f.account}, <<Whole(died)>>)
ObjectiveOf(f) == Episode("objective", f.at, f.at + Second,
                          IF f.helpers = {} THEN {f.by} \ {Nobody} ELSE f.helpers,
                          <<Whole(f.at)>>)
SmokeOf(f) == Episode("smoke", f.at, f.at + Second, {f.account}, <<f.src>>)

LEMMA ListedTyped ==
    ASSUME NEW f \in FactT, NEW died \in Int
    PROVE  RoundOf(died, f) \in EpisodeT /\ ObjectiveOf(f) \in EpisodeT /\ SmokeOf(f) \in EpisodeT
<1>1. /\ f.account \in Whose /\ f.by \in Whose /\ f.helpers \in SUBSET Hero
      /\ f.at \in Int /\ f.src \in Int /\ f.at + Second \in Int
  BY FactIs DEF Second
<1>2. {f.account} \in SUBSET Whose
      /\ (IF f.helpers = {} THEN {f.by} \ {Nobody} ELSE f.helpers) \in SUBSET Whose
  BY <1>1 DEF Whose
<1>3. <<Whole(died)>> \in Seq(Int) /\ <<Whole(f.at)>> \in Seq(Int) /\ <<f.src>> \in Seq(Int)
  BY <1>1, WholeTyped
<1>4. {"round", "objective", "smoke"} \subseteq EpisodeKinds
  BY DEF EpisodeKinds
<1>5. RoundOf(died, f) \in EpisodeT
  BY <1>1, <1>2, <1>3, <1>4, EpisodeTyped DEF RoundOf
<1>6. ObjectiveOf(f) \in EpisodeT
  BY <1>1, <1>2, <1>3, <1>4, EpisodeTyped DEF ObjectiveOf
<1>7. SmokeOf(f) \in EpisodeT
  BY <1>1, <1>2, <1>3, <1>4, EpisodeTyped DEF SmokeOf
<1>8. QED BY <1>5, <1>6, <1>7

LEMMA HandleBuybackIs ==
    ASSUME NEW b \in BuildT, NEW f \in FactT, f.account # Nobody,
           b.rounds[f.account] # NoRound, NEW died \in Int, b.rounds[f.account][1] = died
    PROVE  /\ HandleBuyback(b, f) =
                  Carries(Append(b.list, RoundOf(died, f)),
                          [b.rounds EXCEPT ![f.account] = NoRound], b.fight, b.smokes)
           /\ HandleBuyback(b, f) \in BuildT
<1>. DEFINE e == RoundOf(died, f)
            rounds == [b.rounds EXCEPT ![f.account] = NoRound]
<1>1. e \in EpisodeT
  BY ListedTyped
<1>2. Add(b, e) = Carries(Append(b.list, e), b.rounds, b.fight, b.smokes)
      /\ Append(b.list, e) \in Seq(EpisodeT)
  BY <1>1, AddIs
<1>3. b.rounds[f.account] # NoRound /\ b.rounds[f.account][1] = died
  BY DEF NoRound
<1>4. HandleBuyback(b, f) = [Add(b, e) EXCEPT !.rounds[f.account] = NoRound]
  BY <1>3 DEF HandleBuyback, RoundOf
<1>5. rounds \in [Hero -> Seq(Int)]
  <2>1. NoRound \in Seq(Int) /\ b.rounds \in [Hero -> Seq(Int)]
    BY CarriesIs DEF NoRound
  <2>2. QED BY <2>1
<1>. HIDE DEF e
<1>6. HandleBuyback(b, f) = Carries(Append(b.list, e), rounds, b.fight, b.smokes)
  <2>. DEFINE list == Append(b.list, e)
  <2>1. Add(b, e) = Carries(list, b.rounds, b.fight, b.smokes)
    BY <1>2
  <2>. HIDE DEF list
  <2>2. HandleBuyback(b, f) = Carries(list, rounds, b.fight, b.smokes)
    BY <1>4, <2>1 DEF Carries
  <2>3. QED BY <2>2 DEF list
<1>7. b.fight \in FightT /\ b.smokes \in SUBSET (Whose \X Int)
  BY CarriesIs
<1>. DEFINE list == Append(b.list, e)
<1>8. HandleBuyback(b, f) \in BuildT
  <2>1. list \in Seq(EpisodeT)
    BY <1>2
  <2>. HIDE DEF rounds, list
  <2>2. Carries(list, rounds, b.fight, b.smokes) \in BuildT
    BY <1>5, <1>7, <2>1, CarriesTyped
  <2>3. QED BY <1>6, <2>2 DEF list
<1>9. QED BY <1>6, <1>8 DEF e, rounds

LEMMA HandleObjectiveIs ==
    ASSUME NEW b \in BuildT, NEW f \in FactT, f.name \in Building
    PROVE  /\ HandleObjective(b, f) =
                  Carries(Append(b.list, ObjectiveOf(f)), b.rounds, b.fight, b.smokes)
           /\ HandleObjective(b, f) \in BuildT
<1>1. 0 \in Int
  OBVIOUS
<1>2. ObjectiveOf(f) \in EpisodeT
  BY <1>1, ListedTyped
<1>3. HandleObjective(b, f) = Add(b, ObjectiveOf(f))
  BY DEF HandleObjective, ObjectiveOf
<1>4. b.rounds \in [Hero -> Seq(Int)] /\ b.fight \in FightT /\ b.smokes \in SUBSET (Whose \X Int)
  BY CarriesIs
<1>. DEFINE list == Append(b.list, ObjectiveOf(f))
<1>5. HandleObjective(b, f) = Carries(list, b.rounds, b.fight, b.smokes)
      /\ list \in Seq(EpisodeT)
  BY <1>2, <1>3, AddIs
<1>. HIDE DEF list
<1>6. Carries(list, b.rounds, b.fight, b.smokes) \in BuildT
  BY <1>4, <1>5, CarriesTyped
<1>7. QED BY <1>5, <1>6 DEF list

LEMMA HandleSmokeIs ==
    ASSUME NEW b \in BuildT, NEW f \in FactT, f.name # "off",
           <<f.account, Whole(f.at)>> \notin b.smokes
    PROVE  /\ HandleSmoke(b, f) =
                  Carries(Append(b.list, SmokeOf(f)), b.rounds, b.fight,
                          b.smokes \cup {<<f.account, Whole(f.at)>>})
           /\ HandleSmoke(b, f) \in BuildT
<1>. DEFINE e == SmokeOf(f)
            smokes == b.smokes \cup {<<f.account, Whole(f.at)>>}
<1>1. 0 \in Int
  OBVIOUS
<1>2. e \in EpisodeT
  BY <1>1, ListedTyped
<1>3. Add(b, e) = Carries(Append(b.list, e), b.rounds, b.fight, b.smokes)
      /\ Append(b.list, e) \in Seq(EpisodeT)
  BY <1>2, AddIs
<1>4. HandleSmoke(b, f) = [Add(b, e) EXCEPT !.smokes = @ \cup {<<f.account, Whole(f.at)>>}]
  BY DEF HandleSmoke, SmokeOf
<1>. HIDE DEF e
<1>5. HandleSmoke(b, f) = Carries(Append(b.list, e), b.rounds, b.fight, smokes)
  <2>. DEFINE list == Append(b.list, e)
  <2>1. Add(b, e) = Carries(list, b.rounds, b.fight, b.smokes)
    BY <1>3
  <2>. HIDE DEF list
  <2>2. HandleSmoke(b, f) = Carries(list, b.rounds, b.fight, smokes)
    BY <1>4, <2>1 DEF Carries
  <2>3. QED BY <2>2 DEF list
<1>6. b.rounds \in [Hero -> Seq(Int)] /\ b.fight \in FightT /\ b.smokes \in SUBSET (Whose \X Int)
      /\ f.account \in Whose /\ Whole(f.at) \in Int
  BY CarriesIs, FactIs, WholeTyped
<1>7. smokes \in SUBSET (Whose \X Int)
  BY <1>6
<1>. DEFINE list == Append(b.list, e)
<1>8. HandleSmoke(b, f) \in BuildT
  <2>1. list \in Seq(EpisodeT)
    BY <1>3
  <2>. HIDE DEF smokes, list
  <2>2. Carries(list, b.rounds, b.fight, smokes) \in BuildT
    BY <1>6, <1>7, <2>1, CarriesTyped
  <2>3. QED BY <1>5, <2>2 DEF list
<1>9. QED BY <1>5, <1>8 DEF e, smokes

\* What one fact does to what is carried.
HandleFactIs(b, f, next) ==
    \/ /\ f.type = "death" /\ f.account # Nobody /\ next = HandleDeath(b, f)
    \/ /\ f.type = "buyback" /\ f.account # Nobody /\ b.rounds[f.account] # NoRound
       /\ next = HandleBuyback(b, f)
    \/ /\ f.type = "building" /\ f.name \in Building /\ next = HandleObjective(b, f)
    \/ /\ f.type = "modifier" /\ f.name # "off" /\ <<f.account, Whole(f.at)>> \notin b.smokes
       /\ next = HandleSmoke(b, f)
    \/ /\ f.type = "death" => f.account = Nobody
       /\ f.type = "buyback" => f.account = Nobody \/ b.rounds[f.account] = NoRound
       /\ f.type = "building" => f.name \notin Building
       /\ f.type = "modifier" => f.name = "off" \/ <<f.account, Whole(f.at)>> \in b.smokes
       /\ next = b

LEMMA HandleFactCases ==
    ASSUME NEW b, NEW f
    PROVE  HandleFactIs(b, f, HandleFact(b, f))
<1>1. CASE f.type = "death"
  <2>1. HandleFact(b, f) = HandleDeath(b, f)
    BY <1>1 DEF HandleFact
  <2>2. f.account = Nobody => HandleDeath(b, f) = b
    BY DEF HandleDeath
  <2>3. QED BY <1>1, <2>1, <2>2 DEF HandleFactIs
<1>2. CASE f.type = "buyback"
  <2>1. HandleFact(b, f) = HandleBuyback(b, f)
    BY <1>2 DEF HandleFact
  <2>2. f.account = Nobody \/ b.rounds[f.account] = NoRound => HandleBuyback(b, f) = b
    BY DEF HandleBuyback
  <2>3. QED BY <1>2, <2>1, <2>2 DEF HandleFactIs
<1>3. CASE f.type = "building"
  <2>1. HandleFact(b, f) = HandleObjective(b, f)
    BY <1>3 DEF HandleFact
  <2>2. f.name \notin Building => HandleObjective(b, f) = b
    BY DEF HandleObjective
  <2>3. QED BY <1>3, <2>1, <2>2 DEF HandleFactIs
<1>4. CASE f.type = "modifier"
  <2>1. HandleFact(b, f) = HandleSmoke(b, f)
    BY <1>4 DEF HandleFact
  <2>2. f.name = "off" \/ <<f.account, Whole(f.at)>> \in b.smokes => HandleSmoke(b, f) = b
    BY DEF HandleSmoke
  <2>3. QED BY <1>4, <2>1, <2>2 DEF HandleFactIs
<1>5. CASE f.type \notin {"death", "buyback", "building", "modifier"}
  <2>1. HandleFact(b, f) = b
    BY <1>5 DEF HandleFact
  <2>2. QED BY <1>5, <2>1 DEF HandleFactIs
<1>6. QED BY <1>1, <1>2, <1>3, <1>4, <1>5

-----------------------------------------------------------------------------
(* What is told.                                                           *)

ToldOf(list, kind) == {i \in DOMAIN list : list[i].kind = kind}
AllOf(list, kind) == {list[i] : i \in ToldOf(list, kind)}

LEMMA ToldFinite ==
    ASSUME NEW list \in Seq(EpisodeT), NEW kind
    PROVE  IsFiniteSet(ToldOf(list, kind)) /\ Cardinality(ToldOf(list, kind)) \in Nat
<1>1. IsFiniteSet(1 .. Len(list)) /\ DOMAIN list = 1 .. Len(list)
  BY FS_Interval
<1>2. ToldOf(list, kind) \in SUBSET (1 .. Len(list))
  BY <1>1 DEF ToldOf
<1>3. QED BY <1>1, <1>2, FS_Subset, FS_CardinalityType

LEMMA ListMore ==
    ASSUME NEW list \in Seq(EpisodeT), NEW e \in EpisodeT
    PROVE  /\ DOMAIN Append(list, e) = DOMAIN list \cup {Len(list) + 1}
           /\ Len(list) + 1 \notin DOMAIN list
           /\ Append(list, e)[Len(list) + 1] = e
           /\ \A i \in DOMAIN list : Append(list, e)[i] = list[i]
  OBVIOUS

\* An episode is told of its kind, and of no other.
LEMMA ToldOne ==
    ASSUME NEW list \in Seq(EpisodeT), NEW e \in EpisodeT, NEW kind, e.kind = kind
    PROVE  /\ AllOf(Append(list, e), kind) = AllOf(list, kind) \cup {e}
           /\ Cardinality(ToldOf(Append(list, e), kind)) = Cardinality(ToldOf(list, kind)) + 1
<1>. DEFINE more == Append(list, e)
            n == Len(list) + 1
<1>1. /\ DOMAIN more = DOMAIN list \cup {n} /\ n \notin DOMAIN list
      /\ more[n] = e /\ \A i \in DOMAIN list : more[i] = list[i]
  BY ListMore
<1>. HIDE DEF more, n
<1>2. n \notin ToldOf(list, kind) /\ \A i \in ToldOf(list, kind) : more[i] = list[i]
  BY <1>1 DEF ToldOf
<1>3. ToldOf(more, kind) = ToldOf(list, kind) \cup {n}
  BY <1>1 DEF ToldOf
<1>4. AllOf(more, kind) = AllOf(list, kind) \cup {e}
  BY <1>1, <1>2, <1>3 DEF AllOf
<1>5. Cardinality(ToldOf(list, kind) \cup {n}) = Cardinality(ToldOf(list, kind)) + 1
  BY <1>2, ToldFinite, FS_AddElement
<1>6. QED BY <1>3, <1>4, <1>5 DEF more

LEMMA ToldOther ==
    ASSUME NEW list \in Seq(EpisodeT), NEW e \in EpisodeT, NEW kind, e.kind # kind
    PROVE  /\ AllOf(Append(list, e), kind) = AllOf(list, kind)
           /\ ToldOf(Append(list, e), kind) = ToldOf(list, kind)
<1>. DEFINE more == Append(list, e)
            n == Len(list) + 1
<1>1. /\ DOMAIN more = DOMAIN list \cup {n}
      /\ more[n] = e /\ \A i \in DOMAIN list : more[i] = list[i]
  BY ListMore
<1>. HIDE DEF more, n
<1>2. \A i \in ToldOf(list, kind) : more[i] = list[i]
  BY <1>1 DEF ToldOf
<1>3. ToldOf(more, kind) = ToldOf(list, kind)
  BY <1>1 DEF ToldOf
<1>4. AllOf(more, kind) = AllOf(list, kind)
  BY <1>2, <1>3 DEF AllOf
<1>5. QED BY <1>3, <1>4 DEF more

LEMMA KindsAre ==
    /\ \A w : FightSoFar(w).kind = "fight"
    /\ \A f, died : RoundOf(died, f).kind = "round"
    /\ \A f : ObjectiveOf(f).kind = "objective" /\ SmokeOf(f).kind = "smoke"
  BY DEF FightSoFar, RoundOf, ObjectiveOf, SmokeOf, Episode

LEMMA FightTyped ==
    ASSUME NEW w \in FightT
    PROVE  FightSoFar(w) \in EpisodeT
<1>1. "fight" \in EpisodeKinds /\ w.start \in Int /\ w.last + Second \in Int
      /\ w.accounts \in SUBSET Whose /\ w.seqs \in Seq(Int)
  BY DEF EpisodeKinds, Second, FightT
<1>2. QED BY <1>1, EpisodeTyped DEF FightSoFar

LEMMA CarriesHas ==
    ASSUME NEW list, NEW rounds, NEW fight, NEW smokes
    PROVE  LET b == Carries(list, rounds, fight, smokes)
           IN  b.list = list /\ b.rounds = rounds /\ b.fight = fight /\ b.smokes = smokes
  BY DEF Carries

\* One more fact, one more place.
LEMMA FactsMore ==
    ASSUME NEW facts \in Seq(FactT), NEW f \in FactT
    PROVE  LET more == Append(facts, f)
               n == Len(facts) + 1
           IN  /\ more \in Seq(FactT) /\ n \in Nat /\ Len(more) = n /\ Len(facts) \in Nat
               /\ more[n] = f /\ \A i \in 1 .. Len(facts) : more[i] = facts[i]
               /\ DOMAIN facts = 1 .. Len(facts) /\ DOMAIN more = 1 .. n
               /\ DOMAIN more = DOMAIN facts \cup {n} /\ n \notin DOMAIN facts
               /\ \A i \in DOMAIN facts : i < n /\ i \in Nat
  OBVIOUS

-----------------------------------------------------------------------------
(* Rounds.                                                                 *)

\* The last word of hero h is that he died, at place d.
OpenRound(facts, h, d) ==
    /\ d \in DOMAIN facts /\ facts[d].type = "death" /\ facts[d].account = h
    /\ \A k \in DOMAIN facts : k > d /\ facts[k].type \in {"death", "buyback"} =>
                                   facts[k].account # h

LEMMA OneOpenRound ==
    ASSUME NEW facts \in Seq(FactT), NEW h, NEW c, NEW d, OpenRound(facts, h, c),
           OpenRound(facts, h, d)
    PROVE  c = d
<1>1. c \in Int /\ d \in Int
  BY DEF OpenRound
<1>2. ~(c < d) /\ ~(d < c)
  BY DEF OpenRound
<1>3. QED BY <1>1, <1>2

LEMMA OpenRoundMore ==
    ASSUME NEW facts \in Seq(FactT), NEW f \in FactT, NEW h, NEW d
    PROVE  OpenRound(Append(facts, f), h, d) <=>
               IF f.type \in {"death", "buyback"} /\ f.account = h
               THEN f.type = "death" /\ d = Len(facts) + 1
               ELSE OpenRound(facts, h, d)
<1>. DEFINE more == Append(facts, f)
            n == Len(facts) + 1
<1>1. /\ more[n] = f /\ \A i \in DOMAIN facts : more[i] = facts[i]
      /\ DOMAIN more = DOMAIN facts \cup {n} /\ n \notin DOMAIN facts
      /\ \A i \in DOMAIN facts : i < n /\ i \in Nat
      /\ n \in Nat
  BY FactsMore
<1>. HIDE DEF more, n
<1>2. CASE f.type \in {"death", "buyback"} /\ f.account = h
  <2>1. d \in DOMAIN facts => ~OpenRound(more, h, d)
    BY <1>1, <1>2 DEF OpenRound
  <2>2. OpenRound(more, h, n) <=> f.type = "death"
    BY <1>1, <1>2 DEF OpenRound
  <2>3. OpenRound(more, h, d) => d \in DOMAIN more
    BY DEF OpenRound
  <2>4. QED BY <1>1, <1>2, <2>1, <2>2, <2>3 DEF more, n
<1>3. CASE ~(f.type \in {"death", "buyback"} /\ f.account = h)
  <2>1. OpenRound(more, h, d) => d # n /\ d \in DOMAIN facts
    BY <1>1, <1>3 DEF OpenRound
  <2>2. OpenRound(facts, h, d) => d \in DOMAIN facts
    BY DEF OpenRound
  <2>3. ASSUME d \in DOMAIN facts
        PROVE  OpenRound(more, h, d) <=> OpenRound(facts, h, d)
    <3>1. (\A k \in DOMAIN more : k > d /\ more[k].type \in {"death", "buyback"} =>
                                    more[k].account # h)
          <=> (\A k \in DOMAIN facts : k > d /\ facts[k].type \in {"death", "buyback"} =>
                                    facts[k].account # h)
      BY <1>1, <1>3
    <3>2. QED BY <1>1, <2>3, <3>1 DEF OpenRound
  <2>4. QED BY <1>3, <2>1, <2>2, <2>3 DEF more
<1>4. QED BY <1>2, <1>3

LEMMA RoundEndsFinite ==
    ASSUME NEW facts \in Seq(FactT)
    PROVE  IsFiniteSet(RoundEnds(facts)) /\ Cardinality(RoundEnds(facts)) \in Nat
<1>1. IsFiniteSet(1 .. Len(facts)) /\ DOMAIN facts = 1 .. Len(facts)
  BY FS_Interval
<1>2. IsFiniteSet((DOMAIN facts) \X (DOMAIN facts))
  BY <1>1, FS_Product
<1>3. RoundEnds(facts) \in SUBSET ((DOMAIN facts) \X (DOMAIN facts))
  BY DEF RoundEnds, HeroDeaths
<1>4. QED BY <1>2, <1>3, FS_Subset, FS_CardinalityType

LEMMA RoundEndIs ==
    ASSUME NEW facts \in Seq(FactT), NEW d, NEW m
    PROVE  <<d, m>> \in RoundEnds(facts) <=>
               /\ d \in DOMAIN facts /\ facts[d].type = "death" /\ facts[d].account # Nobody
               /\ m \in DOMAIN facts /\ d < m /\ facts[m].type = "buyback"
               /\ facts[m].account = facts[d].account
               /\ \A k \in DOMAIN facts :
                     d < k /\ k < m /\ facts[k].type \in {"death", "buyback"} =>
                         facts[k].account # facts[d].account
<1>1. ASSUME d \in DOMAIN facts, m \in DOMAIN facts, NEW k
      PROVE  k \in d + 1 .. m - 1 <=> k \in DOMAIN facts /\ d < k /\ k < m
  BY <1>1
<1>2. ASSUME d \in DOMAIN facts, m \in DOMAIN facts
      PROVE  (\A k \in d + 1 .. m - 1 : facts[k].type \in {"death", "buyback"} =>
                                   facts[k].account # facts[d].account)
             <=> (\A k \in DOMAIN facts :
                     d < k /\ k < m /\ facts[k].type \in {"death", "buyback"} =>
                         facts[k].account # facts[d].account)
  <2>1. \A k : k \in d + 1 .. m - 1 <=> k \in DOMAIN facts /\ d < k /\ k < m
    BY <1>1, <1>2
  <2>. DEFINE between == d + 1 .. m - 1
  <2>. HIDE DEF between
  <2>2. \A k : k \in between <=> k \in DOMAIN facts /\ d < k /\ k < m
    BY <2>1 DEF between
  <2>3. (\A k \in between : facts[k].type \in {"death", "buyback"} =>
                                   facts[k].account # facts[d].account)
        <=> (\A k \in DOMAIN facts :
                     d < k /\ k < m /\ facts[k].type \in {"death", "buyback"} =>
                         facts[k].account # facts[d].account)
    BY <2>2
  <2>4. QED BY <2>3 DEF between
<1>3. <<d, m>>[1] = d /\ <<d, m>>[2] = m
  OBVIOUS
<1>4. QED BY <1>2, <1>3 DEF RoundEnds, HeroDeaths

LEMMA RoundEndsMore ==
    ASSUME NEW facts \in Seq(FactT), NEW f \in FactT, NEW d, NEW m
    PROVE  <<d, m>> \in RoundEnds(Append(facts, f)) <=>
               \/ <<d, m>> \in RoundEnds(facts)
               \/ /\ m = Len(facts) + 1 /\ f.type = "buyback" /\ f.account # Nobody
                  /\ OpenRound(facts, f.account, d)
<1>. DEFINE more == Append(facts, f)
            n == Len(facts) + 1
<1>1. /\ more[n] = f /\ \A i \in DOMAIN facts : more[i] = facts[i]
      /\ DOMAIN more = DOMAIN facts \cup {n} /\ n \notin DOMAIN facts
      /\ \A i \in DOMAIN facts : i < n /\ i \in Nat
      /\ n \in Nat /\ more \in Seq(FactT)
  BY FactsMore
<1>. HIDE DEF more, n
<1>2. ASSUME m \in DOMAIN facts
      PROVE  <<d, m>> \in RoundEnds(more) <=> <<d, m>> \in RoundEnds(facts)
  <2>1. d \in DOMAIN more /\ d < m => d \in DOMAIN facts
    BY <1>1, <1>2
  <2>2. ASSUME d \in DOMAIN facts
        PROVE  (\A k \in DOMAIN more :
                     d < k /\ k < m /\ more[k].type \in {"death", "buyback"} =>
                         more[k].account # more[d].account)
               <=> (\A k \in DOMAIN facts :
                     d < k /\ k < m /\ facts[k].type \in {"death", "buyback"} =>
                         facts[k].account # facts[d].account)
    BY <1>1, <1>2, <2>2
  <2>3. QED BY <1>1, <1>2, <2>1, <2>2, RoundEndIs
<1>3. <<d, m>> \in RoundEnds(facts) => m \in DOMAIN facts
  BY RoundEndIs
<1>4. <<d, m>> \in RoundEnds(more) => m \in DOMAIN facts \/ m = n
  BY <1>1, RoundEndIs
<1>5. <<d, n>> \in RoundEnds(more) <=>
          f.type = "buyback" /\ f.account # Nobody /\ OpenRound(facts, f.account, d)
  <2>1. ASSUME d \in DOMAIN facts
        PROVE  (\A k \in DOMAIN more :
                     d < k /\ k < n /\ more[k].type \in {"death", "buyback"} =>
                         more[k].account # more[d].account)
               <=> (\A k \in DOMAIN facts :
                     k > d /\ facts[k].type \in {"death", "buyback"} =>
                         facts[k].account # facts[d].account)
    BY <1>1, <2>1
  <2>2. d \in DOMAIN more /\ d < n => d \in DOMAIN facts
    BY <1>1
  <2>3. OpenRound(facts, f.account, d) => d \in DOMAIN facts
    BY DEF OpenRound
  <2>4. QED BY <1>1, <2>1, <2>2, <2>3, RoundEndIs DEF OpenRound
<1>6. QED BY <1>1, <1>2, <1>3, <1>4, <1>5 DEF more, n

RoundTold(facts, p) ==
    Episode("round", facts[p[1]].at, facts[p[2]].at + Second, {facts[p[1]].account},
            <<Whole(facts[p[1]].at)>>)

LEMMA RoundEndsPairs ==
    ASSUME NEW facts \in Seq(FactT), NEW p \in RoundEnds(facts)
    PROVE  p = <<p[1], p[2]>> /\ p[1] \in DOMAIN facts /\ p[2] \in DOMAIN facts
  BY DEF RoundEnds, HeroDeaths

LEMMA RoundsAre == \A facts : Rounds(facts) = {RoundTold(facts, p) : p \in RoundEnds(facts)}
  BY DEF Rounds, RoundTold

LEMMA RoundsStay ==
    ASSUME NEW facts \in Seq(FactT), NEW f \in FactT,
           f.type = "buyback" /\ f.account # Nobody => \A d : ~OpenRound(facts, f.account, d)
    PROVE  /\ RoundEnds(Append(facts, f)) = RoundEnds(facts)
           /\ Rounds(Append(facts, f)) = Rounds(facts)
<1>. DEFINE more == Append(facts, f)
<1>1. more \in Seq(FactT) /\ \A i \in DOMAIN facts : more[i] = facts[i]
  BY FactsMore
<1>2. \A d, m : <<d, m>> \in RoundEnds(more) <=> <<d, m>> \in RoundEnds(facts)
  BY RoundEndsMore
<1>. HIDE DEF more
<1>3. RoundEnds(more) = RoundEnds(facts)
  <2>1. ASSUME NEW p PROVE p \in RoundEnds(more) <=> p \in RoundEnds(facts)
    <3>1. p \in RoundEnds(more) => p = <<p[1], p[2]>>
      BY <1>1, RoundEndsPairs
    <3>2. p \in RoundEnds(facts) => p = <<p[1], p[2]>>
      BY RoundEndsPairs
    <3>3. <<p[1], p[2]>> \in RoundEnds(more) <=> <<p[1], p[2]>> \in RoundEnds(facts)
      BY <1>2
    <3>4. QED BY <3>1, <3>2, <3>3
  <2>2. QED BY <2>1
<1>4. \A p \in RoundEnds(facts) : RoundTold(more, p) = RoundTold(facts, p)
  BY <1>1, RoundEndsPairs DEF RoundTold
<1>5. Rounds(more) = Rounds(facts)
  BY <1>3, <1>4, RoundsAre
<1>6. QED BY <1>3, <1>5 DEF more

LEMMA RoundsGrow ==
    ASSUME NEW facts \in Seq(FactT), NEW f \in FactT, f.type = "buyback", f.account # Nobody,
           NEW d, OpenRound(facts, f.account, d)
    PROVE  /\ Cardinality(RoundEnds(Append(facts, f))) = Cardinality(RoundEnds(facts)) + 1
           /\ Rounds(Append(facts, f)) = Rounds(facts) \cup {RoundOf(facts[d].at, f)}
<1>. DEFINE more == Append(facts, f)
            n == Len(facts) + 1
            p == <<d, n>>
<1>1. more \in Seq(FactT) /\ (\A i \in DOMAIN facts : more[i] = facts[i]) /\ more[n] = f
      /\ n \notin DOMAIN facts
  BY FactsMore
<1>2. \A c, m : <<c, m>> \in RoundEnds(more) <=> <<c, m>> \in RoundEnds(facts) \/ <<c, m>> = p
  <2>1. \A c : OpenRound(facts, f.account, c) <=> c = d
    BY OneOpenRound
  <2>2. QED BY <2>1, RoundEndsMore
<1>3. p[1] = d /\ p[2] = n /\ d \in DOMAIN facts /\ facts[d].account = f.account
  BY DEF OpenRound
<1>4. p \notin RoundEnds(facts)
  BY <1>1, <1>3, RoundEndsPairs
<1>5. RoundTold(more, p) = RoundOf(facts[d].at, f)
  <2>. HIDE DEF p, n, more
  <2>1. more[p[1]] = facts[d] /\ more[p[2]] = f
    BY <1>1, <1>3
  <2>2. QED BY <1>3, <2>1 DEF RoundTold, RoundOf
<1>. HIDE DEF more, n
<1>6. RoundEnds(more) = RoundEnds(facts) \cup {p}
  BY <1>1, <1>2, RoundEndsPairs
<1>. HIDE DEF p
<1>7. \A q \in RoundEnds(facts) : RoundTold(more, q) = RoundTold(facts, q)
  BY <1>1, RoundEndsPairs DEF RoundTold
<1>8. Rounds(more) = Rounds(facts) \cup {RoundOf(facts[d].at, f)}
  BY <1>5, <1>6, <1>7, RoundsAre
<1>9. Cardinality(RoundEnds(facts) \cup {p}) = Cardinality(RoundEnds(facts)) + 1
  BY <1>4, RoundEndsFinite, FS_AddElement
<1>10. QED BY <1>6, <1>8, <1>9 DEF more

\* The rounds are told, and who has died is remembered.
RoundsTold(facts, b) ==
    /\ AllOf(b.list, "round") = Rounds(facts)
    /\ Cardinality(ToldOf(b.list, "round")) = Cardinality(RoundEnds(facts))
    /\ \A h \in Hero :
          \/ b.rounds[h] = NoRound /\ \A d : ~OpenRound(facts, h, d)
          \/ \E d : OpenRound(facts, h, d) /\ b.rounds[h] = <<facts[d].at>>

\* Neither tells a round nor changes who has died.
LEMMA RoundsKept ==
    ASSUME NEW facts \in Seq(FactT), NEW f \in FactT, NEW b, NEW c,
           RoundsTold(facts, b),
           AllOf(c.list, "round") = AllOf(b.list, "round"),
           Cardinality(ToldOf(c.list, "round")) = Cardinality(ToldOf(b.list, "round")),
           c.rounds = b.rounds,
           \/ f.type \notin {"death", "buyback"} \/ f.account = Nobody
           \/ f.type = "buyback" /\ b.rounds[f.account] = NoRound
    PROVE  RoundsTold(Append(facts, f), c)
<1>. DEFINE more == Append(facts, f)
<1>1. \A i \in DOMAIN facts : more[i] = facts[i]
  BY FactsMore
<1>2. f.account # Nobody => f.account \in Hero
  BY FactIs
<1>3. Nobody \notin Hero
  BY EntriesAssumption
<1>4. f.type = "buyback" /\ f.account # Nobody => \A d : ~OpenRound(facts, f.account, d)
  <2>1. SUFFICES ASSUME f.type = "buyback", f.account # Nobody
                 PROVE  \A d : ~OpenRound(facts, f.account, d)
    OBVIOUS
  <2>2. b.rounds[f.account] = NoRound
    BY <2>1
  <2>3. NoRound # <<facts[1].at>> /\ \A x : NoRound # <<x>>
    BY DEF NoRound
  <2>4. QED BY <1>2, <2>1, <2>2, <2>3 DEF RoundsTold
<1>5. RoundEnds(more) = RoundEnds(facts) /\ Rounds(more) = Rounds(facts)
  BY <1>4, RoundsStay
<1>6. ASSUME NEW h \in Hero, NEW d
      PROVE  OpenRound(more, h, d) <=> OpenRound(facts, h, d)
  BY <1>3, <1>4, OpenRoundMore
<1>7. \A h \in Hero : \A d : OpenRound(facts, h, d) => d \in DOMAIN facts
  BY DEF OpenRound
<1>. HIDE DEF more
<1>8. RoundsTold(more, c)
  BY <1>1, <1>5, <1>6, <1>7 DEF RoundsTold
<1>9. QED BY <1>8 DEF more

LEMMA RoundsByDeath ==
    ASSUME NEW facts \in Seq(FactT), NEW f \in FactT, NEW b \in BuildT, NEW c,
           RoundsTold(facts, b), f.type = "death", f.account # Nobody,
           AllOf(c.list, "round") = AllOf(b.list, "round"),
           Cardinality(ToldOf(c.list, "round")) = Cardinality(ToldOf(b.list, "round")),
           c.rounds = [b.rounds EXCEPT ![f.account] = <<f.at>>]
    PROVE  RoundsTold(Append(facts, f), c)
<1>. DEFINE more == Append(facts, f)
            n == Len(facts) + 1
<1>1. (\A i \in DOMAIN facts : more[i] = facts[i]) /\ more[n] = f
  BY FactsMore
<1>2. f.account \in Hero /\ b.rounds \in [Hero -> Seq(Int)]
  BY FactIs, CarriesIs
<1>3. RoundEnds(more) = RoundEnds(facts) /\ Rounds(more) = Rounds(facts)
  BY RoundsStay
<1>4. \A h, d : OpenRound(more, h, d) <=>
                   IF f.account = h THEN d = n ELSE OpenRound(facts, h, d)
  BY OpenRoundMore
<1>. HIDE DEF more, n
<1>5. ASSUME NEW h \in Hero
      PROVE  \/ c.rounds[h] = NoRound /\ \A d : ~OpenRound(more, h, d)
             \/ \E d : OpenRound(more, h, d) /\ c.rounds[h] = <<more[d].at>>
  <2>1. CASE h = f.account
    <3>1. OpenRound(more, h, n) /\ c.rounds[h] = <<more[n].at>>
      BY <1>1, <1>2, <1>4, <2>1
    <3>2. QED BY <3>1
  <2>2. CASE h # f.account
    <3>1. c.rounds[h] = b.rounds[h] /\ \A d : OpenRound(more, h, d) <=> OpenRound(facts, h, d)
      BY <1>2, <1>4, <2>2
    <3>2. \A d : OpenRound(facts, h, d) => more[d] = facts[d]
      BY <1>1 DEF OpenRound
    <3>3. QED BY <3>1, <3>2 DEF RoundsTold
  <2>3. QED BY <2>1, <2>2
<1>6. RoundsTold(more, c)
  BY <1>3, <1>5 DEF RoundsTold
<1>7. QED BY <1>6 DEF more

LEMMA RoundsByBuyback ==
    ASSUME NEW facts \in Seq(FactT), NEW f \in FactT, NEW b \in BuildT,
           RoundsTold(facts, b), f.type = "buyback", f.account # Nobody,
           b.rounds[f.account] # NoRound
    PROVE  \E died \in Int :
              /\ b.rounds[f.account] = <<died>>
              /\ \A c : /\ c.list = Append(b.list, RoundOf(died, f))
                        /\ c.rounds = [b.rounds EXCEPT ![f.account] = NoRound]
                        => RoundsTold(Append(facts, f), c)
<1>. DEFINE more == Append(facts, f)
            n == Len(facts) + 1
<1>1. (\A i \in DOMAIN facts : more[i] = facts[i]) /\ more[n] = f
  BY FactsMore
<1>2. f.account \in Hero /\ b.rounds \in [Hero -> Seq(Int)] /\ b.list \in Seq(EpisodeT)
  BY FactIs, CarriesIs
<1>3. PICK d : OpenRound(facts, f.account, d) /\ b.rounds[f.account] = <<facts[d].at>>
  BY <1>2 DEF RoundsTold
<1>. DEFINE died == facts[d].at
            e == RoundOf(died, f)
<1>4. died \in Int
  <2>1. facts[d] \in FactT
    BY <1>3 DEF OpenRound
  <2>2. QED BY <2>1, FactIs
<1>5. e \in EpisodeT /\ e.kind = "round"
  BY <1>4, ListedTyped, KindsAre
<1>6. Cardinality(RoundEnds(more)) = Cardinality(RoundEnds(facts)) + 1
      /\ Rounds(more) = Rounds(facts) \cup {e}
  BY <1>3, RoundsGrow
<1>7. \A h, c : OpenRound(more, h, c) <=>
                   IF f.account = h THEN FALSE ELSE OpenRound(facts, h, c)
  BY OpenRoundMore
<1>. HIDE DEF more, n, e, died
<1>8. ASSUME NEW c, c.list = Append(b.list, e),
             c.rounds = [b.rounds EXCEPT ![f.account] = NoRound]
      PROVE  RoundsTold(more, c)
  <2>1. AllOf(c.list, "round") = AllOf(b.list, "round") \cup {e}
        /\ Cardinality(ToldOf(c.list, "round")) = Cardinality(ToldOf(b.list, "round")) + 1
    <3>1. AllOf(Append(b.list, e), "round") = AllOf(b.list, "round") \cup {e}
          /\ Cardinality(ToldOf(Append(b.list, e), "round"))
                = Cardinality(ToldOf(b.list, "round")) + 1
      BY <1>2, <1>5, ToldOne
    <3>2. QED BY <1>8, <3>1
  <2>2. ASSUME NEW h \in Hero
        PROVE  \/ c.rounds[h] = NoRound /\ \A x : ~OpenRound(more, h, x)
               \/ \E x : OpenRound(more, h, x) /\ c.rounds[h] = <<more[x].at>>
    <3>1. CASE h = f.account
      BY <1>2, <1>7, <1>8, <3>1
    <3>2. CASE h # f.account
      <4>1. c.rounds[h] = b.rounds[h] /\ \A x : OpenRound(more, h, x) <=> OpenRound(facts, h, x)
        BY <1>2, <1>7, <1>8, <3>2
      <4>2. \A x : OpenRound(facts, h, x) => more[x] = facts[x]
        BY <1>1 DEF OpenRound
      <4>3. QED BY <4>1, <4>2 DEF RoundsTold
    <3>3. QED BY <3>1, <3>2
  <2>3. QED BY <1>6, <2>1, <2>2 DEF RoundsTold
<1>9. QED BY <1>3, <1>4, <1>8 DEF e, died, more

-----------------------------------------------------------------------------
(* Smokes.                                                                 *)

IsSmoke(f) == f.type = "modifier" /\ f.name # "off"
SmokeKey(f) == <<f.account, Whole(f.at)>>
FirstSmokes(facts) ==
    {i \in DOMAIN facts :
        /\ IsSmoke(facts[i])
        /\ \A j \in DOMAIN facts : j < i /\ IsSmoke(facts[j]) =>
               SmokeKey(facts[j]) # SmokeKey(facts[i])}

LEMMA SmokesAre ==
    ASSUME NEW facts \in Seq(FactT)
    PROVE  Smokes(facts) = {SmokeOf(facts[i]) : i \in FirstSmokes(facts)}
<1>. DEFINE same(i, j) == /\ facts[j].type = "modifier" /\ facts[j].name # "off"
                          /\ facts[j].account = facts[i].account
                          /\ Whole(facts[j].at) = Whole(facts[i].at)
            S == {i \in DOMAIN facts :
                     /\ facts[i].type = "modifier" /\ facts[i].name # "off"
                     /\ \A j \in 1 .. i - 1 : ~same(i, j)}
<1>1. ASSUME NEW i \in DOMAIN facts
      PROVE  (\A j \in 1 .. i - 1 : ~same(i, j)) <=>
             (\A j \in DOMAIN facts : j < i /\ IsSmoke(facts[j]) =>
                  SmokeKey(facts[j]) # SmokeKey(facts[i]))
  <2>1. \A j : j \in 1 .. i - 1 <=> j \in DOMAIN facts /\ j < i
    OBVIOUS
  <2>2. \A j : same(i, j) <=> IsSmoke(facts[j]) /\ SmokeKey(facts[j]) = SmokeKey(facts[i])
    BY DEF IsSmoke, SmokeKey
  <2>. HIDE DEF same
  <2>3. QED BY <2>1, <2>2
<1>2. S = FirstSmokes(facts)
  <2>. HIDE DEF same
  <2>1. QED BY <1>1 DEF FirstSmokes, IsSmoke
<1>3. Smokes(facts) = {SmokeOf(facts[i]) : i \in S}
  BY DEF Smokes, SmokeOf
<1>. HIDE DEF S
<1>4. QED BY <1>2, <1>3

LEMMA FirstSmokesMore ==
    ASSUME NEW facts \in Seq(FactT), NEW f \in FactT
    PROVE  FirstSmokes(Append(facts, f)) =
               FirstSmokes(facts) \cup
                  (IF IsSmoke(f) /\ \A j \in DOMAIN facts : IsSmoke(facts[j]) =>
                                        SmokeKey(facts[j]) # SmokeKey(f)
                   THEN {Len(facts) + 1} ELSE {})
<1>. DEFINE more == Append(facts, f)
            n == Len(facts) + 1
<1>1. /\ more[n] = f /\ \A i \in DOMAIN facts : more[i] = facts[i]
      /\ DOMAIN more = DOMAIN facts \cup {n} /\ n \notin DOMAIN facts
      /\ \A i \in DOMAIN facts : i < n /\ i \in Nat
      /\ n \in Nat
  BY FactsMore
<1>. HIDE DEF more, n
<1>2. ASSUME NEW i \in DOMAIN facts
      PROVE  i \in FirstSmokes(more) <=> i \in FirstSmokes(facts)
  <2>1. ~(n < i)
    BY <1>1
  <2>2. QED BY <1>1, <2>1 DEF FirstSmokes
<1>3. n \in FirstSmokes(more) <=>
          IsSmoke(f) /\ \A j \in DOMAIN facts : IsSmoke(facts[j]) => SmokeKey(facts[j]) # SmokeKey(f)
  <2>1. ~(n < n)
    BY <1>1
  <2>2. QED BY <1>1, <2>1 DEF FirstSmokes
<1>4. \A i \in FirstSmokes(more) : i \in DOMAIN facts \/ i = n
  BY <1>1 DEF FirstSmokes
<1>5. \A i \in FirstSmokes(facts) : i \in DOMAIN facts
  BY DEF FirstSmokes
<1>6. FirstSmokes(more) =
               FirstSmokes(facts) \cup
                  (IF IsSmoke(f) /\ \A j \in DOMAIN facts : IsSmoke(facts[j]) =>
                                        SmokeKey(facts[j]) # SmokeKey(f)
                   THEN {n} ELSE {})
  BY <1>2, <1>3, <1>4, <1>5
<1>7. QED BY <1>6 DEF more, n

\* The smokes are told, and each account and second of one is remembered.
SmokesTold(facts, b) ==
    /\ AllOf(b.list, "smoke") = Smokes(facts)
    /\ IsFiniteSet(Smokes(facts))
    /\ Cardinality(ToldOf(b.list, "smoke")) = Cardinality(Smokes(facts))
    /\ \A key : key \in b.smokes <=>
                   \E i \in DOMAIN facts : IsSmoke(facts[i]) /\ SmokeKey(facts[i]) = key

LEMMA SmokesKept ==
    ASSUME NEW facts \in Seq(FactT), NEW f \in FactT, NEW b, NEW c,
           SmokesTold(facts, b),
           AllOf(c.list, "smoke") = AllOf(b.list, "smoke"),
           Cardinality(ToldOf(c.list, "smoke")) = Cardinality(ToldOf(b.list, "smoke")),
           c.smokes = b.smokes,
           IsSmoke(f) => SmokeKey(f) \in b.smokes
    PROVE  SmokesTold(Append(facts, f), c)
<1>. DEFINE more == Append(facts, f)
            n == Len(facts) + 1
<1>1. /\ more[n] = f /\ \A i \in DOMAIN facts : more[i] = facts[i]
      /\ DOMAIN more = DOMAIN facts \cup {n} /\ more \in Seq(FactT)
  BY FactsMore
<1>2. FirstSmokes(more) = FirstSmokes(facts)
  <2>1. ~(IsSmoke(f) /\ \A j \in DOMAIN facts : IsSmoke(facts[j]) =>
                                        SmokeKey(facts[j]) # SmokeKey(f))
    BY DEF SmokesTold
  <2>2. QED BY <2>1, FirstSmokesMore
<1>. HIDE DEF more, n
<1>3. Smokes(more) = Smokes(facts)
  <2>1. \A i \in FirstSmokes(facts) : more[i] = facts[i]
    BY <1>1 DEF FirstSmokes
  <2>2. {SmokeOf(more[i]) : i \in FirstSmokes(facts)} = {SmokeOf(facts[i]) : i \in FirstSmokes(facts)}
    BY <2>1
  <2>3. Smokes(more) = {SmokeOf(more[i]) : i \in FirstSmokes(more)}
    BY <1>1, SmokesAre
  <2>4. QED BY <1>2, <2>2, <2>3, SmokesAre
<1>4. \A key : key \in c.smokes <=>
                   \E i \in DOMAIN more : IsSmoke(more[i]) /\ SmokeKey(more[i]) = key
  BY <1>1 DEF SmokesTold
<1>5. SmokesTold(more, c)
  BY <1>3, <1>4 DEF SmokesTold
<1>6. QED BY <1>5 DEF more

LEMMA SmokeListed ==
    ASSUME NEW b \in BuildT, NEW f \in FactT
    PROVE  LET more == Append(b.list, SmokeOf(f))
           IN  /\ AllOf(more, "smoke") = AllOf(b.list, "smoke") \cup {SmokeOf(f)}
               /\ Cardinality(ToldOf(more, "smoke")) = Cardinality(ToldOf(b.list, "smoke")) + 1
<1>1. 0 \in Int
  OBVIOUS
<1>2. SmokeOf(f) \in EpisodeT /\ SmokeOf(f).kind = "smoke" /\ b.list \in Seq(EpisodeT)
  BY <1>1, ListedTyped, KindsAre, CarriesIs
<1>3. QED BY <1>2, ToldOne

LEMMA SmokesGrow ==
    ASSUME NEW facts \in Seq(FactT), NEW f \in FactT, NEW b \in BuildT, NEW c,
           SmokesTold(facts, b), IsSmoke(f), SmokeKey(f) \notin b.smokes,
           c.list = Append(b.list, SmokeOf(f)), c.smokes = b.smokes \cup {SmokeKey(f)}
    PROVE  SmokesTold(Append(facts, f), c)
<1>. DEFINE more == Append(facts, f)
            n == Len(facts) + 1
            e == SmokeOf(f)
<1>1. /\ more[n] = f /\ \A i \in DOMAIN facts : more[i] = facts[i]
      /\ DOMAIN more = DOMAIN facts \cup {n} /\ more \in Seq(FactT)
  BY FactsMore
<1>2. FirstSmokes(more) = FirstSmokes(facts) \cup {n}
  <2>1. IsSmoke(f) /\ \A j \in DOMAIN facts : IsSmoke(facts[j]) =>
                                        SmokeKey(facts[j]) # SmokeKey(f)
    BY DEF SmokesTold
  <2>2. QED BY <2>1, FirstSmokesMore
<1>3. e \in EpisodeT /\ e.kind = "smoke" /\ b.list \in Seq(EpisodeT)
  <2>1. 0 \in Int
    OBVIOUS
  <2>2. QED BY <2>1, ListedTyped, KindsAre, CarriesIs
<1>4. e \notin Smokes(facts)
  <2>1. ASSUME NEW i \in FirstSmokes(facts) PROVE SmokeOf(facts[i]) # e
    <3>1. i \in DOMAIN facts /\ IsSmoke(facts[i])
      BY DEF FirstSmokes
    <3>2. SmokeKey(facts[i]) # SmokeKey(f)
      BY <3>1 DEF SmokesTold
    <3>3. \A g : SmokeOf(g).start = g.at /\ SmokeOf(g).who = {g.account}
      BY DEF SmokeOf, Episode
    <3>4. SmokeOf(facts[i]) = e => facts[i].at = f.at /\ {facts[i].account} = {f.account}
      BY <3>3
    <3>5. {facts[i].account} = {f.account} => facts[i].account = f.account
      OBVIOUS
    <3>. HIDE DEF e
    <3>6. QED BY <3>2, <3>4, <3>5 DEF SmokeKey
  <2>. HIDE DEF e
  <2>2. QED BY <2>1, SmokesAre
<1>. HIDE DEF more, n, e
<1>5. Smokes(more) = Smokes(facts) \cup {e}
  <2>1. \A i \in FirstSmokes(facts) : more[i] = facts[i]
    BY <1>1 DEF FirstSmokes
  <2>2. SmokeOf(more[n]) = e
    BY <1>1 DEF e
  <2>3. QED BY <1>1, <1>2, <2>1, <2>2, SmokesAre
<1>6. \A key : key \in c.smokes <=>
                   \E i \in DOMAIN more : IsSmoke(more[i]) /\ SmokeKey(more[i]) = key
  BY <1>1 DEF SmokesTold
<1>7. AllOf(c.list, "smoke") = AllOf(b.list, "smoke") \cup {e}
      /\ Cardinality(ToldOf(c.list, "smoke")) = Cardinality(ToldOf(b.list, "smoke")) + 1
  BY SmokeListed DEF e
<1>8. IsFiniteSet(Smokes(facts) \cup {e})
      /\ Cardinality(Smokes(facts) \cup {e}) = Cardinality(Smokes(facts)) + 1
  BY <1>4, FS_AddElement DEF SmokesTold
<1>9. SmokesTold(more, c)
  BY <1>5, <1>6, <1>7, <1>8 DEF SmokesTold
<1>10. QED BY <1>9 DEF more

-----------------------------------------------------------------------------
(* Objectives.                                                             *)

LEMMA ObjectivesMore ==
    ASSUME NEW facts \in Seq(FactT), NEW f \in FactT
    PROVE  /\ IsFiniteSet(Objectives(facts)) /\ Len(facts) + 1 \notin Objectives(facts)
           /\ Objectives(Append(facts, f)) =
                  Objectives(facts) \cup
                     (IF f.type = "building" /\ f.name \in Building
                      THEN {Len(facts) + 1} ELSE {})
<1>. DEFINE more == Append(facts, f)
            n == Len(facts) + 1
<1>1. /\ more[n] = f /\ \A i \in DOMAIN facts : more[i] = facts[i]
      /\ DOMAIN more = DOMAIN facts \cup {n} /\ n \notin DOMAIN facts
  BY FactsMore
<1>2. IsFiniteSet(1 .. Len(facts)) /\ DOMAIN facts = 1 .. Len(facts)
  BY FS_Interval
<1>3. Objectives(facts) \in SUBSET (1 .. Len(facts))
  BY <1>2 DEF Objectives
<1>4. IsFiniteSet(Objectives(facts))
  BY <1>2, <1>3, FS_Subset
<1>. HIDE DEF more, n
<1>5. n \notin Objectives(facts)
  BY <1>1 DEF Objectives
<1>6. Objectives(more) = Objectives(facts) \cup
                     (IF f.type = "building" /\ f.name \in Building THEN {n} ELSE {})
  BY <1>1 DEF Objectives
<1>7. QED BY <1>4, <1>5, <1>6 DEF more, n

Tells_objective(facts, e) ==
    \E o \in Objectives(facts) :
        e.start = facts[o].at /\ e.who \subseteq facts[o].helpers \cup {facts[o].by}

ObjectivesTold(facts, b) ==
    /\ Cardinality(ToldOf(b.list, "objective")) = Cardinality(Objectives(facts))
    /\ \A e \in AllOf(b.list, "objective") : Tells_objective(facts, e)

LEMMA StillTells ==
    ASSUME NEW facts \in Seq(FactT), NEW f \in FactT, NEW e, Tells_objective(facts, e)
    PROVE  Tells_objective(Append(facts, f), e)
<1>1. PICK o \in Objectives(facts) :
          e.start = facts[o].at /\ e.who \subseteq facts[o].helpers \cup {facts[o].by}
  BY DEF Tells_objective
<1>2. o \in DOMAIN facts
  BY DEF Objectives
<1>3. Append(facts, f)[o] = facts[o]
  BY <1>2, FactsMore
<1>4. o \in Objectives(Append(facts, f))
  BY ObjectivesMore
<1>5. QED BY <1>1, <1>3, <1>4 DEF Tells_objective

LEMMA ObjectivesKept ==
    ASSUME NEW facts \in Seq(FactT), NEW f \in FactT, NEW b, NEW c,
           ObjectivesTold(facts, b),
           AllOf(c.list, "objective") = AllOf(b.list, "objective"),
           Cardinality(ToldOf(c.list, "objective")) = Cardinality(ToldOf(b.list, "objective")),
           ~(f.type = "building" /\ f.name \in Building)
    PROVE  ObjectivesTold(Append(facts, f), c)
<1>1. Objectives(Append(facts, f)) = Objectives(facts)
  BY ObjectivesMore
<1>2. \A e \in AllOf(c.list, "objective") : Tells_objective(Append(facts, f), e)
  BY StillTells DEF ObjectivesTold
<1>3. QED BY <1>1, <1>2 DEF ObjectivesTold

LEMMA ObjectivesGrow ==
    ASSUME NEW facts \in Seq(FactT), NEW f \in FactT, NEW b \in BuildT, NEW c,
           ObjectivesTold(facts, b), f.type = "building", f.name \in Building,
           c.list = Append(b.list, ObjectiveOf(f))
    PROVE  ObjectivesTold(Append(facts, f), c)
<1>. DEFINE more == Append(facts, f)
            n == Len(facts) + 1
            e == ObjectiveOf(f)
<1>1. more[n] = f
  BY FactsMore
<1>2. Objectives(more) = Objectives(facts) \cup {n} /\ n \notin Objectives(facts)
      /\ IsFiniteSet(Objectives(facts))
  BY ObjectivesMore
<1>3. e \in EpisodeT /\ e.kind = "objective" /\ b.list \in Seq(EpisodeT)
  <2>1. 0 \in Int
    OBVIOUS
  <2>2. QED BY <2>1, ListedTyped, KindsAre, CarriesIs
<1>4. e.start = f.at /\ e.who \subseteq f.helpers \cup {f.by}
  BY DEF ObjectiveOf, Episode
<1>5. \A x \in AllOf(b.list, "objective") : Tells_objective(more, x)
  BY StillTells DEF ObjectivesTold
<1>. HIDE DEF more, n, e
<1>6. Tells_objective(more, e)
  BY <1>1, <1>2, <1>4 DEF Tells_objective
<1>7. AllOf(c.list, "objective") = AllOf(b.list, "objective") \cup {e}
      /\ Cardinality(ToldOf(c.list, "objective")) = Cardinality(ToldOf(b.list, "objective")) + 1
  <2>1. AllOf(Append(b.list, e), "objective") = AllOf(b.list, "objective") \cup {e}
        /\ Cardinality(ToldOf(Append(b.list, e), "objective"))
                = Cardinality(ToldOf(b.list, "objective")) + 1
    BY <1>3, ToldOne
  <2>2. QED BY <2>1 DEF e
<1>8. Cardinality(Objectives(facts) \cup {n}) = Cardinality(Objectives(facts)) + 1
  BY <1>2, FS_AddElement
<1>9. ObjectivesTold(more, c)
  BY <1>2, <1>5, <1>6, <1>7, <1>8 DEF ObjectivesTold
<1>10. QED BY <1>9 DEF more

-----------------------------------------------------------------------------
(* Places in order.                                                        *)

UpTo(S, d) == {c \in S : c <= d}

LEMMA UpToOnce ==
    ASSUME NEW S \in SUBSET Nat, IsFiniteSet(S), NEW x \in S, NEW y \in S,
           Cardinality(UpTo(S, x)) = Cardinality(UpTo(S, y))
    PROVE  x = y
<1>1. ASSUME NEW u \in S, NEW v \in S, u < v,
             Cardinality(UpTo(S, u)) = Cardinality(UpTo(S, v))
      PROVE  FALSE
  <2>1. UpTo(S, u) \in SUBSET UpTo(S, v) /\ v \in UpTo(S, v) /\ v \notin UpTo(S, u)
    <3>1. u \in Nat /\ v \in Nat /\ v <= v /\ ~(v <= u)
      BY <1>1
    <3>2. \A c \in S : c <= u => c <= v
      BY <1>1
    <3>3. QED BY <3>1, <3>2 DEF UpTo
  <2>2. IsFiniteSet(UpTo(S, v))
    <3>1. UpTo(S, v) \in SUBSET S
      BY DEF UpTo
    <3>2. QED BY <3>1, FS_Subset
  <2>3. UpTo(S, v) = UpTo(S, u)
    BY <1>1, <2>1, <2>2, FS_Subset
  <2>4. QED BY <2>1, <2>3
<1>2. ~(x < y) /\ ~(y < x)
  BY <1>1
<1>3. QED BY <1>2

\* The places of a finite set are numbered from 1 on.
LEMMA NthIs ==
    ASSUME NEW S \in SUBSET Nat, IsFiniteSet(S), NEW n \in 1 .. Cardinality(S)
    PROVE  Nth(S, n) \in S /\ Cardinality(UpTo(S, Nth(S, n))) = n
<1>. DEFINE T == 1 .. Cardinality(S)
            rank == [d \in S |-> Cardinality(UpTo(S, d))]
<1>1. Cardinality(S) \in Nat
  BY FS_CardinalityType
<1>2. ASSUME NEW d \in S PROVE Cardinality(UpTo(S, d)) \in T
  <2>1. UpTo(S, d) \in SUBSET S /\ d \in UpTo(S, d)
    BY DEF UpTo
  <2>2. IsFiniteSet(UpTo(S, d)) /\ Cardinality(UpTo(S, d)) <= Cardinality(S)
    BY <2>1, FS_Subset
  <2>3. Cardinality(UpTo(S, d)) \in Nat /\ Cardinality(UpTo(S, d)) # 0
    BY <2>1, <2>2, FS_CardinalityType, FS_EmptySet
  <2>4. QED BY <1>1, <2>2, <2>3
<1>3. rank \in Injection(S, T)
  <2>1. rank \in [S -> T]
    BY <1>2
  <2>2. ASSUME NEW x \in S, NEW y \in S, rank[x] = rank[y] PROVE x = y
    BY <2>2, UpToOnce
  <2>. HIDE DEF rank, T
  <2>3. QED BY <2>1, <2>2 DEF Injection, IsInjective
<1>4. IsFiniteSet(T) /\ Cardinality(T) = Cardinality(S)
  BY <1>1, FS_Interval
<1>5. rank \in Surjection(S, T)
  <2>. HIDE DEF rank, T
  <2>1. QED BY <1>3, <1>4, FS_Injection
<1>6. \E d \in S : rank[d] = n
  <2>. HIDE DEF rank
  <2>1. QED BY <1>5 DEF Surjection
<1>7. \E d \in S : Cardinality({c \in S : c <= d}) = n
  BY <1>6 DEF UpTo
<1>8. QED BY <1>7 DEF Nth, UpTo

\* One more place, behind all others.
LEMMA NthMore ==
    ASSUME NEW S \in SUBSET Nat, IsFiniteSet(S), NEW m \in Nat, \A d \in S : d < m
    PROVE  /\ Cardinality(S \cup {m}) = Cardinality(S) + 1 /\ Cardinality(S) \in Nat
           /\ \A n \in 1 .. Cardinality(S) : Nth(S \cup {m}, n) = Nth(S, n)
           /\ Nth(S \cup {m}, Cardinality(S) + 1) = m
<1>. DEFINE M == S \cup {m}
<1>1. m \notin S /\ M \in SUBSET Nat
  OBVIOUS
<1>2. IsFiniteSet(M) /\ Cardinality(M) = Cardinality(S) + 1 /\ Cardinality(S) \in Nat
  BY <1>1, FS_AddElement, FS_CardinalityType
<1>3. \A d \in S : UpTo(M, d) = UpTo(S, d)
  BY DEF UpTo
<1>4. UpTo(M, m) = M
  <2>1. \A c \in M : c <= m
    OBVIOUS
  <2>. HIDE DEF M
  <2>2. QED BY <2>1 DEF UpTo
<1>. HIDE DEF M
<1>5. ASSUME NEW n \in 1 .. Cardinality(S) PROVE Nth(M, n) = Nth(S, n)
  <2>1. Nth(S, n) \in S /\ Cardinality(UpTo(S, Nth(S, n))) = n
    BY NthIs
  <2>2. n \in 1 .. Cardinality(M)
    BY <1>2
  <2>3. Nth(M, n) \in M /\ Cardinality(UpTo(M, Nth(M, n))) = n
    BY <1>1, <1>2, <2>2, NthIs DEF M
  <2>4. Nth(S, n) \in M /\ Cardinality(UpTo(M, Nth(S, n))) = n
    BY <1>3, <2>1 DEF M
  <2>5. M \in SUBSET Nat
    BY <1>1 DEF M
  <2>. DEFINE x == Nth(M, n)
              y == Nth(S, n)
  <2>6. x \in M /\ y \in M /\ Cardinality(UpTo(M, x)) = Cardinality(UpTo(M, y))
    BY <2>3, <2>4
  <2>. HIDE DEF x, y
  <2>7. x = y
    BY <1>2, <2>5, <2>6, UpToOnce
  <2>8. QED BY <2>7 DEF x, y
<1>6. Nth(M, Cardinality(S) + 1) = m
  <2>1. Cardinality(S) + 1 \in 1 .. Cardinality(M)
    BY <1>2
  <2>2. M \in SUBSET Nat
    BY <1>1 DEF M
  <2>3. Nth(M, Cardinality(S) + 1) \in M
        /\ Cardinality(UpTo(M, Nth(M, Cardinality(S) + 1))) = Cardinality(S) + 1
    BY <1>2, <2>1, <2>2, NthIs
  <2>4. m \in M /\ Cardinality(UpTo(M, m)) = Cardinality(S) + 1
    BY <1>2, <1>4 DEF M
  <2>. DEFINE x == Nth(M, Cardinality(S) + 1)
  <2>5. x \in M /\ Cardinality(UpTo(M, x)) = Cardinality(UpTo(M, m))
    BY <2>3, <2>4
  <2>. HIDE DEF x
  <2>6. x = m
    BY <1>2, <2>2, <2>4, <2>5, UpToOnce
  <2>7. QED BY <2>6 DEF x
<1>7. QED BY <1>2, <1>5, <1>6 DEF M

\* A set of places has a last one.
LEMMA LastOfPlaces ==
    ASSUME NEW N \in Nat, NEW S \in SUBSET (1 .. N), S # {}
    PROVE  \E m \in S : \A c \in S : c <= m
<1>. DEFINE back == {k \in Nat : N - k \in S}
<1>1. PICK s \in S : TRUE
  OBVIOUS
<1>2. N - s \in back
  BY <1>1
<1>3. PICK k \in back : \A j \in back : k <= j
  <2>1. back # {} /\ back \in SUBSET Nat
    BY <1>2
  <2>. HIDE DEF back
  <2>2. QED BY <2>1, LeastOf
<1>4. ASSUME NEW c \in S PROVE c <= N - k
  <2>1. N - c \in back
    BY <1>4
  <2>2. k <= N - c
    BY <1>3, <2>1
  <2>3. k \in Nat
    BY <1>3
  <2>4. QED BY <1>4, <2>2, <2>3
<1>5. N - k \in S
  BY <1>3
<1>6. QED BY <1>4, <1>5

-----------------------------------------------------------------------------
(* The fights of a list of facts.                                          *)

Firsts(facts) ==
    {d \in HeroDeaths(facts) :
        \A c \in HeroDeaths(facts) : c < d => facts[d].at - facts[c].at > FightGap}
Members(facts, first) ==
    {d \in HeroDeaths(facts) : d >= first /\ SameFight(facts, first, d)}
LastMember(deaths) == CHOOSE d \in deaths : \A c \in deaths : c <= d
SrcsOf(facts, deaths) == [n \in 1 .. Cardinality(deaths) |-> facts[Nth(deaths, n)].src]

LEMMA FightOfIs ==
    ASSUME NEW facts, NEW first
    PROVE  FightOf(facts, first) =
               Episode("fight", facts[first].at,
                       facts[LastMember(Members(facts, first))].at + Second,
                       {facts[d].account : d \in Members(facts, first)},
                       SrcsOf(facts, Members(facts, first)))
  BY DEF FightOf, Members, LastMember, SrcsOf

LEMMA FightsAre ==
    ASSUME NEW facts
    PROVE  Fights(facts) = {e \in {FightOf(facts, d) : d \in Firsts(facts)} :
                               Cardinality(e.who) >= 2}
  BY DEF Fights, Firsts

\* A place in a list, and when it is.
LEMMA DeathIs ==
    ASSUME NEW facts \in Seq(FactT), NEW d \in HeroDeaths(facts)
    PROVE  /\ d \in DOMAIN facts /\ d \in 1 .. Len(facts) /\ d \in Nat
           /\ facts[d] \in FactT /\ facts[d].at \in Int
<1>1. d \in DOMAIN facts
  BY DEF HeroDeaths
<1>2. facts[d] \in FactT /\ d \in 1 .. Len(facts) /\ d \in Nat
  BY <1>1
<1>3. QED BY <1>1, <1>2, FactIs

LEMMA SameFightIs ==
    ASSUME NEW facts \in Seq(FactT), NEW i, NEW j
    PROVE  SameFight(facts, i, j) <=> ~ \E d \in Firsts(facts) : i < d /\ d <= j
<1>1. ASSUME NEW d \in HeroDeaths(facts)
      PROVE  d \in Firsts(facts) <=>
                 ~ \E c \in HeroDeaths(facts) : c < d /\ facts[d].at - facts[c].at <= FightGap
  <2>1. ASSUME NEW c \in HeroDeaths(facts)
        PROVE  facts[d].at - facts[c].at > FightGap <=> ~(facts[d].at - facts[c].at <= FightGap)
    <3>1. facts[d].at \in Int /\ facts[c].at \in Int /\ FightGap \in Int
      BY DeathIs, EpisodesAssumption
    <3>2. QED BY <3>1
  <2>2. QED BY <2>1 DEF Firsts
<1>2. \A d \in Firsts(facts) : d \in HeroDeaths(facts)
  BY DEF Firsts
<1>3. QED BY <1>1, <1>2 DEF SameFight

LEMMA MembersAre ==
    ASSUME NEW facts \in Seq(FactT), NEW first \in HeroDeaths(facts)
    PROVE  /\ Members(facts, first) \in SUBSET (1 .. Len(facts))
           /\ Members(facts, first) \in SUBSET HeroDeaths(facts)
           /\ Members(facts, first) \in SUBSET Nat
           /\ IsFiniteSet(Members(facts, first))
           /\ first \in Members(facts, first)
           /\ LastMember(Members(facts, first)) \in Members(facts, first)
           /\ \A c \in Members(facts, first) : c <= LastMember(Members(facts, first))
<1>. DEFINE M == Members(facts, first)
<1>1. M \in SUBSET HeroDeaths(facts)
  BY DEF Members
<1>2. M \in SUBSET (1 .. Len(facts)) /\ M \in SUBSET Nat
  BY <1>1, DeathIs
<1>3. IsFiniteSet(M)
  <2>1. IsFiniteSet(1 .. Len(facts))
    BY FS_Interval
  <2>. HIDE DEF M
  <2>2. QED BY <1>2, <2>1, FS_Subset
<1>4. first \in M
  <2>1. first \in Nat /\ \A d \in HeroDeaths(facts) : d \in Nat
    BY DeathIs
  <2>2. SameFight(facts, first, first)
    BY <2>1 DEF SameFight
  <2>3. QED BY <2>1, <2>2 DEF Members
<1>. HIDE DEF M
<1>5. \E m \in M : \A c \in M : c <= m
  <2>1. Len(facts) \in Nat /\ M # {}
    BY <1>4
  <2>2. QED BY <1>2, <2>1, LastOfPlaces
<1>6. LastMember(M) \in M /\ \A c \in M : c <= LastMember(M)
  BY <1>5 DEF LastMember
<1>7. QED BY <1>1, <1>2, <1>3, <1>4, <1>6 DEF M

\* A fight is what it was if nobody joined it.
LEMMA FightStays ==
    ASSUME NEW facts \in Seq(FactT), NEW f \in FactT, NEW first \in HeroDeaths(facts),
           Members(Append(facts, f), first) = Members(facts, first)
    PROVE  FightOf(Append(facts, f), first) = FightOf(facts, first)
<1>. DEFINE more == Append(facts, f)
            M == Members(facts, first)
<1>1. \A i \in DOMAIN facts : more[i] = facts[i]
  BY FactsMore
<1>2. M \in SUBSET DOMAIN facts /\ M \in SUBSET Nat /\ IsFiniteSet(M)
      /\ first \in DOMAIN facts /\ LastMember(M) \in M
  BY MembersAre, DeathIs
<1>. HIDE DEF more, M
<1>3. more[first] = facts[first] /\ more[LastMember(M)] = facts[LastMember(M)]
  BY <1>1, <1>2
<1>4. \A d \in M : more[d] = facts[d]
  BY <1>1, <1>2
<1>5. {more[d].account : d \in M} = {facts[d].account : d \in M}
  BY <1>4
<1>6. SrcsOf(more, M) = SrcsOf(facts, M)
  <2>1. \A n \in 1 .. Cardinality(M) : more[Nth(M, n)] = facts[Nth(M, n)]
    BY <1>2, <1>4, NthIs
  <2>2. QED BY <2>1 DEF SrcsOf
<1>7. Members(more, first) = M
  BY DEF more, M
<1>8. FightOf(more, first) = FightOf(facts, first)
  <2>1. FightOf(more, first) =
               Episode("fight", more[first].at, more[LastMember(M)].at + Second,
                       {more[d].account : d \in M}, SrcsOf(more, M))
    BY <1>7, FightOfIs
  <2>2. FightOf(facts, first) =
               Episode("fight", facts[first].at, facts[LastMember(M)].at + Second,
                       {facts[d].account : d \in M}, SrcsOf(facts, M))
    BY FightOfIs DEF M
  <2>3. QED BY <1>3, <1>5, <1>6, <2>1, <2>2
<1>9. QED BY <1>8 DEF more

IsHeroDeath(f) == f.type = "death" /\ f.account # Nobody

LEMMA HeroDeathsMore ==
    ASSUME NEW facts \in Seq(FactT), NEW f \in FactT
    PROVE  /\ HeroDeaths(Append(facts, f)) =
                  HeroDeaths(facts) \cup (IF IsHeroDeath(f) THEN {Len(facts) + 1} ELSE {})
           /\ Len(facts) + 1 \notin HeroDeaths(facts)
<1>. DEFINE more == Append(facts, f)
            n == Len(facts) + 1
<1>1. /\ more[n] = f /\ \A i \in DOMAIN facts : more[i] = facts[i]
      /\ DOMAIN more = DOMAIN facts \cup {n} /\ n \notin DOMAIN facts
  BY FactsMore
<1>. HIDE DEF more, n
<1>2. n \notin HeroDeaths(facts)
  BY <1>1 DEF HeroDeaths
<1>3. HeroDeaths(more) = HeroDeaths(facts) \cup (IF IsHeroDeath(f) THEN {n} ELSE {})
  BY <1>1 DEF HeroDeaths, IsHeroDeath
<1>4. QED BY <1>2, <1>3 DEF more, n

LEMMA FirstsMore ==
    ASSUME NEW facts \in Seq(FactT), NEW f \in FactT
    PROVE  Firsts(Append(facts, f)) =
               Firsts(facts) \cup
                   (IF /\ IsHeroDeath(f)
                       /\ \A c \in HeroDeaths(facts) : f.at - facts[c].at > FightGap
                    THEN {Len(facts) + 1} ELSE {})
<1>. DEFINE more == Append(facts, f)
            n == Len(facts) + 1
            quiet == \A c \in HeroDeaths(facts) : f.at - facts[c].at > FightGap
<1>1. more[n] = f /\ n \in Nat
  BY FactsMore
<1>2. ASSUME NEW c \in HeroDeaths(facts)
      PROVE  more[c] = facts[c] /\ c < n /\ c # n /\ ~(n < c)
  <2>1. c \in DOMAIN facts
    BY DEF HeroDeaths
  <2>2. more[c] = facts[c] /\ c < n /\ c \in Nat
    BY <2>1, FactsMore
  <2>. HIDE DEF more
  <2>3. QED BY <2>2
<1>3. HeroDeaths(more) = HeroDeaths(facts) \cup (IF IsHeroDeath(f) THEN {n} ELSE {})
  BY HeroDeathsMore
<1>4. ~(n < n)
  BY <1>1
<1>. HIDE DEF more, n
<1>5. ASSUME NEW d \in HeroDeaths(facts) PROVE d \in Firsts(more) <=> d \in Firsts(facts)
  <2>1. ASSUME NEW c \in HeroDeaths(facts)
        PROVE  more[d].at - more[c].at > FightGap <=> facts[d].at - facts[c].at > FightGap
    BY <1>2
  <2>2. (\A c \in HeroDeaths(more) : c < d => more[d].at - more[c].at > FightGap)
        <=> (\A c \in HeroDeaths(facts) : c < d => facts[d].at - facts[c].at > FightGap)
    BY <1>2, <1>3, <2>1
  <2>3. QED BY <1>3, <2>2 DEF Firsts
<1>6. n \in Firsts(more) <=> IsHeroDeath(f) /\ quiet
  <2>1. ASSUME IsHeroDeath(f)
        PROVE  (\A c \in HeroDeaths(more) : c < n => more[n].at - more[c].at > FightGap)
               <=> quiet
    BY <1>1, <1>2, <1>3, <1>4
  <2>2. n \in HeroDeaths(more) <=> IsHeroDeath(f)
    BY <1>2, <1>3
  <2>. HIDE DEF quiet
  <2>3. QED BY <2>1, <2>2 DEF Firsts
<1>7. \A d \in Firsts(more) : d \in HeroDeaths(facts) \/ d = n
  BY <1>3 DEF Firsts
<1>8. \A d \in Firsts(facts) : d \in HeroDeaths(facts)
  BY DEF Firsts
<1>. HIDE DEF quiet
<1>9. Firsts(more) = Firsts(facts) \cup (IF IsHeroDeath(f) /\ quiet THEN {n} ELSE {})
  BY <1>5, <1>6, <1>7, <1>8
<1>10. QED BY <1>9 DEF more, n, quiet

\* Who was in a fight still is, and one more death may be.
LEMMA MembersMore ==
    ASSUME NEW facts \in Seq(FactT), NEW f \in FactT, NEW first \in HeroDeaths(facts)
    PROVE  LET more == Append(facts, f)
               n == Len(facts) + 1
           IN  Members(more, first) =
                  Members(facts, first) \cup
                     (IF /\ IsHeroDeath(f) /\ n \notin Firsts(more)
                         /\ \A d \in Firsts(facts) : ~(first < d)
                      THEN {n} ELSE {})
<1>. DEFINE more == Append(facts, f)
            n == Len(facts) + 1
            joins == /\ IsHeroDeath(f) /\ n \notin Firsts(more)
                     /\ \A d \in Firsts(facts) : ~(first < d)
<1>1. more \in Seq(FactT) /\ n \in Nat
  BY FactsMore
<1>2. ASSUME NEW c \in HeroDeaths(facts) PROVE c < n /\ c # n /\ ~(n <= c) /\ c <= n
  <2>1. c \in DOMAIN facts
    BY DEF HeroDeaths
  <2>2. c < n /\ c \in Nat
    BY <2>1, FactsMore
  <2>3. QED BY <1>1, <2>2
<1>3. HeroDeaths(more) = HeroDeaths(facts) \cup (IF IsHeroDeath(f) THEN {n} ELSE {})
  BY HeroDeathsMore
<1>4. \A d : d \in Firsts(more) <=> d \in Firsts(facts) \/ (d = n /\ n \in Firsts(more))
  <2>1. n \notin Firsts(facts)
    BY HeroDeathsMore DEF Firsts
  <2>2. Firsts(more) = Firsts(facts) \cup {n} \/ Firsts(more) = Firsts(facts) \cup {}
    BY FirstsMore
  <2>. HIDE DEF more, n
  <2>3. QED BY <2>1, <2>2
<1>5. \A d \in Firsts(facts) : d \in HeroDeaths(facts)
  BY DEF Firsts
<1>6. n <= n
  BY <1>1
<1>. HIDE DEF more, n
<1>7. ASSUME NEW d \in HeroDeaths(facts)
      PROVE  SameFight(more, first, d) <=> SameFight(facts, first, d)
  <2>1. (\E c \in Firsts(more) : first < c /\ c <= d) <=> (\E c \in Firsts(facts) : first < c /\ c <= d)
    BY <1>2, <1>4
  <2>2. QED BY <1>1, <2>1, SameFightIs
<1>8. SameFight(more, first, n) <=> n \notin Firsts(more) /\ \A d \in Firsts(facts) : ~(first < d)
  <2>1. (\E c \in Firsts(more) : first < c /\ c <= n)
        <=> n \in Firsts(more) \/ \E d \in Firsts(facts) : first < d
    BY <1>2, <1>4, <1>5, <1>6
  <2>2. QED BY <1>1, <2>1, SameFightIs
<1>9. \A d \in HeroDeaths(facts) : d \in Members(more, first) <=> d \in Members(facts, first)
  BY <1>3, <1>7 DEF Members
<1>10. n \in Members(more, first) <=> joins
  <2>1. n >= first /\ n \notin HeroDeaths(facts)
    BY <1>1, <1>2, DeathIs
  <2>2. n \in HeroDeaths(more) <=> IsHeroDeath(f)
    BY <1>3, <2>1
  <2>3. QED BY <1>8, <2>1, <2>2 DEF Members
<1>11. \A d \in Members(more, first) : d \in HeroDeaths(facts) \/ d = n
  BY <1>3 DEF Members
<1>12. \A d \in Members(facts, first) : d \in HeroDeaths(facts)
  BY DEF Members
<1>. HIDE DEF joins
<1>13. Members(more, first) = Members(facts, first) \cup (IF joins THEN {n} ELSE {})
  BY <1>9, <1>10, <1>11, <1>12
<1>14. QED BY <1>13 DEF more, n, joins

LEMMA EpisodeHas ==
    ASSUME NEW kind, NEW start, NEW end, NEW who, NEW evidence
    PROVE  LET e == Episode(kind, start, end, who, evidence)
           IN  e.start = start /\ e.end = end /\ e.who = who /\ e.evidence = evidence
  BY DEF Episode

\* A death joins a fight.
LEMMA FightGrows ==
    ASSUME NEW facts \in Seq(FactT), NEW f \in FactT, NEW first \in HeroDeaths(facts),
           Members(Append(facts, f), first) = Members(facts, first) \cup {Len(facts) + 1},
           NEW w \in FightT, FightSoFar(w) = FightOf(facts, first)
    PROVE  FightSoFar(Window(w.start, f.at, w.accounts \cup {f.account}, Append(w.seqs, f.src)))
               = FightOf(Append(facts, f), first)
<1>. DEFINE more == Append(facts, f)
            n == Len(facts) + 1
            M == Members(facts, first)
            k == Cardinality(M)
<1>1. /\ more[n] = f /\ \A i \in DOMAIN facts : more[i] = facts[i]
      /\ \A i \in DOMAIN facts : i < n /\ i \in Nat
      /\ n \in Nat
  BY FactsMore
<1>2. M \in SUBSET DOMAIN facts /\ M \in SUBSET Nat /\ IsFiniteSet(M)
      /\ first \in DOMAIN facts /\ first \in M
  BY MembersAre, DeathIs
<1>3. w.start = facts[first].at /\ w.accounts = {facts[d].account : d \in M}
      /\ w.seqs = SrcsOf(facts, M)
  <2>1. FightOf(facts, first) =
               Episode("fight", facts[first].at, facts[LastMember(M)].at + Second,
                       {facts[d].account : d \in M}, SrcsOf(facts, M))
    BY FightOfIs
  <2>2. FightSoFar(w).start = w.start /\ FightSoFar(w).who = w.accounts
        /\ FightSoFar(w).evidence = w.seqs
    BY EpisodeHas DEF FightSoFar
  <2>. HIDE DEF M
  <2>3. QED BY <2>1, <2>2, EpisodeHas
<1>4. Members(more, first) = M \cup {n}
  OBVIOUS
<1>. HIDE DEF more, M, n
<1>5. \A d \in M : more[d] = facts[d] /\ d < n
  BY <1>1, <1>2
<1>6. /\ Cardinality(M \cup {n}) = k + 1 /\ k \in Nat
      /\ \A j \in 1 .. k : Nth(M \cup {n}, j) = Nth(M, j) /\ Nth(M, j) \in M
      /\ Nth(M \cup {n}, k + 1) = n
  <2>1. \A j \in 1 .. k : Nth(M, j) \in M
    BY <1>2, NthIs
  <2>2. /\ Cardinality(M \cup {n}) = k + 1 /\ k \in Nat
        /\ \A j \in 1 .. k : Nth(M \cup {n}, j) = Nth(M, j)
        /\ Nth(M \cup {n}, k + 1) = n
    BY <1>1, <1>2, <1>5, NthMore
  <2>3. QED BY <2>1, <2>2
<1>7. LastMember(M \cup {n}) = n
  <2>1. n \in M \cup {n} /\ \A c \in M \cup {n} : c <= n
    BY <1>1, <1>2, <1>5
  <2>2. \A m \in M \cup {n} : (\A c \in M \cup {n} : c <= m) => m = n
    BY <1>1, <1>2, <1>5
  <2>. DEFINE L == CHOOSE d \in M \cup {n} : \A c \in M \cup {n} : c <= d
  <2>3. L \in M \cup {n} /\ \A c \in M \cup {n} : c <= L
    BY <2>1
  <2>4. L = n
    <3>. HIDE DEF L
    <3>1. QED BY <2>2, <2>3
  <2>5. QED BY <2>4 DEF LastMember
<1>8. {more[d].account : d \in M \cup {n}} = w.accounts \cup {f.account}
  BY <1>1, <1>3, <1>5
<1>9. SrcsOf(more, M \cup {n}) = Append(w.seqs, f.src)
  <2>. DEFINE new(j) == more[Nth(M \cup {n}, j)].src
              old(j) == facts[Nth(M, j)].src
  <2>1. \A j \in 1 .. k : new(j) = old(j)
    BY <1>5, <1>6
  <2>2. new(k + 1) = f.src
    BY <1>1, <1>6
  <2>3. SrcsOf(more, M \cup {n}) = [j \in 1 .. k + 1 |-> new(j)]
    BY <1>6 DEF SrcsOf
  <2>4. w.seqs = [j \in 1 .. k |-> old(j)]
    BY <1>3 DEF SrcsOf
  <2>5. w.seqs \in Seq(Int) /\ f.src \in Int
    BY FactIs DEF FightT
  <2>. HIDE DEF new, old, k
  <2>6. Len(w.seqs) = k
    BY <1>6, <2>4, <2>5
  <2>7. Append(w.seqs, f.src) = [j \in 1 .. k + 1 |-> IF j <= k THEN w.seqs[j] ELSE f.src]
    BY <1>6, <2>5, <2>6
  <2>8. \A j \in 1 .. k + 1 : (IF j <= k THEN w.seqs[j] ELSE f.src) = new(j)
    <3>1. SUFFICES ASSUME NEW j \in 1 .. k + 1
                   PROVE  (IF j <= k THEN w.seqs[j] ELSE f.src) = new(j)
      OBVIOUS
    <3>2. CASE j <= k
      <4>1. j \in 1 .. k
        BY <1>6, <3>2
      <4>2. QED BY <2>1, <2>4, <3>2, <4>1
    <3>3. CASE ~(j <= k)
      <4>1. j = k + 1
        BY <1>6, <3>3
      <4>2. QED BY <2>2, <3>3, <4>1
    <3>4. QED BY <3>2, <3>3
  <2>9. QED BY <2>3, <2>7, <2>8
<1>10. FightOf(more, first) =
           Episode("fight", w.start, f.at + Second, w.accounts \cup {f.account},
                   Append(w.seqs, f.src))
  <2>1. FightOf(more, first) =
               Episode("fight", more[first].at, more[LastMember(M \cup {n})].at + Second,
                       {more[d].account : d \in M \cup {n}}, SrcsOf(more, M \cup {n}))
    BY <1>4, FightOfIs
  <2>2. more[first].at = w.start /\ more[LastMember(M \cup {n})].at = f.at
    BY <1>1, <1>2, <1>3, <1>5, <1>7
  <2>3. QED BY <1>8, <1>9, <2>1, <2>2
<1>11. FightSoFar(Window(w.start, f.at, w.accounts \cup {f.account}, Append(w.seqs, f.src))) =
           Episode("fight", w.start, f.at + Second, w.accounts \cup {f.account},
                   Append(w.seqs, f.src))
  BY DEF FightSoFar, Window
<1>12. QED BY <1>10, <1>11 DEF more

\* Deaths are listed in the order they happened.
Ordered(facts) ==
    \A c, d \in HeroDeaths(facts) : c < d => facts[c].at <= facts[d].at

\* The fights that began before the first-th fact.
FightsBut(facts, first) ==
    {e \in {FightOf(facts, d) : d \in Firsts(facts) \ {first}} : Cardinality(e.who) >= 2}

\* All fights but the last are told, and the last is being told.
LastFight(facts, b, first, last) ==
    /\ first \in Firsts(facts) /\ \A d \in Firsts(facts) : ~(first < d)
    /\ last \in HeroDeaths(facts) /\ \A d \in HeroDeaths(facts) : d <= last
    /\ b.fight.open
    /\ FightSoFar(b.fight) = FightOf(facts, first)
    /\ b.fight.last = facts[last].at
    /\ AllOf(b.list, "fight") = FightsBut(facts, first)
    /\ IsFiniteSet(FightsBut(facts, first))
    /\ Cardinality(ToldOf(b.list, "fight")) = Cardinality(FightsBut(facts, first))

NoFights(facts, b) ==
    /\ HeroDeaths(facts) = {} /\ ~b.fight.open
    /\ AllOf(b.list, "fight") = {} /\ Cardinality(ToldOf(b.list, "fight")) = 0

FightsTold(facts, b) ==
    NoFights(facts, b) \/ \E first, last : LastFight(facts, b, first, last)

\* Fights do not begin at one time.
LEMMA FightsApart ==
    ASSUME NEW facts \in Seq(FactT), NEW first \in Firsts(facts),
           \A d \in Firsts(facts) : ~(first < d)
    PROVE  FightOf(facts, first) \notin FightsBut(facts, first)
<1>1. ASSUME NEW d PROVE FightOf(facts, d).start = facts[d].at
  BY FightOfIs DEF Episode
<1>2. ASSUME NEW d \in Firsts(facts), d # first PROVE facts[d].at # facts[first].at
  <2>1. d \in HeroDeaths(facts) /\ first \in HeroDeaths(facts)
    BY DEF Firsts
  <2>2. d \in Nat /\ first \in Nat /\ facts[d].at \in Int /\ facts[first].at \in Int
        /\ FightGap \in Nat
    BY <2>1, DeathIs, EpisodesAssumption
  <2>3. d < first
    BY <1>2, <2>2
  <2>4. facts[first].at - facts[d].at > FightGap
    BY <2>1, <2>3 DEF Firsts
  <2>5. QED BY <2>2, <2>4
<1>3. \A d \in Firsts(facts) \ {first} : FightOf(facts, d) # FightOf(facts, first)
  BY <1>1, <1>2
<1>4. QED BY <1>3 DEF FightsBut

\* Once the last fight is listed, all are.
LEMMA ClosedTellsAll ==
    ASSUME NEW facts \in Seq(FactT), NEW b \in BuildT, NEW first, NEW last,
           LastFight(facts, b, first, last)
    PROVE  LET list == IF Cardinality(b.fight.accounts) >= 2
                       THEN Append(b.list, FightSoFar(b.fight)) ELSE b.list
           IN  /\ AllOf(list, "fight") = Fights(facts)
               /\ IsFiniteSet(Fights(facts))
               /\ Cardinality(ToldOf(list, "fight")) = Cardinality(Fights(facts))
<1>. DEFINE e == FightSoFar(b.fight)
            S == FightsBut(facts, first)
<1>1. /\ first \in Firsts(facts) /\ \A d \in Firsts(facts) : ~(first < d)
      /\ e = FightOf(facts, first)
      /\ AllOf(b.list, "fight") = S /\ IsFiniteSet(S)
      /\ Cardinality(ToldOf(b.list, "fight")) = Cardinality(S)
  BY DEF LastFight
<1>2. e \notin S
  BY <1>1, FightsApart
<1>3. e \in EpisodeT /\ e.kind = "fight" /\ b.list \in Seq(EpisodeT)
  BY CarriesIs, FightTyped, KindsAre
<1>4. e.who = b.fight.accounts
  BY EpisodeHas DEF FightSoFar
<1>5. Fights(facts) = S \cup (IF Cardinality(b.fight.accounts) >= 2 THEN {e} ELSE {})
  <2>1. \A x : x \in Fights(facts) <=> Cardinality(x.who) >= 2 /\ \E d \in Firsts(facts) : x = FightOf(facts, d)
    BY FightsAre
  <2>2. \A x : x \in S <=> Cardinality(x.who) >= 2 /\ \E d \in Firsts(facts) \ {first} : x = FightOf(facts, d)
    BY DEF FightsBut
  <2>. HIDE DEF e, S
  <2>3. \A x : x \in Fights(facts) <=> x \in S \/ (x = e /\ Cardinality(e.who) >= 2)
    BY <1>1, <2>1, <2>2
  <2>4. QED BY <1>4, <2>3
<1>. HIDE DEF e, S
<1>6. CASE Cardinality(b.fight.accounts) >= 2
  <2>1. AllOf(Append(b.list, e), "fight") = AllOf(b.list, "fight") \cup {e}
        /\ Cardinality(ToldOf(Append(b.list, e), "fight"))
              = Cardinality(ToldOf(b.list, "fight")) + 1
    BY <1>3, ToldOne
  <2>2. Fights(facts) = S \cup {e}
    BY <1>5, <1>6
  <2>3. IsFiniteSet(S \cup {e}) /\ Cardinality(S \cup {e}) = Cardinality(S) + 1
    BY <1>1, <1>2, FS_AddElement
  <2>4. QED BY <1>1, <1>6, <2>1, <2>2, <2>3 DEF e
<1>7. CASE ~(Cardinality(b.fight.accounts) >= 2)
  <2>1. Fights(facts) = S
    BY <1>5, <1>7
  <2>2. QED BY <1>1, <1>7, <2>1
<1>8. QED BY <1>6, <1>7

\* A fact that is no hero's death leaves the fights as they are.
LEMMA FightsKept ==
    ASSUME NEW facts \in Seq(FactT), NEW f \in FactT, NEW b, NEW c,
           FightsTold(facts, b), ~IsHeroDeath(f),
           AllOf(c.list, "fight") = AllOf(b.list, "fight"),
           Cardinality(ToldOf(c.list, "fight")) = Cardinality(ToldOf(b.list, "fight")),
           c.fight = b.fight
    PROVE  FightsTold(Append(facts, f), c)
<1>. DEFINE more == Append(facts, f)
<1>1. \A i \in DOMAIN facts : more[i] = facts[i]
  BY FactsMore
<1>2. HeroDeaths(more) = HeroDeaths(facts) /\ Firsts(more) = Firsts(facts)
  BY HeroDeathsMore, FirstsMore
<1>3. ASSUME NEW d \in HeroDeaths(facts) PROVE FightOf(more, d) = FightOf(facts, d)
  <2>1. Members(more, d) = Members(facts, d)
    BY MembersMore
  <2>2. QED BY <2>1, FightStays
<1>4. \A d \in Firsts(facts) : d \in HeroDeaths(facts)
  BY DEF Firsts
<1>. HIDE DEF more
<1>5. CASE NoFights(facts, b)
  <2>1. NoFights(more, c)
    BY <1>2, <1>5 DEF NoFights
  <2>2. QED BY <2>1 DEF FightsTold, more
<1>6. ASSUME NEW first, NEW last, LastFight(facts, b, first, last)
      PROVE  LastFight(more, c, first, last)
  <2>1. FightsBut(more, first) = FightsBut(facts, first)
    <3>1. {FightOf(more, d) : d \in Firsts(facts) \ {first}}
             = {FightOf(facts, d) : d \in Firsts(facts) \ {first}}
      BY <1>3, <1>4
    <3>2. QED BY <1>2, <3>1 DEF FightsBut
  <2>2. last \in DOMAIN facts /\ first \in HeroDeaths(facts)
    BY <1>4, <1>6 DEF LastFight, HeroDeaths
  <2>3. more[last] = facts[last] /\ FightOf(more, first) = FightOf(facts, first)
    BY <1>1, <1>3, <2>2
  <2>4. QED BY <1>2, <1>6, <2>1, <2>3 DEF LastFight
<1>7. QED BY <1>5, <1>6 DEF FightsTold, more

\* The first death of all begins a fight.
LEMMA FightsBegin ==
    ASSUME NEW facts \in Seq(FactT), NEW f \in FactT, NEW b, NEW c,
           IsHeroDeath(f), \A d \in HeroDeaths(facts) : f.at - facts[d].at > FightGap,
           c.fight = Window(f.at, f.at, {f.account}, <<f.src>>),
           AllOf(c.list, "fight") = Fights(facts), IsFiniteSet(Fights(facts)),
           Cardinality(ToldOf(c.list, "fight")) = Cardinality(Fights(facts))
    PROVE  FightsTold(Append(facts, f), c)
<1>. DEFINE more == Append(facts, f)
            n == Len(facts) + 1
<1>1. /\ more \in Seq(FactT) /\ n \in Nat /\ more[n] = f
      /\ \A i \in DOMAIN facts : i < n /\ i \in Nat
  BY FactsMore
<1>2. HeroDeaths(more) = HeroDeaths(facts) \cup {n} /\ n \notin HeroDeaths(facts)
      /\ Firsts(more) = Firsts(facts) \cup {n}
  BY HeroDeathsMore, FirstsMore
<1>3. \A d \in HeroDeaths(facts) : d < n /\ d \in Nat
  BY <1>1 DEF HeroDeaths
<1>4. \A d \in Firsts(facts) : d \in HeroDeaths(facts)
  BY DEF Firsts
<1>5. ASSUME NEW d \in HeroDeaths(facts) PROVE FightOf(more, d) = FightOf(facts, d)
  <2>1. n \in Firsts(more)
    BY <1>2
  <2>2. Members(more, d) = Members(facts, d)
    BY <2>1, MembersMore
  <2>3. QED BY <2>2, FightStays
<1>. HIDE DEF more, n
<1>6. FightsBut(more, n) = Fights(facts)
  <2>1. Firsts(more) \ {n} = Firsts(facts)
    BY <1>2, <1>4
  <2>2. {FightOf(more, d) : d \in Firsts(facts)} = {FightOf(facts, d) : d \in Firsts(facts)}
    BY <1>4, <1>5
  <2>3. QED BY <2>1, <2>2, FightsAre DEF FightsBut
<1>7. Members(more, n) = {n}
  <2>1. n \in HeroDeaths(more)
    BY <1>2
  <2>2. n \in Members(more, n)
    BY <1>1, <2>1, MembersAre
  <2>3. ASSUME NEW d \in Members(more, n) PROVE d = n
    <3>1. d \in HeroDeaths(more) /\ d >= n
      BY DEF Members
    <3>2. d \in HeroDeaths(facts) => ~(d >= n)
      BY <1>1, <1>3
    <3>3. QED BY <1>2, <3>1, <3>2
  <2>4. QED BY <2>2, <2>3
<1>8. FightOf(more, n) = FightSoFar(c.fight)
  <2>1. LastMember({n}) = n
    <3>1. n <= n
      BY <1>1
    <3>2. \A m \in {n} : (\A x \in {n} : x <= m) <=> m = n
      BY <3>1
    <3>. DEFINE L == CHOOSE d \in {n} : \A x \in {n} : x <= d
    <3>3. L \in {n}
      BY <3>1
    <3>4. QED BY <3>3 DEF LastMember
  <2>2. SrcsOf(more, {n}) = <<f.src>>
    <3>1. Cardinality({n}) = 1 /\ IsFiniteSet({n})
      BY FS_Singleton
    <3>2. Nth({n}, 1) = n
      <4>1. {n} \in SUBSET Nat /\ 1 \in 1 .. Cardinality({n})
        BY <1>1, <3>1
      <4>2. QED BY <3>1, <4>1, NthIs
    <3>3. SrcsOf(more, {n}) = [i \in 1 .. 1 |-> more[Nth({n}, i)].src]
      BY <3>1 DEF SrcsOf
    <3>4. \A i \in 1 .. 1 : more[Nth({n}, i)].src = f.src
      BY <1>1, <3>2
    <3>5. [i \in 1 .. 1 |-> f.src] = <<f.src>>
      OBVIOUS
    <3>6. QED BY <3>3, <3>4, <3>5
  <2>3. {more[d].account : d \in {n}} = {f.account}
    BY <1>1
  <2>4. FightOf(more, n) = Episode("fight", f.at, f.at + Second, {f.account}, <<f.src>>)
    BY <1>1, <1>7, <2>1, <2>2, <2>3, FightOfIs
  <2>5. FightSoFar(c.fight) = Episode("fight", f.at, f.at + Second, {f.account}, <<f.src>>)
    BY DEF FightSoFar, Window
  <2>6. QED BY <2>4, <2>5
<1>9. c.fight.open /\ c.fight.last = f.at
  BY DEF Window
<1>10. LastFight(more, c, n, n)
  <2>1. n \in Firsts(more) /\ \A d \in Firsts(more) : ~(n < d)
    BY <1>1, <1>2, <1>3, <1>4
  <2>2. n \in HeroDeaths(more) /\ \A d \in HeroDeaths(more) : d <= n
    BY <1>1, <1>2, <1>3
  <2>3. QED BY <1>1, <1>6, <1>8, <1>9, <2>1, <2>2 DEF LastFight
<1>11. QED BY <1>10 DEF FightsTold, more

\* A death soon after the last one joins the last fight.
LEMMA FightsJoined ==
    ASSUME NEW facts \in Seq(FactT), NEW f \in FactT, NEW b \in BuildT, NEW c,
           IsHeroDeath(f), NEW first, NEW last, LastFight(facts, b, first, last),
           ~(f.at - facts[last].at > FightGap),
           c.list = b.list,
           c.fight = Window(b.fight.start, f.at, b.fight.accounts \cup {f.account},
                            Append(b.fight.seqs, f.src))
    PROVE  FightsTold(Append(facts, f), c)
<1>. DEFINE more == Append(facts, f)
            n == Len(facts) + 1
<1>1. /\ more \in Seq(FactT) /\ n \in Nat /\ more[n] = f
      /\ \A i \in DOMAIN facts : i < n /\ i \in Nat
  BY FactsMore
<1>2. /\ first \in Firsts(facts) /\ \A d \in Firsts(facts) : ~(first < d)
      /\ last \in HeroDeaths(facts)
  BY DEF LastFight
<1>3. HeroDeaths(more) = HeroDeaths(facts) \cup {n} /\ n \notin HeroDeaths(facts)
  BY HeroDeathsMore
<1>4. Firsts(more) = Firsts(facts)
  <2>1. ~ \A d \in HeroDeaths(facts) : f.at - facts[d].at > FightGap
    BY <1>2
  <2>2. QED BY <2>1, FirstsMore
<1>5. \A d \in Firsts(facts) : d \in HeroDeaths(facts) /\ d \in Nat
  BY DeathIs DEF Firsts
<1>6. n \notin Firsts(more)
  BY <1>3, <1>4, <1>5
<1>7. Members(more, first) = Members(facts, first) \cup {n}
  BY <1>2, <1>5, <1>6, MembersMore
<1>8. ASSUME NEW d \in Firsts(facts), d # first PROVE FightOf(more, d) = FightOf(facts, d)
  <2>1. d < first
    BY <1>2, <1>5, <1>8
  <2>2. d \in HeroDeaths(facts)
    BY <1>5
  <2>3. Members(more, d) = Members(facts, d)
    <3>1. ~ \A e \in Firsts(facts) : ~(d < e)
      BY <1>2, <2>1
    <3>2. Members(more, d) = Members(facts, d) \cup {}
      BY <2>2, <3>1, MembersMore
    <3>3. QED BY <3>2
  <2>4. QED BY <2>2, <2>3, FightStays
<1>9. FightSoFar(c.fight) = FightOf(more, first)
  <2>1. b.fight \in FightT /\ FightSoFar(b.fight) = FightOf(facts, first)
    BY CarriesIs DEF LastFight
  <2>2. first \in HeroDeaths(facts)
    BY <1>2, <1>5
  <2>3. QED BY <1>7, <2>1, <2>2, FightGrows
<1>. HIDE DEF more, n
<1>10. FightsBut(more, first) = FightsBut(facts, first)
  <2>1. {FightOf(more, d) : d \in Firsts(facts) \ {first}}
             = {FightOf(facts, d) : d \in Firsts(facts) \ {first}}
    BY <1>8
  <2>2. QED BY <1>4, <2>1 DEF FightsBut
<1>11. c.fight.open /\ c.fight.last = f.at
  BY DEF Window
<1>12. n \in HeroDeaths(more) /\ \A d \in HeroDeaths(more) : d <= n
  <2>1. \A d \in HeroDeaths(facts) : d <= n
    BY <1>1 DEF HeroDeaths
  <2>2. QED BY <1>1, <1>3, <2>1
<1>13. LastFight(more, c, first, n)
  BY <1>1, <1>2, <1>4, <1>9, <1>10, <1>11, <1>12 DEF LastFight
<1>14. QED BY <1>13 DEF FightsTold, more

LEMMA NoFightsNone ==
    ASSUME NEW facts, HeroDeaths(facts) = {}
    PROVE  Fights(facts) = {} /\ IsFiniteSet(Fights(facts)) /\ Cardinality(Fights(facts)) = 0
<1>1. Firsts(facts) = {}
  BY DEF Firsts
<1>2. Fights(facts) = {}
  BY <1>1, FightsAre
<1>3. QED BY <1>2, FS_EmptySet

LEMMA FightsByDeath ==
    ASSUME NEW facts \in Seq(FactT), NEW f \in FactT, NEW b \in BuildT,
           FightsTold(facts, b), IsHeroDeath(f), Ordered(Append(facts, f))
    PROVE  FightsTold(Append(facts, f), HandleDeath(b, f))
<1>. DEFINE c == HandleDeath(b, f)
            fight == IF Quiet(b, f) \/ ~b.fight.open
                     THEN Window(f.at, f.at, {f.account}, <<f.src>>)
                     ELSE Window(b.fight.start, f.at, b.fight.accounts \cup {f.account},
                                 Append(b.fight.seqs, f.src))
            list == IF Quiet(b, f) /\ Cardinality(b.fight.accounts) >= 2
                    THEN Append(b.list, FightSoFar(b.fight)) ELSE b.list
            rounds == [b.rounds EXCEPT ![f.account] = <<f.at>>]
<1>1. c.list = list /\ c.fight = fight
  <2>1. c = Carries(list, rounds, fight, b.smokes)
    BY HandleDeathIs DEF IsHeroDeath
  <2>. HIDE DEF c, list, fight, rounds
  <2>2. QED BY <2>1, CarriesHas
<1>. HIDE DEF c
<1>2. CASE NoFights(facts, b)
  <2>1. ~b.fight.open /\ HeroDeaths(facts) = {} /\ ~Quiet(b, f)
    BY <1>2 DEF NoFights, Quiet
  <2>2. c.list = b.list /\ c.fight = Window(f.at, f.at, {f.account}, <<f.src>>)
    BY <1>1, <2>1
  <2>3. AllOf(c.list, "fight") = Fights(facts) /\ IsFiniteSet(Fights(facts))
        /\ Cardinality(ToldOf(c.list, "fight")) = Cardinality(Fights(facts))
    BY <1>2, <2>1, <2>2, NoFightsNone DEF NoFights
  <2>4. FightsTold(Append(facts, f), c)
    BY <2>1, <2>2, <2>3, FightsBegin
  <2>5. QED BY <2>4 DEF c
<1>3. ASSUME NEW first, NEW last, LastFight(facts, b, first, last)
      PROVE  FightsTold(Append(facts, f), c)
  <2>1. b.fight.open /\ b.fight.last = facts[last].at /\ last \in HeroDeaths(facts)
        /\ \A d \in HeroDeaths(facts) : d <= last
    BY <1>3 DEF LastFight
  <2>2. CASE Quiet(b, f)
    <3>1. f.at - facts[last].at > FightGap
      BY <2>1, <2>2 DEF Quiet
    <3>2. ASSUME NEW d \in HeroDeaths(facts) PROVE f.at - facts[d].at > FightGap
      <4>1. d \in Nat /\ last \in Nat /\ facts[d].at \in Int /\ facts[last].at \in Int
            /\ f.at \in Int /\ FightGap \in Int
        BY <2>1, DeathIs, FactIs, EpisodesAssumption
      <4>2. facts[d].at <= facts[last].at
        <5>1. CASE d = last
          BY <4>1, <5>1
        <5>2. CASE d # last
          <6>1. d < last
            BY <2>1, <4>1, <5>2
          <6>2. d \in HeroDeaths(Append(facts, f)) /\ last \in HeroDeaths(Append(facts, f))
            BY <2>1, HeroDeathsMore
          <6>3. Append(facts, f)[d] = facts[d] /\ Append(facts, f)[last] = facts[last]
            <7>1. d \in DOMAIN facts /\ last \in DOMAIN facts
              BY <2>1 DEF HeroDeaths
            <7>2. QED BY <7>1, FactsMore
          <6>4. QED BY <6>1, <6>2, <6>3 DEF Ordered
        <5>3. QED BY <5>1, <5>2
      <4>3. QED BY <3>1, <4>1, <4>2
    <3>3. c.fight = Window(f.at, f.at, {f.account}, <<f.src>>)
      BY <1>1, <2>2
    <3>4. c.list = IF Cardinality(b.fight.accounts) >= 2
                   THEN Append(b.list, FightSoFar(b.fight)) ELSE b.list
      BY <1>1, <2>2
    <3>5. AllOf(c.list, "fight") = Fights(facts) /\ IsFiniteSet(Fights(facts))
          /\ Cardinality(ToldOf(c.list, "fight")) = Cardinality(Fights(facts))
      BY <1>3, <3>4, ClosedTellsAll
    <3>6. QED BY <3>2, <3>3, <3>5, FightsBegin
  <2>3. CASE ~Quiet(b, f)
    <3>1. ~(f.at - facts[last].at > FightGap)
      BY <2>1, <2>3 DEF Quiet
    <3>2. c.list = b.list
          /\ c.fight = Window(b.fight.start, f.at, b.fight.accounts \cup {f.account},
                              Append(b.fight.seqs, f.src))
      BY <1>1, <2>1, <2>3
    <3>3. QED BY <1>3, <3>1, <3>2, FightsJoined
  <2>4. QED BY <2>2, <2>3
<1>4. QED BY <1>2, <1>3 DEF FightsTold, c

\* The last fight is listed in the end.
LEMMA FightsClosed ==
    ASSUME NEW facts \in Seq(FactT), NEW b \in BuildT, FightsTold(facts, b)
    PROVE  /\ AllOf(CloseFight(b).list, "fight") = Fights(facts)
           /\ Cardinality(ToldOf(CloseFight(b).list, "fight")) = Cardinality(Fights(facts))
<1>. DEFINE list == IF b.fight.open /\ Cardinality(b.fight.accounts) >= 2
                    THEN Append(b.list, FightSoFar(b.fight)) ELSE b.list
<1>1. CloseFight(b).list = list
  <2>1. CloseFight(b) = Carries(list, b.rounds, NoFight, b.smokes)
    BY CloseFightIs
  <2>. HIDE DEF list
  <2>2. QED BY <2>1 DEF Carries
<1>2. CASE NoFights(facts, b)
  <2>1. list = b.list
    BY <1>2 DEF NoFights
  <2>2. QED BY <1>1, <1>2, <2>1, NoFightsNone DEF NoFights
<1>3. ASSUME NEW first, NEW last, LastFight(facts, b, first, last)
      PROVE  /\ AllOf(list, "fight") = Fights(facts)
             /\ Cardinality(ToldOf(list, "fight")) = Cardinality(Fights(facts))
  <2>1. b.fight.open
    BY <1>3 DEF LastFight
  <2>2. list = IF Cardinality(b.fight.accounts) >= 2
               THEN Append(b.list, FightSoFar(b.fight)) ELSE b.list
    BY <2>1
  <2>3. QED BY <1>3, <2>2, ClosedTellsAll
<1>4. QED BY <1>1, <1>2, <1>3 DEF FightsTold

\* What is carried tells the facts so far.
Told(facts, b) ==
    /\ b \in BuildT
    /\ RoundsTold(facts, b) /\ SmokesTold(facts, b) /\ ObjectivesTold(facts, b)
    /\ FightsTold(facts, b)

Kept(kind, c, b) ==
    /\ AllOf(c.list, kind) = AllOf(b.list, kind)
    /\ Cardinality(ToldOf(c.list, kind)) = Cardinality(ToldOf(b.list, kind))

LEMMA KeptOther ==
    ASSUME NEW b \in BuildT, NEW c, NEW e \in EpisodeT, NEW kind, e.kind # kind,
           c.list = Append(b.list, e)
    PROVE  Kept(kind, c, b)
<1>1. b.list \in Seq(EpisodeT)
  BY CarriesIs
<1>2. AllOf(Append(b.list, e), kind) = AllOf(b.list, kind)
      /\ ToldOf(Append(b.list, e), kind) = ToldOf(b.list, kind)
  BY <1>1, ToldOther
<1>3. QED BY <1>2 DEF Kept

LEMMA ToldByDeath ==
    ASSUME NEW facts \in Seq(FactT), NEW f \in FactT, NEW b, Told(facts, b),
           IsHeroDeath(f), Ordered(Append(facts, f))
    PROVE  Told(Append(facts, f), HandleDeath(b, f))
<1>. DEFINE c == HandleDeath(b, f)
            fight == IF Quiet(b, f) \/ ~b.fight.open
                     THEN Window(f.at, f.at, {f.account}, <<f.src>>)
                     ELSE Window(b.fight.start, f.at, b.fight.accounts \cup {f.account},
                                 Append(b.fight.seqs, f.src))
            list == IF Quiet(b, f) /\ Cardinality(b.fight.accounts) >= 2
                    THEN Append(b.list, FightSoFar(b.fight)) ELSE b.list
            rounds == [b.rounds EXCEPT ![f.account] = <<f.at>>]
<1>1. b \in BuildT /\ RoundsTold(facts, b) /\ SmokesTold(facts, b) /\ ObjectivesTold(facts, b)
      /\ FightsTold(facts, b)
  BY DEF Told
<1>2. f.type = "death" /\ f.account # Nobody
  BY DEF IsHeroDeath
<1>3. c = Carries(list, rounds, fight, b.smokes) /\ c \in BuildT
  BY <1>1, <1>2, HandleDeathIs
<1>4. c.list = list /\ c.rounds = rounds /\ c.smokes = b.smokes
  <2>. HIDE DEF c, list, fight, rounds
  <2>1. QED BY <1>3, CarriesHas
<1>5. c.list = b.list \/ c.list = Append(b.list, FightSoFar(b.fight))
  BY <1>4
<1>6. c.rounds = [b.rounds EXCEPT ![f.account] = <<f.at>>]
  BY <1>4
<1>7. FightsTold(Append(facts, f), c)
  BY <1>1, FightsByDeath
<1>. HIDE DEF c, list, rounds, fight
<1>8. ASSUME NEW kind, kind # "fight" PROVE Kept(kind, c, b)
  <2>1. FightSoFar(b.fight) \in EpisodeT /\ FightSoFar(b.fight).kind = "fight"
    BY <1>1, CarriesIs, FightTyped, KindsAre
  <2>2. CASE c.list = b.list
    BY <2>2 DEF Kept
  <2>3. CASE c.list = Append(b.list, FightSoFar(b.fight))
    BY <1>1, <1>8, <2>1, <2>3, KeptOther
  <2>4. QED BY <1>5, <2>2, <2>3
<1>9. Kept("round", c, b) /\ Kept("smoke", c, b) /\ Kept("objective", c, b)
  BY <1>8
<1>10. RoundsTold(Append(facts, f), c)
  BY <1>1, <1>2, <1>6, <1>9, RoundsByDeath DEF Kept
<1>11. SmokesTold(Append(facts, f), c)
  BY <1>1, <1>2, <1>4, <1>9, SmokesKept DEF Kept, IsSmoke
<1>12. ObjectivesTold(Append(facts, f), c)
  BY <1>1, <1>2, <1>9, ObjectivesKept DEF Kept
<1>13. Told(Append(facts, f), c)
  BY <1>3, <1>7, <1>10, <1>11, <1>12 DEF Told
<1>14. QED BY <1>13 DEF c

LEMMA ToldByBuyback ==
    ASSUME NEW facts \in Seq(FactT), NEW f \in FactT, NEW b, Told(facts, b),
           f.type = "buyback", f.account # Nobody, b.rounds[f.account] # NoRound
    PROVE  Told(Append(facts, f), HandleBuyback(b, f))
<1>. DEFINE c == HandleBuyback(b, f)
            rounds == [b.rounds EXCEPT ![f.account] = NoRound]
<1>1. b \in BuildT /\ RoundsTold(facts, b) /\ SmokesTold(facts, b) /\ ObjectivesTold(facts, b)
      /\ FightsTold(facts, b)
  BY DEF Told
<1>2. PICK died \in Int :
          /\ b.rounds[f.account] = <<died>>
          /\ \A x : x.list = Append(b.list, RoundOf(died, f)) /\ x.rounds = rounds
                        => RoundsTold(Append(facts, f), x)
  BY <1>1, RoundsByBuyback
<1>. DEFINE e == RoundOf(died, f)
            list == Append(b.list, e)
<1>3. c = Carries(list, rounds, b.fight, b.smokes) /\ c \in BuildT
  <2>1. b.rounds[f.account][1] = died
    BY <1>2
  <2>2. QED BY <1>1, <2>1, HandleBuybackIs
<1>4. c.list = list /\ c.rounds = rounds /\ c.fight = b.fight /\ c.smokes = b.smokes
  <2>. HIDE DEF c, list, rounds
  <2>1. QED BY <1>3, CarriesHas
<1>5. RoundsTold(Append(facts, f), c)
  <2>. HIDE DEF c, rounds
  <2>1. QED BY <1>2, <1>4
<1>6. e \in EpisodeT /\ e.kind = "round"
  BY <1>2, ListedTyped, KindsAre
<1>. HIDE DEF c, rounds, e
<1>7. Kept("fight", c, b) /\ Kept("smoke", c, b) /\ Kept("objective", c, b)
  BY <1>1, <1>4, <1>6, KeptOther
<1>8. FightsTold(Append(facts, f), c)
  BY <1>1, <1>4, <1>7, FightsKept DEF Kept, IsHeroDeath
<1>9. SmokesTold(Append(facts, f), c)
  BY <1>1, <1>4, <1>7, SmokesKept DEF Kept, IsSmoke
<1>10. ObjectivesTold(Append(facts, f), c)
  BY <1>1, <1>7, ObjectivesKept DEF Kept
<1>11. Told(Append(facts, f), c)
  BY <1>3, <1>5, <1>8, <1>9, <1>10 DEF Told
<1>12. QED BY <1>11 DEF c

LEMMA ToldByBuilding ==
    ASSUME NEW facts \in Seq(FactT), NEW f \in FactT, NEW b, Told(facts, b),
           f.type = "building", f.name \in Building
    PROVE  Told(Append(facts, f), HandleObjective(b, f))
<1>. DEFINE c == HandleObjective(b, f)
            e == ObjectiveOf(f)
            list == Append(b.list, e)
<1>1. b \in BuildT /\ RoundsTold(facts, b) /\ SmokesTold(facts, b) /\ ObjectivesTold(facts, b)
      /\ FightsTold(facts, b)
  BY DEF Told
<1>2. c = Carries(list, b.rounds, b.fight, b.smokes) /\ c \in BuildT
  BY <1>1, HandleObjectiveIs
<1>3. c.list = list /\ c.rounds = b.rounds /\ c.fight = b.fight /\ c.smokes = b.smokes
  <2>. HIDE DEF c, list
  <2>1. QED BY <1>2, CarriesHas
<1>4. ObjectivesTold(Append(facts, f), c)
  BY <1>1, <1>3, ObjectivesGrow
<1>5. e \in EpisodeT /\ e.kind = "objective"
  <2>1. 0 \in Int
    OBVIOUS
  <2>2. QED BY <2>1, ListedTyped, KindsAre
<1>. HIDE DEF c, e
<1>6. Kept("fight", c, b) /\ Kept("smoke", c, b) /\ Kept("round", c, b)
  BY <1>1, <1>3, <1>5, KeptOther
<1>7. FightsTold(Append(facts, f), c)
  BY <1>1, <1>3, <1>6, FightsKept DEF Kept, IsHeroDeath
<1>8. SmokesTold(Append(facts, f), c)
  BY <1>1, <1>3, <1>6, SmokesKept DEF Kept, IsSmoke
<1>9. RoundsTold(Append(facts, f), c)
  BY <1>1, <1>3, <1>6, RoundsKept DEF Kept
<1>10. Told(Append(facts, f), c)
  BY <1>2, <1>4, <1>7, <1>8, <1>9 DEF Told
<1>11. QED BY <1>10 DEF c

LEMMA ToldByModifier ==
    ASSUME NEW facts \in Seq(FactT), NEW f \in FactT, NEW b, Told(facts, b),
           f.type = "modifier", f.name # "off", SmokeKey(f) \notin b.smokes
    PROVE  Told(Append(facts, f), HandleSmoke(b, f))
<1>. DEFINE c == HandleSmoke(b, f)
            e == SmokeOf(f)
            list == Append(b.list, e)
            smokes == b.smokes \cup {SmokeKey(f)}
<1>1. b \in BuildT /\ RoundsTold(facts, b) /\ SmokesTold(facts, b) /\ ObjectivesTold(facts, b)
      /\ FightsTold(facts, b)
  BY DEF Told
<1>2. c = Carries(list, b.rounds, b.fight, smokes) /\ c \in BuildT
  BY <1>1, HandleSmokeIs DEF SmokeKey
<1>3. c.list = list /\ c.rounds = b.rounds /\ c.fight = b.fight /\ c.smokes = smokes
  <2>. HIDE DEF c, list, smokes
  <2>1. QED BY <1>2, CarriesHas
<1>4. SmokesTold(Append(facts, f), c)
  BY <1>1, <1>3, SmokesGrow DEF IsSmoke
<1>5. e \in EpisodeT /\ e.kind = "smoke"
  <2>1. 0 \in Int
    OBVIOUS
  <2>2. QED BY <2>1, ListedTyped, KindsAre
<1>. HIDE DEF c, e
<1>6. Kept("fight", c, b) /\ Kept("objective", c, b) /\ Kept("round", c, b)
  BY <1>1, <1>3, <1>5, KeptOther
<1>7. FightsTold(Append(facts, f), c)
  BY <1>1, <1>3, <1>6, FightsKept DEF Kept, IsHeroDeath
<1>8. ObjectivesTold(Append(facts, f), c)
  BY <1>1, <1>3, <1>6, ObjectivesKept DEF Kept
<1>9. RoundsTold(Append(facts, f), c)
  BY <1>1, <1>3, <1>6, RoundsKept DEF Kept
<1>10. Told(Append(facts, f), c)
  BY <1>2, <1>4, <1>7, <1>8, <1>9 DEF Told
<1>11. QED BY <1>10 DEF c

\* One more fact is told.
LEMMA ToldMore ==
    ASSUME NEW facts \in Seq(FactT), NEW f \in FactT, NEW b, Told(facts, b),
           Ordered(Append(facts, f))
    PROVE  Told(Append(facts, f), HandleFact(b, f))
<1>1. HandleFactIs(b, f, HandleFact(b, f))
  BY HandleFactCases
<1>2. CASE f.type = "death" /\ f.account # Nobody /\ HandleFact(b, f) = HandleDeath(b, f)
  BY <1>2, ToldByDeath DEF IsHeroDeath
<1>3. CASE f.type = "buyback" /\ f.account # Nobody /\ b.rounds[f.account] # NoRound
           /\ HandleFact(b, f) = HandleBuyback(b, f)
  BY <1>3, ToldByBuyback
<1>4. CASE f.type = "building" /\ f.name \in Building /\ HandleFact(b, f) = HandleObjective(b, f)
  BY <1>4, ToldByBuilding
<1>5. CASE f.type = "modifier" /\ f.name # "off" /\ <<f.account, Whole(f.at)>> \notin b.smokes
           /\ HandleFact(b, f) = HandleSmoke(b, f)
  BY <1>5, ToldByModifier DEF SmokeKey
<1>6. CASE /\ f.type = "death" => f.account = Nobody
           /\ f.type = "buyback" => f.account = Nobody \/ b.rounds[f.account] = NoRound
           /\ f.type = "building" => f.name \notin Building
           /\ f.type = "modifier" => f.name = "off" \/ <<f.account, Whole(f.at)>> \in b.smokes
           /\ HandleFact(b, f) = b
  <2>1. b \in BuildT /\ RoundsTold(facts, b) /\ SmokesTold(facts, b) /\ ObjectivesTold(facts, b)
        /\ FightsTold(facts, b)
    BY DEF Told
  <2>2. FightsTold(Append(facts, f), b)
    BY <1>6, <2>1, FightsKept DEF IsHeroDeath
  <2>3. SmokesTold(Append(facts, f), b)
    BY <1>6, <2>1, SmokesKept DEF IsSmoke, SmokeKey
  <2>4. ObjectivesTold(Append(facts, f), b)
    BY <1>6, <2>1, ObjectivesKept
  <2>5. RoundsTold(Append(facts, f), b)
    <3>1. f.type \in {"death", "buyback"} => f.account = Nobody \/ b.rounds[f.account] = NoRound
      BY <1>6
    <3>2. \/ f.type \notin {"death", "buyback"} \/ f.account = Nobody
          \/ f.type = "buyback" /\ b.rounds[f.account] = NoRound
      BY <1>6
    <3>3. QED BY <2>1, <3>2, RoundsKept
  <2>6. QED BY <1>6, <2>1, <2>2, <2>3, <2>4, <2>5 DEF Told
<1>7. QED BY <1>1, <1>2, <1>3, <1>4, <1>5, <1>6 DEF HandleFactIs

LEMMA ToldNone == Told(<<>>, NewBuild)
<1>. DEFINE b == NewBuild
            none == [h \in Hero |-> NoRound]
<1>1. b = Carries(<<>>, none, NoFight, {})
  BY DEF NewBuild, Carries
<1>2. b.list = <<>> /\ b.rounds = none /\ b.fight = NoFight /\ b.smokes = {}
  BY DEF NewBuild
<1>3. b \in BuildT
  <2>1. NoFight \in FightT /\ none \in [Hero -> Seq(Int)]
    BY DEF NoFight, FightT, NoRound
  <2>2. <<>> \in Seq(EpisodeT) /\ {} \in SUBSET (Whose \X Int)
    OBVIOUS
  <2>. HIDE DEF b, none
  <2>3. QED BY <1>1, <2>1, <2>2, CarriesTyped
<1>4. DOMAIN <<>> = {}
  OBVIOUS
<1>5. HeroDeaths(<<>>) = {}
  BY <1>4 DEF HeroDeaths
<1>6. \A kind : ToldOf(<<>>, kind) = {} /\ AllOf(<<>>, kind) = {}
  BY <1>4 DEF ToldOf, AllOf
<1>7. IsFiniteSet({}) /\ Cardinality({}) = 0
  BY FS_EmptySet
<1>8. <<>> \in Seq(FactT)
  OBVIOUS
<1>. HIDE DEF b
<1>9. RoundsTold(<<>>, b)
  <2>1. RoundEnds(<<>>) = {}
    BY <1>5 DEF RoundEnds
  <2>2. Rounds(<<>>) = {}
    BY <2>1, RoundsAre
  <2>3. \A h, d : ~OpenRound(<<>>, h, d)
    BY <1>4 DEF OpenRound
  <2>4. \A h \in Hero : b.rounds[h] = NoRound
    BY <1>2
  <2>5. QED BY <1>2, <1>6, <2>1, <2>2, <2>3, <2>4 DEF RoundsTold
<1>10. SmokesTold(<<>>, b)
  <2>1. FirstSmokes(<<>>) = {}
    BY <1>4 DEF FirstSmokes
  <2>2. Smokes(<<>>) = {}
    BY <1>8, <2>1, SmokesAre
  <2>3. QED BY <1>2, <1>4, <1>6, <1>7, <2>2 DEF SmokesTold
<1>11. ObjectivesTold(<<>>, b)
  <2>1. Objectives(<<>>) = {}
    BY <1>4 DEF Objectives
  <2>2. QED BY <1>2, <1>6, <1>7, <2>1 DEF ObjectivesTold
<1>12. FightsTold(<<>>, b)
  <2>1. ~NoFight.open
    BY DEF NoFight
  <2>2. NoFights(<<>>, b)
    BY <1>2, <1>5, <1>6, <1>7, <2>1 DEF NoFights
  <2>3. QED BY <2>2 DEF FightsTold
<1>13. QED BY <1>3, <1>9, <1>10, <1>11, <1>12 DEF Told, b

LEMMA HandleFactTyped ==
    ASSUME NEW b \in BuildT, NEW f \in FactT
    PROVE  HandleFact(b, f) \in BuildT
<1>1. HandleFactIs(b, f, HandleFact(b, f))
  BY HandleFactCases
<1>2. CASE f.type = "death" /\ f.account # Nobody /\ HandleFact(b, f) = HandleDeath(b, f)
  BY <1>2, HandleDeathIs
<1>3. CASE f.type = "buyback" /\ f.account # Nobody /\ b.rounds[f.account] # NoRound
           /\ HandleFact(b, f) = HandleBuyback(b, f)
  <2>1. b.rounds[f.account] \in Seq(Int)
    BY <1>3, FactIs, CarriesIs
  <2>2. b.rounds[f.account][1] \in Int
    BY <1>3, <2>1 DEF NoRound
  <2>3. QED BY <1>3, <2>2, HandleBuybackIs
<1>4. CASE f.type = "building" /\ f.name \in Building /\ HandleFact(b, f) = HandleObjective(b, f)
  BY <1>4, HandleObjectiveIs
<1>5. CASE f.type = "modifier" /\ f.name # "off" /\ <<f.account, Whole(f.at)>> \notin b.smokes
           /\ HandleFact(b, f) = HandleSmoke(b, f)
  BY <1>5, HandleSmokeIs
<1>6. CASE HandleFact(b, f) = b
  BY <1>6
<1>7. QED BY <1>1, <1>2, <1>3, <1>4, <1>5, <1>6 DEF HandleFactIs

\* What Build carries, from the front.
LEMMA BuildIs ==
    ASSUME NEW facts \in Seq(FactT)
    PROVE  \E f \in [0 .. Len(facts) -> BuildT] :
              /\ f[0] = NewBuild
              /\ \A n \in 1 .. Len(facts) : f[n] = HandleFact(f[n - 1], facts[n])
              /\ Build(facts) = CloseFight(f[Len(facts)]).list
<1>. DEFINE N == Len(facts)
            step(n) == [b \in BuildT |-> HandleFact(b, facts[n])]
            g == [n \in 1 .. N |-> step(n)]
            Body(f, n) == IF n = 0 THEN NewBuild ELSE HandleFact(f[n - 1], facts[n])
            Pass(f) == f = [n \in 0 .. N |-> Body(f, n)]
<1>1. N \in Nat /\ NewBuild \in BuildT
  BY ToldNone DEF Told
<1>2. ASSUME NEW n \in 1 .. N PROVE step(n) \in [BuildT -> BuildT]
  <2>1. facts[n] \in FactT
    OBVIOUS
  <2>2. QED BY <2>1, HandleFactTyped
<1>3. g \in [1 .. N -> [BuildT -> BuildT]]
  <2>. HIDE DEF step
  <2>1. QED BY <1>2
<1>4. PICK f \in [0 .. N -> BuildT] : PassesOver(f, NewBuild, g, N)
  <2>. HIDE DEF g, N
  <2>1. QED BY <1>1, <1>3, PassIs
<1>5. ASSUME NEW n \in 1 .. N PROVE f[n] = HandleFact(f[n - 1], facts[n])
  <2>1. f[n - 1] \in BuildT
    <3>1. n - 1 \in 0 .. N
      BY <1>1
    <3>. HIDE DEF N
    <3>2. QED BY <3>1
  <2>2. f[n] = g[n][f[n - 1]]
    BY <1>4 DEF PassesOver
  <2>3. g[n] = step(n)
    OBVIOUS
  <2>4. step(n)[f[n - 1]] = HandleFact(f[n - 1], facts[n])
    BY <2>1
  <2>. HIDE DEF g, step
  <2>5. QED BY <2>2, <2>3, <2>4
<1>6. f[0] = NewBuild
  BY <1>4 DEF PassesOver
<1>7. Pass(f)
  <2>1. ASSUME NEW n \in 0 .. N PROVE f[n] = Body(f, n)
    <3>1. n = 0 \/ n \in 1 .. N
      BY <1>1
    <3>2. QED BY <1>5, <1>6, <3>1
  <2>. HIDE DEF Body
  <2>2. QED BY <2>1
<1>8. ASSUME NEW h, Pass(h) PROVE h[N] = f[N]
  <2>1. ASSUME NEW n \in 0 .. N PROVE h[n] = Body(h, n)
    <3>. HIDE DEF Body
    <3>1. QED BY <1>8
  <2>. DEFINE Same == {n \in Nat : n <= N => h[n] = f[n]}
  <2>2. 0 \in Same
    BY <1>1, <1>6, <2>1
  <2>3. ASSUME NEW n \in Same PROVE n + 1 \in Same
    <3>1. SUFFICES ASSUME n + 1 <= N PROVE h[n + 1] = f[n + 1]
      OBVIOUS
    <3>2. n \in Nat /\ n + 1 \in 0 .. N /\ n + 1 \in 1 .. N /\ (n + 1) - 1 = n /\ n + 1 # 0
          /\ h[n] = f[n]
      BY <1>1, <3>1
    <3>3. h[n + 1] = Body(h, n + 1) /\ f[n + 1] = HandleFact(f[(n + 1) - 1], facts[n + 1])
      BY <1>5, <2>1, <3>2
    <3>4. QED BY <3>2, <3>3
  <2>4. N \in Same
    <3>. HIDE DEF Same
    <3>1. Same \in SUBSET Nat
      BY DEF Same
    <3>2. QED BY <1>1, <2>2, <2>3, <3>1, Climb
  <2>5. QED BY <1>1, <2>4
<1>9. Build(facts) = CloseFight(f[N]).list
  <2>1. \E h : h = (CHOOSE k : Pass(k)) /\ Build(facts) = CloseFight(h[N]).list
    BY DEF Build
  <2>2. PICK h : h = (CHOOSE k : Pass(k)) /\ Build(facts) = CloseFight(h[N]).list
    BY <2>1
  <2>. HIDE DEF Pass
  <2>3. Pass(h)
    BY <1>7, <2>2
  <2>4. QED BY <1>8, <2>2, <2>3
<1>10. QED BY <1>5, <1>6, <1>9

LEMMA OrderedFirst ==
    ASSUME NEW facts \in Seq(FactT), NEW n \in 0 .. Len(facts), Ordered(facts)
    PROVE  Ordered(SubSeq(facts, 1, n))
<1>. DEFINE part == SubSeq(facts, 1, n)
<1>1. DOMAIN part = 1 .. n /\ \A i \in 1 .. n : part[i] = facts[i] /\ i \in DOMAIN facts
  OBVIOUS
<1>. HIDE DEF part
<1>2. \A d \in HeroDeaths(part) : d \in HeroDeaths(facts) /\ part[d] = facts[d]
  BY <1>1 DEF HeroDeaths
<1>3. Ordered(part)
  BY <1>2 DEF Ordered
<1>4. QED BY <1>3 DEF part

\* Build tells the facts.
LEMMA BuildTells ==
    ASSUME NEW facts \in Seq(FactT), Ordered(facts)
    PROVE  \E b : Told(facts, b) /\ Build(facts) = CloseFight(b).list
<1>. DEFINE N == Len(facts)
<1>1. PICK f \in [0 .. N -> BuildT] :
              /\ f[0] = NewBuild
              /\ \A n \in 1 .. N : f[n] = HandleFact(f[n - 1], facts[n])
              /\ Build(facts) = CloseFight(f[N]).list
  BY BuildIs
<1>. DEFINE S == {n \in Nat : n <= N => Told(SubSeq(facts, 1, n), f[n])}
<1>2. N \in Nat
  OBVIOUS
<1>3. 0 \in S
  <2>1. SubSeq(facts, 1, 0) = <<>>
    OBVIOUS
  <2>2. QED BY <1>1, <2>1, ToldNone
<1>4. ASSUME NEW n \in S PROVE n + 1 \in S
  <2>1. SUFFICES ASSUME n + 1 <= N PROVE Told(SubSeq(facts, 1, n + 1), f[n + 1])
    OBVIOUS
  <2>2. n \in Nat /\ n + 1 \in 1 .. N /\ (n + 1) - 1 = n /\ n <= N /\ n + 1 \in 0 .. N
    BY <2>1
  <2>3. Told(SubSeq(facts, 1, n), f[n])
    BY <2>2
  <2>4. f[n + 1] = HandleFact(f[n], facts[n + 1])
    BY <1>1, <2>2
  <2>5. SubSeq(facts, 1, n) \in Seq(FactT) /\ facts[n + 1] \in FactT
        /\ SubSeq(facts, 1, n + 1) = Append(SubSeq(facts, 1, n), facts[n + 1])
    BY <2>2
  <2>6. Ordered(SubSeq(facts, 1, n + 1))
    BY <2>2, OrderedFirst
  <2>7. QED BY <2>3, <2>4, <2>5, <2>6, ToldMore
<1>5. N \in S
  <2>. HIDE DEF S
  <2>1. S \in SUBSET Nat
    BY DEF S
  <2>2. QED BY <1>2, <1>3, <1>4, <2>1, Climb
<1>6. SubSeq(facts, 1, N) = facts
  OBVIOUS
<1>7. Told(facts, f[N])
  BY <1>2, <1>5, <1>6
<1>8. QED BY <1>1, <1>7

\* The episodes of a list of facts tell it.
TellsMatch(list, facts) ==
    /\ AllOf(list, "fight") = Fights(facts)
    /\ AllOf(list, "round") = Rounds(facts)
    /\ AllOf(list, "smoke") = Smokes(facts)
    /\ Cardinality(ToldOf(list, "fight")) = Cardinality(Fights(facts))
    /\ Cardinality(ToldOf(list, "round")) = Cardinality(RoundEnds(facts))
    /\ Cardinality(ToldOf(list, "smoke")) = Cardinality(Smokes(facts))
    /\ Cardinality(ToldOf(list, "objective")) = Cardinality(Objectives(facts))
    /\ \A e \in AllOf(list, "objective") : Tells_objective(facts, e)

LEMMA BuildTellsMatch ==
    ASSUME NEW facts \in Seq(FactT), Ordered(facts)
    PROVE  TellsMatch(Build(facts), facts)
<1>1. PICK b : Told(facts, b) /\ Build(facts) = CloseFight(b).list
  BY BuildTells
<1>2. b \in BuildT /\ RoundsTold(facts, b) /\ SmokesTold(facts, b) /\ ObjectivesTold(facts, b)
      /\ FightsTold(facts, b)
  BY <1>1 DEF Told
<1>. DEFINE c == CloseFight(b)
<1>3. c.list = b.list \/ c.list = Append(b.list, FightSoFar(b.fight))
  <2>. DEFINE list == IF b.fight.open /\ Cardinality(b.fight.accounts) >= 2
                      THEN Append(b.list, FightSoFar(b.fight)) ELSE b.list
  <2>1. c = Carries(list, b.rounds, NoFight, b.smokes)
    BY <1>2, CloseFightIs
  <2>2. c.list = list
    <3>. HIDE DEF list, c
    <3>1. QED BY <2>1 DEF Carries
  <2>3. QED BY <2>2
<1>4. AllOf(c.list, "fight") = Fights(facts)
      /\ Cardinality(ToldOf(c.list, "fight")) = Cardinality(Fights(facts))
  BY <1>2, FightsClosed
<1>. HIDE DEF c
<1>5. ASSUME NEW kind, kind # "fight" PROVE Kept(kind, c, b)
  <2>1. FightSoFar(b.fight) \in EpisodeT /\ FightSoFar(b.fight).kind = "fight"
    BY <1>2, CarriesIs, FightTyped, KindsAre
  <2>2. CASE c.list = b.list
    BY <2>2 DEF Kept
  <2>3. CASE c.list = Append(b.list, FightSoFar(b.fight))
    BY <1>2, <1>5, <2>1, <2>3, KeptOther
  <2>4. QED BY <1>3, <2>2, <2>3
<1>6. Kept("round", c, b) /\ Kept("smoke", c, b) /\ Kept("objective", c, b)
  BY <1>5
<1>7. TellsMatch(c.list, facts)
  BY <1>2, <1>4, <1>6 DEF TellsMatch, Kept, RoundsTold, SmokesTold, ObjectivesTold
<1>8. QED BY <1>1, <1>7 DEF c

\* Deaths are listed in the order they happened, up to now.
Past(facts, now) == Ordered(facts) /\ \A d \in HeroDeaths(facts) : facts[d].at <= now

EpisodesInv ==
    /\ Past(file, Now)
    /\ stage \in {"episodes", "done"} => episodes = Build(file)

LEMMA PastMore ==
    ASSUME NEW facts \in Seq(FactT), NEW f \in FactT, NEW now \in Int, Past(facts, now),
           NEW later \in Int, now <= later, IsHeroDeath(f) => f.at = later
    PROVE  Past(Append(facts, f), later) /\ Past(facts, later)
<1>. DEFINE more == Append(facts, f)
            n == Len(facts) + 1
<1>1. /\ more[n] = f /\ n \in Nat
      /\ \A i \in DOMAIN facts : more[i] = facts[i] /\ i < n /\ i \in Nat
  BY FactsMore
<1>2. HeroDeaths(more) = HeroDeaths(facts) \cup (IF IsHeroDeath(f) THEN {n} ELSE {})
      /\ n \notin HeroDeaths(facts)
  BY HeroDeathsMore
<1>3. ASSUME NEW d \in HeroDeaths(facts)
      PROVE  more[d] = facts[d] /\ facts[d].at <= later /\ facts[d].at \in Int /\ ~(n < d)
  <2>1. d \in DOMAIN facts /\ facts[d].at \in Int /\ facts[d].at <= now
    BY DeathIs DEF Past
  <2>2. more[d] = facts[d] /\ d < n /\ d \in Nat
    BY <1>1, <2>1
  <2>. HIDE DEF more, n
  <2>3. QED BY <1>1, <2>1, <2>2
<1>. HIDE DEF more, n
<1>4. ASSUME NEW c \in HeroDeaths(more), NEW d \in HeroDeaths(more), c < d
      PROVE  more[c].at <= more[d].at
  <2>1. CASE c \in HeroDeaths(facts) /\ d \in HeroDeaths(facts)
    BY <1>3, <1>4, <2>1 DEF Past, Ordered
  <2>2. CASE d = n /\ IsHeroDeath(f)
    <3>1. more[d].at = later
      BY <1>1, <2>2
    <3>2. ~(n < n)
      BY <1>1
    <3>3. c \in HeroDeaths(facts)
      BY <1>2, <1>4, <2>2, <3>2
    <3>4. QED BY <1>3, <3>1, <3>3
  <2>3. CASE c = n /\ IsHeroDeath(f) /\ d \in HeroDeaths(facts)
    BY <1>3, <1>4, <2>3
  <2>4. QED BY <1>2, <2>1, <2>2, <2>3
<1>5. ASSUME NEW d \in HeroDeaths(more) PROVE more[d].at <= later
  BY <1>1, <1>2, <1>3
<1>6. Past(more, later)
  BY <1>4, <1>5 DEF Past, Ordered
<1>7. Past(facts, later)
  BY <1>3 DEF Past
<1>8. QED BY <1>6, <1>7 DEF more

LEMMA NowIs ==
    ASSUME FactsTyped
    PROVE  Now \in Int
<1>1. FirstTime \in Int
  BY FactsAssumption
<1>2. ASSUME raw # <<>> PROVE Last(raw).now \in Int
  <2>1. raw \in Seq(Reading) /\ Len(raw) \in 1 .. Len(raw)
    BY <1>2 DEF FactsTyped
  <2>2. raw[Len(raw)] \in Reading
    BY <2>1
  <2>3. QED BY <2>2 DEF Last, Reading
<1>3. QED BY <1>1, <1>2 DEF Now

\* Encode adds the fact or nothing.
LEMMA EncodePast ==
    ASSUME FactsTyped, NEW x \in FactT, Encode(x) \/ UNCHANGED file, NEW now \in Int,
           Past(file, now), NEW later \in Int, now <= later, IsHeroDeath(x) => x.at = later
    PROVE  Past(file', later)
<1>1. file \in Seq(FactT) /\ (file' = file \/ file' = Append(file, x))
  BY DEF FactsTyped, Encode
<1>2. Past(Append(file, x), later) /\ Past(file, later)
  BY <1>1, PastMore
<1>3. QED BY <1>1, <1>2

LEMMA ReadsNow ==
    ASSUME FactsTyped, NEW e \in feed, NEW step \in Steps, NEW at \in Int, at >= Now + step,
           Reads(e, Now + step, at)
    PROVE  /\ Now \in Int /\ Now + step \in Int /\ Now <= Now + step /\ Now' = Now + step
           /\ Last(raw') = [entry |-> e, now |-> Now + step, at |-> at]
<1>1. Now \in Int /\ step \in Nat
  BY NowIs, FactsAssumption
<1>2. PICK now : now = Now + step
  OBVIOUS
<1>3. now \in Int /\ Now <= now /\ at >= now /\ Reads(e, now, at)
  BY <1>1, <1>2
<1>4. /\ Last(raw') = [entry |-> e, now |-> now, at |-> at]
      /\ Len(raw') = Len(raw) + 1
  <2>1. e \in Entry /\ raw \in Seq(Reading)
    BY FeedsAre DEF FactsTyped
  <2>2. QED BY <1>3, <2>1, ReadsTyped
<1>5. raw' # <<>>
  <2>1. Len(raw) \in Nat
    BY DEF FactsTyped
  <2>2. QED BY <1>4, <2>1
<1>6. Now' = now
  BY <1>4, <1>5 DEF Now
<1>7. QED BY <1>1, <1>2, <1>3, <1>4, <1>6

LEMMA EmitCombatPast ==
    ASSUME FactsInv, Past(file, Now), NEW e \in feed, NEW step \in Steps, e.kind = "combat",
           EmitCombat(e, Now + step)
    PROVE  Past(file', Now')
<1>. DEFINE r == [entry |-> e, now |-> Now + step, at |-> Now + step]
            x == CombatFact(Last(raw'), CombatSeq(raw'))
<1>1. FactsTyped
  BY DEF FactsInv
<1>2. /\ Now \in Int /\ Now + step \in Int /\ Now <= Now + step /\ Now' = Now + step
      /\ Last(raw') = r
  <2>1. Reads(e, Now + step, Now + step)
    BY DEF EmitCombat
  <2>2. Now \in Int /\ step \in Nat
    BY <1>1, NowIs, FactsAssumption
  <2>3. Now + step \in Int /\ Now + step >= Now + step
    BY <2>2
  <2>4. QED BY <1>1, <2>1, <2>3, ReadsNow
<1>3. CASE e.type \notin DOMAIN FamilyOf
  <2>1. file' = file /\ file \in Seq(FactT)
    BY <1>1, <1>3 DEF EmitCombat, FactsTyped
  <2>2. \A d \in HeroDeaths(file) : file[d].at <= Now + step
    BY <1>2, <2>1, DeathIs DEF Past
  <2>3. QED BY <1>2, <2>1, <2>2 DEF Past
<1>4. CASE e.type \in DOMAIN FamilyOf
  <2>1. Encode(x)
    BY <1>4 DEF EmitCombat
  <2>2. r \in Reading /\ r.entry = e
    <3>1. e \in Entry
      BY <1>1, FeedsAre
    <3>2. QED BY <1>2, <3>1 DEF Reading
  <2>3. CombatSeq(raw') \in Nat
    <3>1. raw' \in Seq(Reading)
      <4>1. FactsInv'
        BY EmitCombatInv
      <4>2. QED BY <4>1 DEF FactsInv, FactsTyped
    <3>2. IsFiniteSet(DOMAIN raw')
      <4>1. DOMAIN raw' = 1 .. Len(raw')
        BY <3>1
      <4>2. QED BY <3>1, <4>1, FS_Interval
    <3>3. IsFiniteSet({i \in DOMAIN raw' : raw'[i].entry.kind = "combat"})
      BY <3>2, FS_Subset
    <3>4. QED BY <3>3, FS_CardinalityType DEF CombatSeq
  <2>. HIDE DEF r
  <2>4. x \in FactT
    BY <1>2, <1>4, <2>2, <2>3, CombatTyped
  <2>5. x.at = Now + step
    <3>1. x.at = Last(raw').at
      BY DEF CombatFact, Fact
    <3>2. QED BY <1>2, <3>1 DEF r
  <2>. HIDE DEF x
  <2>6. QED BY <1>1, <1>2, <2>1, <2>4, <2>5, EncodePast
<1>5. QED BY <1>3, <1>4

LEMMA SamplePast ==
    ASSUME FactsInv, Past(file, Now), NEW e \in feed, NEW step \in Steps, e.kind = "hero_state",
           Sample(e, Now + step)
    PROVE  Past(file', Now')
<1>. DEFINE now == Now + step
            at == now + paused
            r == [entry |-> e, now |-> now, at |-> at]
            x == SampleFact(Last(raw'))
<1>1. FactsTyped
  BY DEF FactsInv
<1>2. /\ Now \in Int /\ now \in Int /\ Now <= now /\ Now' = now /\ at \in Int
      /\ Last(raw') = r
  <2>1. Reads(e, now, at)
    BY DEF Sample
  <2>2. Now \in Int /\ step \in Nat /\ paused \in Nat
    BY <1>1, NowIs, FactsAssumption DEF FactsTyped
  <2>3. at \in Int /\ at >= now
    BY <2>2
  <2>. HIDE DEF at
  <2>4. QED BY <1>1, <2>1, <2>3, ReadsNow
<1>3. CASE file' = file
  <2>1. file \in Seq(FactT)
    BY <1>1 DEF FactsTyped
  <2>2. \A d \in HeroDeaths(file) : file[d].at <= now
    BY <1>2, <2>1, DeathIs DEF Past
  <2>3. QED BY <1>2, <1>3, <2>2 DEF Past
<1>4. CASE e.hero \in Hero /\ Encode(x)
  <2>1. r \in Reading /\ r.entry = e
    <3>1. e \in Entry
      BY <1>1, FeedsAre
    <3>2. QED BY <1>2, <3>1 DEF Reading
  <2>. HIDE DEF r
  <2>2. x \in FactT
    BY <1>2, <1>4, <2>1, SampleTyped
  <2>3. ~IsHeroDeath(x)
    <3>1. x.type = "sample"
      BY DEF SampleFact, Fact
    <3>2. QED BY <3>1 DEF IsHeroDeath
  <2>. HIDE DEF x, now
  <2>4. QED BY <1>1, <1>2, <1>4, <2>2, <2>3, EncodePast
<1>5. QED BY <1>3, <1>4 DEF Sample

\* The first lines are no deaths.
LEMMA BeginPast ==
    ASSUME Begin, NEW now
    PROVE  Past(file', now)
<1>1. Header \in Seq(FactT) /\ \A n \in 1 .. Len(Header) : Header[n].type \in {"match", "binding"}
  BY HeaderTyped
<1>2. PICK n \in 0 .. Len(Header) : file' = Header \/ file' = SubSeq(Header, 1, n)
  <2>1. CASE file' = Header
    <3>1. Len(Header) \in 0 .. Len(Header)
      BY <1>1
    <3>2. QED BY <2>1, <3>1
  <2>2. CASE \E n \in 0 .. Len(Header) - 1 : file' = SubSeq(Header, 1, n)
    BY <1>1, <2>2
  <2>3. QED BY <2>1, <2>2 DEF Begin
<1>3. \A i \in DOMAIN file' : file'[i].type # "death"
  <2>1. CASE file' = Header
    BY <1>1, <2>1
  <2>2. CASE file' = SubSeq(Header, 1, n)
    <3>1. DOMAIN file' = 1 .. n /\ \A i \in 1 .. n : file'[i] = Header[i] /\ i \in 1 .. Len(Header)
      BY <1>1, <2>2
    <3>2. QED BY <1>1, <3>1
  <2>3. QED BY <1>2, <2>1, <2>2
<1>4. HeroDeaths(file') = {}
  BY <1>3 DEF HeroDeaths
<1>5. QED BY <1>4 DEF Past, Ordered

LEMMA EpisodesStep == FactsInv /\ EpisodesInv /\ [AnalysisNext]_analysisVars => EpisodesInv'
<1>1. SUFFICES ASSUME FactsInv, EpisodesInv, [AnalysisNext]_analysisVars PROVE EpisodesInv'
  OBVIOUS
<1>2. Past(file, Now) /\ (stage \in {"episodes", "done"} => episodes = Build(file))
  BY <1>1 DEF EpisodesInv
<1>3. ASSUME Past(file', Now'), stage' \notin {"episodes", "done"} PROVE EpisodesInv'
  BY <1>3 DEF EpisodesInv
<1>4. ASSUME UNCHANGED <<raw, file>> PROVE Past(file', Now')
  BY <1>2, <1>4 DEF Now
<1>5. CASE Begin
  BY <1>3, <1>5, BeginPast DEF Begin
<1>6. CASE Pause \/ Publish
  BY <1>3, <1>4, <1>6 DEF Pause, Publish
<1>7. ASSUME NEW e \in feed, NEW step \in Steps, e.kind = "combat", EmitCombat(e, Now + step)
      PROVE  EpisodesInv'
  <2>1. Past(file', Now')
    BY <1>1, <1>2, <1>7, EmitCombatPast
  <2>2. stage' \notin {"episodes", "done"}
    BY <1>7 DEF EmitCombat, Reads
  <2>3. QED BY <1>3, <2>1, <2>2
<1>8. ASSUME NEW e \in feed, NEW step \in Steps, e.kind = "hero_state", Sample(e, Now + step)
      PROVE  EpisodesInv'
  <2>1. Past(file', Now')
    BY <1>1, <1>2, <1>8, SamplePast
  <2>2. stage' \notin {"episodes", "done"}
    BY <1>8 DEF Sample, Reads
  <2>3. QED BY <1>3, <2>1, <2>2
<1>9. CASE BuildEpisodes
  <2>1. Past(file', Now')
    BY <1>4, <1>9 DEF BuildEpisodes
  <2>2. stage' \in {"episodes", "done"} => episodes' = Build(file')
    BY <1>9 DEF BuildEpisodes
  <2>3. QED BY <2>1, <2>2 DEF EpisodesInv
<1>10. CASE BuildMetrics
  <2>1. Past(file', Now')
    BY <1>4, <1>10 DEF BuildMetrics
  <2>2. episodes' = Build(file')
    BY <1>2, <1>10 DEF BuildMetrics
  <2>3. QED BY <2>1, <2>2 DEF EpisodesInv
<1>11. CASE UNCHANGED <<factVars, episodes>>
  <2>1. UNCHANGED <<raw, file, stage, episodes>>
    BY <1>11 DEF factVars
  <2>2. QED BY <1>2, <1>4, <2>1 DEF EpisodesInv
<1>12. CASE FactsNext
  BY <1>5, <1>6, <1>7, <1>8, <1>12 DEF FactsNext
<1>13. QED BY <1>1, <1>9, <1>10, <1>11, <1>12 DEF AnalysisNext, analysisVars

LEMMA EpisodesInvTell == FactsInv /\ EpisodesInv => EpisodesTellMatch
<1>1. SUFFICES ASSUME FactsInv, EpisodesInv, stage \in {"episodes", "done"}
               PROVE  EpisodesTellMatch
  BY DEF EpisodesTellMatch
<1>2. file \in Seq(FactT) /\ Ordered(file) /\ episodes = Build(file)
  BY <1>1 DEF FactsInv, FactsTyped, EpisodesInv, Past
<1>3. TellsMatch(episodes, file)
  BY <1>2, BuildTellsMatch
<1>4. ASSUME NEW i \in ToldOf(episodes, "objective")
      PROVE  \E f \in Objectives(file) :
                   /\ episodes[i].start = file[f].at
                   /\ episodes[i].who \subseteq file[f].helpers \cup {file[f].by}
  <2>1. episodes[i] \in AllOf(episodes, "objective")
    BY DEF AllOf
  <2>2. QED BY <1>3, <2>1 DEF TellsMatch, Tells_objective
<1>5. QED BY <1>3, <1>4 DEF EpisodesTellMatch, TellsMatch, ToldOf, AllOf

\* The episodes are those of the facts, whatever the facts (episodes.Build).
THEOREM EpisodesTold == AnalysisSpec => []EpisodesTellMatch
<1>1. AnalysisInit => EpisodesInv
  <2>1. SUFFICES ASSUME AnalysisInit PROVE EpisodesInv
    OBVIOUS
  <2>2. file = <<>> /\ stage = "start" /\ DOMAIN <<>> = {}
    BY <2>1 DEF AnalysisInit, FactsInit
  <2>3. HeroDeaths(file) = {}
    BY <2>2 DEF HeroDeaths
  <2>4. QED BY <2>2, <2>3 DEF EpisodesInv, Past, Ordered
<1>2. QED BY <1>1, EpisodesStep, AlwaysFacts, EpisodesInvTell, PTL DEF AnalysisSpec

-----------------------------------------------------------------------------
(* The gates.                                                              *)

Message == (UNION DemoFeeds) \cup [kind : {"parse_done"}, build : 0 .. 1]

GatesTyped ==
    /\ manifest \in Manifests /\ messages \in DemoFeeds \cup {{}}
    /\ observed \in Seq(Message)
    /\ gate \in {"parse", "identity", "clock", "accepted", "quarantined", "stopped"}
    /\ Len(observed) <= MaxMessages + (IF gate = "parse" THEN 0 ELSE 1)

\* Who waits for the clock has shown who he is.
GatesInv == GatesTyped /\ (gate = "clock" => Verified)

\* Counting up or down from the i-th message says what comparing indices does.
LEMMA LastIs ==
    ASSUME observed \in Seq(Message), NEW kind, NEW m
    PROVE  m \in LastOf(kind) <=> \E i \in DOMAIN observed : IsLast(i, kind) /\ m = observed[i]
<1>1. Len(observed) \in Nat /\ DOMAIN observed = 1 .. Len(observed)
  OBVIOUS
<1>2. ASSUME NEW i \in DOMAIN observed
      PROVE  IsLast(i, kind) <=> i \in At(kind) /\ \A j \in At(kind) : j <= i
  <2>1. i \in 1 .. Len(observed)
    BY <1>1
  <2>2. ASSUME NEW j \in DOMAIN observed
        PROVE  j \in i + 1 .. Len(observed) <=> ~(j <= i)
    BY <1>1, <2>1
  <2>3. \A j \in i + 1 .. Len(observed) : j \in DOMAIN observed
    BY <1>1, <2>1
  <2>4. QED BY <2>2, <2>3 DEF IsLast, At
<1>3. QED BY <1>2 DEF LastOf, At

LEMMA FirstIs ==
    ASSUME observed \in Seq(Message), NEW state, NEW m
    PROVE  m \in First(state) <=> \E i \in DOMAIN observed : IsFirst(i, state) /\ m = observed[i]
<1>. DEFINE says(j) == observed[j].kind = "game_state" /\ observed[j].state = state
            all == {i \in At("game_state") : observed[i].state = state}
<1>1. Len(observed) \in Nat /\ DOMAIN observed = 1 .. Len(observed)
  OBVIOUS
<1>2. all = {i \in DOMAIN observed : says(i)}
  BY DEF At
<1>3. ASSUME NEW i \in DOMAIN observed
      PROVE  IsFirst(i, state) <=> i \in all /\ \A j \in all : i <= j
  <2>1. i \in 1 .. Len(observed)
    BY <1>1
  <2>2. ASSUME NEW j \in DOMAIN observed
        PROVE  j \in 1 .. i - 1 <=> ~(i <= j)
    BY <1>1, <2>1
  <2>3. \A j \in 1 .. i - 1 : j \in DOMAIN observed
    BY <1>1, <2>1
  <2>4. IsFirst(i, state) <=> says(i) /\ \A j \in 1 .. i - 1 : ~says(j)
    BY DEF IsFirst
  <2>. HIDE DEF says, all
  <2>5. QED BY <1>2, <2>2, <2>3, <2>4
<1>4. m \in First(state) <=> \E i \in all : (\A j \in all : i <= j) /\ m = observed[i]
  BY DEF First
<1>. HIDE DEF says, all
<1>5. QED BY <1>2, <1>3, <1>4

LEMMA TeamsAre ==
    ASSUME observed \in Seq(Message), NEW i \in DOMAIN observed
    PROVE  TeamsOf(i) = DOMAIN FileTeams(observed[i]) \cup EntityTeams
<1>. DEFINE last(j) == \A k \in At("team") : observed[k].number = observed[j].number => k <= j
            lasts == {j \in DOMAIN observed :
                /\ observed[j].kind = "team"
                /\ \A k \in j + 1 .. Len(observed) :
                      observed[k].kind = "team" => observed[k].number # observed[j].number}
<1>1. Len(observed) \in Nat /\ DOMAIN observed = 1 .. Len(observed)
  OBVIOUS
<1>2. lasts = {j \in At("team") : last(j)}
  <2>1. ASSUME NEW j \in At("team") PROVE j \in lasts <=> last(j)
    <3>1. j \in 1 .. Len(observed) /\ observed[j].kind = "team"
      BY <1>1 DEF At
    <3>2. ASSUME NEW k \in DOMAIN observed PROVE k \in j + 1 .. Len(observed) <=> ~(k <= j)
      BY <1>1, <3>1
    <3>3. \A k \in j + 1 .. Len(observed) : k \in DOMAIN observed
      BY <1>1, <3>1
    <3>4. QED BY <1>1, <3>1, <3>2, <3>3 DEF At
  <2>2. lasts \subseteq At("team")
    BY DEF At
  <2>. HIDE DEF lasts, last
  <2>3. QED BY <2>1, <2>2
<1>3. EntityTeams = {observed[j].team : j \in {j \in At("team") : last(j)}} \ {NoTeam}
  BY DEF EntityTeams
<1>4. TeamsOf(i) = ({observed[i].radiant, observed[i].dire} \cup {observed[j].team : j \in lasts})
                   \ {NoTeam}
  BY DEF TeamsOf
<1>5. DOMAIN FileTeams(observed[i]) = {observed[i].radiant, observed[i].dire} \ {NoTeam}
  BY DEF FileTeams
<1>. HIDE DEF lasts, last
<1>6. QED BY <1>2, <1>3, <1>4, <1>5

\* The file info names each team of a side once.
LEMMA NamesAre ==
    ASSUME NEW info, info.radiant # info.dire
    PROVE  /\ IsFiniteSet(DOMAIN FileTeams(info))
           /\ Names(info) = Cardinality(DOMAIN FileTeams(info))
<1>. DEFINE D == DOMAIN FileTeams(info)
            N == {s \in {"radiant", "dire"} : info[s] # NoTeam}
<1>1. D = {info.radiant, info.dire} \ {NoTeam}
  BY DEF FileTeams
<1>2. info["radiant"] = info.radiant /\ info["dire"] = info.dire
  OBVIOUS
<1>3. Names(info) = Cardinality(N)
  BY DEF Names
<1>4. N = (IF info.radiant # NoTeam THEN {"radiant"} ELSE {})
          \cup (IF info.dire # NoTeam THEN {"dire"} ELSE {})
  BY <1>2
<1>. HIDE DEF N
<1>5. CASE info.radiant = NoTeam
  <2>1. N = {"dire"} /\ D = {info.dire}
    BY <1>1, <1>4, <1>5
  <2>2. QED BY <1>3, <2>1, FS_Singleton
<1>6. CASE info.dire = NoTeam
  <2>1. N = {"radiant"} /\ D = {info.radiant}
    BY <1>1, <1>4, <1>6
  <2>2. QED BY <1>3, <2>1, FS_Singleton
<1>7. CASE info.radiant # NoTeam /\ info.dire # NoTeam
  <2>1. N = {"radiant"} \cup {"dire"} /\ D = {info.radiant} \cup {info.dire}
    BY <1>1, <1>4, <1>7
  <2>2. IsFiniteSet({"radiant"}) /\ Cardinality({"radiant"}) = 1
        /\ IsFiniteSet({info.radiant}) /\ Cardinality({info.radiant}) = 1
    BY FS_Singleton
  <2>3. Cardinality({"radiant"} \cup {"dire"}) = 2
    BY <2>2, FS_AddElement
  <2>3a. info.dire \notin {info.radiant}
    OBVIOUS
  <2>4. Cardinality({info.radiant} \cup {info.dire}) = 2
        /\ IsFiniteSet({info.radiant} \cup {info.dire})
    BY <2>2, <2>3a, FS_AddElement
  <2>5. QED BY <1>3, <2>1, <2>3, <2>4
<1>8. QED BY <1>5, <1>6, <1>7

\* Two parts of a set fill it iff together they have as many elements.
LEMMA Filled ==
    ASSUME NEW D, NEW E, NEW M, IsFiniteSet(M), D \cup E \subseteq M
    PROVE  Cardinality(D) + Cardinality(E \ D) >= Cardinality(M) <=> D \cup E = M
<1>1. IsFiniteSet(E) /\ IsFiniteSet(D) /\ IsFiniteSet(D \cup E) /\ IsFiniteSet(E \ D)
  BY FS_Subset
<1>2. Cardinality(D \cup E) \in Nat /\ Cardinality(E \ D) \in Nat /\ Cardinality(D) \in Nat
      /\ Cardinality(M) \in Nat
  BY <1>1, FS_CardinalityType
<1>3. Cardinality(D \cap (E \ D)) = 0
  <2>1. D \cap (E \ D) = {}
    OBVIOUS
  <2>2. QED BY <2>1, FS_EmptySet
<1>4. Cardinality(D \cup (E \ D)) = Cardinality(D) + Cardinality(E \ D)
                                     - Cardinality(D \cap (E \ D))
  BY <1>1, FS_Union
<1>5. D \cup (E \ D) = D \cup E
  OBVIOUS
<1>. DEFINE d == Cardinality(D)
            e == Cardinality(E \ D)
            u == Cardinality(D \cup E)
            m == Cardinality(M)
<1>6. u = d + e - 0
  BY <1>3, <1>4, <1>5
<1>7. u <= m /\ (m = u => M = D \cup E)
  BY FS_Subset
<1>8. d \in Nat /\ e \in Nat /\ u \in Nat /\ m \in Nat /\ (M = D \cup E => m = u)
  BY <1>2
<1>. HIDE DEF d, e, u, m
<1>9. d + e >= m <=> M = D \cup E
  BY <1>6, <1>7, <1>8
<1>10. QED BY <1>9 DEF d, e, m

LEMMA TeamsAgree ==
    ASSUME GatesTyped, NEW info, info.radiant # info.dire
    PROVE  GateTeams(info) <=>
               /\ DOMAIN FileTeams(info) \cup EntityTeams = DOMAIN manifest.teams
               /\ \A s \in {"radiant", "dire"} :
                     info[s] # NoTeam => manifest.teams[info[s]] = s
<1>1. PICK D : D = DOMAIN FileTeams(info)
  OBVIOUS
<1>2. PICK M : M = DOMAIN manifest.teams
  OBVIOUS
<1>3. IsFiniteSet(M) /\ Cardinality(M) = 2
  BY <1>2, GatesAssumption DEF GatesTyped
<1>4. Names(info) = Cardinality(D)
  BY <1>1, NamesAre
<1>5. /\ D = {info.radiant, info.dire} \ {NoTeam}
      /\ \A t \in D : FileTeams(info)[t] = IF t = info.dire THEN "dire" ELSE "radiant"
  BY <1>1 DEF FileTeams
<1>6. (\A t \in D : manifest.teams[t] = FileTeams(info)[t]) <=>
          \A s \in {"radiant", "dire"} : info[s] # NoTeam => manifest.teams[info[s]] = s
  BY <1>5
<1>7. GateTeams(info) <=>
          /\ D \cup EntityTeams \subseteq M
          /\ \A t \in D : manifest.teams[t] = FileTeams(info)[t]
          /\ Names(info) + Cardinality(EntityTeams \ D) >= 2
  BY <1>1, <1>2 DEF GateTeams
<1>8. D \cup EntityTeams \subseteq M
          => (Names(info) + Cardinality(EntityTeams \ D) >= 2 <=> D \cup EntityTeams = M)
  BY <1>3, <1>4, Filled
<1>9. D \cup EntityTeams = M => D \cup EntityTeams \subseteq M
  OBVIOUS
<1>10. QED BY <1>1, <1>2, <1>6, <1>7, <1>8, <1>9

\* Different accounts are different players.
LEMMA AccountsOf ==
    ASSUME NEW P, IsFiniteSet(P), \A p, q \in P : p.account = q.account => p = q
    PROVE  LET A == {p.account : p \in P}
           IN  IsFiniteSet(A) /\ Cardinality(A) = Cardinality(P)
<1>. DEFINE A == {p.account : p \in P}
            f == [p \in P |-> p.account]
<1>1. f \in Bijection(P, A)
  <2>1. f \in [P -> A] /\ \A a \in A : \E p \in P : f[p] = a
    OBVIOUS
  <2>2. \A p, q \in P : f[p] = f[q] => p = q
    OBVIOUS
  <2>3. QED BY <2>1, <2>2 DEF Bijection, Injection, Surjection, IsInjective
<1>2. ExistsBijection(P, A)
  BY <1>1 DEF ExistsBijection
<1>3. QED BY <1>2, FS_Bijection

LEMMA ParticipantsAgree ==
    ASSUME GatesTyped, NEW players, DOMAIN players = 1 .. Len(players)
    PROVE  GateParticipants(players) <=>
               /\ \A p \in ToSet(players) : ~p.fake
               /\ {p.binds : p \in ToSet(players)} = manifest.players
               /\ Len(players) = Cardinality(manifest.players)
<1>. DEFINE human == {i \in DOMAIN players : ~players[i].fake}
            B == {players[i].binds : i \in DOMAIN players}
            seen == {players[i].binds.account : i \in DOMAIN players}
            M == manifest.players
<1>1. /\ IsFiniteSet(M) /\ Cardinality(M) = PlayerCount
      /\ \A p, q \in M : p.account = q.account => p = q
  BY GatesAssumption DEF GatesTyped
<1>2. /\ (\A p \in ToSet(players) : ~p.fake) <=> human = DOMAIN players
      /\ {p.binds : p \in ToSet(players)} = B
  BY DEF ToSet
<1>3. seen = {b.account : b \in B}
  OBVIOUS
<1>4. GateParticipants(players) <=>
          /\ Len(players) = PlayerCount /\ human = DOMAIN players
          /\ B \subseteq M /\ Cardinality(seen) = PlayerCount
  BY DEF GateParticipants
<1>. HIDE DEF B, M, human, seen
<1>5. ASSUME B \subseteq M
      PROVE  Cardinality(seen) = PlayerCount <=> B = M
  <2>1. IsFiniteSet(B) /\ (Cardinality(B) = Cardinality(M) => B = M)
    BY <1>1, <1>5, FS_Subset
  <2>2. \A p, q \in B : p.account = q.account => p = q
    BY <1>1, <1>5
  <2>3. Cardinality(seen) = Cardinality(B)
    BY <1>3, <2>1, <2>2, AccountsOf
  <2>4. QED BY <1>1, <2>1, <2>3
<1>6. QED BY <1>1, <1>2, <1>4, <1>5 DEF M

LEMMA Larger ==
    ASSUME NEW a \in Int, NEW b \in Int
    PROVE  Max({a, b}) = IF a >= b THEN a ELSE b
<1>1. \E x \in {a, b} : \A y \in {a, b} : x >= y
  OBVIOUS
<1>2. Max({a, b}) \in {a, b} /\ \A y \in {a, b} : Max({a, b}) >= y
  BY <1>1 DEF Max
<1>3. QED BY <1>2

\* As long as is known in public, give or take: as the gate says it, and as what
\* is proven says it.
Fits(length, duration) ==
    LET delta == IF length > duration THEN length - duration ELSE duration - length
    IN  length > 0 /\ (delta <= Tolerance \/ 1000 * delta <= duration)
InTime(length, duration) ==
    LET off == Max({Tolerance, duration \div 1000})
    IN  length \in Max({1, duration - off}) .. duration + off

LEMMA LengthsAgree ==
    ASSUME NEW length \in Int, NEW duration \in Int, duration > 0
    PROVE  Fits(length, duration) <=> InTime(length, duration)
<1>. DEFINE delta == IF length > duration THEN length - duration ELSE duration - length
            part == duration \div 1000
            off == Max({Tolerance, part})
<1>1. part \in Int /\ delta \in Int /\ Tolerance \in Nat
  BY GatesAssumption
<1>2. 1000 * delta <= duration <=> delta <= part
  OBVIOUS
<1>3. off = IF Tolerance >= part THEN Tolerance ELSE part
  BY <1>1, Larger
<1>. HIDE DEF part, off
<1>4. off \in Int
  BY <1>1, <1>3
<1>5. Max({1, duration - off}) = IF 1 >= duration - off THEN 1 ELSE duration - off
  BY <1>4, Larger
<1>. DEFINE least == Max({1, duration - off})
<1>6. least \in Int /\ (length >= least <=> length > 0 /\ length >= duration - off)
  BY <1>4, <1>5
<1>. HIDE DEF least
<1>7. delta <= Tolerance \/ delta <= part <=> delta <= off
  BY <1>1, <1>3
<1>8. delta <= off <=> length >= duration - off /\ length <= duration + off
  BY <1>4
<1>9. length \in least .. duration + off <=> length >= least /\ length <= duration + off
  BY <1>4, <1>6
<1>10. InTime(length, duration) <=> length \in least .. duration + off
  BY DEF InTime, least, off, part
<1>11. Fits(length, duration) <=> length > 0 /\ (delta <= Tolerance \/ 1000 * delta <= duration)
  BY DEF Fits
<1>12. QED BY <1>2, <1>6, <1>7, <1>8, <1>9, <1>10, <1>11

\* What a proven match shows of who played, and of how long.
WhoShown ==
    /\ \E i \in DOMAIN observed :
          /\ IsLast(i, "file_info") /\ observed[i].match = manifest.match
          /\ \A p \in ToSet(observed[i].players) : ~p.fake
          /\ {p.binds : p \in ToSet(observed[i].players)} = manifest.players
          /\ Len(observed[i].players) = Cardinality(manifest.players)
          /\ TeamsOf(i) = DOMAIN manifest.teams
          /\ \A s \in {"radiant", "dire"} :
                observed[i][s] # NoTeam => manifest.teams[observed[i][s]] = s
    /\ \E i \in DOMAIN observed : IsLast(i, "parse_done") /\ observed[i].build # 0
LengthShown ==
    /\ \E i, j \in DOMAIN observed :
          /\ IsFirst(i, "in_progress") /\ IsFirst(j, "postgame")
          /\ <<observed[i].at, observed[i].tick>> # <<0, 0>>
          /\ InTime(observed[j].at - observed[i].at, manifest.duration)
    /\ manifest.duration > 0

LEMMA IdentityAgrees ==
    ASSUME GatesTyped, TwoSided
    PROVE  Verified <=> WhoShown
<1>. DEFINE SaysSo(i) ==
                  /\ observed[i].match = manifest.match
                  /\ \A p \in ToSet(observed[i].players) : ~p.fake
                  /\ {p.binds : p \in ToSet(observed[i].players)} = manifest.players
                  /\ Len(observed[i].players) = Cardinality(manifest.players)
                  /\ TeamsOf(i) = DOMAIN manifest.teams
                  /\ \A s \in {"radiant", "dire"} :
                        observed[i][s] # NoTeam => manifest.teams[observed[i][s]] = s
            Asks(info) == info.match = manifest.match /\ GateParticipants(info.players)
                          /\ GateTeams(info)
            built == \E done \in LastOf("parse_done") : done.build # 0
<1>1. observed \in Seq(Message)
  BY DEF GatesTyped
<1>2. ASSUME NEW i \in DOMAIN observed, IsLast(i, "file_info")
      PROVE  SaysSo(i) <=> Asks(observed[i])
  <2>1. observed[i].radiant # observed[i].dire
    BY <1>2 DEF TwoSided
  <2>2. DOMAIN observed[i].players = 1 .. Len(observed[i].players)
    <3>1. observed[i] \in Message /\ observed[i].kind = "file_info"
      BY <1>1, <1>2 DEF IsLast
    <3>2. QED BY <3>1, DemosAssumption DEF Message
  <2>3. GateTeams(observed[i]) <=>
               /\ TeamsOf(i) = DOMAIN manifest.teams
               /\ \A s \in {"radiant", "dire"} :
                     observed[i][s] # NoTeam => manifest.teams[observed[i][s]] = s
    <3>1. PICK info : info = observed[i]
      OBVIOUS
    <3>2. TeamsOf(i) = DOMAIN FileTeams(info) \cup EntityTeams
      BY <1>1, <3>1, TeamsAre
    <3>3. GateTeams(info) <=>
               /\ DOMAIN FileTeams(info) \cup EntityTeams = DOMAIN manifest.teams
               /\ \A s \in {"radiant", "dire"} :
                     info[s] # NoTeam => manifest.teams[info[s]] = s
      BY <2>1, <3>1, TeamsAgree
    <3>4. QED BY <3>1, <3>2, <3>3
  <2>4. GateParticipants(observed[i].players) <=>
               /\ \A p \in ToSet(observed[i].players) : ~p.fake
               /\ {p.binds : p \in ToSet(observed[i].players)} = manifest.players
               /\ Len(observed[i].players) = Cardinality(manifest.players)
    BY <2>2, ParticipantsAgree
  <2>5. QED BY <2>3, <2>4
<1>3. built <=> \E i \in DOMAIN observed : IsLast(i, "parse_done") /\ observed[i].build # 0
  BY <1>1, LastIs
<1>4. Verified <=> (\E info \in LastOf("file_info") : Asks(info)) /\ built
  BY DEF Verified
<1>. HIDE DEF Asks, built
<1>5. (\E info \in LastOf("file_info") : Asks(info)) <=>
          \E i \in DOMAIN observed : IsLast(i, "file_info") /\ Asks(observed[i])
  BY <1>1, LastIs
<1>6. (\E info \in LastOf("file_info") : Asks(info)) <=>
          \E i \in DOMAIN observed : IsLast(i, "file_info") /\ SaysSo(i)
  BY <1>2, <1>5
<1>7. WhoShown <=>
          /\ \E i \in DOMAIN observed : IsLast(i, "file_info") /\ SaysSo(i)
          /\ \E i \in DOMAIN observed : IsLast(i, "parse_done") /\ observed[i].build # 0
  BY DEF WhoShown
<1>. HIDE DEF SaysSo
<1>8. QED BY <1>3, <1>4, <1>6, <1>7

LEMMA ClockAgrees ==
    ASSUME GatesTyped
    PROVE  Calibrated <=> LengthShown
<1>. DEFINE AskOf(a, e) == (a.at # 0 \/ a.tick # 0) /\ Fits(e.at - a.at, manifest.duration)
            ShowOf(a, e) ==
                <<a.at, a.tick>> # <<0, 0>> /\ InTime(e.at - a.at, manifest.duration)
<1>1. observed \in Seq(Message) /\ manifest.duration \in Int
  BY GatesAssumption DEF GatesTyped
<1>2. ASSUME NEW i \in DOMAIN observed, NEW state, IsFirst(i, state)
      PROVE  observed[i].at \in Int
  <2>1. observed[i] \in Message /\ observed[i].kind = "game_state"
    BY <1>1, <1>2 DEF IsFirst
  <2>2. QED BY <2>1, DemosAssumption DEF Message
<1>3. Calibrated <=> manifest.duration > 0 /\
          \E anchor \in First("in_progress"), end \in First("postgame") : AskOf(anchor, end)
  BY DEF Calibrated, Fits
<1>4. ASSUME manifest.duration > 0,
             NEW i \in DOMAIN observed, NEW j \in DOMAIN observed,
             IsFirst(i, "in_progress"), IsFirst(j, "postgame")
      PROVE  AskOf(observed[i], observed[j]) <=> ShowOf(observed[i], observed[j])
  <2>1. observed[j].at - observed[i].at \in Int
    BY <1>2, <1>4
  <2>2. Fits(observed[j].at - observed[i].at, manifest.duration)
            <=> InTime(observed[j].at - observed[i].at, manifest.duration)
    BY <1>1, <1>4, <2>1, LengthsAgree
  <2>3. QED BY <2>2
<1>5. LengthShown <=>
          /\ \E i, j \in DOMAIN observed :
               /\ IsFirst(i, "in_progress") /\ IsFirst(j, "postgame")
               /\ ShowOf(observed[i], observed[j])
          /\ manifest.duration > 0
  BY DEF LengthShown
<1>. HIDE DEF AskOf, ShowOf
<1>6. \A a : a \in First("in_progress") <=>
          \E i \in DOMAIN observed : IsFirst(i, "in_progress") /\ a = observed[i]
  BY <1>1, FirstIs
<1>7. \A e : e \in First("postgame") <=>
          \E i \in DOMAIN observed : IsFirst(i, "postgame") /\ e = observed[i]
  BY <1>1, FirstIs
<1>8. ASSUME NEW a \in First("in_progress"), NEW e \in First("postgame"), AskOf(a, e),
             manifest.duration > 0
      PROVE  LengthShown
  <2>1. PICK i \in DOMAIN observed : IsFirst(i, "in_progress") /\ a = observed[i]
    BY <1>6
  <2>2. PICK j \in DOMAIN observed : IsFirst(j, "postgame") /\ e = observed[j]
    BY <1>7
  <2>3. ShowOf(observed[i], observed[j])
    BY <1>4, <1>8, <2>1, <2>2
  <2>4. QED BY <1>5, <1>8, <2>1, <2>2, <2>3
<1>9. ASSUME LengthShown PROVE Calibrated
  <2>1. PICK i \in DOMAIN observed, j \in DOMAIN observed :
            /\ IsFirst(i, "in_progress") /\ IsFirst(j, "postgame")
            /\ ShowOf(observed[i], observed[j])
    BY <1>5, <1>9
  <2>2. manifest.duration > 0
    BY <1>5, <1>9
  <2>3. AskOf(observed[i], observed[j])
    BY <1>4, <2>1, <2>2
  <2>4. observed[i] \in First("in_progress") /\ observed[j] \in First("postgame")
    BY <1>6, <1>7, <2>1
  <2>5. QED BY <1>3, <2>2, <2>3, <2>4
<1>10. QED BY <1>3, <1>8, <1>9

LEMMA GatesAgree ==
    ASSUME GatesTyped, TwoSided
    PROVE  Verified /\ Calibrated <=> Proven
<1>1. Proven <=> WhoShown /\ LengthShown
  BY DEF Proven, WhoShown, LengthShown, InTime
<1>2. QED BY <1>1, IdentityAgrees, ClockAgrees

-----------------------------------------------------------------------------
\* Who was shown depends on what was observed, and on nothing else.
LEMMA VerifiedStays ==
    ASSUME UNCHANGED <<manifest, observed>>
    PROVE  Verified' <=> Verified
<1>1. EntityTeams' = EntityTeams
  BY DEF EntityTeams, At
<1>2. \A info : GateTeams(info)' <=> GateTeams(info)
  BY <1>1 DEF GateTeams
<1>3. \A players : GateParticipants(players)' <=> GateParticipants(players)
  BY DEF GateParticipants
<1>4. \A kind : LastOf(kind)' = LastOf(kind)
  BY DEF LastOf, At
<1>5. QED BY <1>2, <1>3, <1>4 DEF Verified

LEMMA GatesBegin == AnalysisInit => GatesInv
<1>. SUFFICES ASSUME AnalysisInit PROVE GatesInv
  OBVIOUS
<1>1. manifest \in Manifests /\ messages \in DemoFeeds /\ observed = <<>> /\ gate = "parse"
  BY DEF AnalysisInit, GateInit
<1>2. QED BY <1>1, GatesAssumption DEF GatesInv, GatesTyped

LEMMA GatesStep == GatesInv /\ [AnalysisNext]_analysisVars => GatesInv'
<1>. SUFFICES ASSUME GatesInv, [AnalysisNext]_analysisVars PROVE GatesInv'
  OBVIOUS
<1>. USE DEF GatesInv
<1>1. GatesTyped /\ MaxMessages \in Nat /\ Len(observed) \in Nat
  BY GatesAssumption DEF GatesTyped
<1>2. CASE UNCHANGED gateVars
  <2>1. UNCHANGED <<manifest, messages, observed, gate>>
    BY <1>2 DEF gateVars
  <2>2. GatesTyped'
    BY <1>1, <2>1 DEF GatesTyped
  <2>3. (gate = "clock" => Verified)'
    BY <2>1, VerifiedStays
  <2>4. QED BY <2>2, <2>3
<1>3. CASE Observe
  <2>1. PICK m \in messages : observed' = Append(observed, m)
    BY <1>3 DEF Observe
  <2>2. m \in Message /\ gate = "parse" /\ Len(observed) < MaxMessages
        /\ UNCHANGED <<manifest, messages, gate>>
    BY <1>1, <1>3 DEF Observe, GatesTyped, Message
  <2>3. observed' \in Seq(Message) /\ Len(observed') = Len(observed) + 1
    BY <1>1, <2>1, <2>2 DEF GatesTyped
  <2>4. QED BY <1>1, <2>2, <2>3 DEF GatesTyped
<1>4. CASE ParseDone
  <2>1. PICK build \in 0 .. 1 :
            observed' = Append(observed, [kind |-> "parse_done", build |-> build])
    BY <1>4 DEF ParseDone
  <2>2. [kind |-> "parse_done", build |-> build] \in Message
    BY DEF Message
  <2>3. gate = "parse" /\ gate' = "identity" /\ UNCHANGED <<manifest, messages>>
    BY <1>4 DEF ParseDone
  <2>4. observed' \in Seq(Message) /\ Len(observed') = Len(observed) + 1
    BY <1>1, <2>1, <2>2 DEF GatesTyped
  <2>5. QED BY <1>1, <2>3, <2>4 DEF GatesTyped
<1>5. CASE Stop
  BY <1>1, <1>5 DEF Stop, GatesTyped
<1>6. CASE IdentityGate
  <2>1. UNCHANGED <<manifest, messages, observed>> /\ gate = "identity"
        /\ gate' = IF Verified THEN "clock" ELSE "quarantined"
    BY <1>6 DEF IdentityGate
  <2>2. GatesTyped'
    BY <1>1, <2>1 DEF GatesTyped
  <2>3. (gate = "clock" => Verified)'
    BY <2>1, VerifiedStays
  <2>4. QED BY <2>2, <2>3
<1>7. CASE ClockGate
  BY <1>1, <1>7 DEF ClockGate, GatesTyped
<1>8. QED
  BY <1>2, <1>3, <1>4, <1>5, <1>6, <1>7 DEF AnalysisNext, GateNext, analysisVars, gateVars

LEMMA AlwaysGates == AnalysisSpec => []GatesInv
  BY GatesBegin, GatesStep, PTL DEF AnalysisSpec

\* The gates open for the match of the manifest and for no other (identity.
\* Build, clock.Build), whatever the demo said in whatever order.
THEOREM ProvenOnly == AnalysisSpec => OnlyProvenAnalysed
<1>. DEFINE Rightly ==
        TwoSided =>
          /\ gate # "accepted" /\ gate' = "accepted" => Proven
          /\ gate # "quarantined" /\ gate' = "quarantined" => ~Proven
<1>1. ASSUME GatesInv, [AnalysisNext]_analysisVars PROVE [Rightly]_gateVars
  <2>. SUFFICES ASSUME TwoSided, GateNext
                PROVE  /\ gate # "accepted" /\ gate' = "accepted" => Proven
                       /\ gate # "quarantined" /\ gate' = "quarantined" => ~Proven
    BY <1>1 DEF AnalysisNext, analysisVars
  <2>1. (Verified /\ Calibrated <=> Proven) /\ (gate = "clock" => Verified)
    BY <1>1, GatesAgree DEF GatesInv
  <2>2. CASE IdentityGate
    BY <2>1, <2>2 DEF IdentityGate
  <2>3. CASE ClockGate
    BY <2>1, <2>3 DEF ClockGate
  <2>4. CASE Observe \/ ParseDone \/ Stop
    BY <2>4 DEF Observe, ParseDone, Stop
  <2>5. QED BY <2>2, <2>3, <2>4 DEF GateNext
<1>2. QED BY <1>1, AlwaysGates, PTL DEF AnalysisSpec, OnlyProvenAnalysed

-----------------------------------------------------------------------------
(* Sums over a list.                                                       *)

LEMMA SumIs ==
    ASSUME NEW N \in Nat, NEW s \in [1 .. N -> Int]
    PROVE  \E f \in [0 .. N -> Int] :
              /\ f[0] = 0 /\ \A n \in 1 .. N : f[n] = f[n - 1] + s[n]
              /\ SumUp(s) = f[N]
<1>. DEFINE step(n) == [a \in Int |-> a + s[n]]
            g == [n \in 1 .. N |-> step(n)]
            Body(f, n) == IF n = 0 THEN 0 ELSE f[n - 1] + s[n]
            Pass(f) == f = [n \in 0 .. N |-> Body(f, n)]
<1>1. s \in Seq(Int) /\ Len(s) = N
  OBVIOUS
<1>2. ASSUME NEW n \in 1 .. N PROVE step(n) \in [Int -> Int]
  <2>1. s[n] \in Int
    OBVIOUS
  <2>2. QED BY <2>1
<1>3. g \in [1 .. N -> [Int -> Int]]
  <2>. HIDE DEF step
  <2>1. QED BY <1>2
<1>4. PICK f \in [0 .. N -> Int] : PassesOver(f, 0, g, N)
  <2>1. \A a \in Int : \E f \in [0 .. N -> Int] : PassesOver(f, a, g, N)
    <3>. HIDE DEF g
    <3>1. QED BY <1>3, PassIs
  <2>. HIDE DEF g
  <2>2. QED BY <2>1
<1>5. ASSUME NEW n \in 1 .. N PROVE f[n] = f[n - 1] + s[n]
  <2>1. n - 1 \in 0 .. N
    OBVIOUS
  <2>1a. f[n - 1] \in Int
    BY <2>1
  <2>2. f[n] = g[n][f[n - 1]]
    BY <1>4 DEF PassesOver
  <2>3. g[n] = step(n)
    OBVIOUS
  <2>4. step(n)[f[n - 1]] = f[n - 1] + s[n]
    BY <2>1a
  <2>. HIDE DEF g, step
  <2>5. QED BY <2>2, <2>3, <2>4
<1>6. f[0] = 0
  BY <1>4 DEF PassesOver
<1>7. Pass(f)
  <2>1. ASSUME NEW n \in 0 .. N PROVE f[n] = Body(f, n)
    <3>1. n = 0 \/ n \in 1 .. N
      OBVIOUS
    <3>2. QED BY <1>5, <1>6, <3>1
  <2>. HIDE DEF Body
  <2>2. QED BY <2>1
<1>8. ASSUME NEW h, Pass(h) PROVE h[N] = f[N]
  <2>1. h[0] = 0
    <3>1. 0 \in 0 .. N
      OBVIOUS
    <3>2. h[0] = Body(h, 0)
      <4>. HIDE DEF Body
      <4>1. QED BY <1>8, <3>1
    <3>3. QED BY <3>2
  <2>2. ASSUME NEW n \in 1 .. N PROVE h[n] = h[n - 1] + s[n]
    <3>1. n \in 0 .. N /\ n # 0
      OBVIOUS
    <3>2. h[n] = Body(h, n)
      <4>. HIDE DEF Body
      <4>1. QED BY <1>8, <3>1
    <3>3. QED BY <3>1, <3>2
  <2>. DEFINE S == {n \in Nat : n <= N => h[n] = f[n]}
  <2>3. 0 \in S
    BY <1>6, <2>1
  <2>4. ASSUME NEW n \in S PROVE n + 1 \in S
    <3>1. SUFFICES ASSUME n + 1 <= N PROVE h[n + 1] = f[n + 1]
      OBVIOUS
    <3>2. n \in Nat /\ n + 1 \in 1 .. N /\ (n + 1) - 1 = n /\ h[n] = f[n]
      BY <3>1
    <3>3. h[n + 1] = h[n] + s[n + 1] /\ f[n + 1] = f[n] + s[n + 1]
      BY <1>5, <2>2, <3>2
    <3>4. QED BY <3>2, <3>3
  <2>5. N \in S
    <3>. HIDE DEF S
    <3>1. S \in SUBSET Nat
      BY DEF S
    <3>2. QED BY <2>3, <2>4, <3>1, Climb
  <2>6. QED BY <2>5
<1>9. SumUp(s) = f[N]
  <2>1. \E h : h = (CHOOSE k : Pass(k)) /\ SumUp(s) = h[N]
    BY <1>1 DEF SumUp
  <2>2. PICK h : h = (CHOOSE k : Pass(k)) /\ SumUp(s) = h[N]
    BY <2>1
  <2>. HIDE DEF Pass
  <2>3. Pass(h)
    BY <1>7, <2>2
  <2>4. QED BY <1>8, <2>2, <2>3
<1>10. QED BY <1>5, <1>6, <1>9

\* A sum grows with what is added, and stays below what bounds the growth.
LEMMA SumBelow ==
    ASSUME NEW N \in Nat, NEW s \in [1 .. N -> Int], NEW b \in [0 .. N -> Int],
           \A n \in 1 .. N : s[n] <= b[n] - b[n - 1]
    PROVE  SumUp(s) \in Int /\ SumUp(s) <= b[N] - b[0]
<1>1. PICK f \in [0 .. N -> Int] :
          /\ f[0] = 0 /\ \A n \in 1 .. N : f[n] = f[n - 1] + s[n]
          /\ SumUp(s) = f[N]
  BY SumIs
<1>. DEFINE S == {n \in Nat : n <= N => f[n] <= b[n] - b[0]}
<1>2. 0 \in S
  <2>1. b[0] \in Int
    OBVIOUS
  <2>2. QED BY <1>1, <2>1
<1>3. ASSUME NEW n \in S PROVE n + 1 \in S
  <2>1. SUFFICES ASSUME n + 1 <= N PROVE f[n + 1] <= b[n + 1] - b[0]
    OBVIOUS
  <2>2. n \in Nat /\ n + 1 \in 1 .. N /\ (n + 1) - 1 = n /\ f[n] <= b[n] - b[0]
    BY <2>1
  <2>3. n \in 0 .. N /\ n + 1 \in 0 .. N /\ 0 \in 0 .. N
    BY <2>2
  <2>4. f[n] \in Int /\ b[n] \in Int /\ b[n + 1] \in Int /\ b[0] \in Int /\ s[n + 1] \in Int
    BY <2>2, <2>3
  <2>5. f[n + 1] = f[n] + s[n + 1] /\ s[n + 1] <= b[n + 1] - b[n]
    BY <1>1, <2>2
  <2>6. QED BY <2>2, <2>4, <2>5
<1>4. N \in S
  <2>. HIDE DEF S
  <2>1. S \in SUBSET Nat
    BY DEF S
  <2>2. QED BY <1>2, <1>3, <2>1, Climb
<1>5. N \in 0 .. N
  OBVIOUS
<1>6. QED BY <1>1, <1>4, <1>5

LEMMA SumAbove ==
    ASSUME NEW N \in Nat, NEW s \in [1 .. N -> Int], \A n \in 1 .. N : s[n] >= 0
    PROVE  SumUp(s) \in Nat /\ \A n \in 1 .. N : SumUp(s) >= s[n]
<1>1. PICK f \in [0 .. N -> Int] :
          /\ f[0] = 0 /\ \A n \in 1 .. N : f[n] = f[n - 1] + s[n]
          /\ SumUp(s) = f[N]
  BY SumIs
<1>. DEFINE S == {n \in Nat : n <= N => f[n] >= 0 /\ \A m \in 1 .. n : f[n] >= s[m]}
<1>2. 0 \in S
  BY <1>1
<1>3. ASSUME NEW n \in S PROVE n + 1 \in S
  <2>1. SUFFICES ASSUME n + 1 <= N
                 PROVE  f[n + 1] >= 0 /\ \A m \in 1 .. n + 1 : f[n + 1] >= s[m]
    OBVIOUS
  <2>2. n \in Nat /\ n + 1 \in 1 .. N /\ (n + 1) - 1 = n /\ f[n] >= 0
        /\ \A m \in 1 .. n : f[n] >= s[m]
    BY <2>1
  <2>3. n \in 0 .. N
    BY <2>2
  <2>4. f[n] \in Int /\ s[n + 1] \in Int /\ s[n + 1] >= 0
    BY <2>2, <2>3
  <2>5. f[n + 1] = f[n] + s[n + 1]
    BY <1>1, <2>2
  <2>6. ASSUME NEW m \in 1 .. n + 1 PROVE f[n + 1] >= s[m]
    <3>1. m \in 1 .. n \/ m = n + 1
      BY <2>2
    <3>2. s[m] \in Int
      BY <2>2
    <3>3. QED BY <2>2, <2>4, <2>5, <3>1, <3>2
  <2>7. QED BY <2>2, <2>4, <2>5, <2>6
<1>4. N \in S
  <2>. HIDE DEF S
  <2>1. S \in SUBSET Nat
    BY DEF S
  <2>2. QED BY <1>2, <1>3, <2>1, Climb
<1>5. N \in 0 .. N
  OBVIOUS
<1>6. QED BY <1>1, <1>4, <1>5

-----------------------------------------------------------------------------
(* Streams of phases.                                                      *)

LEMMA StreamIs ==
    ASSUME NEW ph \in Stream, NEW N, N = Len(ph.intervals)
    PROVE  /\ N \in Nat /\ DOMAIN ph.intervals = 1 .. N
           /\ \A n \in 1 .. N : ph.intervals[n] \in Interval
           /\ \A n \in 1 .. N : ph.intervals[n].start \in Int /\ ph.intervals[n].end \in Int
           /\ ph.eligible \in Int
<1>1. ph.intervals \in Seq(Interval) /\ ph.eligible \in Int
  BY DEF Stream
<1>2. N \in Nat /\ DOMAIN ph.intervals = 1 .. N
  BY <1>1
<1>3. ASSUME NEW n \in 1 .. N PROVE ph.intervals[n] \in Interval
  BY <1>1
<1>4. \A iv \in Interval : iv.start \in Int /\ iv.end \in Int
  BY DEF Interval
<1>5. QED BY <1>1, <1>2, <1>3, <1>4

LEMMA CoverageIs ==
    ASSUME NEW ph \in Stream, ValidCoverage(ph), NEW N, N = Len(ph.intervals)
    PROVE  /\ N \in Nat /\ N >= 1 /\ ph.eligible > 0
           /\ ph.intervals[1].start = 0 /\ ph.intervals[N].end = ph.eligible
           /\ \A n \in 1 .. N : /\ ph.intervals[n].phase \in Official
                                /\ ph.intervals[n].start < ph.intervals[n].end
           /\ \A n \in 1 .. N - 1 : ph.intervals[n + 1].start = ph.intervals[n].end
<1>1. /\ N \in Nat /\ DOMAIN ph.intervals = 1 .. N
      /\ \A n \in 1 .. N : ph.intervals[n].start \in Int /\ ph.intervals[n].end \in Int
  BY StreamIs
<1>2. N # 0
  <2>1. ph.intervals \in Seq(Interval) /\ ph.intervals # <<>>
    BY DEF Stream, ValidCoverage
  <2>2. QED BY <2>1
<1>3. ph.intervals[N].end = ph.eligible /\ ph.eligible > 0
  BY DEF ValidCoverage, Last
<1>4. ASSUME NEW n \in 1 .. N
      PROVE  /\ ph.intervals[n].phase \in Official
             /\ ph.intervals[n].end > ph.intervals[n].start
             /\ ph.intervals[n].start = IF n = 1 THEN 0 ELSE ph.intervals[n - 1].end
  BY <1>1 DEF ValidCoverage
<1>5. ASSUME NEW n \in 1 .. N - 1 PROVE ph.intervals[n + 1].start = ph.intervals[n].end
  <2>1. n + 1 \in 1 .. N /\ n + 1 # 1 /\ (n + 1) - 1 = n
    BY <1>1
  <2>2. QED BY <1>4, <2>1
<1>6. ASSUME NEW n \in 1 .. N PROVE ph.intervals[n].start < ph.intervals[n].end
  BY <1>1, <1>4
<1>7. 1 \in 1 .. N
  BY <1>1, <1>2
<1>8. QED BY <1>1, <1>2, <1>3, <1>4, <1>5, <1>6, <1>7

\* Later intervals start where, or after, earlier ones end.
LEMMA CutsRise ==
    ASSUME NEW ph \in Stream, ValidCoverage(ph),
           NEW m \in 1 .. Len(ph.intervals), NEW n \in 1 .. Len(ph.intervals), m < n
    PROVE  ph.intervals[m].end <= ph.intervals[n].start
<1>. DEFINE N == Len(ph.intervals)
            S == {k \in Nat : m + 1 + k <= N => ph.intervals[m].end <= ph.intervals[m + 1 + k].start}
<1>1. /\ N \in Nat /\ \A k \in 1 .. N : ph.intervals[k].start \in Int /\ ph.intervals[k].end \in Int
  BY StreamIs
<1>2. /\ \A k \in 1 .. N : ph.intervals[k].start < ph.intervals[k].end
      /\ \A k \in 1 .. N - 1 : ph.intervals[k + 1].start = ph.intervals[k].end
  BY CoverageIs
<1>. HIDE DEF N
<1>3. m \in 1 .. N /\ n \in 1 .. N /\ m < n
  BY DEF N
<1>4. 0 \in S
  <2>1. m \in 1 .. N - 1 /\ m + 1 + 0 = m + 1
    BY <1>1, <1>3
  <2>2. ph.intervals[m + 1].start = ph.intervals[m].end /\ ph.intervals[m].end \in Int
    BY <1>1, <1>2, <1>3, <2>1
  <2>3. QED BY <2>1, <2>2
<1>5. ASSUME NEW k \in S PROVE k + 1 \in S
  <2>1. SUFFICES ASSUME m + 1 + (k + 1) <= N
                 PROVE  ph.intervals[m].end <= ph.intervals[m + 1 + (k + 1)].start
    OBVIOUS
  <2>. DEFINE j == m + 1 + k
  <2>2. j \in 1 .. N - 1 /\ j \in 1 .. N /\ m + 1 + (k + 1) = j + 1 /\ j + 1 \in 1 .. N
    BY <1>1, <1>3, <2>1
  <2>3. ph.intervals[m].end <= ph.intervals[j].start
    <3>1. k \in Nat /\ m + 1 + k <= N
      <4>1. k \in Nat
        OBVIOUS
      <4>2. QED BY <1>1, <1>3, <2>1, <4>1
    <3>2. m + 1 + k <= N => ph.intervals[m].end <= ph.intervals[m + 1 + k].start
      OBVIOUS
    <3>3. QED BY <3>1, <3>2
  <2>. HIDE DEF j
  <2>4. ph.intervals[j + 1].start = ph.intervals[j].end /\ ph.intervals[j].start < ph.intervals[j].end
    BY <1>2, <2>2
  <2>5. ph.intervals[m].end \in Int /\ ph.intervals[j].start \in Int /\ ph.intervals[j].end \in Int
    BY <1>1, <1>3, <2>2
  <2>6. ph.intervals[m].end <= ph.intervals[j + 1].start
    BY <2>3, <2>4, <2>5
  <2>7. QED BY <2>2, <2>6
<1>6. n - m - 1 \in S
  <2>1. n - m - 1 \in Nat
    BY <1>1, <1>3
  <2>. HIDE DEF S
  <2>2. S \in SUBSET Nat
    BY DEF S
  <2>3. QED BY <1>4, <1>5, <2>1, <2>2, Climb
<1>7. m + 1 + (n - m - 1) = n
  BY <1>1, <1>3
<1>8. QED BY <1>1, <1>3, <1>6, <1>7

\* An interval lies in the match.
LEMMA CutInMatch ==
    ASSUME NEW ph \in Stream, ValidCoverage(ph), NEW n \in 1 .. Len(ph.intervals)
    PROVE  0 <= ph.intervals[n].start /\ ph.intervals[n].end <= ph.eligible
<1>. DEFINE N == Len(ph.intervals)
<1>1. /\ N \in Nat /\ \A k \in 1 .. N : ph.intervals[k].start \in Int /\ ph.intervals[k].end \in Int
  BY StreamIs
<1>2. /\ N >= 1 /\ ph.intervals[1].start = 0 /\ ph.intervals[N].end = ph.eligible
      /\ \A k \in 1 .. N : ph.intervals[k].start < ph.intervals[k].end
  BY CoverageIs
<1>3. 1 \in 1 .. N /\ N \in 1 .. N
  BY <1>1, <1>2
<1>4. n # 1 => ph.intervals[1].end <= ph.intervals[n].start
  BY <1>3, CutsRise
<1>5. n # N => ph.intervals[n].end <= ph.intervals[N].start
  BY <1>1, <1>3, CutsRise
<1>. HIDE DEF N
<1>6. n \in 1 .. N
  BY DEF N
<1>7. /\ ph.intervals[1].start \in Int /\ ph.intervals[1].end \in Int
      /\ ph.intervals[n].start \in Int /\ ph.intervals[n].end \in Int
      /\ ph.intervals[N].start \in Int /\ ph.intervals[N].end \in Int
  BY <1>1, <1>3, <1>6
<1>8. ph.intervals[1].start < ph.intervals[1].end /\ ph.intervals[N].start < ph.intervals[N].end
  BY <1>2, <1>3
<1>9. QED BY <1>2, <1>4, <1>5, <1>7, <1>8

\* Every time of the match lies in one interval.
LEMMA TimeInCut ==
    ASSUME NEW ph \in Stream, ValidCoverage(ph), NEW at \in Int,
           0 <= at, at < ph.eligible * Second
    PROVE  \E n \in 1 .. Len(ph.intervals) : Within(at, ph.intervals[n])
<1>. DEFINE N == Len(ph.intervals)
            S == {n \in Nat : n \in 1 .. N /\ at < ph.intervals[n].end * Second}
<1>1. /\ N \in Nat /\ \A k \in 1 .. N : ph.intervals[k].start \in Int /\ ph.intervals[k].end \in Int
  BY StreamIs
<1>2. /\ N >= 1 /\ ph.intervals[1].start = 0 /\ ph.intervals[N].end = ph.eligible
      /\ \A k \in 1 .. N - 1 : ph.intervals[k + 1].start = ph.intervals[k].end
  BY CoverageIs
<1>. HIDE DEF N
<1>3. N \in S
  BY <1>1, <1>2
<1>4. PICK m \in S : \A n \in S : m <= n
  <2>. HIDE DEF S
  <2>1. S \in SUBSET Nat
    BY DEF S
  <2>2. QED BY <1>3, <2>1, LeastOf
<1>5. ph.intervals[m].start * Second <= at
  <2>1. CASE m = 1
    BY <1>2, <2>1 DEF Second
  <2>2. CASE m # 1
    <3>1. m - 1 \in 1 .. N - 1 /\ m - 1 \in 1 .. N /\ m - 1 \in Nat /\ (m - 1) + 1 = m /\ ~(m <= m - 1)
      BY <1>1, <2>2
    <3>2. ~(at < ph.intervals[m - 1].end * Second)
      BY <1>4, <3>1
    <3>3. ph.intervals[m].start = ph.intervals[m - 1].end /\ ph.intervals[m].start \in Int
      BY <1>1, <1>2, <3>1
    <3>4. QED BY <3>2, <3>3 DEF Second
  <2>3. QED BY <2>1, <2>2
<1>6. m \in 1 .. N /\ Within(at, ph.intervals[m])
  BY <1>5 DEF Within
<1>7. QED BY <1>6 DEF N

LEMMA CutOnce ==
    ASSUME NEW ph \in Stream, ValidCoverage(ph), NEW at \in Int,
           NEW m \in 1 .. Len(ph.intervals), NEW n \in 1 .. Len(ph.intervals),
           Within(at, ph.intervals[m]), Within(at, ph.intervals[n])
    PROVE  m = n
<1>1. ASSUME NEW i \in 1 .. Len(ph.intervals), NEW j \in 1 .. Len(ph.intervals), i < j,
             Within(at, ph.intervals[i]), Within(at, ph.intervals[j])
      PROVE  FALSE
  <2>1. ph.intervals[i].end <= ph.intervals[j].start
    BY <1>1, CutsRise
  <2>2. ph.intervals[i].end \in Int /\ ph.intervals[j].start \in Int
    BY StreamIs
  <2>3. at < ph.intervals[i].end * Second /\ ph.intervals[j].start * Second <= at
    BY <1>1 DEF Within
  <2>4. QED BY <2>1, <2>2, <2>3 DEF Second
<1>2. Len(ph.intervals) \in Nat
  BY StreamIs
<1>3. QED BY <1>1, <1>2

\* A time has the phase of its interval.
LEMMA PhaseIs ==
    ASSUME NEW ph \in Stream, ValidCoverage(ph), NEW at \in Int,
           NEW n \in 1 .. Len(ph.intervals), Within(at, ph.intervals[n])
    PROVE  /\ PhaseAt(ph, at) = ph.intervals[n].phase
           /\ 0 <= at /\ at < ph.eligible * Second
<1>. DEFINE hits == {i \in DOMAIN ph.intervals :
                        ph.intervals[i].phase \in Official /\ Within(at, ph.intervals[i])}
<1>1. DOMAIN ph.intervals = 1 .. Len(ph.intervals)
      /\ ph.intervals[n].start \in Int /\ ph.intervals[n].end \in Int /\ ph.eligible \in Int
  BY StreamIs
<1>2. ph.intervals[n].phase \in Official
  BY CoverageIs
<1>3. hits = {n}
  <2>1. n \in hits
    BY <1>1, <1>2
  <2>2. ASSUME NEW i \in hits PROVE i = n
    BY <1>1, CutOnce
  <2>3. QED BY <2>1, <2>2
<1>4. Min(hits) = n
  <2>1. n \in Int
    OBVIOUS
  <2>2. QED BY <1>3, <2>1 DEF Min
<1>5. 0 <= ph.intervals[n].start /\ ph.intervals[n].end <= ph.eligible
  BY CutInMatch
<1>6. 0 <= at /\ at < ph.eligible * Second
  BY <1>1, <1>5 DEF Within, Second
<1>7. PhaseAt(ph, at) = ph.intervals[n].phase
  <2>1. PhaseAt(ph, at) = IF at < 0 \/ hits = {} THEN "none" ELSE ph.intervals[Min(hits)].phase
    BY DEF PhaseAt
  <2>2. ~(at < 0)
    BY <1>6
  <2>. HIDE DEF hits
  <2>3. QED BY <1>3, <1>4, <2>1, <2>2
<1>8. QED BY <1>6, <1>7

LEMMA NoPhaseOutside ==
    ASSUME NEW ph \in Stream, ValidCoverage(ph), NEW at \in Int,
           ~(0 <= at /\ at < ph.eligible * Second)
    PROVE  PhaseAt(ph, at) = "none"
<1>1. DOMAIN ph.intervals = 1 .. Len(ph.intervals)
  BY StreamIs
<1>2. {i \in DOMAIN ph.intervals :
          ph.intervals[i].phase \in Official /\ Within(at, ph.intervals[i])} = {}
  BY <1>1, PhaseIs
<1>3. QED BY <1>2 DEF PhaseAt

-----------------------------------------------------------------------------
(* The facts that count, and where.                                        *)

LEMMA FactAt == \A fs \in Seq(FactT) : \A i \in DOMAIN fs : fs[i] \in FactT /\ fs[i].at \in Int
<1>. SUFFICES ASSUME NEW fs \in Seq(FactT), NEW i \in DOMAIN fs PROVE fs[i] \in FactT /\ fs[i].at \in Int
  OBVIOUS
<1>1. fs[i] \in FactT
  OBVIOUS
<1>2. QED BY <1>1 DEF FactT

LEMMA OfficialAre == /\ Official = {"laning", "midgame", "decisive"}
                     /\ Whole_match \notin Official /\ "none" \notin Official
                     /\ Whole_match # "none"
  BY DEF Official, Whole_match

LEMMA AcceptedIs ==
    ASSUME NEW ph \in Stream, NEW fs \in Seq(FactT), ValidCoverage(ph)
    PROVE  /\ Accepted(fs, ph, Whole_match)
                = {i \in DOMAIN fs : 0 <= fs[i].at /\ fs[i].at < ph.eligible * Second}
           /\ \A i \in Accepted(fs, ph, Whole_match) : PhaseAt(ph, fs[i].at) \in Official
           /\ \A p \in Official : Accepted(fs, ph, p) =
                {i \in Accepted(fs, ph, Whole_match) : PhaseAt(ph, fs[i].at) = p}
<1>1. ASSUME NEW i \in DOMAIN fs
      PROVE  IF 0 <= fs[i].at /\ fs[i].at < ph.eligible * Second
             THEN PhaseAt(ph, fs[i].at) \in Official ELSE PhaseAt(ph, fs[i].at) = "none"
  <2>1. fs[i].at \in Int
    BY FactAt
  <2>2. CASE 0 <= fs[i].at /\ fs[i].at < ph.eligible * Second
    <3>1. PICK n \in 1 .. Len(ph.intervals) : Within(fs[i].at, ph.intervals[n])
      BY <2>1, <2>2, TimeInCut
    <3>2. PhaseAt(ph, fs[i].at) = ph.intervals[n].phase
      BY <2>1, <3>1, PhaseIs
    <3>3. ph.intervals[n].phase \in Official
      BY CoverageIs
    <3>4. QED BY <2>2, <3>2, <3>3
  <2>3. CASE ~(0 <= fs[i].at /\ fs[i].at < ph.eligible * Second)
    BY <2>1, <2>3, NoPhaseOutside
  <2>4. QED BY <2>2, <2>3
<1>2. \A i \in DOMAIN fs : fs[i].at \in Int
  BY FactAt
<1>3. ASSUME NEW s \in Scope
      PROVE  Accepted(fs, ph, s) = {i \in DOMAIN fs :
                  fs[i].at >= 0 /\ PhaseAt(ph, fs[i].at) # "none"
                  /\ (s = Whole_match \/ s = PhaseAt(ph, fs[i].at))}
  <2>. DEFINE A == {i \in DOMAIN fs :
                      LET p == PhaseAt(ph, fs[i].at)
                      IN  fs[i].at >= 0 /\ p # "none" /\ InScope(s, p)}
              B == {i \in DOMAIN fs :
                  fs[i].at >= 0 /\ PhaseAt(ph, fs[i].at) # "none"
                  /\ (s = Whole_match \/ s = PhaseAt(ph, fs[i].at))}
  <2>1. Accepted(fs, ph, s) = A
    BY DEF Accepted
  <2>2. ASSUME NEW i \in DOMAIN fs PROVE i \in A <=> i \in B
    BY DEF InScope
  <2>3. A = B
    <3>1. A \subseteq DOMAIN fs /\ B \subseteq DOMAIN fs
      OBVIOUS
    <3>. HIDE DEF A, B
    <3>2. QED BY <2>2, <3>1
  <2>4. QED BY <2>1, <2>3
<1>4. Accepted(fs, ph, Whole_match)
         = {i \in DOMAIN fs : 0 <= fs[i].at /\ fs[i].at < ph.eligible * Second}
  <2>1. Whole_match \in Scope
    BY DEF Scope
  <2>2. \A i \in DOMAIN fs : fs[i].at >= 0 <=> 0 <= fs[i].at
    BY <1>2
  <2>3. QED BY <1>1, <1>3, <2>1, <2>2, OfficialAre
<1>5. \A i \in Accepted(fs, ph, Whole_match) : PhaseAt(ph, fs[i].at) \in Official
  BY <1>1, <1>4
<1>6. ASSUME NEW p \in Official
      PROVE  Accepted(fs, ph, p) = {i \in Accepted(fs, ph, Whole_match) : PhaseAt(ph, fs[i].at) = p}
  <2>1. p \in Scope /\ Whole_match \in Scope /\ p # Whole_match
    BY OfficialAre DEF Scope
  <2>. DEFINE at(i) == fs[i].at >= 0 /\ PhaseAt(ph, fs[i].at) # "none"
  <2>2. /\ Accepted(fs, ph, Whole_match) = {i \in DOMAIN fs : at(i)}
        /\ Accepted(fs, ph, p) = {i \in DOMAIN fs : at(i) /\ p = PhaseAt(ph, fs[i].at)}
    BY <1>3, <2>1
  <2>. HIDE DEF at
  <2>3. QED BY <2>2
<1>7. QED BY <1>4, <1>5, <1>6

LEMMA AcceptedNone ==
    ASSUME NEW ph, ~ValidCoverage(ph), NEW fs, NEW s PROVE Accepted(fs, ph, s) = {}
  BY DEF Accepted

LEMMA AcceptedFinite ==
    ASSUME NEW ph, NEW fs \in Seq(FactT), NEW s
    PROVE  /\ Accepted(fs, ph, s) \subseteq DOMAIN fs /\ IsFiniteSet(Accepted(fs, ph, s))
           /\ IsFiniteSet(DOMAIN fs) /\ DOMAIN fs \subseteq Nat
<1>1. Accepted(fs, ph, s) \subseteq DOMAIN fs
  BY DEF Accepted
<1>2. DOMAIN fs = 1 .. Len(fs) /\ Len(fs) \in Nat
  OBVIOUS
<1>3. IsFiniteSet(1 .. Len(fs))
  BY <1>2, FS_Interval
<1>4. QED BY <1>1, <1>2, <1>3, FS_Subset

\* What counts in the match counts in one of the phases.
LEMMA PhasesPart ==
    ASSUME NEW ph \in Stream, NEW fs \in Seq(FactT), NEW S
    PROVE  /\ Cardinality(S \cap Accepted(fs, ph, Whole_match))
                = Cardinality(S \cap Accepted(fs, ph, "laning"))
                  + Cardinality(S \cap Accepted(fs, ph, "midgame"))
                  + Cardinality(S \cap Accepted(fs, ph, "decisive"))
           /\ \A s \in Scope : Cardinality(S \cap Accepted(fs, ph, s)) \in Nat
<1>. DEFINE In(s) == S \cap Accepted(fs, ph, s)
<1>1. \A s : IsFiniteSet(In(s)) /\ Cardinality(In(s)) \in Nat
  <2>. SUFFICES ASSUME NEW s PROVE IsFiniteSet(In(s)) /\ Cardinality(In(s)) \in Nat
    OBVIOUS
  <2>1. In(s) \subseteq Accepted(fs, ph, s) /\ IsFiniteSet(Accepted(fs, ph, s))
    BY AcceptedFinite
  <2>. HIDE DEF In
  <2>2. QED BY <2>1, FS_Subset, FS_CardinalityType
<1>2. /\ In(Whole_match) = In("laning") \cup (In("midgame") \cup In("decisive"))
      /\ In("midgame") \cap In("decisive") = {}
      /\ In("laning") \cap (In("midgame") \cup In("decisive")) = {}
  <2>1. CASE ~ValidCoverage(ph)
    <3>1. \A s : Accepted(fs, ph, s) = {}
      BY <2>1, AcceptedNone
    <3>2. QED BY <3>1
  <2>2. CASE ValidCoverage(ph)
    <3>. DEFINE A == Accepted(fs, ph, Whole_match)
                phase(i) == PhaseAt(ph, fs[i].at)
    <3>1. \A i \in A : phase(i) \in {"laning", "midgame", "decisive"}
      BY <2>2, AcceptedIs, OfficialAre
    <3>2. \A p \in {"laning", "midgame", "decisive"} : Accepted(fs, ph, p) = {i \in A : phase(i) = p}
      BY <2>2, AcceptedIs, OfficialAre
    <3>3. /\ In("laning") = {i \in S \cap A : phase(i) = "laning"}
          /\ In("midgame") = {i \in S \cap A : phase(i) = "midgame"}
          /\ In("decisive") = {i \in S \cap A : phase(i) = "decisive"}
          /\ In(Whole_match) = S \cap A
      BY <3>2
    <3>. HIDE DEF phase, A, In
    <3>4. QED BY <3>1, <3>3
  <2>3. QED BY <2>1, <2>2
<1>. HIDE DEF In
<1>3. Cardinality(In("midgame") \cup In("decisive"))
         = Cardinality(In("midgame")) + Cardinality(In("decisive"))
      /\ IsFiniteSet(In("midgame") \cup In("decisive"))
  <2>1. Cardinality({}) = 0
    BY FS_EmptySet
  <2>2. Cardinality(In("midgame") \cup In("decisive"))
         = Cardinality(In("midgame")) + Cardinality(In("decisive")) - Cardinality({})
    BY <1>1, <1>2, FS_Union
  <2>3. IsFiniteSet(In("midgame") \cup In("decisive"))
    BY <1>1, FS_Union
  <2>4. QED BY <1>1, <2>1, <2>2, <2>3
<1>4. Cardinality(In(Whole_match))
         = Cardinality(In("laning")) + Cardinality(In("midgame") \cup In("decisive"))
  <2>1. Cardinality({}) = 0
    BY FS_EmptySet
  <2>2. Cardinality(In(Whole_match))
         = Cardinality(In("laning")) + Cardinality(In("midgame") \cup In("decisive")) - Cardinality({})
    BY <1>1, <1>2, <1>3, FS_Union
  <2>3. Cardinality(In("midgame") \cup In("decisive")) \in Nat
    BY <1>3, FS_CardinalityType
  <2>4. QED BY <1>1, <2>1, <2>2, <2>3
<1>5. Cardinality(In(Whole_match)) = Cardinality(In("laning"))
         + Cardinality(In("midgame")) + Cardinality(In("decisive"))
  BY <1>1, <1>3, <1>4
<1>6. QED BY <1>1, <1>5 DEF In

-----------------------------------------------------------------------------
(* How long a scope is.                                                    *)

LEMMA DurationTyped == \A ph \in Stream : \A s : Duration(ph, s) \in Int
<1>. SUFFICES ASSUME NEW ph \in Stream, NEW s PROVE Duration(ph, s) \in Int
  OBVIOUS
<1>. DEFINE N == Len(ph.intervals)
            g == [n \in 1 .. N |-> IF OfScope(ph.intervals[n], s)
                                   THEN ph.intervals[n].end - ph.intervals[n].start ELSE 0]
<1>1. N \in Nat /\ \A n \in 1 .. N : ph.intervals[n].start \in Int /\ ph.intervals[n].end \in Int
  BY StreamIs
<1>2. g \in [1 .. N -> Int]
  BY <1>1
<1>3. Duration(ph, s) = SumUp(g)
  BY DEF Duration
<1>. HIDE DEF g, N
<1>4. QED BY <1>1, <1>2, <1>3, SumIs

LEMMA DurationOf ==
    ASSUME NEW ph \in Stream, ValidCoverage(ph), NEW s,
           NEW n \in 1 .. Len(ph.intervals), OfScope(ph.intervals[n], s)
    PROVE  Duration(ph, s) > 0
<1>. DEFINE N == Len(ph.intervals)
            g == [k \in 1 .. N |-> IF OfScope(ph.intervals[k], s)
                                   THEN ph.intervals[k].end - ph.intervals[k].start ELSE 0]
<1>1. N \in Nat /\ \A k \in 1 .. N : ph.intervals[k].start \in Int /\ ph.intervals[k].end \in Int
  BY StreamIs
<1>2. \A k \in 1 .. N : ph.intervals[k].start < ph.intervals[k].end
  BY CoverageIs
<1>3. g \in [1 .. N -> Int] /\ \A k \in 1 .. N : g[k] >= 0
  BY <1>1, <1>2
<1>4. n \in 1 .. N /\ g[n] > 0 /\ g[n] \in Int
  BY <1>1, <1>2
<1>5. Duration(ph, s) = SumUp(g)
  BY DEF Duration
<1>. HIDE DEF g, N
<1>6. SumUp(g) \in Nat /\ SumUp(g) >= g[n]
  BY <1>1, <1>3, <1>4, SumAbove
<1>7. QED BY <1>4, <1>5, <1>6

\* Where a fact counts, there is time.
LEMMA TimeWhereCounted ==
    ASSUME NEW ph \in Stream, NEW fs \in Seq(FactT), NEW s \in Scope, NEW i \in Accepted(fs, ph, s)
    PROVE  Duration(ph, s) * Second > 0
<1>1. ValidCoverage(ph)
  BY AcceptedNone
<1>2. /\ i \in DOMAIN fs /\ fs[i].at \in Int
      /\ 0 <= fs[i].at /\ fs[i].at < ph.eligible * Second
      /\ s # Whole_match => PhaseAt(ph, fs[i].at) = s
  <2>1. s = Whole_match \/ s \in Official
    BY DEF Scope
  <2>2. i \in Accepted(fs, ph, Whole_match) /\ (s # Whole_match => PhaseAt(ph, fs[i].at) = s)
    BY <1>1, <2>1, AcceptedIs
  <2>3. i \in DOMAIN fs /\ 0 <= fs[i].at /\ fs[i].at < ph.eligible * Second
    BY <1>1, <2>2, AcceptedIs
  <2>4. QED BY <2>2, <2>3, FactAt
<1>3. PICK n \in 1 .. Len(ph.intervals) : Within(fs[i].at, ph.intervals[n])
  BY <1>1, <1>2, TimeInCut
<1>4. PhaseAt(ph, fs[i].at) = ph.intervals[n].phase /\ ph.intervals[n].phase \in Official
  BY <1>1, <1>2, <1>3, PhaseIs, CoverageIs
<1>5. OfScope(ph.intervals[n], s)
  BY <1>2, <1>4 DEF OfScope, InScope
<1>6. Duration(ph, s) > 0 /\ Duration(ph, s) \in Int
  BY <1>1, <1>5, DurationOf, DurationTyped
<1>7. QED BY <1>6 DEF Second

-----------------------------------------------------------------------------
(* The rows.                                                               *)

\* What a hero is credited with, wherever it happened.
Credited(fs, h, m) ==
    {i \in DOMAIN fs : Credits(fs[i], h, m) /\ (fs[i].type = "death" => fs[i].account # Nobody)}

CountIn(fs, ph, s, h, m) == Cardinality(Counted(fs, ph, s, h, m))
ChancesIn(fs, ph, s, h) == Cardinality(Chances(fs, ph, s, h))
TimeOf(ph, s) == Duration(ph, s) * Second
SetAside(fs, ph, s, h, m) ==
    (IF s = Whole_match THEN Cardinality(Rejected(fs, ph, h, m)) ELSE 0)
    + (IF m = "objective_damage" THEN Cardinality(OtherHits(fs, ph, s, h)) ELSE 0)

LEMMA CountedIs ==
    ASSUME NEW ph, NEW fs \in Seq(FactT), NEW s, NEW h, NEW m
    PROVE  /\ Counted(fs, ph, s, h, m) = Credited(fs, h, m) \cap Accepted(fs, ph, s)
           /\ IsFiniteSet(Counted(fs, ph, s, h, m))
<1>1. Accepted(fs, ph, s) \subseteq DOMAIN fs /\ IsFiniteSet(Accepted(fs, ph, s))
  BY AcceptedFinite
<1>2. Counted(fs, ph, s, h, m) = Credited(fs, h, m) \cap Accepted(fs, ph, s)
  BY <1>1 DEF Counted, Credited
<1>3. Counted(fs, ph, s, h, m) \subseteq Accepted(fs, ph, s)
  BY <1>2
<1>4. QED BY <1>1, <1>2, <1>3, FS_Subset

LEMMA CountTyped ==
    ASSUME NEW ph \in Stream, NEW fs \in Seq(FactT), NEW s, NEW h, NEW m
    PROVE  /\ CountIn(fs, ph, s, h, m) \in Nat
           /\ CountIn(fs, ph, s, h, m) = 0 <=> Counted(fs, ph, s, h, m) = {}
           /\ ChancesIn(fs, ph, s, h) \in Nat /\ IsFiniteSet(Chances(fs, ph, s, h))
           /\ ChancesIn(fs, ph, s, h) = 0 <=> Chances(fs, ph, s, h) = {}
           /\ TimeOf(ph, s) \in Int
<1>1. IsFiniteSet(Counted(fs, ph, s, h, m))
  BY CountedIs
<1>2. IsFiniteSet(Chances(fs, ph, s, h))
  <2>1. Chances(fs, ph, s, h) \subseteq Accepted(fs, ph, s) /\ IsFiniteSet(Accepted(fs, ph, s))
    BY AcceptedFinite DEF Chances
  <2>2. QED BY <2>1, FS_Subset
<1>3. Duration(ph, s) \in Int
  BY DurationTyped
<1>4. TimeOf(ph, s) \in Int
  BY <1>3 DEF TimeOf, Second
<1>5. QED BY <1>1, <1>2, <1>4, FS_CardinalityType, FS_EmptySet DEF CountIn, ChancesIn

LEMMA CountAddsUp ==
    ASSUME NEW ph \in Stream, NEW fs \in Seq(FactT), NEW h, NEW m
    PROVE  CountIn(fs, ph, Whole_match, h, m)
             = CountIn(fs, ph, "laning", h, m) + CountIn(fs, ph, "midgame", h, m)
               + CountIn(fs, ph, "decisive", h, m)
<1>. DEFINE S == Credited(fs, h, m)
<1>1. ASSUME NEW s PROVE CountIn(fs, ph, s, h, m) = Cardinality(S \cap Accepted(fs, ph, s))
  BY CountedIs DEF CountIn
<1>. HIDE DEF S
<1>2. Cardinality(S \cap Accepted(fs, ph, Whole_match))
         = Cardinality(S \cap Accepted(fs, ph, "laning"))
           + Cardinality(S \cap Accepted(fs, ph, "midgame"))
           + Cardinality(S \cap Accepted(fs, ph, "decisive"))
  BY PhasesPart
<1>3. QED BY <1>1, <1>2

\* Where something counts there is time.
LEMMA CountNeedsTime ==
    ASSUME NEW ph \in Stream, NEW fs \in Seq(FactT), NEW s \in Scope, NEW h, NEW m,
           CountIn(fs, ph, s, h, m) # 0
    PROVE  TimeOf(ph, s) > 0
<1>1. PICK i : i \in Counted(fs, ph, s, h, m)
  BY CountTyped
<1>2. i \in Accepted(fs, ph, s)
  BY <1>1 DEF Counted
<1>3. QED BY <1>2, TimeWhereCounted DEF TimeOf

LEMMA RowOfDamage ==
    ASSUME NEW fs, NEW ph, NEW h, NEW s
    PROVE  MetricRow(fs, ph, h, "hero_damage", s) =
             IF TimeOf(ph, s) <= 0 THEN Unavailable("no duration")
             ELSE IF CountIn(fs, ph, s, h, "hero_damage") = 0 THEN Unavailable("no event")
             ELSE Available(CountIn(fs, ph, s, h, "hero_damage"), CountIn(fs, ph, s, h, "hero_damage"),
                            TimeOf(ph, s), SetAside(fs, ph, s, h, "hero_damage"), {})
  BY DEF MetricRow, CountIn, TimeOf, SetAside

LEMMA RowOfObjectives ==
    ASSUME NEW fs, NEW ph, NEW h, NEW s
    PROVE  MetricRow(fs, ph, h, "objective_damage", s) =
             IF CountIn(fs, ph, s, h, "objective_damage") = 0 THEN Unavailable("no event")
             ELSE IF TimeOf(ph, s) <= 0 THEN Unavailable("no duration")
             ELSE Available(CountIn(fs, ph, s, h, "objective_damage"),
                            CountIn(fs, ph, s, h, "objective_damage"),
                            TimeOf(ph, s), SetAside(fs, ph, s, h, "objective_damage"), {})
  BY DEF MetricRow, CountIn, TimeOf, SetAside

LEMMA RowOfKills ==
    ASSUME NEW fs, NEW ph, NEW h, NEW s, NEW m \in {"kill", "assist"}
    PROVE  MetricRow(fs, ph, h, m, s) =
             IF TimeOf(ph, s) <= 0 THEN Unavailable("no duration")
             ELSE IF ChancesIn(fs, ph, s, h) = 0 THEN Unavailable("no opportunity")
             ELSE Available(CountIn(fs, ph, s, h, m), ChancesIn(fs, ph, s, h),
                            TimeOf(ph, s), SetAside(fs, ph, s, h, m), {})
  BY DEF MetricRow, CountIn, ChancesIn, TimeOf, SetAside

LEMMA RowOfDeaths ==
    ASSUME NEW fs, NEW ph, NEW h, NEW s, NEW in, in = LivesIn(fs, ph, s, h)
    PROVE  MetricRow(fs, ph, h, "death", s) =
             IF TimeOf(ph, s) <= 0 THEN Unavailable("no duration")
             ELSE IF in.gaps # {} THEN Unavailable(Gap)
             ELSE IF in.lives = {} THEN Unavailable("no life")
             ELSE Available(Cardinality(Deaths(fs, ph, s, in.lives)), Cardinality(in.lives),
                            in.time, SetAside(fs, ph, s, h, "death"), in.lives)
  BY DEF MetricRow, TimeOf, SetAside

LEMMA RowFields ==
    /\ \A why : /\ Unavailable(why).why = why /\ Unavailable(why).count = 0
                /\ Unavailable(why).lives = {}
    /\ \A c, n, t, x, l : /\ Available(c, n, t, x, l).why = "" /\ Available(c, n, t, x, l).count = c
                          /\ Available(c, n, t, x, l).chances = n /\ Available(c, n, t, x, l).time = t
                          /\ Available(c, n, t, x, l).excluded = x /\ Available(c, n, t, x, l).lives = l
  BY DEF Unavailable, Available

-----------------------------------------------------------------------------
(* The result.                                                             *)

\* What is computed for a hero, a metric and a scope; its key, and its reason.
Got(h, m, s) == MetricRow(file, phases, h, m, s)
Key(h, m, s) == <<h, m, s>>
Why(row) == row.why
Rows == {<<k, MetricRow(file, phases, k[1], k[2], k[3])>> : k \in Hero \X Metric \X Scope}

LEMMA KeysAre ==
    /\ \A h, m, s : Key(h, m, s)[1] = h /\ Key(h, m, s)[2] = m /\ Key(h, m, s)[3] = s
    /\ \A h \in Hero, m \in Metric, s \in Scope : Key(h, m, s) \in Hero \X Metric \X Scope
    /\ \A k \in Hero \X Metric \X Scope :
          k[1] \in Hero /\ k[2] \in Metric /\ k[3] \in Scope /\ k = Key(k[1], k[2], k[3])
  BY DEF Key

LEMMA KeyParts ==
    ASSUME NEW k, NEW h, NEW m, NEW s, k = Key(h, m, s)
    PROVE  k[1] = h /\ k[2] = m /\ k[3] = s
  BY DEF Key

LEMMA RowsAre ==
    /\ \A r \in Rows : \E h \in Hero, m \in Metric, s \in Scope :
          r = <<Key(h, m, s), Got(h, m, s)>> /\ r[1] = Key(h, m, s) /\ r[2] = Got(h, m, s)
    /\ \A h \in Hero, m \in Metric, s \in Scope : <<Key(h, m, s), Got(h, m, s)>> \in Rows
<1>1. ASSUME NEW r \in Rows
      PROVE  \E h \in Hero, m \in Metric, s \in Scope :
                r = <<Key(h, m, s), Got(h, m, s)>> /\ r[1] = Key(h, m, s) /\ r[2] = Got(h, m, s)
  <2>1. PICK k \in Hero \X Metric \X Scope : r = <<k, MetricRow(file, phases, k[1], k[2], k[3])>>
    BY DEF Rows
  <2>2. /\ k[1] \in Hero /\ k[2] \in Metric /\ k[3] \in Scope
        /\ k = Key(k[1], k[2], k[3])
    BY KeysAre
  <2>3. r = <<k, Got(k[1], k[2], k[3])>>
    BY <2>1 DEF Got
  <2>4. r[1] = k /\ r[2] = Got(k[1], k[2], k[3])
    BY <2>3
  <2>5. QED BY <2>2, <2>3, <2>4
<1>2. ASSUME NEW h \in Hero, NEW m \in Metric, NEW s \in Scope
      PROVE  <<Key(h, m, s), Got(h, m, s)>> \in Rows
  <2>. DEFINE k == Key(h, m, s)
  <2>1. k \in Hero \X Metric \X Scope /\ k[1] = h /\ k[2] = m /\ k[3] = s
    BY KeysAre
  <2>. HIDE DEF k
  <2>2. <<k, MetricRow(file, phases, k[1], k[2], k[3])>> \in Rows
    BY <2>1 DEF Rows
  <2>3. QED BY <2>1, <2>2 DEF Got, k
<1>3. QED BY <1>1, <1>2

Set_aside(r) == Why(r[2]) = Gap
NoneListed(r) == r[1][3] = Whole_match /\ ~Listed(Rows, r[1][1], r[1][2])

LEMMA ResultIs ==
    ASSUME result = Result(file, phases)
    PROVE  /\ result.values = {r \in Rows : Why(r[2]) = ""}
           /\ result.unavailable =
                {<<r[1], Gap>> : r \in {r \in Rows : Set_aside(r)}}
                \cup {<<Key(r[1][1], r[1][2], NoScope), r[2].why>> : r \in {r \in Rows : NoneListed(r)}}
  BY DEF Result, Rows, Set_aside, NoneListed, Key, Why

LEMMA ValuesAre ==
    ASSUME result = Result(file, phases)
    PROVE  /\ \A v \in result.values : \E h \in Hero, m \in Metric, s \in Scope :
                 /\ v = <<Key(h, m, s), Got(h, m, s)>> /\ v[1] = Key(h, m, s) /\ v[2] = Got(h, m, s)
                 /\ Why(Got(h, m, s)) = ""
           /\ \A h \in Hero, m \in Metric, s \in Scope :
                 Why(Got(h, m, s)) = "" => <<Key(h, m, s), Got(h, m, s)>> \in result.values
<1>1. result.values = {r \in Rows : Why(r[2]) = ""}
  BY ResultIs
<1>2. ASSUME NEW h \in Hero, NEW m \in Metric, NEW s \in Scope, Why(Got(h, m, s)) = ""
      PROVE  <<Key(h, m, s), Got(h, m, s)>> \in result.values
  <2>1. <<Key(h, m, s), Got(h, m, s)>>[2] = Got(h, m, s)
    OBVIOUS
  <2>2. QED BY <1>1, <1>2, <2>1, RowsAre
<1>3. ASSUME NEW v \in result.values
      PROVE  \E h \in Hero, m \in Metric, s \in Scope :
                 /\ v = <<Key(h, m, s), Got(h, m, s)>> /\ v[1] = Key(h, m, s) /\ v[2] = Got(h, m, s)
                 /\ Why(Got(h, m, s)) = ""
  <2>1. v \in Rows /\ Why(v[2]) = ""
    BY <1>1
  <2>2. QED BY <2>1, RowsAre
<1>4. QED BY <1>2, <1>3

LEMMA UnavailableAre ==
    ASSUME result = Result(file, phases)
    PROVE  /\ \A u \in result.unavailable : \E h \in Hero, m \in Metric, s \in Scope :
                 \/ u[1] = Key(h, m, s) /\ Why(Got(h, m, s)) = Gap
                 \/ u[1] = Key(h, m, NoScope) /\ ~Listed(Rows, h, m)
           /\ \A h \in Hero, m \in Metric, s \in Scope :
                 Why(Got(h, m, s)) = Gap => \E u \in result.unavailable : u[1] = Key(h, m, s)
           /\ \A h \in Hero, m \in Metric :
                 ~Listed(Rows, h, m) => \E u \in result.unavailable : u[1] = Key(h, m, NoScope)
<1>. DEFINE U == {<<r[1], Gap>> : r \in {r \in Rows : Set_aside(r)}}
            V == {<<Key(r[1][1], r[1][2], NoScope), r[2].why>> : r \in {r \in Rows : NoneListed(r)}}
<1>1. result.unavailable = U \cup V
  BY ResultIs
<1>2. ASSUME NEW u \in U
      PROVE  \E h \in Hero, m \in Metric, s \in Scope : u[1] = Key(h, m, s) /\ Why(Got(h, m, s)) = Gap
  <2>1. PICK r \in Rows : Set_aside(r) /\ u = <<r[1], Gap>>
    OBVIOUS
  <2>2. u[1] = r[1] /\ Why(r[2]) = Gap
    BY <2>1 DEF Set_aside
  <2>3. QED BY <2>2, RowsAre
<1>3. ASSUME NEW u \in V
      PROVE  \E h \in Hero, m \in Metric : u[1] = Key(h, m, NoScope) /\ ~Listed(Rows, h, m)
  <2>1. PICK r \in Rows : NoneListed(r) /\ u = <<Key(r[1][1], r[1][2], NoScope), r[2].why>>
    OBVIOUS
  <2>2. u[1] = Key(r[1][1], r[1][2], NoScope) /\ ~Listed(Rows, r[1][1], r[1][2])
    BY <2>1 DEF NoneListed
  <2>3. PICK h \in Hero, m \in Metric, s \in Scope : r[1] = Key(h, m, s)
    BY RowsAre
  <2>4. r[1][1] = h /\ r[1][2] = m
    BY <2>3, KeyParts
  <2>5. QED BY <2>2, <2>4
<1>4. ASSUME NEW h \in Hero, NEW m \in Metric, NEW s \in Scope, Why(Got(h, m, s)) = Gap
      PROVE  \E u \in U : u[1] = Key(h, m, s)
  <2>. DEFINE r == <<Key(h, m, s), Got(h, m, s)>>
  <2>1. r \in Rows /\ r[1] = Key(h, m, s) /\ r[2] = Got(h, m, s)
    BY RowsAre
  <2>2. Set_aside(r)
    BY <1>4, <2>1 DEF Set_aside
  <2>. HIDE DEF r
  <2>3. <<r[1], Gap>> \in U /\ <<r[1], Gap>>[1] = r[1]
    BY <2>1, <2>2
  <2>4. QED BY <2>1, <2>3
<1>5. ASSUME NEW h \in Hero, NEW m \in Metric, ~Listed(Rows, h, m)
      PROVE  \E u \in V : u[1] = Key(h, m, NoScope)
  <2>. DEFINE r == <<Key(h, m, Whole_match), Got(h, m, Whole_match)>>
  <2>1. Whole_match \in Scope
    BY DEF Scope
  <2>2. r \in Rows /\ r[1] = Key(h, m, Whole_match) /\ r[2] = Got(h, m, Whole_match)
    BY <2>1, RowsAre
  <2>3. r[1][1] = h /\ r[1][2] = m /\ r[1][3] = Whole_match
    BY <2>2, KeyParts
  <2>4. NoneListed(r)
    BY <1>5, <2>3 DEF NoneListed
  <2>. HIDE DEF r
  <2>5. <<Key(r[1][1], r[1][2], NoScope), r[2].why>> \in V
        /\ <<Key(r[1][1], r[1][2], NoScope), r[2].why>>[1] = Key(r[1][1], r[1][2], NoScope)
    BY <2>2, <2>4
  <2>6. QED BY <2>3, <2>5
<1>. HIDE DEF U, V
<1>6. ASSUME NEW u \in result.unavailable
      PROVE  \E h \in Hero, m \in Metric, s \in Scope :
                 \/ u[1] = Key(h, m, s) /\ Why(Got(h, m, s)) = Gap
                 \/ u[1] = Key(h, m, NoScope) /\ ~Listed(Rows, h, m)
  <2>1. Whole_match \in Scope
    BY DEF Scope
  <2>2. QED BY <1>1, <1>2, <1>3, <2>1
<1>7. QED BY <1>1, <1>4, <1>5, <1>6

LEMMA ListedIs ==
    ASSUME NEW h \in Hero, NEW m \in Metric
    PROVE  Listed(Rows, h, m) <=> \/ \E s \in Scope : Why(Got(h, m, s)) = ""
                                  \/ Why(Got(h, m, Whole_match)) = Gap
<1>0. Whole_match \in Scope
  BY DEF Scope
<1>1. ASSUME NEW s \in Scope, Why(Got(h, m, s)) = "" \/ (s = Whole_match /\ Why(Got(h, m, s)) = Gap)
      PROVE  Listed(Rows, h, m)
  <2>. DEFINE r == <<Key(h, m, s), Got(h, m, s)>>
  <2>1. r \in Rows /\ r[1] = Key(h, m, s) /\ r[2] = Got(h, m, s)
    BY RowsAre
  <2>2. r[1][1] = h /\ r[1][2] = m /\ r[1][3] = s
    BY <2>1, KeyParts
  <2>. HIDE DEF r
  <2>3. Why(r[2]) = "" \/ (Why(r[2]) = Gap /\ r[1][3] = Whole_match)
    BY <1>1, <2>1, <2>2
  <2>4. QED BY <2>1, <2>2, <2>3 DEF Listed, Why
<1>2. ASSUME Listed(Rows, h, m)
      PROVE  \/ \E s \in Scope : Why(Got(h, m, s)) = ""
             \/ Why(Got(h, m, Whole_match)) = Gap
  <2>1. PICK r \in Rows : /\ r[1][1] = h /\ r[1][2] = m
                          /\ Why(r[2]) = "" \/ (Why(r[2]) = Gap /\ r[1][3] = Whole_match)
    BY <1>2 DEF Listed, Why
  <2>2. PICK g \in Hero, n \in Metric, s \in Scope : r[1] = Key(g, n, s) /\ r[2] = Got(g, n, s)
    BY RowsAre
  <2>3. r[1][1] = g /\ r[1][2] = n /\ r[1][3] = s
    BY <2>2, KeyParts
  <2>4. QED BY <2>1, <2>2, <2>3
<1>3. QED BY <1>0, <1>1, <1>2

\* Only the deaths of a scope are set aside for a gap.
LEMMA GapIsDeath ==
    ASSUME NEW h \in Hero, NEW m \in Metric, NEW s \in Scope, Why(Got(h, m, s)) = Gap
    PROVE  m = "death"
<1>1. ASSUME NEW r, r = Unavailable("no duration") PROVE Why(r) = "no duration"
  BY <1>1, RowFields, Zenon DEF Why
<1>2. ASSUME NEW r, r = Unavailable("no event") PROVE Why(r) = "no event"
  BY <1>2, RowFields, Zenon DEF Why
<1>3. ASSUME NEW r, r = Unavailable("no opportunity") PROVE Why(r) = "no opportunity"
  BY <1>3, RowFields, Zenon DEF Why
<1>3a. \A c, n, t, x, l : Why(Available(c, n, t, x, l)) = ""
  BY DEF Why, Available
<1>4. ASSUME NEW r, \E c, n, t, x, l : r = Available(c, n, t, x, l) PROVE Why(r) = ""
  BY <1>3a, <1>4, Zenon
<1>5. Gap \notin {"", "no duration", "no event", "no opportunity"}
  BY DEF Gap
<1>. DEFINE r == Got(h, m, s)
<1>6. \/ m = "death" \/ r = Unavailable("no duration") \/ r = Unavailable("no event")
      \/ r = Unavailable("no opportunity") \/ \E c, n, t, x, l : r = Available(c, n, t, x, l)
  <2>1. CASE m = "hero_damage"
    BY <2>1, RowOfDamage DEF Got
  <2>2. CASE m = "objective_damage"
    BY <2>2, RowOfObjectives DEF Got
  <2>3. CASE m \in {"kill", "assist"}
    BY <2>3, RowOfKills DEF Got
  <2>4. QED BY <2>1, <2>2, <2>3 DEF Metric
<1>7. Why(r) = Gap
  OBVIOUS
<1>. HIDE DEF r
<1>8. Gap # "" /\ Gap # "no duration" /\ Gap # "no event" /\ Gap # "no opportunity"
  BY <1>5
<1>9. QED BY <1>1, <1>2, <1>3, <1>4, <1>6, <1>7, <1>8, Zenon

LEMMA EveryMetricAnswered ==
    ASSUME result = Result(file, phases)
    PROVE  AllAnswered
<1>. SUFFICES ASSUME NEW h \in Hero, NEW m \in Metric
              PROVE  LET said == {v[1][3] : v \in {v \in result.values : v[1][1] = h /\ v[1][2] = m}}
                         unsaid == {u[1][3] : u \in {u \in result.unavailable :
                                                       u[1][1] = h /\ u[1][2] = m}}
                     IN  /\ said \cup unsaid # {}
                         /\ said \cap unsaid = {}
                         /\ m # "death" => said = {} \/ unsaid = {}
                         /\ NoScope \in unsaid => said = {} /\ Whole_match \notin unsaid
  BY DEF AllAnswered
<1>. DEFINE said == {v[1][3] : v \in {v \in result.values : v[1][1] = h /\ v[1][2] = m}}
            unsaid == {u[1][3] : u \in {u \in result.unavailable : u[1][1] = h /\ u[1][2] = m}}
            S == {s \in Scope : Why(Got(h, m, s)) = ""}
            G == {s \in Scope : Why(Got(h, m, s)) = Gap}
            N == IF Listed(Rows, h, m) THEN {} ELSE {NoScope}
<1>0. /\ \A s : s \in S <=> s \in Scope /\ Why(Got(h, m, s)) = ""
      /\ \A s : s \in G <=> s \in Scope /\ Why(Got(h, m, s)) = Gap
  OBVIOUS
<1>. HIDE DEF S, G
<1>1. said = S
  <2>1. ASSUME NEW s \in said PROVE s \in S
    <3>1. PICK v \in result.values : v[1][1] = h /\ v[1][2] = m /\ v[1][3] = s
      OBVIOUS
    <3>2. PICK g \in Hero, n \in Metric, t \in Scope : v[1] = Key(g, n, t) /\ Why(Got(g, n, t)) = ""
      BY ValuesAre
    <3>2a. v[1] = Key(g, n, t)
      BY <3>2
    <3>3. v[1][1] = g /\ v[1][2] = n /\ v[1][3] = t
      BY <3>2a, KeyParts
    <3>3a. g = h /\ n = m /\ t = s
      BY <3>1, <3>3
    <3>4. QED BY <1>0, <3>2, <3>3a
  <2>2. ASSUME NEW s \in S PROVE s \in said
    <3>1. <<Key(h, m, s), Got(h, m, s)>> \in result.values
      BY <1>0, ValuesAre
    <3>. DEFINE v == <<Key(h, m, s), Got(h, m, s)>>
    <3>2. v[1] = Key(h, m, s)
      OBVIOUS
    <3>. HIDE DEF v
    <3>3. v[1][1] = h /\ v[1][2] = m /\ v[1][3] = s
      BY <3>2, KeyParts
    <3>4. v \in result.values
      BY <3>1 DEF v
    <3>5. QED BY <3>3, <3>4
  <2>. HIDE DEF said, S
  <2>3. QED BY <2>1, <2>2
<1>2. unsaid = G \cup N
  <2>1. ASSUME NEW s \in unsaid PROVE s \in G \cup N
    <3>1. PICK u \in result.unavailable : u[1][1] = h /\ u[1][2] = m /\ u[1][3] = s
      OBVIOUS
    <3>2. PICK g \in Hero, n \in Metric, t \in Scope :
              \/ u[1] = Key(g, n, t) /\ Why(Got(g, n, t)) = Gap
              \/ u[1] = Key(g, n, NoScope) /\ ~Listed(Rows, g, n)
      BY UnavailableAre
    <3>3. CASE u[1] = Key(g, n, t) /\ Why(Got(g, n, t)) = Gap
      <4>1. g = h /\ n = m /\ t = s
        BY <3>1, <3>3, KeyParts
      <4>2. QED BY <1>0, <3>3, <4>1 DEF Why
    <3>4. CASE u[1] = Key(g, n, NoScope) /\ ~Listed(Rows, g, n)
      <4>1. g = h /\ n = m /\ NoScope = s
        BY <3>1, <3>4, KeyParts
      <4>2. QED BY <3>4, <4>1
    <3>5. QED BY <3>2, <3>3, <3>4
  <2>2. ASSUME NEW s \in G \cup N PROVE s \in unsaid
    <3>1. PICK u \in result.unavailable : u[1] = Key(h, m, s)
      <4>1. CASE s \in G
        <5>1. s \in Scope /\ Why(Got(h, m, s)) = Gap
          BY <1>0, <4>1
        <5>2. QED BY <5>1, UnavailableAre
      <4>2. CASE s \in N
        BY <4>2, UnavailableAre
      <4>3. QED BY <4>1, <4>2
    <3>2. u[1][1] = h /\ u[1][2] = m /\ u[1][3] = s
      BY <3>1, KeyParts
    <3>3. QED BY <3>2
  <2>. HIDE DEF unsaid, G, N
  <2>3. QED BY <2>1, <2>2
<1>3. NoScope \notin Scope /\ Gap # "" /\ Whole_match \in Scope
  BY DEF NoScope, Scope, Official, Whole_match, Gap
<1>4. Listed(Rows, h, m) <=> S # {} \/ Whole_match \in G
  BY <1>0, <1>3, ListedIs DEF Why
<1>5. m # "death" => G = {}
  BY <1>0, GapIsDeath
<1>6. S \cap G = {} /\ S \subseteq Scope /\ G \subseteq Scope
  <2>1. ASSUME NEW s \in S, s \in G PROVE FALSE
    <3>1. Why(Got(h, m, s)) = "" /\ Why(Got(h, m, s)) = Gap
      BY <1>0, <2>1
    <3>2. QED BY <1>3, <3>1
  <2>2. S \subseteq Scope /\ G \subseteq Scope
    BY <1>0
  <2>3. QED BY <2>1, <2>2
<1>7. N \subseteq {NoScope} /\ (N # {} <=> ~Listed(Rows, h, m))
  OBVIOUS
<1>. HIDE DEF said, unsaid, N
<1>8. /\ said \cup unsaid # {}
      /\ said \cap unsaid = {}
      /\ m # "death" => said = {} \/ unsaid = {}
      /\ NoScope \in unsaid => said = {} /\ Whole_match \notin unsaid
  BY <1>1, <1>2, <1>3, <1>4, <1>5, <1>6, <1>7
<1>9. QED BY <1>8 DEF said, unsaid

-----------------------------------------------------------------------------
(* Counts of the phases and of the match.                                  *)

LEMMA CountOfIs ==
    ASSUME result = Result(file, phases), NEW h \in Hero, NEW m \in Metric, NEW s \in Scope
    PROVE  CountOf(h, m, s) = IF Why(Got(h, m, s)) = "" THEN Got(h, m, s).count ELSE 0
<1>. DEFINE mine == {v \in result.values : v[1] = <<h, m, s>>}
            v0 == <<Key(h, m, s), Got(h, m, s)>>
<1>1. CountOf(h, m, s) = IF mine = {} THEN 0 ELSE (CHOOSE v \in mine : TRUE)[2].count
  BY DEF CountOf
<1>2. ASSUME NEW v \in mine PROVE v = v0 /\ Why(Got(h, m, s)) = ""
  <2>1. v \in result.values /\ v[1] = Key(h, m, s)
    BY DEF Key
  <2>2. PICK g \in Hero, n \in Metric, t \in Scope :
            v = <<Key(g, n, t), Got(g, n, t)>> /\ v[1] = Key(g, n, t) /\ Why(Got(g, n, t)) = ""
    BY <2>1, ValuesAre
  <2>3. Key(g, n, t) = Key(h, m, s)
    BY <2>1, <2>2
  <2>4. g = h /\ n = m /\ t = s
    BY <2>3, KeyParts
  <2>5. QED BY <2>2, <2>4
<1>3. ASSUME Why(Got(h, m, s)) = "" PROVE v0 \in mine
  <2>1. v0 \in result.values
    BY <1>3, ValuesAre
  <2>2. v0[1] = <<h, m, s>>
    BY DEF Key
  <2>. HIDE DEF v0
  <2>3. QED BY <2>1, <2>2
<1>4. v0[2] = Got(h, m, s)
  OBVIOUS
<1>. HIDE DEF mine, v0
<1>5. CASE Why(Got(h, m, s)) = ""
  <2>1. mine # {} /\ (CHOOSE v \in mine : TRUE) \in mine
    BY <1>3, <1>5
  <2>2. (CHOOSE v \in mine : TRUE) = v0
    BY <1>2, <2>1
  <2>3. CountOf(h, m, s) = v0[2].count
    BY <1>1, <2>1, <2>2
  <2>4. QED BY <1>4, <1>5, <2>3
<1>6. CASE Why(Got(h, m, s)) # ""
  <2>1. mine = {}
    BY <1>2, <1>6
  <2>2. QED BY <1>1, <1>6, <2>1
<1>7. QED BY <1>5, <1>6

LEMMA WhyFields ==
    /\ \A why : Why(Unavailable(why)) = why
    /\ \A c, n, t, x, l : Why(Available(c, n, t, x, l)) = ""
  BY DEF Why, Available, Unavailable

\* Damage is valued where there is some.
LEMMA DamageCounts ==
    ASSUME NEW ph \in Stream, NEW fs \in Seq(FactT), NEW h \in Hero,
           NEW m \in {"hero_damage", "objective_damage"}, NEW s \in Scope
    PROVE  /\ CountIn(fs, ph, s, h, m) # 0 =>
                MetricRow(fs, ph, h, m, s)
                  = Available(CountIn(fs, ph, s, h, m), CountIn(fs, ph, s, h, m),
                              TimeOf(ph, s), SetAside(fs, ph, s, h, m), {})
           /\ CountIn(fs, ph, s, h, m) = 0 => Why(MetricRow(fs, ph, h, m, s)) # ""
<1>. DEFINE n == CountIn(fs, ph, s, h, m)
            row == MetricRow(fs, ph, h, m, s)
<1>1. TimeOf(ph, s) \in Int
  BY CountTyped
<1>2. ASSUME n # 0
      PROVE  row = Available(n, n, TimeOf(ph, s), SetAside(fs, ph, s, h, m), {})
  <2>1. TimeOf(ph, s) > 0
    BY <1>2, CountNeedsTime
  <2>2. ~(TimeOf(ph, s) <= 0)
    BY <1>1, <2>1
  <2>3. CASE m = "hero_damage"
    BY <1>2, <2>2, <2>3, RowOfDamage
  <2>4. CASE m = "objective_damage"
    BY <1>2, <2>2, <2>4, RowOfObjectives
  <2>5. QED BY <2>3, <2>4
<1>3. ASSUME n = 0
      PROVE  row = Unavailable("no duration") \/ row = Unavailable("no event")
  <2>1. CASE m = "hero_damage"
    BY <1>3, <2>1, RowOfDamage
  <2>2. CASE m = "objective_damage"
    BY <1>3, <2>2, RowOfObjectives
  <2>3. QED BY <2>1, <2>2
<1>4. ASSUME n = 0 PROVE Why(row) # ""
  <2>. HIDE DEF row, n
  <2>1. ASSUME row = Unavailable("no duration") PROVE Why(row) = "no duration"
    BY <2>1, WhyFields, Zenon
  <2>2. ASSUME row = Unavailable("no event") PROVE Why(row) = "no event"
    BY <2>2, WhyFields, Zenon
  <2>3. "no event" # "" /\ "no duration" # ""
    OBVIOUS
  <2>4. QED BY <1>3, <1>4, <2>1, <2>2, <2>3, Zenon
<1>5. QED BY <1>2, <1>4

LEMMA KillCounts ==
    ASSUME NEW ph \in Stream, NEW fs \in Seq(FactT), NEW h \in Hero,
           NEW m \in {"kill", "assist"}, NEW s \in Scope
    PROVE  /\ TimeOf(ph, s) > 0 /\ ChancesIn(fs, ph, s, h) # 0 =>
                MetricRow(fs, ph, h, m, s)
                  = Available(CountIn(fs, ph, s, h, m), ChancesIn(fs, ph, s, h),
                              TimeOf(ph, s), SetAside(fs, ph, s, h, m), {})
           /\ ~(TimeOf(ph, s) > 0 /\ ChancesIn(fs, ph, s, h) # 0) =>
                Why(MetricRow(fs, ph, h, m, s)) # ""
<1>. DEFINE row == MetricRow(fs, ph, h, m, s)
            good == TimeOf(ph, s) > 0 /\ ChancesIn(fs, ph, s, h) # 0
<1>1. TimeOf(ph, s) \in Int
  BY CountTyped
<1>2. TimeOf(ph, s) > 0 <=> ~(TimeOf(ph, s) <= 0)
  BY <1>1
<1>3. good => row = Available(CountIn(fs, ph, s, h, m), ChancesIn(fs, ph, s, h),
                              TimeOf(ph, s), SetAside(fs, ph, s, h, m), {})
  BY <1>2, RowOfKills
<1>4. ~good => row = Unavailable("no duration") \/ row = Unavailable("no opportunity")
  BY <1>2, RowOfKills
<1>. HIDE DEF row, good
<1>5. ASSUME row = Unavailable("no duration") PROVE Why(row) = "no duration"
  BY <1>5, WhyFields, Zenon
<1>6. ASSUME row = Unavailable("no opportunity") PROVE Why(row) = "no opportunity"
  BY <1>6, WhyFields, Zenon
<1>7. "no opportunity" # "" /\ "no duration" # ""
  OBVIOUS
<1>8. ~good => Why(row) # ""
  BY <1>4, <1>5, <1>6, <1>7, Zenon
<1>9. QED BY <1>3, <1>8 DEF row, good

-----------------------------------------------------------------------------
(* Damage, kills and assists add up.                                       *)

Analysed == phases \in Stream /\ file \in Seq(FactT) /\ result = Result(file, phases)

Valued(row) == Why(row) = ""

LEMMA AvailableFields ==
    ASSUME NEW c, NEW n, NEW t, NEW x, NEW l, NEW row, row = Available(c, n, t, x, l)
    PROVE  /\ row.count = c /\ row.chances = n /\ row.time = t /\ row.excluded = x
           /\ row.lives = l /\ Valued(row)
  BY DEF Available, Why, Valued

LEMMA DamageCountOf ==
    ASSUME Analysed, NEW h \in Hero, NEW m \in {"hero_damage", "objective_damage"}, NEW s \in Scope
    PROVE  /\ CountOf(h, m, s) = CountIn(file, phases, s, h, m)
           /\ Valued(Got(h, m, s)) =>
                /\ Got(h, m, s).count = CountIn(file, phases, s, h, m)
                /\ Got(h, m, s).excluded = SetAside(file, phases, s, h, m)
<1>. DEFINE n == CountIn(file, phases, s, h, m)
            row == Got(h, m, s)
<1>0. /\ phases \in Stream /\ file \in Seq(FactT) /\ result = Result(file, phases)
      /\ m \in Metric
  BY DEF Analysed, Metric
<1>1. /\ n # 0 => row = Available(n, n, TimeOf(phases, s), SetAside(file, phases, s, h, m), {})
      /\ n = 0 => ~Valued(row)
  BY <1>0, DamageCounts DEF Got, Valued
<1>2. CountOf(h, m, s) = IF Valued(row) THEN row.count ELSE 0
  BY <1>0, CountOfIs DEF Valued
<1>. HIDE DEF n, row
<1>3. n # 0 => row.count = n /\ row.excluded = SetAside(file, phases, s, h, m) /\ Valued(row)
  BY <1>1, AvailableFields
<1>4. CountOf(h, m, s) = n
  BY <1>1, <1>2, <1>3
<1>5. Valued(row) => row.count = n /\ row.excluded = SetAside(file, phases, s, h, m)
  BY <1>1, <1>3
<1>6. QED BY <1>4, <1>5 DEF n, row

LEMMA ScopesAre == /\ Whole_match \in Scope /\ "laning" \in Scope /\ "midgame" \in Scope
                   /\ "decisive" \in Scope
  BY DEF Scope, Official

LEMMA DamageAddsUp ==
    ASSUME Analysed, NEW h \in Hero, NEW m \in {"hero_damage", "objective_damage"},
           Valued(Got(h, m, Whole_match))
    PROVE  Got(h, m, Whole_match).count = PhaseTotal(h, m)
<1>1. \A s \in Scope : CountOf(h, m, s) = CountIn(file, phases, s, h, m)
  BY DamageCountOf
<1>2. Got(h, m, Whole_match).count = CountIn(file, phases, Whole_match, h, m)
  BY DamageCountOf, ScopesAre
<1>3. phases \in Stream /\ file \in Seq(FactT)
  BY DEF Analysed
<1>4. CountIn(file, phases, Whole_match, h, m)
         = CountIn(file, phases, "laning", h, m) + CountIn(file, phases, "midgame", h, m)
           + CountIn(file, phases, "decisive", h, m)
  BY <1>3, CountAddsUp
<1>5. QED BY <1>1, <1>2, <1>4, ScopesAre DEF PhaseTotal

\* What is credited and what counts, of damage to heroes.
LEMMA DamageComplete ==
    ASSUME Analysed, NEW h \in Hero, Valued(Got(h, "hero_damage", Whole_match))
    PROVE  Got(h, "hero_damage", Whole_match).count + Got(h, "hero_damage", Whole_match).excluded
             = Cardinality({i \in DOMAIN file : Credits(file[i], h, "hero_damage")})
<1>. DEFINE m == "hero_damage"
            all == {i \in DOMAIN file : Credits(file[i], h, m)}
            in == Counted(file, phases, Whole_match, h, m)
            out == Rejected(file, phases, h, m)
            row == Got(h, m, Whole_match)
<1>0. phases \in Stream /\ file \in Seq(FactT)
  BY DEF Analysed
<1>1. row.count = CountIn(file, phases, Whole_match, h, m)
      /\ row.excluded = SetAside(file, phases, Whole_match, h, m)
  BY DamageCountOf, ScopesAre
<1>2. row.count = Cardinality(in)
  BY <1>1 DEF CountIn
<1>3. IsFiniteSet(all)
  <2>1. all \subseteq DOMAIN file /\ IsFiniteSet(DOMAIN file)
    BY <1>0, AcceptedFinite
  <2>2. QED BY <2>1, FS_Subset
<1>4. all = in \cup out /\ in \cap out = {}
  <2>1. \A i \in all : file[i].type # "death"
    BY DEF Credits, IsHit
  <2>2. Accepted(file, phases, Whole_match) \subseteq DOMAIN file
    BY <1>0, AcceptedFinite
  <2>3. in = {i \in Accepted(file, phases, Whole_match) : i \in all}
    BY <2>1, <2>2 DEF Counted
  <2>4. out = {i \in DOMAIN file \ Accepted(file, phases, Whole_match) : i \in all}
    BY DEF Rejected
  <2>5. all \subseteq DOMAIN file
    OBVIOUS
  <2>. HIDE DEF in, out, all
  <2>6. QED BY <2>2, <2>3, <2>4, <2>5
<1>. HIDE DEF in, out, all
<1>5. IsFiniteSet(in) /\ IsFiniteSet(out)
  <2>1. in \subseteq all /\ out \subseteq all
    BY <1>4
  <2>2. QED BY <1>3, <2>1, FS_Subset
<1>6. Cardinality(in) \in Nat /\ Cardinality(out) \in Nat
  BY <1>5, FS_CardinalityType
<1>7. row.excluded = Cardinality(out)
  <2>1. SetAside(file, phases, Whole_match, h, m) = Cardinality(out) + 0
    BY DEF SetAside, out
  <2>2. QED BY <1>1, <1>6, <2>1
<1>8. Cardinality(all) = Cardinality(in) + Cardinality(out)
  <2>1. Cardinality({}) = 0
    BY FS_EmptySet
  <2>2. Cardinality(in \cup out) = Cardinality(in) + Cardinality(out) - Cardinality({})
    BY <1>4, <1>5, FS_Union
  <2>3. QED BY <1>4, <1>6, <2>1, <2>2
<1>9. QED BY <1>2, <1>7, <1>8 DEF all

Odd(h, m) ==
    {i \in {i \in DOMAIN file : Credits(file[i], h, m)} :
        ~Opposing(file[i].account, file[i].by) \/ Opposing(file[i].by, h)}

LEMMA KillCountOf ==
    ASSUME Analysed, NEW h \in Hero, NEW m \in {"kill", "assist"}, NEW s \in Scope
    PROVE  /\ CountOf(h, m, s) \in Nat /\ CountOf(h, m, s) <= CountIn(file, phases, s, h, m)
           /\ Valued(Got(h, m, s)) => /\ Got(h, m, s).count = CountIn(file, phases, s, h, m)
                                        /\ Got(h, m, s).chances = ChancesIn(file, phases, s, h)
           /\ Odd(h, m) = {} => /\ CountOf(h, m, s) = CountIn(file, phases, s, h, m)
                                /\ CountIn(file, phases, s, h, m) <= ChancesIn(file, phases, s, h)
<1>. DEFINE n == CountIn(file, phases, s, h, m)
            c == ChancesIn(file, phases, s, h)
            t == TimeOf(phases, s)
            row == Got(h, m, s)
<1>0. /\ phases \in Stream /\ file \in Seq(FactT) /\ result = Result(file, phases)
      /\ m \in Metric
  BY DEF Analysed, Metric
<1>1. /\ t > 0 /\ c # 0 => row = Available(n, c, t, SetAside(file, phases, s, h, m), {})
      /\ ~(t > 0 /\ c # 0) => ~Valued(row)
  BY <1>0, KillCounts DEF Got, Valued
<1>2. CountOf(h, m, s) = IF Valued(row) THEN row.count ELSE 0
  BY <1>0, CountOfIs DEF Valued
<1>3. n \in Nat /\ c \in Nat
  BY <1>0, CountTyped
<1>4. n # 0 => t > 0
  BY <1>0, CountNeedsTime
<1>5. Odd(h, m) = {} => n <= c
  <2>. SUFFICES ASSUME Odd(h, m) = {} PROVE n <= c
    OBVIOUS
  <2>. DEFINE S == Counted(file, phases, s, h, m)
              C == Chances(file, phases, s, h)
  <2>1. ASSUME NEW i \in S PROVE i \in C
    <3>1. i \in Accepted(file, phases, s) /\ Credits(file[i], h, m) /\ i \in DOMAIN file
      BY <1>0, AcceptedFinite DEF Counted
    <3>2. file[i].type = "death"
      BY <3>1 DEF Credits
    <3>3. Opposing(file[i].account, file[i].by) /\ ~Opposing(file[i].by, h)
      BY <3>1 DEF Odd
    <3>4. QED BY <3>1, <3>2, <3>3 DEF Chances
  <2>2. IsFiniteSet(C)
    BY <1>0, CountTyped
  <2>. HIDE DEF S, C
  <2>3. S \subseteq C
    BY <2>1
  <2>4. Cardinality(S) <= Cardinality(C)
    BY <2>2, <2>3, FS_Subset
  <2>5. QED BY <2>4 DEF S, C, CountIn, ChancesIn
<1>. HIDE DEF n, c, t, row
<1>6. t > 0 /\ c # 0 => row.count = n /\ row.chances = c /\ Valued(row)
  BY <1>1, AvailableFields
<1>7. Valued(row) => row.count = n /\ row.chances = c
  BY <1>1, <1>6
<1>8. CountOf(h, m, s) = n \/ CountOf(h, m, s) = 0
  BY <1>2, <1>7
<1>9. CountOf(h, m, s) \in Nat /\ CountOf(h, m, s) <= n
  BY <1>3, <1>8
<1>10. Odd(h, m) = {} => CountOf(h, m, s) = n
  <2>. SUFFICES ASSUME Odd(h, m) = {} PROVE CountOf(h, m, s) = n
    OBVIOUS
  <2>1. CASE n # 0
    <3>1. c # 0
      BY <1>3, <1>5, <2>1
    <3>2. QED BY <1>2, <1>4, <1>6, <2>1, <3>1
  <2>2. CASE n = 0
    BY <1>8, <2>2
  <2>3. QED BY <2>1, <2>2
<1>11. QED BY <1>5, <1>7, <1>9, <1>10 DEF n, c, row

LEMMA KillsAddUp ==
    ASSUME Analysed, NEW h \in Hero, NEW m \in {"kill", "assist"},
           Valued(Got(h, m, Whole_match))
    PROVE  /\ Got(h, m, Whole_match).count >= PhaseTotal(h, m)
           /\ Odd(h, m) = {} => /\ Got(h, m, Whole_match).count = PhaseTotal(h, m)
                                /\ Got(h, m, Whole_match).count <= Got(h, m, Whole_match).chances
<1>. DEFINE n(s) == CountIn(file, phases, s, h, m)
<1>1. ASSUME NEW s \in Scope
      PROVE  /\ CountOf(h, m, s) \in Nat /\ CountOf(h, m, s) <= n(s) /\ n(s) \in Nat
             /\ Odd(h, m) = {} => CountOf(h, m, s) = n(s)
  <2>1. phases \in Stream /\ file \in Seq(FactT)
    BY DEF Analysed
  <2>2. n(s) \in Nat
    BY <2>1, CountTyped
  <2>3. QED BY <2>2, KillCountOf
<1>2. /\ Got(h, m, Whole_match).count = n(Whole_match)
      /\ Got(h, m, Whole_match).chances = ChancesIn(file, phases, Whole_match, h)
      /\ Odd(h, m) = {} => n(Whole_match) <= ChancesIn(file, phases, Whole_match, h)
  BY KillCountOf, ScopesAre
<1>3. phases \in Stream /\ file \in Seq(FactT)
  BY DEF Analysed
<1>4. n(Whole_match) = n("laning") + n("midgame") + n("decisive")
  BY <1>3, CountAddsUp
<1>. HIDE DEF n
<1>5. PhaseTotal(h, m) = CountOf(h, m, "laning") + CountOf(h, m, "midgame") + CountOf(h, m, "decisive")
  BY DEF PhaseTotal
<1>6. QED BY <1>1, <1>2, <1>4, <1>5, ScopesAre

-----------------------------------------------------------------------------
(* What is said of a hero, in order.                                       *)

Sign(fs, ph, h) ==
    {i \in Accepted(fs, ph, Whole_match) :
        fs[i].type \in {"death", "sample"} /\ fs[i].account = h}

\* A set of facts, and those of them that come before one.
Before(fs, S, i) == {j \in S : Sooner(fs, j, i)}

LEMMA SaysFinite ==
    ASSUME NEW fs \in Seq(FactT), NEW ph, NEW h
    PROVE  Sign(fs, ph, h) \subseteq DOMAIN fs /\ IsFiniteSet(Sign(fs, ph, h))
<1>1. Sign(fs, ph, h) \subseteq Accepted(fs, ph, Whole_match)
  BY DEF Sign
<1>2. QED BY <1>1, AcceptedFinite, FS_Subset

LEMMA SoonerOrders ==
    ASSUME NEW fs \in Seq(FactT)
    PROVE  /\ \A i \in DOMAIN fs : ~Sooner(fs, i, i)
           /\ \A i, j, k \in DOMAIN fs : Sooner(fs, i, j) /\ Sooner(fs, j, k) => Sooner(fs, i, k)
           /\ \A i, j \in DOMAIN fs : i = j \/ Sooner(fs, i, j) \/ Sooner(fs, j, i)
           /\ \A i, j \in DOMAIN fs : Sooner(fs, i, j) => fs[i].at <= fs[j].at
<1>1. \A i \in DOMAIN fs : fs[i].at \in Int /\ i \in Nat
  BY FactAt
<1>. DEFINE at == [i \in DOMAIN fs |-> fs[i].at]
<1>2. \A i, j \in DOMAIN fs : Sooner(fs, i, j) <=> at[i] < at[j] \/ (at[i] = at[j] /\ i < j)
  BY DEF Sooner
<1>3. \A i \in DOMAIN fs : at[i] \in Int /\ i \in Nat /\ at[i] = fs[i].at
  BY <1>1
<1>. HIDE DEF at
<1>4. \A i \in DOMAIN fs : ~Sooner(fs, i, i)
  BY <1>2, <1>3
<1>5. \A i, j, k \in DOMAIN fs : Sooner(fs, i, j) /\ Sooner(fs, j, k) => Sooner(fs, i, k)
  <2>. SUFFICES ASSUME NEW i \in DOMAIN fs, NEW j \in DOMAIN fs, NEW k \in DOMAIN fs,
                       Sooner(fs, i, j), Sooner(fs, j, k)
                PROVE  Sooner(fs, i, k)
    OBVIOUS
  <2>1. /\ at[i] < at[j] \/ (at[i] = at[j] /\ i < j)
        /\ at[j] < at[k] \/ (at[j] = at[k] /\ j < k)
    BY <1>2
  <2>2. at[i] < at[k] \/ (at[i] = at[k] /\ i < k)
    BY <1>3, <2>1
  <2>3. QED BY <1>2, <2>2
<1>6. \A i, j \in DOMAIN fs : i = j \/ Sooner(fs, i, j) \/ Sooner(fs, j, i)
  BY <1>2, <1>3
<1>7. \A i, j \in DOMAIN fs : Sooner(fs, i, j) => fs[i].at <= fs[j].at
  BY <1>2, <1>3
<1>8. QED BY <1>4, <1>5, <1>6, <1>7

LEMMA BeforeFewer ==
    ASSUME NEW fs \in Seq(FactT), NEW S \in SUBSET DOMAIN fs, IsFiniteSet(S),
           NEW i \in S, NEW j \in S, Sooner(fs, i, j)
    PROVE  Cardinality(Before(fs, S, i)) < Cardinality(Before(fs, S, j))
<1>1. /\ Before(fs, S, i) \subseteq Before(fs, S, j)
      /\ i \in Before(fs, S, j) /\ i \notin Before(fs, S, i)
  BY SoonerOrders DEF Before
<1>2. Before(fs, S, i) \subseteq S /\ Before(fs, S, j) \subseteq S
  BY DEF Before
<1>3. IsFiniteSet(Before(fs, S, i)) /\ IsFiniteSet(Before(fs, S, j))
  BY <1>2, FS_Subset
<1>4. Cardinality(Before(fs, S, i)) \in Nat /\ Cardinality(Before(fs, S, j)) \in Nat
  BY <1>3, FS_CardinalityType
<1>5. /\ Cardinality(Before(fs, S, i)) <= Cardinality(Before(fs, S, j))
      /\ Cardinality(Before(fs, S, i)) # Cardinality(Before(fs, S, j))
  BY <1>1, <1>3, FS_Subset
<1>6. QED BY <1>4, <1>5

LEMMA BeforeBound ==
    ASSUME NEW fs \in Seq(FactT), NEW S \in SUBSET DOMAIN fs, IsFiniteSet(S), NEW i \in S
    PROVE  Cardinality(Before(fs, S, i)) \in 0 .. Cardinality(S) - 1 /\ Cardinality(S) \in Nat
<1>1. Before(fs, S, i) \subseteq S /\ i \in S /\ i \notin Before(fs, S, i)
  BY SoonerOrders DEF Before
<1>2. /\ IsFiniteSet(Before(fs, S, i)) /\ Cardinality(Before(fs, S, i)) <= Cardinality(S)
      /\ Cardinality(Before(fs, S, i)) # Cardinality(S)
  BY <1>1, FS_Subset
<1>3. Cardinality(Before(fs, S, i)) \in Nat /\ Cardinality(S) \in Nat
  BY <1>2, FS_CardinalityType
<1>4. QED BY <1>2, <1>3

\* The list of events holds all that is said, each once, in order.
InOrder(fs, S, ev) ==
    /\ ev \in [1 .. Cardinality(S) -> S]
    /\ \A i \in S : \E n \in 1 .. Cardinality(S) : ev[n] = i
    /\ \A m, n \in 1 .. Cardinality(S) : m < n => Sooner(fs, ev[m], ev[n])

NthBefore(fs, S, n) == CHOOSE i \in S : Cardinality({j \in S : Sooner(fs, j, i)}) = n - 1

LEMMA RanksOrder ==
    ASSUME NEW fs \in Seq(FactT), NEW S \in SUBSET DOMAIN fs, IsFiniteSet(S)
    PROVE  InOrder(fs, S, [n \in 1 .. Cardinality(S) |-> NthBefore(fs, S, n)])
<1>. DEFINE C == Cardinality(S)
            T == 0 .. C - 1
            rank == [i \in S |-> Cardinality(Before(fs, S, i))]
            ev == [n \in 1 .. C |-> NthBefore(fs, S, n)]
<1>1. C \in Nat
  BY FS_CardinalityType
<1>2. \A i \in S : rank[i] \in T
  BY BeforeBound
<1>3. \A i, j \in S : Sooner(fs, i, j) => rank[i] < rank[j]
  BY BeforeFewer
<1>4. IsFiniteSet(T) /\ Cardinality(T) = C
  <2>. HIDE DEF C
  <2>1. 0 \in Int /\ C - 1 \in Int
    BY <1>1
  <2>2. IsFiniteSet(0 .. C - 1)
        /\ Cardinality(0 .. C - 1) = IF 0 > C - 1 THEN 0 ELSE (C - 1) - 0 + 1
    BY <2>1, FS_Interval
  <2>3. QED BY <1>1, <2>2
<1>5. rank \in [S -> T]
  BY <1>2
<1>6. T \subseteq Int
  BY <1>1
<1>7. \A n : NthBefore(fs, S, n) = CHOOSE i \in S : rank[i] = n - 1
  BY DEF NthBefore, Before
<1>. HIDE DEF rank, T
<1>8. \A i, j \in S : i = j \/ rank[i] < rank[j] \/ rank[j] < rank[i]
  BY <1>3, SoonerOrders
<1>9. \A i, j \in S : rank[i] = rank[j] => i = j
  <2>1. \A i \in S : rank[i] \in Int
    BY <1>2, <1>6
  <2>. SUFFICES ASSUME NEW i \in S, NEW j \in S, rank[i] = rank[j] PROVE i = j
    OBVIOUS
  <2>2. QED BY <1>8, <2>1
<1>10. rank \in Injection(S, T)
  BY <1>5, <1>9 DEF Injection, IsInjective
<1>11. rank \in Surjection(S, T)
  <2>. HIDE DEF C
  <2>1. QED BY <1>4, <1>10, FS_Injection DEF C
<1>12. ASSUME NEW n \in 1 .. C PROVE ev[n] \in S /\ rank[ev[n]] = n - 1
  <2>1. n - 1 \in T
    BY <1>1 DEF T
  <2>2. \E i \in S : rank[i] = n - 1
    BY <1>11, <2>1 DEF Surjection
  <2>3. ev[n] = CHOOSE i \in S : rank[i] = n - 1
    BY <1>7
  <2>4. QED BY <2>2, <2>3
<1>13. ASSUME NEW i \in S PROVE \E n \in 1 .. C : ev[n] = i
  <2>. DEFINE n == rank[i] + 1
  <2>1. rank[i] \in 0 .. C - 1
    BY <1>2 DEF T
  <2>2. n \in 1 .. C /\ n - 1 = rank[i]
    BY <1>1, <2>1
  <2>. HIDE DEF n, ev
  <2>3. ev[n] \in S /\ rank[ev[n]] = n - 1
    BY <1>12, <2>2
  <2>4. ev[n] = i
    BY <1>9, <2>2, <2>3
  <2>5. QED BY <2>2, <2>4
<1>. DEFINE E == 1 .. C
<1>14. ASSUME NEW m \in E, NEW n \in E, m < n PROVE Sooner(fs, ev[m], ev[n])
  <2>. HIDE DEF ev
  <2>1. ev[m] \in S /\ rank[ev[m]] = m - 1 /\ ev[n] \in S /\ rank[ev[n]] = n - 1
    BY <1>12
  <2>2. m \in Int /\ n \in Int
    BY <1>1
  <2>3. ev[m] # ev[n] /\ ~(rank[ev[n]] < rank[ev[m]])
    BY <1>14, <2>1, <2>2
  <2>4. QED BY <1>3, <2>1, <2>3, SoonerOrders
<1>15. ev \in [1 .. C -> S]
  BY <1>12
<1>. HIDE DEF ev
<1>16. InOrder(fs, S, ev)
  BY <1>13, <1>14, <1>15 DEF InOrder
<1>17. QED BY <1>16 DEF ev

LEMMA EventsInOrder ==
    ASSUME NEW fs \in Seq(FactT), NEW ph, NEW h
    PROVE  /\ InOrder(fs, Sign(fs, ph, h), LifeEvents(fs, ph, h))
           /\ Len(LifeEvents(fs, ph, h)) = Cardinality(Sign(fs, ph, h))
           /\ Cardinality(Sign(fs, ph, h)) \in Nat
<1>. DEFINE S == Sign(fs, ph, h)
<1>1. S \in SUBSET DOMAIN fs /\ IsFiniteSet(S)
  BY SaysFinite
<1>2. LifeEvents(fs, ph, h) = [n \in 1 .. Cardinality(S) |-> NthBefore(fs, S, n)]
  BY DEF LifeEvents, Sign, NthBefore
<1>3. Cardinality(S) \in Nat
  BY <1>1, FS_CardinalityType
<1>. HIDE DEF S
<1>4. InOrder(fs, S, LifeEvents(fs, ph, h))
  BY <1>1, <1>2, RanksOrder
<1>5. LifeEvents(fs, ph, h) \in Seq(S)
  BY <1>3, <1>4 DEF InOrder
<1>6. Len(LifeEvents(fs, ph, h)) = Cardinality(S)
  BY <1>2, <1>3, <1>5
<1>7. QED BY <1>3, <1>4, <1>6 DEF S

-----------------------------------------------------------------------------
(* One event of a hero.                                                    *)

\* A fact that says whether its hero lives, or that it does not say.
Tells_life(f) == f \in FactT /\ f.type \in {"death", "sample"}

LEMMA ThreeStates ==
    ASSUME NEW f, Tells_life(f)
    PROVE  /\ IsNull(f) \/ IsAlive(f) \/ IsDead(f)
           /\ ~(IsNull(f) /\ IsAlive(f)) /\ ~(IsNull(f) /\ IsDead(f)) /\ ~(IsAlive(f) /\ IsDead(f))
<1>1. f.alive \in {"alive", "dead", Unknown} /\ f.type \in {"death", "sample"}
  BY DEF Tells_life, FactT, Liveness
<1>2. QED BY <1>1 DEF IsNull, IsAlive, IsDead, Unknown

LifeT(E) == [start : E \cup {0}, holed : BOOLEAN, last : {"unknown", "alive", "dead"},
             lives : Seq(E \X E), gaps : SUBSET E]

Unsaid(s) == s.last = "unknown"
Living(s) == s.last = "alive"
Gone(s) == s.last = "dead"

LEMMA LifeStateFields ==
    ASSUME NEW start, NEW holed, NEW last, NEW lives, NEW gaps,
           NEW s, s = LifeState(start, holed, last, lives, gaps)
    PROVE  /\ s.start = start /\ s.holed = holed /\ s.last = last /\ s.lives = lives /\ s.gaps = gaps
           /\ \A E : /\ start \in E \cup {0} /\ holed \in BOOLEAN /\ last \in {"unknown", "alive", "dead"}
                     /\ lives \in Seq(E \X E) /\ gaps \in SUBSET E
                     => s \in LifeT(E)
  BY DEF LifeState, LifeT

LEMMA LifeTyped ==
    ASSUME NEW E, NEW s \in LifeT(E)
    PROVE  /\ s.start \in E \cup {0} /\ s.holed \in BOOLEAN /\ s.lives \in Seq(E \X E)
           /\ s.gaps \in SUBSET E /\ s.last \in {"unknown", "alive", "dead"}
           /\ Unsaid(s) \/ Living(s) \/ Gone(s)
           /\ ~(Unsaid(s) /\ Living(s)) /\ ~(Unsaid(s) /\ Gone(s)) /\ ~(Living(s) /\ Gone(s))
  BY DEF LifeT, Unsaid, Living, Gone

LEMMA NoLifeIs ==
    /\ NoLife.start = 0 /\ NoLife.lives = <<>> /\ Unsaid(NoLife)
    /\ \A E : NoLife \in LifeT(E)
<1>1. /\ NoLife.start = 0 /\ NoLife.lives = <<>> /\ NoLife.last = "unknown"
  BY DEF NoLife, LifeState
<1>2. ASSUME NEW E PROVE NoLife \in LifeT(E)
  <2>1. <<>> \in Seq(E \X E) /\ {} \in SUBSET E /\ 0 \in E \cup {0}
    OBVIOUS
  <2>2. QED BY <2>1 DEF NoLife, LifeState, LifeT
<1>3. QED BY <1>1, <1>2 DEF Unsaid

\* What each kind of event changes, for a hero who is bound and for one who
\* is not.
BoundStep(s, fs, i) == LifeStep(s, fs, i, TRUE)
LooseStep(s, fs, i) == LifeStep(s, fs, i, FALSE)

LEMMA NullStep ==
    ASSUME NEW E, NEW s \in LifeT(E), NEW fs, NEW i \in E, IsNull(fs[i]),
           NEW t, t = BoundStep(s, fs, i)
    PROVE  /\ t \in LifeT(E)
           /\ t.start = s.start /\ t.lives = s.lives /\ t.last = s.last
           /\ t.holed <=> (s.holed \/ s.start # 0)
<1>a. ~IsAlive(fs[i])
  BY DEF IsNull, IsAlive, Unknown
<1>0. t = IF s.start = 0 THEN s ELSE LifeState(s.start, TRUE, s.last, s.lives, s.gaps \cup {i})
  BY <1>a DEF LifeStep, BoundStep
<1>1. CASE s.start = 0
  <2>1. t = s
    BY <1>0, <1>1, Zenon
  <2>2. s.holed \in BOOLEAN
    BY LifeTyped
  <2>3. QED BY <1>1, <2>1, <2>2
<1>2. CASE s.start # 0
  <2>1. t = LifeState(s.start, TRUE, s.last, s.lives, s.gaps \cup {i})
    BY <1>0, <1>2, Zenon
  <2>2. /\ s.start \in E \cup {0} /\ s.lives \in Seq(E \X E) /\ s.gaps \cup {i} \in SUBSET E
        /\ s.last \in {"unknown", "alive", "dead"}
    BY LifeTyped
  <2>3. t \in LifeT(E)
    BY <2>1, <2>2 DEF LifeState, LifeT
  <2>4. t.start = s.start /\ t.lives = s.lives /\ t.last = s.last /\ t.holed = TRUE
    BY <2>1 DEF LifeState
  <2>5. QED BY <1>2, <2>3, <2>4
<1>3. QED BY <1>1, <1>2

LEMMA AliveStep ==
    ASSUME NEW E, NEW s \in LifeT(E), NEW fs, NEW i \in E,
           Tells_life(fs[i]), IsAlive(fs[i]), NEW t, t = BoundStep(s, fs, i)
    PROVE  /\ t \in LifeT(E)
           /\ Living(s) => t = s
           /\ ~Living(s) => t.start = i /\ t.lives = s.lives /\ Living(t) /\ ~t.holed
<1>0. ~IsNull(fs[i])
  BY ThreeStates
<1>1. CASE Living(s)
  BY <1>0, <1>1 DEF LifeStep, Living, BoundStep
<1>2. CASE ~Living(s)
  <2>1. t = LifeState(i, FALSE, "alive", s.lives, s.gaps)
    BY <1>0, <1>2 DEF LifeStep, Living, BoundStep
  <2>2. s.lives \in Seq(E \X E) /\ s.gaps \in SUBSET E
    BY LifeTyped
  <2>3. t \in LifeT(E)
    BY <2>1, <2>2 DEF LifeState, LifeT
  <2>4. t.start = i /\ t.lives = s.lives /\ t.last = "alive" /\ t.holed = FALSE
    BY <2>1 DEF LifeState
  <2>5. QED BY <1>2, <2>3, <2>4 DEF Living
<1>3. QED BY <1>1, <1>2

LEMMA DeadStep ==
    ASSUME NEW E, NEW s \in LifeT(E), NEW fs, NEW i \in E,
           Tells_life(fs[i]), IsDead(fs[i]), NEW t, t = BoundStep(s, fs, i)
    PROVE  /\ t \in LifeT(E)
           /\ Gone(s) => t = s
           /\ ~Gone(s) => /\ t.start = 0 /\ Gone(t)
                          /\ t.lives = IF s.start # 0 /\ ~s.holed /\ fs[i].at > fs[s.start].at
                                       THEN Append(s.lives, <<s.start, i>>) ELSE s.lives
<1>0. ~IsNull(fs[i]) /\ ~IsAlive(fs[i])
  BY ThreeStates
<1>1. CASE Gone(s)
  BY <1>0, <1>1 DEF LifeStep, Gone, BoundStep
<1>2. CASE ~Gone(s)
  <2>. DEFINE lives == IF s.start # 0 /\ ~s.holed /\ fs[i].at > fs[s.start].at
                       THEN Append(s.lives, <<s.start, i>>) ELSE s.lives
  <2>1. t = LifeState(0, FALSE, "dead", lives, s.gaps)
    BY <1>0, <1>2 DEF LifeStep, Gone, BoundStep
  <2>2. s.lives \in Seq(E \X E) /\ s.gaps \in SUBSET E /\ s.start \in E \cup {0}
    BY LifeTyped
  <2>3. lives \in Seq(E \X E)
    <3>1. CASE s.start # 0
      <4>1. <<s.start, i>> \in E \X E
        BY <2>2, <3>1
      <4>2. QED BY <2>2, <4>1
    <3>2. CASE s.start = 0
      BY <2>2, <3>2
    <3>3. QED BY <3>1, <3>2
  <2>. HIDE DEF lives
  <2>4. t \in LifeT(E)
    BY <2>1, <2>2, <2>3 DEF LifeState, LifeT
  <2>5. t.start = 0 /\ t.lives = lives /\ t.last = "dead"
    BY <2>1 DEF LifeState
  <2>6. QED BY <1>2, <2>4, <2>5 DEF Gone, lives
<1>3. QED BY <1>1, <1>2

LEMMA LooseKeeps ==
    ASSUME NEW E, NEW s \in LifeT(E), NEW fs, NEW i \in E, NEW t, t = LooseStep(s, fs, i)
    PROVE  t \in LifeT(E) /\ t.lives = s.lives
<1>1. s.lives \in Seq(E \X E) /\ s.gaps \in SUBSET E
  BY LifeTyped
<1>2. \/ t = s \/ t = LifeState(i, FALSE, "alive", s.lives, s.gaps)
      \/ t = LifeState(0, FALSE, "dead", s.lives, s.gaps)
  <2>1. CASE IsNull(fs[i])
    BY <2>1 DEF LifeStep, LooseStep, IsAlive, IsNull, Unknown
  <2>2. CASE ~IsNull(fs[i]) /\ IsAlive(fs[i])
    BY <2>2 DEF LifeStep, LooseStep
  <2>3. CASE ~IsNull(fs[i]) /\ ~IsAlive(fs[i])
    <3>1. t = IF s.last = "dead" THEN s
              ELSE LifeState(0, FALSE, "dead",
                      IF s.start # 0 /\ ~s.holed /\ FALSE /\ fs[i].at > fs[s.start].at
                      THEN Append(s.lives, <<s.start, i>>) ELSE s.lives, s.gaps)
      BY <2>3 DEF LifeStep, LooseStep
    <3>2. QED BY <3>1
  <2>4. QED BY <2>1, <2>2, <2>3
<1>3. LifeState(i, FALSE, "alive", s.lives, s.gaps) \in LifeT(E)
      /\ LifeState(0, FALSE, "dead", s.lives, s.gaps) \in LifeT(E)
  BY <1>1 DEF LifeState, LifeT
<1>4. t.lives = s.lives
  BY <1>2 DEF LifeState
<1>5. QED BY <1>2, <1>3, <1>4

-----------------------------------------------------------------------------
(* The lives a set of facts proves.                                        *)

\* Before i there is nothing, or a death, and since then nothing said.
Risen(fs, E, i) ==
    \/ \A k \in E : Sooner(fs, k, i) => IsNull(fs[k])
    \/ \E d \in E : /\ IsDead(fs[d]) /\ Sooner(fs, d, i)
                    /\ \A k \in E : Sooner(fs, d, k) /\ Sooner(fs, k, i) => IsNull(fs[k])

LifeOf(fs, E, i, j) ==
    /\ i \in E /\ j \in E
    /\ IsAlive(fs[i]) /\ IsDead(fs[j]) /\ fs[i].at < fs[j].at
    /\ \A k \in E : Sooner(fs, i, k) /\ Sooner(fs, k, j) => IsAlive(fs[k])
    /\ Risen(fs, E, i)

\* Facts of a hero that come before fact i, and it.
Extends(fs, E, i) ==
    /\ E \subseteq DOMAIN fs /\ i \in DOMAIN fs
    /\ Tells_life(fs[i]) /\ \A k \in E : Tells_life(fs[k]) /\ Sooner(fs, k, i)

LEMMA LastOne ==
    ASSUME NEW fs \in Seq(FactT), NEW E, NEW i, Extends(fs, E, i)
    PROVE  /\ i \notin E /\ ~Sooner(fs, i, i)
           /\ \A k \in E : k \in DOMAIN fs /\ ~Sooner(fs, i, k) /\ fs[k].at <= fs[i].at
  BY SoonerOrders DEF Extends

LEMMA RisenStays ==
    ASSUME NEW fs \in Seq(FactT), NEW E, NEW i, Extends(fs, E, i), NEW x \in E
    PROVE  Risen(fs, E \cup {i}, x) <=> Risen(fs, E, x)
<1>1. i \notin E /\ \A k \in E : ~Sooner(fs, i, k)
  BY LastOne
<1>2. QED BY <1>1 DEF Risen

LEMMA LifeStays ==
    ASSUME NEW fs \in Seq(FactT), NEW E, NEW i, Extends(fs, E, i), NEW x \in E, NEW y \in E
    PROVE  LifeOf(fs, E \cup {i}, x, y) <=> LifeOf(fs, E, x, y)
<1>1. i \notin E /\ ~Sooner(fs, i, y)
  BY LastOne
<1>2. Risen(fs, E \cup {i}, x) <=> Risen(fs, E, x)
  BY RisenStays
<1>3. QED BY <1>1, <1>2 DEF LifeOf

LEMMA NoLifeFrom ==
    ASSUME NEW fs \in Seq(FactT), NEW E, NEW i, Extends(fs, E, i), NEW y
    PROVE  ~LifeOf(fs, E \cup {i}, i, y)
<1>. SUFFICES ASSUME LifeOf(fs, E \cup {i}, i, y) PROVE FALSE
  OBVIOUS
<1>1. y \in E \cup {i} /\ IsAlive(fs[i]) /\ IsDead(fs[y]) /\ fs[i].at < fs[y].at
  BY DEF LifeOf
<1>2. CASE y = i
  <2>1. ~(IsAlive(fs[i]) /\ IsDead(fs[i]))
    BY ThreeStates DEF Extends
  <2>2. QED BY <1>1, <1>2, <2>1
<1>3. CASE y \in E
  <2>1. fs[y].at <= fs[i].at /\ y \in DOMAIN fs /\ i \in DOMAIN fs
    BY <1>3, LastOne DEF Extends
  <2>2. fs[y].at \in Int /\ fs[i].at \in Int
    BY <2>1, FactAt
  <2>3. QED BY <1>1, <2>1, <2>2
<1>4. QED BY <1>1, <1>2, <1>3

\* What the pass knows after the facts of E.
SaysUnsaid(fs, E, s) == s.start = 0 /\ \A k \in E : IsNull(fs[k])
SaysGone(fs, E, s) ==
    /\ s.start = 0
    /\ \E d \in E : IsDead(fs[d]) /\ \A k \in E : Sooner(fs, d, k) => IsNull(fs[k])
SaysLiving(fs, E, s) ==
    /\ s.start \in E /\ IsAlive(fs[s.start]) /\ Risen(fs, E, s.start)
    /\ \A k \in E : Sooner(fs, s.start, k) => ~IsDead(fs[k])
    /\ s.holed <=> \E k \in E : Sooner(fs, s.start, k) /\ IsNull(fs[k])

KnowsLife(fs, E, s) ==
    /\ s \in LifeT(E)
    /\ Unsaid(s) => SaysUnsaid(fs, E, s)
    /\ Gone(s) => SaysGone(fs, E, s)
    /\ Living(s) => SaysLiving(fs, E, s)

\* A life that ends with the last fact is the one that is going on.
LEMMA EndsNow ==
    ASSUME NEW fs \in Seq(FactT), NEW E, NEW i, Extends(fs, E, i), NEW s, KnowsLife(fs, E, s),
           NEW x \in E, IsDead(fs[i])
    PROVE  LifeOf(fs, E \cup {i}, x, i)
             <=> Living(s) /\ x = s.start /\ ~s.holed /\ fs[x].at < fs[i].at
<1>0. /\ Unsaid(s) \/ Living(s) \/ Gone(s)
      /\ s.holed \in BOOLEAN
  BY LifeTyped DEF KnowsLife
<1>1. /\ \A k \in E : Sooner(fs, k, i) /\ k \in DOMAIN fs
      /\ ~Sooner(fs, i, i) /\ i \notin E
  BY LastOne DEF Extends
<1>2. \A k \in E : /\ IsNull(fs[k]) \/ IsAlive(fs[k]) \/ IsDead(fs[k])
                   /\ ~(IsNull(fs[k]) /\ IsAlive(fs[k])) /\ ~(IsNull(fs[k]) /\ IsDead(fs[k]))
                   /\ ~(IsAlive(fs[k]) /\ IsDead(fs[k]))
  BY ThreeStates DEF Extends
<1>3. Risen(fs, E \cup {i}, x) <=> Risen(fs, E, x)
  BY RisenStays
<1>4. LifeOf(fs, E \cup {i}, x, i) <=>
        /\ IsAlive(fs[x]) /\ fs[x].at < fs[i].at
        /\ \A k \in E : Sooner(fs, x, k) => IsAlive(fs[k])
        /\ Risen(fs, E, x)
  BY <1>1, <1>3 DEF LifeOf
<1>5. \A k, l \in E : k = l \/ Sooner(fs, k, l) \/ Sooner(fs, l, k)
  BY <1>1, SoonerOrders
<1>6. ASSUME IsAlive(fs[x]), \A k \in E : Sooner(fs, x, k) => IsAlive(fs[k]), Risen(fs, E, x)
      PROVE  Living(s) /\ x = s.start /\ ~s.holed
  <2>1. ~Unsaid(s)
    BY <1>2, <1>6 DEF KnowsLife, SaysUnsaid
  <2>2. ~Gone(s)
    <3>. SUFFICES ASSUME Gone(s) PROVE FALSE
      OBVIOUS
    <3>1. PICK d \in E : IsDead(fs[d]) /\ \A k \in E : Sooner(fs, d, k) => IsNull(fs[k])
      BY DEF KnowsLife, SaysGone
    <3>2. QED BY <1>2, <1>5, <1>6, <3>1
  <2>3. Living(s) /\ SaysLiving(fs, E, s)
    BY <1>0, <2>1, <2>2 DEF KnowsLife
  <2>. DEFINE b == s.start
  <2>4. /\ b \in E /\ IsAlive(fs[b]) /\ Risen(fs, E, b)
        /\ \A k \in E : Sooner(fs, b, k) => ~IsDead(fs[k])
        /\ s.holed <=> \E k \in E : Sooner(fs, b, k) /\ IsNull(fs[k])
    BY <2>3 DEF SaysLiving
  <2>. HIDE DEF b
  <2>5. ~Sooner(fs, x, b)
    <3>. SUFFICES ASSUME Sooner(fs, x, b) PROVE FALSE
      OBVIOUS
    <3>1. ~IsNull(fs[x])
      BY <1>2, <1>6
    <3>2. PICK d \in E : /\ IsDead(fs[d]) /\ Sooner(fs, d, b)
                         /\ \A k \in E : Sooner(fs, d, k) /\ Sooner(fs, k, b) => IsNull(fs[k])
      BY <2>4, <3>1 DEF Risen
    <3>3. ~Sooner(fs, d, x) /\ d # x
      BY <1>2, <1>6, <3>1, <3>2
    <3>4. Sooner(fs, x, d)
      BY <1>5, <3>3
    <3>5. QED BY <1>2, <1>6, <3>2, <3>4
  <2>6. ~Sooner(fs, b, x)
    <3>. SUFFICES ASSUME Sooner(fs, b, x) PROVE FALSE
      OBVIOUS
    <3>1. ~IsNull(fs[b]) /\ ~IsDead(fs[b])
      BY <1>2, <2>4
    <3>2. PICK d \in E : /\ IsDead(fs[d]) /\ Sooner(fs, d, x)
                         /\ \A k \in E : Sooner(fs, d, k) /\ Sooner(fs, k, x) => IsNull(fs[k])
      BY <1>6, <2>4, <3>1 DEF Risen
    <3>3. ~Sooner(fs, b, d) /\ d # b
      BY <2>4, <3>1, <3>2
    <3>4. Sooner(fs, d, b)
      BY <1>5, <2>4, <3>3
    <3>5. QED BY <2>4, <3>1, <3>2, <3>4
  <2>7. x = b
    BY <1>5, <2>4, <2>5, <2>6
  <2>8. ~s.holed
    BY <1>2, <1>6, <2>4, <2>7
  <2>9. QED BY <2>3, <2>7, <2>8 DEF b
<1>7. ASSUME Living(s), x = s.start, ~s.holed
      PROVE  /\ IsAlive(fs[x]) /\ \A k \in E : Sooner(fs, x, k) => IsAlive(fs[k])
             /\ Risen(fs, E, x)
  <2>1. SaysLiving(fs, E, s)
    BY <1>7 DEF KnowsLife
  <2>2. /\ IsAlive(fs[x]) /\ Risen(fs, E, x)
        /\ \A k \in E : Sooner(fs, x, k) => ~IsDead(fs[k]) /\ ~IsNull(fs[k])
    BY <1>7, <2>1 DEF SaysLiving
  <2>3. QED BY <1>2, <2>2
<1>8. QED BY <1>4, <1>6, <1>7

-----------------------------------------------------------------------------
(* One event more.                                                         *)

LEMMA KnowsNone == \A fs : KnowsLife(fs, {}, NoLife)
<1>1. NoLife.start = 0 /\ Unsaid(NoLife) /\ NoLife \in LifeT({})
  BY NoLifeIs
<1>2. ~Gone(NoLife) /\ ~Living(NoLife)
  BY <1>1, LifeTyped
<1>3. QED BY <1>1, <1>2 DEF KnowsLife, SaysUnsaid

LEMMA LifeTGrows ==
    ASSUME NEW E, NEW F, E \subseteq F, NEW s \in LifeT(E)
    PROVE  s \in LifeT(F)
<1>1. Seq(E \X E) \subseteq Seq(F \X F) /\ SUBSET E \subseteq SUBSET F
  <2>1. E \X E \subseteq F \X F
    OBVIOUS
  <2>. DEFINE A == E \X E
              B == F \X F
  <2>2. A \subseteq B
    BY <2>1
  <2>. HIDE DEF A, B
  <2>3. Seq(A) \subseteq Seq(B)
    BY <2>2
  <2>4. QED BY <2>3 DEF A, B
<1>2. QED BY <1>1 DEF LifeT

\* The lives of the pass so far.
LivesOf(s) == s.lives

\* The pass starts from what it knows of the earlier facts.
LEMMA KnowsNull ==
    ASSUME NEW fs \in Seq(FactT), NEW E, NEW i, Extends(fs, E, i), NEW s, KnowsLife(fs, E, s),
           IsNull(fs[i]), NEW t, t = BoundStep(s, fs, i)
    PROVE  KnowsLife(fs, E \cup {i}, t) /\ LivesOf(t) = LivesOf(s)
<1>. DEFINE F == E \cup {i}
<1>1. s \in LifeT(F) /\ s \in LifeT(E) /\ i \in F /\ E \subseteq F
  BY LifeTGrows DEF KnowsLife
<1>2. /\ t \in LifeT(F) /\ t.start = s.start /\ t.lives = s.lives /\ t.last = s.last
      /\ t.holed <=> (s.holed \/ s.start # 0)
  <2>. HIDE DEF F
  <2>1. QED BY <1>1, NullStep
<1>3. i \notin E /\ ~Sooner(fs, i, i) /\ \A k \in E : Sooner(fs, k, i) /\ k \in DOMAIN fs
  BY LastOne DEF Extends
<1>4. 0 \notin E
  BY <1>3
<1>5. ~IsDead(fs[i])
  BY ThreeStates DEF Extends
<1>6. /\ Unsaid(t) <=> Unsaid(s)
      /\ Gone(t) <=> Gone(s)
      /\ Living(t) <=> Living(s)
  BY <1>2 DEF Unsaid, Gone, Living
<1>7. ASSUME Unsaid(t) PROVE SaysUnsaid(fs, F, t)
  <2>1. SaysUnsaid(fs, E, s)
    BY <1>6, <1>7 DEF KnowsLife
  <2>2. QED BY <1>2, <2>1 DEF SaysUnsaid
<1>8. ASSUME Gone(t) PROVE SaysGone(fs, F, t)
  <2>1. SaysGone(fs, E, s)
    BY <1>6, <1>8 DEF KnowsLife
  <2>2. QED BY <1>2, <2>1 DEF SaysGone
<1>9. ASSUME Living(t) PROVE SaysLiving(fs, F, t)
  <2>1. SaysLiving(fs, E, s)
    BY <1>6, <1>9 DEF KnowsLife
  <2>2. s.start \in E /\ s.start # 0 /\ t.start = s.start /\ t.holed
    BY <1>2, <1>4, <2>1 DEF SaysLiving
  <2>3. Risen(fs, F, s.start)
    BY <2>1, <2>2, RisenStays DEF SaysLiving
  <2>4. \A k \in F : Sooner(fs, s.start, k) => ~IsDead(fs[k])
    BY <1>5, <2>1 DEF SaysLiving
  <2>5. Sooner(fs, s.start, i) /\ IsNull(fs[i])
    BY <1>3, <2>2
  <2>6. IsAlive(fs[s.start])
    BY <2>1 DEF SaysLiving
  <2>. HIDE DEF F
  <2>7. QED BY <1>1, <2>2, <2>3, <2>4, <2>5, <2>6 DEF SaysLiving
<1>. HIDE DEF F
<1>10. KnowsLife(fs, F, t)
  BY <1>2, <1>7, <1>8, <1>9 DEF KnowsLife
<1>11. QED BY <1>2, <1>10 DEF F, LivesOf

LEMMA KnowsAlive ==
    ASSUME NEW fs \in Seq(FactT), NEW E, NEW i, Extends(fs, E, i), NEW s, KnowsLife(fs, E, s),
           IsAlive(fs[i]), NEW t, t = BoundStep(s, fs, i)
    PROVE  KnowsLife(fs, E \cup {i}, t) /\ LivesOf(t) = LivesOf(s)
<1>. DEFINE F == E \cup {i}
<1>1. s \in LifeT(F) /\ s \in LifeT(E) /\ i \in F /\ E \subseteq F
  BY LifeTGrows DEF KnowsLife
<1>3. i \notin E /\ ~Sooner(fs, i, i) /\ \A k \in E : Sooner(fs, k, i) /\ ~Sooner(fs, i, k)
  BY LastOne DEF Extends
<1>2. /\ t \in LifeT(F)
      /\ Living(s) => t = s
      /\ ~Living(s) => t.start = i /\ t.lives = s.lives /\ Living(t) /\ ~t.holed
  <2>1. Tells_life(fs[i])
    BY DEF Extends
  <2>. HIDE DEF F
  <2>2. QED BY <1>1, <2>1, AliveStep
<1>4. ~IsDead(fs[i]) /\ ~IsNull(fs[i])
  BY ThreeStates DEF Extends
<1>5. CASE Living(s)
  <2>1. t = s /\ SaysLiving(fs, E, s) /\ ~Unsaid(s) /\ ~Gone(s)
    BY <1>2, <1>5, LifeTyped DEF KnowsLife
  <2>2. Risen(fs, F, s.start)
    BY <2>1, RisenStays DEF SaysLiving
  <2>3. SaysLiving(fs, F, s)
    BY <1>4, <2>1, <2>2 DEF SaysLiving
  <2>. HIDE DEF F
  <2>4. KnowsLife(fs, F, t)
    BY <1>2, <2>1, <2>3 DEF KnowsLife
  <2>5. QED BY <2>1, <2>4 DEF F, LivesOf
<1>6. CASE ~Living(s)
  <2>1. t.start = i /\ t.lives = s.lives /\ Living(t) /\ ~t.holed
    BY <1>2, <1>6
  <2>2. ~Unsaid(t) /\ ~Gone(t) /\ (Unsaid(s) \/ Gone(s)) /\ t.holed \in BOOLEAN
    BY <1>1, <1>2, <1>6, <2>1, LifeTyped
  <2>3. Risen(fs, F, i)
    <3>1. CASE Unsaid(s)
      <4>1. \A k \in E : IsNull(fs[k])
        BY <3>1 DEF KnowsLife, SaysUnsaid
      <4>2. QED BY <1>3, <4>1 DEF Risen
    <3>2. CASE Gone(s)
      <4>1. PICK d \in E : IsDead(fs[d]) /\ \A k \in E : Sooner(fs, d, k) => IsNull(fs[k])
        BY <3>2 DEF KnowsLife, SaysGone
      <4>2. QED BY <1>3, <4>1 DEF Risen
    <3>3. QED BY <2>2, <3>1, <3>2
  <2>4. \A k \in F : ~Sooner(fs, i, k)
    BY <1>3
  <2>. HIDE DEF F
  <2>5. SaysLiving(fs, F, t)
    BY <1>1, <2>1, <2>2, <2>3, <2>4 DEF SaysLiving
  <2>6. KnowsLife(fs, F, t)
    BY <1>2, <2>2, <2>5 DEF KnowsLife
  <2>7. QED BY <2>1, <2>6 DEF F, LivesOf
<1>7. QED BY <1>5, <1>6

\* The life that goes on is known from end to end.
EndsLife(s, fs, i) == Living(s) /\ ~s.holed /\ fs[i].at > fs[s.start].at
WithLife(s, i) == Append(s.lives, <<s.start, i>>)
ListsDead(s, t, fs, i) ==
    /\ EndsLife(s, fs, i) => LivesOf(t) = WithLife(s, i)
    /\ ~EndsLife(s, fs, i) => LivesOf(t) = LivesOf(s)

LEMMA KnowsDead ==
    ASSUME NEW fs \in Seq(FactT), NEW E, NEW i, Extends(fs, E, i), NEW s, KnowsLife(fs, E, s),
           IsDead(fs[i]), NEW t, t = BoundStep(s, fs, i)
    PROVE  /\ KnowsLife(fs, E \cup {i}, t)
           /\ ListsDead(s, t, fs, i)
<1>. DEFINE F == E \cup {i}
<1>1. s \in LifeT(F) /\ s \in LifeT(E) /\ i \in F /\ E \subseteq F
  BY LifeTGrows DEF KnowsLife
<1>3. /\ i \notin E /\ ~Sooner(fs, i, i)
      /\ \A k \in E : Sooner(fs, k, i) /\ ~Sooner(fs, i, k) /\ k \in DOMAIN fs
  BY LastOne DEF Extends
<1>0. /\ s.start = 0 \/ s.start \in E
      /\ Living(s) <=> s.start \in E
      /\ Unsaid(s) \/ Living(s) \/ Gone(s)
      /\ ~(Living(s) /\ Gone(s))
  <2>1. 0 \notin E
    BY <1>3
  <2>2. /\ Unsaid(s) \/ Living(s) \/ Gone(s)
        /\ ~(Living(s) /\ Gone(s))
    BY <1>1, LifeTyped
  <2>3. (Unsaid(s) => s.start = 0) /\ (Gone(s) => s.start = 0) /\ (Living(s) => s.start \in E)
    BY DEF KnowsLife, SaysUnsaid, SaysGone, SaysLiving
  <2>4. QED BY <2>1, <2>2, <2>3
<1>2. /\ t \in LifeT(F)
      /\ Gone(s) => t = s
      /\ ~Gone(s) => /\ t.start = 0 /\ Gone(t)
                     /\ t.lives = IF s.start # 0 /\ ~s.holed /\ fs[i].at > fs[s.start].at
                                  THEN Append(s.lives, <<s.start, i>>) ELSE s.lives
  <2>1. Tells_life(fs[i])
    BY DEF Extends
  <2>. HIDE DEF F
  <2>2. QED BY <1>1, <2>1, DeadStep
<1>4. t.start = 0 /\ Gone(t)
  BY <1>2 DEF KnowsLife, SaysGone
<1>5. SaysGone(fs, F, t)
  BY <1>3, <1>4 DEF SaysGone
<1>6. ~Unsaid(t) /\ ~Living(t)
  BY <1>2, <1>4, LifeTyped
<1>7. KnowsLife(fs, F, t)
  BY <1>2, <1>5, <1>6 DEF KnowsLife
<1>8. t.lives = IF Living(s) /\ ~s.holed /\ fs[i].at > fs[s.start].at
                THEN Append(s.lives, <<s.start, i>>) ELSE s.lives
  <2>1. Living(s) <=> s.start # 0
    <3>1. 0 \notin E
      BY <1>3
    <3>2. QED BY <1>0, <3>1
  <2>2. CASE Gone(s)
    BY <1>0, <1>2, <2>2
  <2>3. CASE ~Gone(s)
    BY <1>2, <2>1, <2>3
  <2>4. QED BY <2>2, <2>3
<1>9. ListsDead(s, t, fs, i)
  BY <1>8 DEF LivesOf, EndsLife, WithLife, ListsDead
<1>10. QED BY <1>7, <1>9

-----------------------------------------------------------------------------
(* The list of lives.                                                      *)

\* The lives of the list are those the facts prove, in order.
ListsLives(fs, E, lives) ==
    /\ lives \in Seq(E \X E)
    /\ \A x, y : <<x, y>> \in ToSet(lives) <=> LifeOf(fs, E, x, y)
    /\ \A n \in 1 .. Len(lives) - 1 : fs[lives[n][2]].at <= fs[lives[n + 1][1]].at

LEMMA LivesOfStep ==
    ASSUME NEW fs \in Seq(FactT), NEW E, NEW i, Extends(fs, E, i), NEW x, NEW y
    PROVE  LifeOf(fs, E \cup {i}, x, y)
             <=> LifeOf(fs, E, x, y) \/ (x \in E /\ y = i /\ LifeOf(fs, E \cup {i}, x, i))
<1>1. LifeOf(fs, E \cup {i}, x, y) => x \in E \cup {i} /\ y \in E \cup {i} /\ x # i
  BY NoLifeFrom DEF LifeOf
<1>2. LifeOf(fs, E, x, y) => x \in E /\ y \in E
  BY DEF LifeOf
<1>3. x \in E /\ y \in E => (LifeOf(fs, E \cup {i}, x, y) <=> LifeOf(fs, E, x, y))
  BY LifeStays
<1>4. i \notin E
  BY LastOne
<1>5. QED BY <1>1, <1>2, <1>3, <1>4

LEMMA SetOfAppend ==
    ASSUME NEW T, NEW s \in Seq(T), NEW e \in T
    PROVE  ToSet(Append(s, e)) = ToSet(s) \cup {e}
<1>1. /\ Len(s) \in Nat /\ DOMAIN s = 1 .. Len(s)
      /\ DOMAIN Append(s, e) = 1 .. Len(s) + 1
      /\ \A n \in 1 .. Len(s) : Append(s, e)[n] = s[n]
      /\ Append(s, e)[Len(s) + 1] = e
  BY AppendProperties
<1>2. 1 .. Len(s) + 1 = 1 .. Len(s) \cup {Len(s) + 1}
  BY <1>1
<1>3. QED BY <1>1, <1>2 DEF ToSet

LEMMA ListKept ==
    ASSUME NEW fs \in Seq(FactT), NEW E, NEW i, Extends(fs, E, i), NEW lives,
           ListsLives(fs, E, lives), \A x \in E : ~LifeOf(fs, E \cup {i}, x, i)
    PROVE  ListsLives(fs, E \cup {i}, lives)
<1>1. \A x, y : LifeOf(fs, E \cup {i}, x, y) <=> LifeOf(fs, E, x, y)
  BY LivesOfStep
<1>2. lives \in Seq((E \cup {i}) \X (E \cup {i}))
  <2>. DEFINE A == E \X E
              B == (E \cup {i}) \X (E \cup {i})
  <2>1. A \subseteq B /\ lives \in Seq(A)
    BY DEF ListsLives
  <2>. HIDE DEF A, B
  <2>2. lives \in Seq(B)
    BY <2>1
  <2>3. QED BY <2>2 DEF B
<1>3. QED BY <1>1, <1>2 DEF ListsLives

\* A life that ended, ended before the one that goes on began.
LEMMA EndedBefore ==
    ASSUME NEW fs \in Seq(FactT), NEW E, NEW i, Extends(fs, E, i), NEW s, KnowsLife(fs, E, s),
           Living(s), NEW x, NEW y, LifeOf(fs, E, x, y)
    PROVE  s.start \in E /\ fs[y].at <= fs[s.start].at
<1>1. /\ s.start \in E /\ IsAlive(fs[s.start])
      /\ \A k \in E : Sooner(fs, s.start, k) => ~IsDead(fs[k])
  BY DEF KnowsLife, SaysLiving
<1>2. y \in E /\ IsDead(fs[y])
  BY DEF LifeOf
<1>3. y # s.start
  BY <1>1, <1>2, ThreeStates DEF Extends
<1>4. y \in DOMAIN fs /\ s.start \in DOMAIN fs
  BY <1>1, <1>2 DEF Extends
<1>5. Sooner(fs, y, s.start)
  BY <1>1, <1>2, <1>3, <1>4, SoonerOrders
<1>6. QED BY <1>1, <1>4, <1>5, SoonerOrders

LEMMA ListGrown ==
    ASSUME NEW fs \in Seq(FactT), NEW E, NEW i, Extends(fs, E, i), NEW s, KnowsLife(fs, E, s),
           ListsLives(fs, E, LivesOf(s)), IsDead(fs[i]),
           EndsLife(s, fs, i)
    PROVE  ListsLives(fs, E \cup {i}, WithLife(s, i))
<1>. DEFINE F == E \cup {i}
            T == F \X F
            old == LivesOf(s)
            e == <<s.start, i>>
            new == Append(old, e)
<1>0. Living(s) /\ ~s.holed /\ fs[i].at > fs[s.start].at
  BY DEF EndsLife
<1>1. s.start \in E /\ s.start \in DOMAIN fs /\ i \in DOMAIN fs
  BY <1>0 DEF KnowsLife, SaysLiving, Extends
<1>2. old \in Seq(T) /\ e \in T
  <2>. DEFINE A == E \X E
  <2>1. A \subseteq T /\ old \in Seq(A)
    BY DEF ListsLives
  <2>. HIDE DEF A, T
  <2>2. old \in Seq(T)
    BY <2>1
  <2>3. e \in T
    BY <1>1 DEF T
  <2>4. QED BY <2>2, <2>3
<1>3. fs[i].at \in Int /\ fs[s.start].at \in Int
  BY <1>1, FactAt
<1>4. \A x \in E : LifeOf(fs, F, x, i) <=> x = s.start
  <2>1. \A x \in E : LifeOf(fs, F, x, i)
           <=> Living(s) /\ x = s.start /\ ~s.holed /\ fs[x].at < fs[i].at
    BY EndsNow
  <2>2. fs[s.start].at < fs[i].at
    BY <1>0, <1>3
  <2>3. QED BY <1>0, <2>1, <2>2
<1>5. ToSet(new) = ToSet(old) \cup {e}
  <2>. HIDE DEF T, old, e
  <2>1. QED BY <1>2, SetOfAppend DEF new
<1>6. ASSUME NEW x, NEW y PROVE <<x, y>> \in ToSet(new) <=> LifeOf(fs, F, x, y)
  <2>1. LifeOf(fs, F, x, y) <=> LifeOf(fs, E, x, y) \/ (x \in E /\ y = i /\ LifeOf(fs, F, x, i))
    BY LivesOfStep
  <2>2. <<x, y>> \in ToSet(old) <=> LifeOf(fs, E, x, y)
    BY DEF ListsLives
  <2>3. <<x, y>> = e <=> x = s.start /\ y = i
    OBVIOUS
  <2>. HIDE DEF new, old, e, F
  <2>4. QED BY <1>1, <1>4, <1>5, <2>1, <2>2, <2>3
<1>7. /\ Len(old) \in Nat /\ Len(new) = Len(old) + 1
      /\ \A n \in 1 .. Len(old) : new[n] = old[n]
      /\ new[Len(old) + 1] = e
  <2>. HIDE DEF T, old, e
  <2>1. QED BY <1>2, AppendProperties DEF new
<1>8. ASSUME NEW n \in 1 .. Len(new) - 1 PROVE fs[new[n][2]].at <= fs[new[n + 1][1]].at
  <2>1. n \in 1 .. Len(old) /\ new[n] = old[n]
    BY <1>7
  <2>2. CASE n \in 1 .. Len(old) - 1
    <3>1. n + 1 \in 1 .. Len(old)
      BY <1>7, <2>2
    <3>2. new[n + 1] = old[n + 1]
      BY <1>7, <3>1
    <3>3. fs[old[n][2]].at <= fs[old[n + 1][1]].at
      BY <2>2 DEF ListsLives
    <3>4. QED BY <2>1, <3>2, <3>3
  <2>3. CASE n = Len(old)
    <3>1. new[n + 1] = e /\ e[1] = s.start
      BY <1>7, <2>3
    <3>2. old[n] \in ToSet(old) /\ old[n] = <<old[n][1], old[n][2]>>
      <4>1. old \in Seq(E \X E)
        BY DEF ListsLives
      <4>2. old[n] \in E \X E /\ n \in DOMAIN old
        BY <2>1, <4>1
      <4>3. QED BY <4>2 DEF ToSet
    <3>3. LifeOf(fs, E, old[n][1], old[n][2])
      BY <3>2 DEF ListsLives
    <3>4. fs[old[n][2]].at <= fs[s.start].at
      BY <1>0, <3>3, EndedBefore
    <3>5. QED BY <2>1, <3>1, <3>4
  <2>4. QED BY <1>7, <2>1, <2>2, <2>3
<1>9. new \in Seq(T)
  <2>. HIDE DEF T, old, e
  <2>1. QED BY <1>2, AppendProperties DEF new
<1>. HIDE DEF new, old, e
<1>10. ListsLives(fs, F, new)
  BY <1>6, <1>8, <1>9 DEF ListsLives
<1>11. QED BY <1>10 DEF new, old, e, LivesOf, WithLife

LEMMA ListStep ==
    ASSUME NEW fs \in Seq(FactT), NEW E, NEW i, Extends(fs, E, i), NEW s, KnowsLife(fs, E, s),
           ListsLives(fs, E, LivesOf(s)), NEW t, t = BoundStep(s, fs, i)
    PROVE  KnowsLife(fs, E \cup {i}, t) /\ ListsLives(fs, E \cup {i}, LivesOf(t))
<1>1. /\ IsNull(fs[i]) \/ IsAlive(fs[i]) \/ IsDead(fs[i])
      /\ ~(IsNull(fs[i]) /\ IsDead(fs[i])) /\ ~(IsAlive(fs[i]) /\ IsDead(fs[i]))
  BY ThreeStates DEF Extends
<1>2. CASE ~IsDead(fs[i])
  <2>1. KnowsLife(fs, E \cup {i}, t) /\ LivesOf(t) = LivesOf(s)
    <3>1. CASE IsNull(fs[i])
      BY <3>1, KnowsNull
    <3>2. CASE IsAlive(fs[i])
      BY <3>2, KnowsAlive
    <3>3. QED BY <1>1, <1>2, <3>1, <3>2
  <2>2. \A x \in E : ~LifeOf(fs, E \cup {i}, x, i)
    BY <1>2 DEF LifeOf
  <2>3. ListsLives(fs, E \cup {i}, LivesOf(s))
    BY <2>2, ListKept
  <2>4. QED BY <2>1, <2>3
<1>3. CASE IsDead(fs[i])
  <2>1. /\ KnowsLife(fs, E \cup {i}, t)
        /\ EndsLife(s, fs, i) => LivesOf(t) = WithLife(s, i)
        /\ ~EndsLife(s, fs, i) => LivesOf(t) = LivesOf(s)
    <3>1. KnowsLife(fs, E \cup {i}, t) /\ ListsDead(s, t, fs, i)
      BY <1>3, KnowsDead
    <3>2. QED BY <3>1 DEF ListsDead
  <2>2. CASE EndsLife(s, fs, i)
    <3>1. ListsLives(fs, E \cup {i}, WithLife(s, i))
      BY <1>3, <2>2, ListGrown
    <3>2. QED BY <2>1, <2>2, <3>1
  <2>3. CASE ~EndsLife(s, fs, i)
    <3>1. ASSUME NEW x \in E PROVE ~LifeOf(fs, E \cup {i}, x, i)
      <4>1. LifeOf(fs, E \cup {i}, x, i)
              <=> Living(s) /\ x = s.start /\ ~s.holed /\ fs[x].at < fs[i].at
        BY <1>3, EndsNow
      <4>2. fs[x].at \in Int /\ fs[i].at \in Int
        BY FactAt DEF Extends
      <4>3. QED BY <2>3, <4>1, <4>2 DEF EndsLife
    <3>2. ListsLives(fs, E \cup {i}, LivesOf(s))
      BY <3>1, ListKept
    <3>3. QED BY <2>1, <2>3, <3>2
  <2>4. QED BY <2>2, <2>3
<1>4. QED BY <1>2, <1>3

-----------------------------------------------------------------------------
(* The pass over the events of a hero.                                     *)

LEMMA StepsTwoWays ==
    \A fs, ph, h, s, i : LifeStep(s, fs, i, Bound(fs, ph, h))
        = IF Bound(fs, ph, h) THEN BoundStep(s, fs, i) ELSE LooseStep(s, fs, i)
<1>. TAKE fs, ph, h, s, i
<1>1. CASE Bound(fs, ph, h)
  <2>1. Bound(fs, ph, h) = TRUE
    BY <1>1 DEF Bound
  <2>2. QED BY <1>1, <2>1, Zenon DEF BoundStep
<1>2. CASE ~Bound(fs, ph, h)
  <2>1. Bound(fs, ph, h) = FALSE
    BY <1>2 DEF Bound
  <2>2. QED BY <1>2, <2>1, Zenon DEF LooseStep
<1>3. QED BY <1>1, <1>2

LEMMA StepTyped ==
    ASSUME NEW E, NEW s \in LifeT(E), NEW fs, NEW ph, NEW h, NEW i \in E, Tells_life(fs[i])
    PROVE  LifeStep(s, fs, i, Bound(fs, ph, h)) \in LifeT(E)
<1>1. IsNull(fs[i]) \/ IsAlive(fs[i]) \/ IsDead(fs[i])
  BY ThreeStates
<1>2. BoundStep(s, fs, i) \in LifeT(E)
  <2>1. CASE IsNull(fs[i])
    BY <2>1, NullStep
  <2>2. CASE IsAlive(fs[i])
    BY <2>2, AliveStep
  <2>3. CASE IsDead(fs[i])
    BY <2>3, DeadStep
  <2>4. QED BY <1>1, <2>1, <2>2, <2>3
<1>3. LooseStep(s, fs, i) \in LifeT(E)
  BY LooseKeeps
<1>4. LifeStep(s, fs, i, Bound(fs, ph, h))
        = IF Bound(fs, ph, h) THEN BoundStep(s, fs, i) ELSE LooseStep(s, fs, i)
  BY StepsTwoWays
<1>5. QED BY <1>2, <1>3, <1>4

\* The states the pass goes through.
LivesPass(fs, ph, h, ev, f, N) ==
    /\ f[0] = NoLife
    /\ \A n \in 1 .. N : f[n] = LifeStep(f[n - 1], fs, ev[n], Bound(fs, ph, h))

LEMMA ProvenLivesPass ==
    ASSUME NEW fs \in Seq(FactT), NEW ph, NEW h, NEW ev, ev = LifeEvents(fs, ph, h),
           NEW E, E = Sign(fs, ph, h), NEW N, N = Len(ev)
    PROVE  /\ N \in Nat
           /\ \E f \in [0 .. N -> LifeT(E)] :
                 LivesPass(fs, ph, h, ev, f, N) /\ ProvenLives(fs, ph, h) = f[N]
<1>. DEFINE T == LifeT(E)
            step(n) == [s \in T |-> LifeStep(s, fs, ev[n], Bound(fs, ph, h))]
            g == [n \in 1 .. N |-> step(n)]
            Body(f, n) == IF n = 0 THEN NoLife
                          ELSE LifeStep(f[n - 1], fs, ev[n], Bound(fs, ph, h))
            Pass(f) == f = [n \in 0 .. N |-> Body(f, n)]
<1>1. N = Cardinality(E) /\ N \in Nat /\ ev \in [1 .. N -> E]
  BY EventsInOrder DEF InOrder
<1>2. \A i \in E : Tells_life(fs[i])
  <2>1. ASSUME NEW i \in E PROVE i \in DOMAIN fs /\ fs[i].type \in {"death", "sample"}
    <3>1. i \in DOMAIN fs
      BY SaysFinite
    <3>2. QED BY <3>1 DEF Sign
  <2>2. \A i \in DOMAIN fs : fs[i] \in FactT
    BY FactAt
  <2>3. QED BY <2>1, <2>2 DEF Tells_life
<1>3. ASSUME NEW n \in 1 .. N PROVE step(n) \in [T -> T]
  <2>1. ev[n] \in E
    BY <1>1
  <2>2. \A s \in T : LifeStep(s, fs, ev[n], Bound(fs, ph, h)) \in T
    BY <1>2, <2>1, StepTyped
  <2>. HIDE DEF T
  <2>3. QED BY <2>2
<1>4. g \in [1 .. N -> [T -> T]]
  <2>. HIDE DEF step, T
  <2>1. QED BY <1>3
<1>5. NoLife \in T
  BY NoLifeIs
<1>6. PICK f \in [0 .. N -> T] : PassesOver(f, NoLife, g, N)
  <2>. HIDE DEF g, T
  <2>1. QED BY <1>1, <1>4, <1>5, PassIs
<1>7. ASSUME NEW n \in 1 .. N PROVE f[n] = LifeStep(f[n - 1], fs, ev[n], Bound(fs, ph, h))
  <2>1. n - 1 \in 0 .. N
    BY <1>1
  <2>2. f[n - 1] \in T
    <3>. HIDE DEF T
    <3>1. QED BY <2>1
  <2>3. f[n] = g[n][f[n - 1]]
    BY <1>6 DEF PassesOver
  <2>4. g[n] = step(n)
    OBVIOUS
  <2>5. step(n)[f[n - 1]] = LifeStep(f[n - 1], fs, ev[n], Bound(fs, ph, h))
    <3>. HIDE DEF T
    <3>1. QED BY <2>2
  <2>. HIDE DEF g, step
  <2>6. QED BY <2>3, <2>4, <2>5
<1>8. f[0] = NoLife
  BY <1>6 DEF PassesOver
<1>9. Pass(f)
  <2>1. ASSUME NEW n \in 0 .. N PROVE f[n] = Body(f, n)
    <3>1. n = 0 \/ (n \in 1 .. N /\ n # 0)
      BY <1>1
    <3>2. QED BY <1>7, <1>8, <3>1
  <2>. HIDE DEF Body, T
  <2>2. QED BY <2>1
<1>10. ASSUME NEW k, Pass(k) PROVE k[N] = f[N]
  <2>0. ASSUME NEW n \in 0 .. N PROVE k[n] = Body(k, n)
    <3>. HIDE DEF Body
    <3>1. QED BY <1>10
  <2>1. k[0] = NoLife
    BY <1>1, <2>0
  <2>2. ASSUME NEW n \in 1 .. N
        PROVE  k[n] = LifeStep(k[n - 1], fs, ev[n], Bound(fs, ph, h))
    <3>1. n \in 0 .. N /\ n # 0
      BY <1>1
    <3>2. k[n] = Body(k, n)
      BY <2>0, <3>1
    <3>3. QED BY <3>1, <3>2
  <2>. DEFINE S == {n \in Nat : n <= N => k[n] = f[n]}
  <2>3. 0 \in S
    BY <1>8, <2>1
  <2>4. ASSUME NEW n \in S PROVE n + 1 \in S
    <3>1. SUFFICES ASSUME n + 1 <= N PROVE k[n + 1] = f[n + 1]
      OBVIOUS
    <3>2. n \in Nat /\ n + 1 \in 1 .. N /\ (n + 1) - 1 = n /\ k[n] = f[n]
      BY <1>1, <3>1
    <3>3. /\ k[n + 1] = LifeStep(k[n], fs, ev[n + 1], Bound(fs, ph, h))
          /\ f[n + 1] = LifeStep(f[n], fs, ev[n + 1], Bound(fs, ph, h))
      BY <1>7, <2>2, <3>2
    <3>4. QED BY <3>2, <3>3
  <2>5. N \in S
    <3>. HIDE DEF S
    <3>1. S \in SUBSET Nat
      BY DEF S
    <3>2. QED BY <1>1, <2>3, <2>4, <3>1, Climb
  <2>6. QED BY <1>1, <2>5
<1>11. ProvenLives(fs, ph, h) = f[N]
  <2>1. \E k : k = (CHOOSE x : Pass(x)) /\ ProvenLives(fs, ph, h) = k[N]
    BY DEF ProvenLives
  <2>2. PICK k : k = (CHOOSE x : Pass(x)) /\ ProvenLives(fs, ph, h) = k[N]
    BY <2>1
  <2>. HIDE DEF Pass
  <2>3. Pass(k)
    BY <1>9, <2>2
  <2>4. QED BY <1>10, <2>2, <2>3
<1>12. LivesPass(fs, ph, h, ev, f, N)
  BY <1>7, <1>8 DEF LivesPass
<1>13. QED BY <1>1, <1>11, <1>12

-----------------------------------------------------------------------------
(* What is said so far, and the lives at the end.                          *)

\* The first n events.
Heard(ev, n) == {ev[m] : m \in 1 .. n}

LEMMA HeardExtends ==
    ASSUME NEW fs \in Seq(FactT), NEW E \in SUBSET DOMAIN fs, NEW ev, InOrder(fs, E, ev),
           NEW N \in Nat, N = Cardinality(E), \A i \in E : Tells_life(fs[i]),
           NEW n \in 0 .. N
    PROVE  /\ Heard(ev, 0) = {}
           /\ n # 0 => /\ Heard(ev, n) = Heard(ev, n - 1) \cup {ev[n]}
                       /\ Extends(fs, Heard(ev, n - 1), ev[n])
           /\ Heard(ev, N) = E /\ Heard(ev, n) \subseteq E
<1>1. /\ ev \in [1 .. N -> E]
      /\ \A i \in E : \E m \in 1 .. N : ev[m] = i
      /\ \A m, k \in 1 .. N : m < k => Sooner(fs, ev[m], ev[k])
  BY DEF InOrder
<1>2. Heard(ev, 0) = {}
  BY DEF Heard
<1>3. Heard(ev, N) = E
  <2>1. ASSUME NEW i \in E PROVE i \in Heard(ev, N)
    BY <1>1 DEF Heard
  <2>2. ASSUME NEW i \in Heard(ev, N) PROVE i \in E
    <3>1. PICK m \in 1 .. N : i = ev[m]
      BY DEF Heard
    <3>2. QED BY <1>1, <3>1
  <2>3. QED BY <2>1, <2>2
<1>4. ASSUME NEW m \in 1 .. n PROVE m \in 1 .. N /\ ev[m] \in E
  BY <1>1
<1>5. Heard(ev, n) \subseteq E
  BY <1>4 DEF Heard
<1>6. ASSUME n # 0 PROVE Heard(ev, n) = Heard(ev, n - 1) \cup {ev[n]}
  <2>1. 1 .. n = 1 .. n - 1 \cup {n}
    BY <1>6
  <2>2. QED BY <2>1 DEF Heard
<1>7. ASSUME n # 0 PROVE Extends(fs, Heard(ev, n - 1), ev[n])
  <2>1. n \in 1 .. N /\ ev[n] \in E
    BY <1>1, <1>7
  <2>2. ASSUME NEW k \in Heard(ev, n - 1) PROVE k \in E /\ Sooner(fs, k, ev[n])
    <3>1. PICK m \in 1 .. n - 1 : k = ev[m]
      BY DEF Heard
    <3>2. m \in 1 .. N /\ m < n
      BY <2>1
    <3>3. QED BY <1>1, <2>1, <3>1, <3>2
  <2>3. QED BY <2>1, <2>2 DEF Extends
<1>8. QED BY <1>2, <1>3, <1>5, <1>6, <1>7

LEMMA SaysTell ==
    ASSUME NEW fs \in Seq(FactT), NEW ph, NEW h
    PROVE  \A i \in Sign(fs, ph, h) : Tells_life(fs[i])
<1>1. ASSUME NEW i \in Sign(fs, ph, h) PROVE i \in DOMAIN fs /\ fs[i].type \in {"death", "sample"}
  <2>1. i \in DOMAIN fs
    BY SaysFinite
  <2>2. QED BY <2>1 DEF Sign
<1>2. \A i \in DOMAIN fs : fs[i] \in FactT
  BY FactAt
<1>3. QED BY <1>1, <1>2 DEF Tells_life

\* Of a hero who is bound the pass lists the lives proven, of another none.
LEMMA ProvenLivesAre ==
    ASSUME NEW fs \in Seq(FactT), NEW ph, NEW h, NEW E, E = Sign(fs, ph, h),
           NEW s, s = ProvenLives(fs, ph, h)
    PROVE  /\ s \in LifeT(E)
           /\ Bound(fs, ph, h) => ListsLives(fs, E, LivesOf(s))
           /\ ~Bound(fs, ph, h) => LivesOf(s) = <<>>
<1>. DEFINE ev == LifeEvents(fs, ph, h)
            N == Len(ev)
<1>1. N \in Nat /\ N = Cardinality(E) /\ InOrder(fs, E, ev)
  BY EventsInOrder
<1>0. ev = LifeEvents(fs, ph, h) /\ N = Len(ev)
  OBVIOUS
<1>3. E \in SUBSET DOMAIN fs /\ \A i \in E : Tells_life(fs[i])
  BY SaysFinite, SaysTell
<1>. HIDE DEF N, ev
<1>2. PICK f \in [0 .. N -> LifeT(E)] : LivesPass(fs, ph, h, ev, f, N) /\ s = f[N]
  <2>1. \E f \in [0 .. N -> LifeT(E)] :
           LivesPass(fs, ph, h, ev, f, N) /\ ProvenLives(fs, ph, h) = f[N]
    BY <1>0, ProvenLivesPass
  <2>2. QED BY <2>1
<1>4. /\ f[0] = NoLife
      /\ \A n \in 1 .. N : f[n] = LifeStep(f[n - 1], fs, ev[n], Bound(fs, ph, h))
  BY <1>2 DEF LivesPass
<1>5. s \in LifeT(E)
  <2>1. N \in 0 .. N
    BY <1>1
  <2>2. QED BY <1>2, <2>1
<1>6. ASSUME Bound(fs, ph, h) PROVE ListsLives(fs, E, LivesOf(s))
  <2>. DEFINE Knows(n) == /\ KnowsLife(fs, Heard(ev, n), f[n])
                          /\ ListsLives(fs, Heard(ev, n), LivesOf(f[n]))
              S == {n \in Nat : n <= N => Knows(n)}
  <2>1. Knows(0)
    <3>1. 0 \in 0 .. N
      BY <1>1
    <3>2. Heard(ev, 0) = {}
      BY <1>1, <1>3, <3>1, HeardExtends
    <3>3. LivesOf(NoLife) = <<>>
      BY NoLifeIs DEF LivesOf
    <3>4. ListsLives(fs, {}, <<>>)
      <4>1. ToSet(<<>>) = {}
        BY DEF ToSet
      <4>2. \A x, y : ~LifeOf(fs, {}, x, y)
        BY DEF LifeOf
      <4>3. <<>> \in Seq({} \X {}) /\ 1 .. Len(<<>>) - 1 = {}
        OBVIOUS
      <4>4. QED BY <4>1, <4>2, <4>3 DEF ListsLives
    <3>5. QED BY <1>4, <3>2, <3>3, <3>4, KnowsNone
  <2>2. ASSUME NEW n \in S PROVE n + 1 \in S
    <3>1. SUFFICES ASSUME n + 1 <= N PROVE Knows(n + 1)
      OBVIOUS
    <3>2. n \in Nat /\ n + 1 \in 1 .. N /\ (n + 1) - 1 = n /\ Knows(n) /\ n + 1 \in 0 .. N
          /\ n + 1 # 0
      BY <1>1, <3>1
    <3>. DEFINE i == ev[n + 1]
    <3>3. Heard(ev, n + 1) = Heard(ev, n) \cup {i} /\ Extends(fs, Heard(ev, n), i)
      <4>1. Heard(ev, n + 1) = Heard(ev, (n + 1) - 1) \cup {i}
            /\ Extends(fs, Heard(ev, (n + 1) - 1), i)
        BY <1>1, <1>3, <3>2, HeardExtends
      <4>2. QED BY <3>2, <4>1
    <3>4. f[n + 1] = BoundStep(f[n], fs, i)
      <4>1. f[n + 1] = LifeStep(f[n], fs, i, Bound(fs, ph, h))
        BY <1>4, <3>2
      <4>2. QED BY <1>6, <4>1, StepsTwoWays
    <3>. HIDE DEF i
    <3>5. KnowsLife(fs, Heard(ev, n), f[n]) /\ ListsLives(fs, Heard(ev, n), LivesOf(f[n]))
      BY <3>2
    <3>6. /\ KnowsLife(fs, Heard(ev, n) \cup {i}, f[n + 1])
          /\ ListsLives(fs, Heard(ev, n) \cup {i}, LivesOf(f[n + 1]))
      <4>. DEFINE D == Heard(ev, n)
                  u == f[n]
                  v == f[n + 1]
      <4>1. Extends(fs, D, i) /\ KnowsLife(fs, D, u) /\ ListsLives(fs, D, LivesOf(u))
            /\ v = BoundStep(u, fs, i)
        BY <3>3, <3>4, <3>5
      <4>. HIDE DEF D, u, v
      <4>2. KnowsLife(fs, D \cup {i}, v) /\ ListsLives(fs, D \cup {i}, LivesOf(v))
        BY <4>1, ListStep
      <4>3. QED BY <4>2 DEF D, u, v
    <3>7. QED BY <3>3, <3>6
  <2>3. N \in S
    <3>1. 0 \in S
      BY <2>1
    <3>. HIDE DEF S
    <3>2. S \in SUBSET Nat
      BY DEF S
    <3>3. QED BY <1>1, <2>2, <3>1, <3>2, Climb
  <2>4. Knows(N)
    BY <1>1, <2>3
  <2>5. N \in 0 .. N
    BY <1>1
  <2>6. Heard(ev, N) = E
    BY <1>1, <1>3, <2>5, HeardExtends
  <2>7. QED BY <1>2, <2>4, <2>6
<1>7. ASSUME ~Bound(fs, ph, h) PROVE LivesOf(s) = <<>>
  <2>. DEFINE S == {n \in Nat : n <= N => LivesOf(f[n]) = <<>>}
  <2>1. 0 \in S
    BY <1>4, NoLifeIs DEF LivesOf
  <2>2. ASSUME NEW n \in S PROVE n + 1 \in S
    <3>1. SUFFICES ASSUME n + 1 <= N PROVE LivesOf(f[n + 1]) = <<>>
      OBVIOUS
    <3>2. n \in Nat /\ n + 1 \in 1 .. N /\ n \in 0 .. N /\ (n + 1) - 1 = n /\ LivesOf(f[n]) = <<>>
      BY <1>1, <3>1
    <3>3. ev[n + 1] \in E /\ f[n] \in LifeT(E)
      BY <1>1, <3>2 DEF InOrder
    <3>4. f[n + 1] = LooseStep(f[n], fs, ev[n + 1])
      <4>1. f[n + 1] = LifeStep(f[n], fs, ev[n + 1], Bound(fs, ph, h))
        BY <1>4, <3>2
      <4>2. QED BY <1>7, <4>1, StepsTwoWays
    <3>. DEFINE i == ev[n + 1]
                u == f[n]
                v == f[n + 1]
    <3>5. i \in E /\ u \in LifeT(E) /\ v = LooseStep(u, fs, i) /\ LivesOf(u) = <<>>
      BY <3>2, <3>3, <3>4
    <3>. HIDE DEF i, u, v
    <3>6. \A t : t = LooseStep(u, fs, i) => t \in LifeT(E) /\ t.lives = u.lives
      BY <3>5, LooseKeeps
    <3>7. v.lives = u.lives
      BY <3>5, <3>6
    <3>8. LivesOf(v) = <<>>
      BY <3>5, <3>7 DEF LivesOf
    <3>9. QED BY <3>8 DEF v
  <2>3. N \in S
    <3>. HIDE DEF S
    <3>1. S \in SUBSET Nat
      BY DEF S
    <3>2. QED BY <1>1, <2>1, <2>2, <3>1, Climb
  <2>4. QED BY <1>1, <1>2, <2>3
<1>8. QED BY <1>5, <1>6, <1>7

-----------------------------------------------------------------------------
(* How long a life is.                                                     *)

\* The part of a..b in c..d.
PartIn(a, b, c, d) ==
    LET low == IF a < c THEN c ELSE a
        high == IF b < d THEN b ELSE d
    IN  IF high - low > 0 THEN high - low ELSE 0

\* A life, and the times of its ends; an interval, and its times.
Spans(fs, l, a, b) == a \in Int /\ b \in Int /\ a <= b /\ a = fs[l[1]].at /\ b = fs[l[2]].at
Cuts(iv, c, d) ==
    c \in Int /\ d \in Int /\ c <= d /\ c = iv.start * Second /\ d = iv.end * Second

LEMMA OverlapIs ==
    ASSUME NEW fs, NEW l, NEW iv, NEW a, NEW b, NEW c, NEW d, Spans(fs, l, a, b), Cuts(iv, c, d)
    PROVE  Overlap(fs, l, iv) = PartIn(a, b, c, d) /\ PartIn(a, b, c, d) \in Nat
<1>. DEFINE low == IF a < c THEN c ELSE a
            high == IF b < d THEN b ELSE d
<1>0. /\ a \in Int /\ b \in Int /\ c \in Int /\ d \in Int
      /\ a = fs[l[1]].at /\ b = fs[l[2]].at /\ c = iv.start * Second /\ d = iv.end * Second
  BY DEF Spans, Cuts
<1>1. Max({a, c}) = low
  BY <1>0 DEF Max
<1>2. Min({b, d}) = high
  BY <1>0 DEF Min
<1>3. low \in Int /\ high \in Int
  BY <1>0
<1>4. PartIn(a, b, c, d) = IF high - low > 0 THEN high - low ELSE 0
  BY DEF PartIn
<1>5. Overlap(fs, l, iv) = Max({0, high - low})
  <2>1. Overlap(fs, l, iv) = Max({0, Min({b, d}) - Max({a, c})})
    BY <1>0 DEF Overlap
  <2>2. QED BY <1>1, <1>2, <2>1
<1>. HIDE DEF low, high
<1>6. Max({0, high - low}) = IF high - low > 0 THEN high - low ELSE 0
  BY <1>3 DEF Max
<1>7. QED BY <1>3, <1>4, <1>5, <1>6

\* The nearest time of a..b.
Nearest(a, b, t) == IF t < a THEN a ELSE IF t > b THEN b ELSE t

LEMMA PartIsGrowth ==
    ASSUME NEW a, NEW b, NEW c, NEW d, NEW fs, NEW l, NEW iv, Spans(fs, l, a, b), Cuts(iv, c, d)
    PROVE  Overlap(fs, l, iv) = Nearest(a, b, d) - Nearest(a, b, c) /\ Overlap(fs, l, iv) \in Nat
<1>1. a \in Int /\ b \in Int /\ c \in Int /\ d \in Int /\ a <= b /\ c <= d
  BY DEF Spans, Cuts
<1>2. PartIn(a, b, c, d) = Nearest(a, b, d) - Nearest(a, b, c)
  BY <1>1 DEF PartIn, Nearest
<1>3. QED BY <1>2, OverlapIs

LEMMA NearestIn ==
    ASSUME NEW a \in Int, NEW b \in Int, a <= b, NEW t \in Int
    PROVE  Nearest(a, b, t) \in a .. b
  BY DEF Nearest

LEMMA CutTimes ==
    ASSUME NEW ph \in Stream, ValidCoverage(ph)
    PROVE  /\ Len(ph.intervals) \in Nat
           /\ \A n \in 1 .. Len(ph.intervals) :
                 /\ ph.intervals[n].start * Second \in Int /\ ph.intervals[n].end * Second \in Int
                 /\ ph.intervals[n].start * Second < ph.intervals[n].end * Second
                 /\ n = 1 => ph.intervals[n].start * Second = 0
                 /\ n # 1 => ph.intervals[n].start * Second = ph.intervals[n - 1].end * Second
<1>. DEFINE N == Len(ph.intervals)
<1>1. /\ N \in Nat
      /\ \A n \in 1 .. N : ph.intervals[n].start \in Int /\ ph.intervals[n].end \in Int
  BY StreamIs
<1>2. /\ ph.intervals[1].start = 0
      /\ \A n \in 1 .. N : ph.intervals[n].start < ph.intervals[n].end
      /\ \A n \in 1 .. N - 1 : ph.intervals[n + 1].start = ph.intervals[n].end
  BY CoverageIs
<1>3. ASSUME NEW n \in 1 .. N, n # 1 PROVE ph.intervals[n].start = ph.intervals[n - 1].end
  <2>1. n - 1 \in 1 .. N - 1 /\ (n - 1) + 1 = n
    BY <1>1, <1>3
  <2>2. QED BY <1>2, <2>1
<1>4. ASSUME NEW n \in 1 .. N
      PROVE  /\ ph.intervals[n].start * Second \in Int /\ ph.intervals[n].end * Second \in Int
             /\ ph.intervals[n].start * Second < ph.intervals[n].end * Second
  <2>1. /\ ph.intervals[n].start \in Int /\ ph.intervals[n].end \in Int
        /\ ph.intervals[n].start < ph.intervals[n].end
    BY <1>1, <1>2
  <2>2. QED BY <2>1 DEF Second
<1>5. QED BY <1>1, <1>2, <1>3, <1>4 DEF Second

\* A life takes no more time than there is from its beginning to its end.
LEMMA TimeInBelow ==
    ASSUME NEW ph \in Stream, ValidCoverage(ph), NEW fs, NEW scope, NEW l, NEW a, NEW b,
           Spans(fs, l, a, b)
    PROVE  TimeIn(fs, ph, scope, l) \in Int /\ TimeIn(fs, ph, scope, l) <= b - a
<1>. DEFINE w == ph.intervals
            N == Len(w)
            s == [n \in 1 .. N |-> IF OfScope(w[n], scope) THEN Overlap(fs, l, w[n]) ELSE 0]
            cut(n) == IF n = 0 THEN 0 ELSE w[n].end * Second
            g == [n \in 0 .. N |-> Nearest(a, b, cut(n))]
<1>0. a \in Int /\ b \in Int /\ a <= b /\ a = fs[l[1]].at /\ b = fs[l[2]].at
  BY DEF Spans
<1>1. /\ N \in Nat
      /\ \A n \in 1 .. N : /\ w[n].start * Second \in Int /\ w[n].end * Second \in Int
                           /\ w[n].start * Second < w[n].end * Second
                           /\ n = 1 => w[n].start * Second = 0
                           /\ n # 1 => w[n].start * Second = w[n - 1].end * Second
  BY CutTimes
<1>2. TimeIn(fs, ph, scope, l) = SumUp(s)
  BY DEF TimeIn
<1>. HIDE DEF w
<1>3. ASSUME NEW n \in 1 .. N
      PROVE  /\ Overlap(fs, l, w[n]) = Nearest(a, b, cut(n)) - Nearest(a, b, cut(n - 1))
             /\ Overlap(fs, l, w[n]) \in Nat
             /\ cut(n) \in Int /\ cut(n - 1) \in Int /\ n \in 0 .. N /\ n - 1 \in 0 .. N
  <2>. DEFINE c == w[n].start * Second
              d == w[n].end * Second
  <2>1. n # 0 /\ (n = 1 <=> n - 1 = 0)
    BY <1>1
  <2>2. c = cut(n - 1) /\ d = cut(n)
    <3>1. CASE n = 1
      BY <1>1, <2>1, <3>1
    <3>2. CASE n # 1
      BY <1>1, <2>1, <3>2
    <3>3. QED BY <3>1, <3>2
  <2>3. c \in Int /\ d \in Int /\ c <= d
    BY <1>1
  <2>4. n \in 0 .. N /\ n - 1 \in 0 .. N
    BY <1>1
  <2>5. Cuts(w[n], c, d)
    BY <2>3 DEF Cuts
  <2>. HIDE DEF c, d, cut, N
  <2>6. Overlap(fs, l, w[n]) = Nearest(a, b, d) - Nearest(a, b, c) /\ Overlap(fs, l, w[n]) \in Nat
    BY <2>5, PartIsGrowth
  <2>7. QED BY <2>2, <2>3, <2>4, <2>6
<1>4. \A t \in Int : Nearest(a, b, t) \in a .. b
  BY <1>0, NearestIn
<1>. HIDE DEF N
<1>5. \A n \in 0 .. N : cut(n) \in Int
  <2>1. ASSUME NEW n \in 0 .. N PROVE cut(n) \in Int
    <3>1. n = 0 \/ n \in 1 .. N
      BY <1>1
    <3>2. QED BY <1>1, <3>1
  <2>2. QED BY <2>1
<1>. HIDE DEF cut
<1>6. /\ g \in [0 .. N -> Int] /\ \A n \in 0 .. N : g[n] = Nearest(a, b, cut(n)) /\ g[n] \in a .. b
  <2>1. \A n \in 0 .. N : Nearest(a, b, cut(n)) \in a .. b
    BY <1>4, <1>5
  <2>2. a .. b \subseteq Int
    BY <1>0
  <2>3. QED BY <2>1, <2>2
<1>7. s \in [1 .. N -> Int]
  BY <1>3
<1>8. ASSUME NEW n \in 1 .. N PROVE s[n] <= g[n] - g[n - 1]
  <2>1. /\ Overlap(fs, l, w[n]) = Nearest(a, b, cut(n)) - Nearest(a, b, cut(n - 1))
        /\ Overlap(fs, l, w[n]) \in Nat /\ n \in 0 .. N /\ n - 1 \in 0 .. N
    BY <1>3
  <2>2. g[n] = Nearest(a, b, cut(n)) /\ g[n - 1] = Nearest(a, b, cut(n - 1))
    BY <1>6, <2>1
  <2>3. Overlap(fs, l, w[n]) = g[n] - g[n - 1]
    BY <2>1, <2>2
  <2>4. s[n] = Overlap(fs, l, w[n]) \/ s[n] = 0
    OBVIOUS
  <2>. HIDE DEF s, g
  <2>5. QED BY <2>1, <2>3, <2>4
<1>9. 0 \in 0 .. N /\ N \in 0 .. N
  BY <1>1
<1>. HIDE DEF s, g
<1>10. SumUp(s) \in Int /\ SumUp(s) <= g[N] - g[0]
  BY <1>1, <1>6, <1>7, <1>8, SumBelow
<1>11. g[N] \in a .. b /\ g[0] \in a .. b
  BY <1>6, <1>9
<1>12. QED BY <1>0, <1>2, <1>10, <1>11

-----------------------------------------------------------------------------
(* The lives of a scope.                                                   *)

\* A life in the match.
Lived(fs, ph, h, l) == LifeOf(fs, Sign(fs, ph, h), l[1], l[2])
InMatch(ph, at) == at \in Int /\ 0 <= at /\ at < ph.eligible * Second

LEMMA SaysInMatch ==
    ASSUME NEW ph \in Stream, ValidCoverage(ph), NEW fs \in Seq(FactT), NEW h,
           NEW i \in Sign(fs, ph, h)
    PROVE  i \in DOMAIN fs /\ InMatch(ph, fs[i].at)
<1>1. i \in Accepted(fs, ph, Whole_match)
  BY DEF Sign
<1>2. i \in DOMAIN fs /\ 0 <= fs[i].at /\ fs[i].at < ph.eligible * Second
  BY <1>1, AcceptedIs
<1>3. QED BY <1>2, FactAt DEF InMatch

LEMMA LivedSpans ==
    ASSUME NEW ph \in Stream, ValidCoverage(ph), NEW fs \in Seq(FactT), NEW h, NEW l,
           Lived(fs, ph, h, l)
    PROVE  /\ Spans(fs, l, fs[l[1]].at, fs[l[2]].at) /\ fs[l[1]].at < fs[l[2]].at
           /\ InMatch(ph, fs[l[1]].at) /\ InMatch(ph, fs[l[2]].at)
           /\ l[1] \in Sign(fs, ph, h) /\ l[2] \in Sign(fs, ph, h)
<1>1. l[1] \in Sign(fs, ph, h) /\ l[2] \in Sign(fs, ph, h) /\ fs[l[1]].at < fs[l[2]].at
  BY DEF Lived, LifeOf
<1>2. InMatch(ph, fs[l[1]].at) /\ InMatch(ph, fs[l[2]].at)
  BY <1>1, SaysInMatch
<1>3. fs[l[1]].at \in Int /\ fs[l[2]].at \in Int
  BY <1>2 DEF InMatch
<1>4. QED BY <1>1, <1>2, <1>3 DEF Spans

Touches(fs, ph, s, l) ==
    \E n \in 1 .. Len(ph.intervals) :
        OfScope(ph.intervals[n], s) /\ Overlap(fs, l, ph.intervals[n]) > 0

\* A life in the match has a part in it.
LEMMA LivedTouches ==
    ASSUME NEW ph \in Stream, ValidCoverage(ph), NEW fs \in Seq(FactT), NEW h, NEW l,
           Lived(fs, ph, h, l)
    PROVE  Touches(fs, ph, Whole_match, l)
<1>. DEFINE a == fs[l[1]].at
            b == fs[l[2]].at
<1>1. Spans(fs, l, a, b) /\ a < b /\ InMatch(ph, a)
  BY LivedSpans
<1>2. a \in Int /\ b \in Int /\ 0 <= a /\ a < ph.eligible * Second
  BY <1>1 DEF Spans, InMatch
<1>. HIDE DEF a, b
<1>3. PICK n \in 1 .. Len(ph.intervals) : Within(a, ph.intervals[n])
  BY <1>2, TimeInCut
<1>. DEFINE iv == ph.intervals[n]
            c == iv.start * Second
            d == iv.end * Second
<1>4. c <= a /\ a < d
  BY <1>3 DEF Within
<1>5. c \in Int /\ d \in Int /\ c < d
  BY CutTimes
<1>6. Cuts(iv, c, d)
  BY <1>5 DEF Cuts
<1>7. OfScope(iv, Whole_match)
  BY CoverageIs DEF OfScope, InScope
<1>. HIDE DEF c, d, iv
<1>8. Overlap(fs, l, iv) = PartIn(a, b, c, d)
  BY <1>1, <1>6, OverlapIs
<1>9. PartIn(a, b, c, d) > 0
  BY <1>1, <1>2, <1>4, <1>5 DEF PartIn
<1>10. QED BY <1>7, <1>8, <1>9 DEF Touches, iv

\* No scope has more time alive than the match has.
LEMMA TotalTime ==
    ASSUME NEW ph \in Stream, ValidCoverage(ph), NEW fs \in Seq(FactT), NEW h, NEW lives, NEW scope,
           ListsLives(fs, Sign(fs, ph, h), lives)
    PROVE  SumUp([k \in 1 .. Len(lives) |-> TimeIn(fs, ph, scope, lives[k])])
             <= ph.eligible * Second
<1>. DEFINE E == Sign(fs, ph, h)
            K == Len(lives)
            s == [k \in 1 .. K |-> TimeIn(fs, ph, scope, lives[k])]
            a(k) == fs[lives[k][1]].at
            b(k) == fs[lives[k][2]].at
            g == [k \in 0 .. K |-> IF k = 0 THEN 0 ELSE b(k)]
<1>1. /\ lives \in Seq(E \X E)
      /\ \A x, y : <<x, y>> \in ToSet(lives) <=> LifeOf(fs, E, x, y)
      /\ \A n \in 1 .. K - 1 : b(n) <= a(n + 1)
  BY DEF ListsLives
<1>2. K \in Nat
  BY <1>1
<1>3. ASSUME NEW k \in 1 .. K PROVE Lived(fs, ph, h, lives[k])
  <2>1. lives[k] \in E \X E /\ k \in DOMAIN lives
    BY <1>1
  <2>2. lives[k] \in ToSet(lives) /\ lives[k] = <<lives[k][1], lives[k][2]>>
    BY <2>1 DEF ToSet
  <2>3. LifeOf(fs, E, lives[k][1], lives[k][2])
    BY <1>1, <2>2
  <2>4. QED BY <2>3 DEF Lived
<1>4. ASSUME NEW k \in 1 .. K
      PROVE  /\ Spans(fs, lives[k], a(k), b(k)) /\ InMatch(ph, a(k)) /\ InMatch(ph, b(k))
  BY <1>3, LivedSpans
<1>5. ASSUME NEW k \in 1 .. K
      PROVE  /\ TimeIn(fs, ph, scope, lives[k]) \in Int
             /\ TimeIn(fs, ph, scope, lives[k]) <= b(k) - a(k)
  <2>1. Spans(fs, lives[k], a(k), b(k))
    BY <1>4
  <2>. HIDE DEF a, b
  <2>2. QED BY <2>1, TimeInBelow
<1>. HIDE DEF a, b, K
<1>6. \A k \in 1 .. K : /\ a(k) \in Int /\ b(k) \in Int /\ 0 <= a(k)
                        /\ b(k) < ph.eligible * Second
  BY <1>4 DEF InMatch
<1>7. s \in [1 .. K -> Int] /\ \A k \in 1 .. K : s[k] <= b(k) - a(k)
  BY <1>5
<1>8. g \in [0 .. K -> Int] /\ g[0] = 0 /\ \A k \in 1 .. K : g[k] = b(k)
  <2>1. ASSUME NEW k \in 0 .. K PROVE (IF k = 0 THEN 0 ELSE b(k)) \in Int
    <3>1. k = 0 \/ k \in 1 .. K
      BY <1>2
    <3>2. QED BY <1>6, <3>1
  <2>2. g \in [0 .. K -> Int]
    BY <2>1
  <2>3. 0 \in 0 .. K /\ \A k \in 1 .. K : k \in 0 .. K /\ k # 0
    BY <1>2
  <2>4. QED BY <2>2, <2>3
<1>. HIDE DEF s, g
<1>9. ASSUME NEW k \in 1 .. K PROVE s[k] <= g[k] - g[k - 1]
  <2>1. s[k] \in Int /\ s[k] <= b(k) - a(k) /\ g[k] = b(k) /\ a(k) \in Int /\ b(k) \in Int /\ 0 <= a(k)
    BY <1>6, <1>7, <1>8
  <2>2. g[k - 1] \in Int /\ g[k - 1] <= a(k)
    <3>1. CASE k = 1
      <4>1. k - 1 = 0
        BY <3>1
      <4>2. QED BY <1>8, <2>1, <4>1
    <3>2. CASE k # 1
      <4>1. k - 1 \in 1 .. K - 1 /\ k - 1 \in 1 .. K /\ (k - 1) + 1 = k
        BY <1>2, <3>2
      <4>2. b(k - 1) <= a((k - 1) + 1)
        BY <1>1, <4>1
      <4>3. QED BY <1>6, <1>8, <4>1, <4>2
    <3>3. QED BY <3>1, <3>2
  <2>3. QED BY <2>1, <2>2
<1>10. SumUp(s) \in Int /\ SumUp(s) <= g[K] - g[0]
  BY <1>2, <1>7, <1>8, <1>9, SumBelow
<1>11. g[K] \in Int /\ g[K] <= ph.eligible * Second
  <2>1. ph.eligible > 0 /\ ph.eligible \in Int
    BY CoverageIs, StreamIs
  <2>2. ph.eligible * Second \in Int /\ 0 <= ph.eligible * Second
    BY <2>1 DEF Second
  <2>3. CASE K = 0
    BY <1>8, <2>2, <2>3
  <2>4. CASE K # 0
    <3>1. K \in 1 .. K
      BY <1>2, <2>4
    <3>2. g[K] = b(K) /\ b(K) < ph.eligible * Second /\ b(K) \in Int
      BY <1>6, <1>8, <3>1
    <3>3. QED BY <2>2, <3>2
  <2>5. QED BY <2>3, <2>4
<1>12. SumUp(s) <= ph.eligible * Second
  <2>1. ph.eligible \in Int
    BY StreamIs
  <2>2. ph.eligible * Second \in Int
    BY <2>1 DEF Second
  <2>3. QED BY <1>8, <1>10, <1>11, <2>2
<1>13. QED BY <1>12 DEF s, K

-----------------------------------------------------------------------------
(* Deaths.                                                                 *)

AllLives(fs, ph, h) == ToSet(LivesOf(ProvenLives(fs, ph, h)))
ScopeLives(fs, ph, s, h) == LivesIn(fs, ph, s, h).lives
ScopeGaps(fs, ph, s, h) == LivesIn(fs, ph, s, h).gaps
ScopeTime(fs, ph, s, h) == LivesIn(fs, ph, s, h).time
ScopeDeaths(fs, ph, s, h) == Deaths(fs, ph, s, ScopeLives(fs, ph, s, h))

LEMMA LivesInFields ==
    ASSUME NEW ph \in Stream, NEW fs, NEW s, NEW h
    PROVE  /\ ScopeLives(fs, ph, s, h) = {l \in AllLives(fs, ph, h) : Touches(fs, ph, s, l)}
           /\ ScopeTime(fs, ph, s, h)
                = SumUp([k \in 1 .. Len(LivesOf(ProvenLives(fs, ph, h))) |->
                            TimeIn(fs, ph, s, LivesOf(ProvenLives(fs, ph, h))[k])])
           /\ ScopeGaps(fs, ph, s, h)
                = {g \in ProvenLives(fs, ph, h).gaps : \E n \in 1 .. Len(ph.intervals) :
                      OfScope(ph.intervals[n], s) /\ Within(fs[g].at, ph.intervals[n])}
<1>. DEFINE all == ProvenLives(fs, ph, h)
            ivs == {i \in DOMAIN ph.intervals : OfScope(ph.intervals[i], s)}
            lives == {l \in ToSet(all.lives) :
                         \E i \in ivs : Overlap(fs, l, ph.intervals[i]) > 0}
            time == SumUp([k \in 1 .. Len(all.lives) |-> TimeIn(fs, ph, s, all.lives[k])])
            gaps == {g \in all.gaps : \E i \in ivs : Within(fs[g].at, ph.intervals[i])}
<1>1. LivesIn(fs, ph, s, h) = [lives |-> lives, time |-> time, gaps |-> gaps]
  BY DEF LivesIn
<1>2. DOMAIN ph.intervals = 1 .. Len(ph.intervals)
  BY StreamIs
<1>3. lives = {l \in AllLives(fs, ph, h) : Touches(fs, ph, s, l)}
  BY <1>2 DEF AllLives, LivesOf, Touches
<1>4. gaps = {g \in ProvenLives(fs, ph, h).gaps : \E n \in 1 .. Len(ph.intervals) :
                 OfScope(ph.intervals[n], s) /\ Within(fs[g].at, ph.intervals[n])}
  BY <1>2
<1>5. time = SumUp([k \in 1 .. Len(LivesOf(ProvenLives(fs, ph, h))) |->
                       TimeIn(fs, ph, s, LivesOf(ProvenLives(fs, ph, h))[k])])
  BY DEF LivesOf
<1>. HIDE DEF lives, time, gaps
<1>6. /\ ScopeLives(fs, ph, s, h) = lives /\ ScopeTime(fs, ph, s, h) = time
      /\ ScopeGaps(fs, ph, s, h) = gaps
  BY <1>1 DEF ScopeLives, ScopeTime, ScopeGaps
<1>7. QED BY <1>3, <1>4, <1>5, <1>6

LEMMA GapsShrink ==
    ASSUME NEW ph \in Stream, NEW fs, NEW s, NEW h
    PROVE  ScopeGaps(fs, ph, s, h) \subseteq ScopeGaps(fs, ph, Whole_match, h)
<1>. DEFINE gaps == ProvenLives(fs, ph, h).gaps
            N == Len(ph.intervals)
<1>1. \A iv : OfScope(iv, s) => OfScope(iv, Whole_match)
  BY DEF OfScope, InScope
<1>2. \A t : ScopeGaps(fs, ph, t, h) = {g \in gaps : \E n \in 1 .. N :
          OfScope(ph.intervals[n], t) /\ Within(fs[g].at, ph.intervals[n])}
  BY LivesInFields
<1>. HIDE DEF gaps, N
<1>3. ASSUME NEW g \in ScopeGaps(fs, ph, s, h) PROVE g \in ScopeGaps(fs, ph, Whole_match, h)
  <2>1. g \in gaps /\ \E n \in 1 .. N : OfScope(ph.intervals[n], s) /\ Within(fs[g].at, ph.intervals[n])
    BY <1>2
  <2>2. QED BY <1>1, <1>2, <2>1
<1>4. QED BY <1>3

\* When the deaths of a hero in a scope have a value, and what it says.
LEMMA DeathRow ==
    ASSUME NEW ph \in Stream, NEW fs \in Seq(FactT), NEW s, NEW h,
           NEW row, row = MetricRow(fs, ph, h, "death", s)
    PROVE  /\ Valued(row) <=> /\ TimeOf(ph, s) > 0 /\ ScopeGaps(fs, ph, s, h) = {}
                              /\ ScopeLives(fs, ph, s, h) # {}
           /\ Valued(row) => /\ row.count = Cardinality(ScopeDeaths(fs, ph, s, h))
                             /\ row.lives = ScopeLives(fs, ph, s, h)
                             /\ row.time = ScopeTime(fs, ph, s, h)
<1>. DEFINE count == Cardinality(ScopeDeaths(fs, ph, s, h))
            lives == ScopeLives(fs, ph, s, h)
            gaps == ScopeGaps(fs, ph, s, h)
            time == ScopeTime(fs, ph, s, h)
            a == Available(count, Cardinality(lives), time, SetAside(fs, ph, s, h, "death"), lives)
            t == TimeOf(ph, s)
<1>1. t \in Int
  BY CountTyped
<1>2. row = IF t <= 0 THEN Unavailable("no duration")
            ELSE IF gaps # {} THEN Unavailable(Gap)
            ELSE IF lives = {} THEN Unavailable("no life")
            ELSE a
  BY RowOfDeaths DEF ScopeLives, ScopeGaps, ScopeTime, ScopeDeaths
<1>3. /\ a.count = count /\ a.lives = lives /\ a.time = time /\ Valued(a)
  <2>. HIDE DEF count, lives, gaps, time
  <2>1. QED BY AvailableFields DEF a
<1>4. \A why : Why(Unavailable(why)) = why
  BY WhyFields
<1>5. ~Valued(Unavailable("no duration")) /\ ~Valued(Unavailable(Gap)) /\ ~Valued(Unavailable("no life"))
  <2>1. "no duration" # "" /\ Gap # "" /\ "no life" # ""
    BY DEF Gap
  <2>2. QED BY <1>4, <2>1, Zenon DEF Valued
<1>. HIDE DEF count, lives, gaps, time, a, t
<1>6. Valued(row) <=> ~(t <= 0) /\ gaps = {} /\ lives # {}
  BY <1>2, <1>3, <1>5, Zenon
<1>7. Valued(row) => row = a
  BY <1>2, <1>6, Zenon
<1>8. ~(t <= 0) <=> t > 0
  BY <1>1
<1>9. QED BY <1>3, <1>6, <1>7, <1>8 DEF count, lives, gaps, time, t

-----------------------------------------------------------------------------
(* What a count of deaths rests on.                                        *)

\* The hero's deaths in the match have a value.
DeathsValued(fs, ph, h) == Valued(MetricRow(fs, ph, h, "death", Whole_match))

LEMMA ValuedMeans ==
    ASSUME NEW ph \in Stream, NEW fs \in Seq(FactT), NEW h, DeathsValued(fs, ph, h)
    PROVE  /\ ValidCoverage(ph)
           /\ ListsLives(fs, Sign(fs, ph, h), LivesOf(ProvenLives(fs, ph, h)))
           /\ ScopeGaps(fs, ph, Whole_match, h) = {}
<1>1. ScopeGaps(fs, ph, Whole_match, h) = {} /\ ScopeLives(fs, ph, Whole_match, h) # {}
  BY DeathRow DEF DeathsValued
<1>2. AllLives(fs, ph, h) # {}
  <2>1. ScopeLives(fs, ph, Whole_match, h)
          = {l \in AllLives(fs, ph, h) : Touches(fs, ph, Whole_match, l)}
    BY LivesInFields
  <2>2. QED BY <1>1, <2>1
<1>3. Bound(fs, ph, h)
  <2>. SUFFICES ASSUME ~Bound(fs, ph, h) PROVE FALSE
    OBVIOUS
  <2>1. LivesOf(ProvenLives(fs, ph, h)) = <<>>
    BY ProvenLivesAre
  <2>2. ToSet(<<>>) = {}
    BY DEF ToSet
  <2>3. QED BY <1>2, <2>1, <2>2 DEF AllLives
<1>4. ListsLives(fs, Sign(fs, ph, h), LivesOf(ProvenLives(fs, ph, h)))
  BY <1>3, ProvenLivesAre
<1>5. Accepted(fs, ph, Whole_match) # {}
  BY <1>3 DEF Bound
<1>6. ValidCoverage(ph)
  BY <1>5, AcceptedNone
<1>7. QED BY <1>1, <1>4, <1>6

\* The lives of the match are those the facts prove.
LEMMA MatchLives ==
    ASSUME NEW ph \in Stream, NEW fs \in Seq(FactT), NEW h, DeathsValued(fs, ph, h)
    PROVE  /\ \A l \in AllLives(fs, ph, h) : Lived(fs, ph, h, l) /\ l = <<l[1], l[2]>>
           /\ \A x, y : LifeOf(fs, Sign(fs, ph, h), x, y) => <<x, y>> \in AllLives(fs, ph, h)
           /\ ScopeLives(fs, ph, Whole_match, h) = AllLives(fs, ph, h)
           /\ IsFiniteSet(AllLives(fs, ph, h))
<1>. DEFINE E == Sign(fs, ph, h)
            lives == LivesOf(ProvenLives(fs, ph, h))
            all == AllLives(fs, ph, h)
<1>1. /\ ValidCoverage(ph) /\ lives \in Seq(E \X E)
      /\ \A x, y : <<x, y>> \in ToSet(lives) <=> LifeOf(fs, E, x, y)
  BY ValuedMeans DEF ListsLives
<1>2. all = ToSet(lives)
  BY DEF AllLives
<1>. HIDE DEF E, lives, all
<1>3. ASSUME NEW l \in all PROVE l = <<l[1], l[2]>> /\ l \in E \X E
  <2>1. PICK k \in DOMAIN lives : l = lives[k]
    BY <1>2 DEF ToSet
  <2>2. lives[k] \in E \X E
    BY <1>1
  <2>3. QED BY <2>1, <2>2
<1>4. ASSUME NEW l \in all PROVE Lived(fs, ph, h, l)
  <2>1. <<l[1], l[2]>> \in ToSet(lives)
    BY <1>2, <1>3
  <2>2. QED BY <1>1, <2>1 DEF Lived, E
<1>5. \A x, y : LifeOf(fs, E, x, y) => <<x, y>> \in all
  BY <1>1, <1>2
<1>6. ScopeLives(fs, ph, Whole_match, h) = all
  <2>1. ScopeLives(fs, ph, Whole_match, h) = {l \in all : Touches(fs, ph, Whole_match, l)}
    BY LivesInFields DEF all
  <2>2. \A l \in all : Touches(fs, ph, Whole_match, l)
    BY <1>1, <1>4, LivedTouches
  <2>3. QED BY <2>1, <2>2
<1>7. IsFiniteSet(all)
  <2>1. IsFiniteSet(E)
    BY SaysFinite DEF E
  <2>2. IsFiniteSet(E \X E)
    BY <2>1, FS_Product
  <2>3. all \subseteq E \X E
    BY <1>3
  <2>4. QED BY <2>2, <2>3, FS_Subset
<1>8. QED BY <1>3, <1>4, <1>5, <1>6, <1>7 DEF all, E

\* Two lives do not end with one death.
LEMMA EndOnce ==
    ASSUME NEW fs \in Seq(FactT), NEW E \in SUBSET DOMAIN fs, \A i \in E : Tells_life(fs[i]),
           NEW w, NEW x, NEW y, LifeOf(fs, E, w, y), LifeOf(fs, E, x, y)
    PROVE  w = x
<1>1. \A k \in E : /\ ~(IsNull(fs[k]) /\ IsAlive(fs[k])) /\ ~(IsAlive(fs[k]) /\ IsDead(fs[k]))
  BY ThreeStates
<1>2. ASSUME NEW a, NEW b, LifeOf(fs, E, a, y), LifeOf(fs, E, b, y), Sooner(fs, a, b) PROVE FALSE
  <2>1. /\ a \in E /\ IsAlive(fs[a]) /\ y \in E
        /\ \A k \in E : Sooner(fs, a, k) /\ Sooner(fs, k, y) => IsAlive(fs[k])
    BY <1>2 DEF LifeOf
  <2>2. b \in E /\ Risen(fs, E, b) /\ fs[b].at < fs[y].at
    BY <1>2 DEF LifeOf
  <2>3. ~IsNull(fs[a])
    BY <1>1, <2>1
  <2>4. PICK d \in E : /\ IsDead(fs[d]) /\ Sooner(fs, d, b)
                       /\ \A k \in E : Sooner(fs, d, k) /\ Sooner(fs, k, b) => IsNull(fs[k])
    BY <1>2, <2>1, <2>2, <2>3 DEF Risen
  <2>5. a \in DOMAIN fs /\ b \in DOMAIN fs /\ d \in DOMAIN fs /\ y \in DOMAIN fs
    BY <2>1, <2>2
  <2>6. d # a /\ ~Sooner(fs, d, a)
    BY <1>1, <1>2, <2>1, <2>3, <2>4
  <2>7. Sooner(fs, a, d)
    BY <2>5, <2>6, SoonerOrders
  <2>8. Sooner(fs, b, y)
    <3>1. fs[b].at \in Int /\ fs[y].at \in Int
      BY <2>5, FactAt
    <3>2. QED BY <2>2, <3>1 DEF Sooner
  <2>9. Sooner(fs, d, y)
    BY <2>4, <2>5, <2>8, SoonerOrders
  <2>10. IsAlive(fs[d])
    BY <2>1, <2>7, <2>9
  <2>11. QED BY <1>1, <2>4, <2>10
<1>3. w \in DOMAIN fs /\ x \in DOMAIN fs
  BY DEF LifeOf
<1>4. w = x \/ Sooner(fs, w, x) \/ Sooner(fs, x, w)
  BY <1>3, SoonerOrders
<1>5. QED BY <1>2, <1>4

\* No more deaths are counted than the facts tell of.
LEMMA DeathsToldOf ==
    ASSUME NEW ph \in Stream, NEW fs \in Seq(FactT), NEW h, DeathsValued(fs, ph, h)
    PROVE  Cardinality({l \in AllLives(fs, ph, h) : fs[l[2]].type = "death"})
             <= Cardinality({i \in Sign(fs, ph, h) : fs[i].type = "death"})
<1>. DEFINE E == Sign(fs, ph, h)
            S == {l \in AllLives(fs, ph, h) : fs[l[2]].type = "death"}
            T == {i \in E : fs[i].type = "death"}
            end == [l \in S |-> l[2]]
<1>1. E \in SUBSET DOMAIN fs /\ IsFiniteSet(E) /\ \A i \in E : Tells_life(fs[i])
  BY SaysFinite, SaysTell
<1>2. \A l \in S : LifeOf(fs, E, l[1], l[2]) /\ l = <<l[1], l[2]>> /\ fs[l[2]].type = "death"
  BY MatchLives DEF Lived
<1>3. IsFiniteSet(T)
  <2>1. T \subseteq E
    OBVIOUS
  <2>2. QED BY <1>1, <2>1, FS_Subset
<1>. HIDE DEF E, S
<1>4. \A l \in S : l[2] \in E
  BY <1>2 DEF LifeOf
<1>5. end \in [S -> T]
  BY <1>2, <1>4
<1>6. ASSUME NEW k \in S, NEW l \in S, k[2] = l[2] PROVE k = l
  <2>1. LifeOf(fs, E, k[1], k[2]) /\ LifeOf(fs, E, l[1], k[2])
    BY <1>2, <1>6
  <2>2. k[1] = l[1]
    BY <1>1, <2>1, EndOnce
  <2>3. k = <<k[1], k[2]>> /\ l = <<l[1], l[2]>>
    BY <1>2
  <2>4. QED BY <1>6, <2>2, <2>3
<1>7. \A l \in S : end[l] = l[2]
  OBVIOUS
<1>. HIDE DEF T, end
<1>8. end \in Injection(S, T)
  BY <1>5, <1>6, <1>7 DEF Injection, IsInjective
<1>9. Cardinality(S) <= Cardinality(T)
  BY <1>3, <1>8, FS_Injection
<1>10. QED BY <1>9 DEF S, T, E

-----------------------------------------------------------------------------
(* The deaths of the phases.                                               *)

\* HasPart, of any facts and stream.
EndsIn(fs, ph, l) == PhaseAt(ph, fs[l[2]].at)
PartAtEnd(fs, ph, l) ==
    \E n \in DOMAIN ph.intervals :
        /\ ph.intervals[n].phase = EndsIn(fs, ph, l)
        /\ fs[l[1]].at < ph.intervals[n].end * Second
        /\ ph.intervals[n].start * Second < fs[l[2]].at

DeathLives(fs, ph, h) == {l \in AllLives(fs, ph, h) : fs[l[2]].type = "death"}

LEMMA PartIsTouch ==
    ASSUME NEW ph \in Stream, ValidCoverage(ph), NEW fs \in Seq(FactT), NEW h, NEW l,
           Lived(fs, ph, h, l)
    PROVE  /\ EndsIn(fs, ph, l) \in Official
           /\ Touches(fs, ph, EndsIn(fs, ph, l), l) <=> PartAtEnd(fs, ph, l)
<1>. DEFINE a == fs[l[1]].at
            b == fs[l[2]].at
            p == EndsIn(fs, ph, l)
            N == Len(ph.intervals)
<1>1. Spans(fs, l, a, b) /\ a < b /\ InMatch(ph, b) /\ l[2] \in Sign(fs, ph, h)
  BY LivedSpans
<1>2. p \in Official
  <2>1. l[2] \in Accepted(fs, ph, Whole_match)
    BY <1>1 DEF Sign
  <2>2. QED BY <2>1, AcceptedIs DEF EndsIn
<1>3. DOMAIN ph.intervals = 1 .. N
  BY StreamIs
<1>4. a \in Int /\ b \in Int
  BY <1>1 DEF Spans
<1>. HIDE DEF p, a, b
<1>5. ASSUME NEW n \in 1 .. N
      PROVE  Overlap(fs, l, ph.intervals[n]) > 0
               <=> a < ph.intervals[n].end * Second /\ ph.intervals[n].start * Second < b
  <2>. DEFINE iv == ph.intervals[n]
              c == iv.start * Second
              d == iv.end * Second
  <2>1. c \in Int /\ d \in Int /\ c < d
    BY CutTimes
  <2>2. Cuts(iv, c, d)
    BY <2>1 DEF Cuts
  <2>. HIDE DEF c, d, iv
  <2>3. Overlap(fs, l, iv) = PartIn(a, b, c, d)
    BY <1>1, <2>2, OverlapIs
  <2>4. PartIn(a, b, c, d) > 0 <=> a < d /\ c < b
    BY <1>1, <1>4, <2>1 DEF PartIn
  <2>5. QED BY <2>3, <2>4 DEF c, d, iv
<1>6. ASSUME NEW n \in 1 .. N PROVE OfScope(ph.intervals[n], p) <=> ph.intervals[n].phase = p
  <2>1. ph.intervals[n].phase \in Official
    BY CoverageIs
  <2>2. p # Whole_match
    BY <1>2, OfficialAre
  <2>3. QED BY <2>1, <2>2 DEF OfScope, InScope
<1>7. Touches(fs, ph, p, l) <=> \E n \in 1 .. N : /\ ph.intervals[n].phase = p
                                                  /\ a < ph.intervals[n].end * Second
                                                  /\ ph.intervals[n].start * Second < b
  BY <1>5, <1>6 DEF Touches
<1>8. PartAtEnd(fs, ph, l) <=> \E n \in 1 .. N : /\ ph.intervals[n].phase = p
                                                /\ a < ph.intervals[n].end * Second
                                                /\ ph.intervals[n].start * Second < b
  BY <1>3 DEF PartAtEnd, p, a, b
<1>9. QED BY <1>2, <1>7, <1>8 DEF p

\* A life without a part in the phase it ends in, ends where that starts.
LEMMA EdgeStarts ==
    ASSUME NEW ph \in Stream, ValidCoverage(ph), NEW fs \in Seq(FactT), NEW h, NEW l,
           Lived(fs, ph, h, l), ~PartAtEnd(fs, ph, l)
    PROVE  \E n \in DOMAIN ph.intervals : fs[l[2]].at = ph.intervals[n].start * Second
<1>. DEFINE a == fs[l[1]].at
            b == fs[l[2]].at
<1>1. Spans(fs, l, a, b) /\ a < b /\ InMatch(ph, b)
  BY LivedSpans
<1>2. a \in Int /\ b \in Int /\ 0 <= b /\ b < ph.eligible * Second
  BY <1>1 DEF Spans, InMatch
<1>3. PICK n \in 1 .. Len(ph.intervals) : Within(b, ph.intervals[n])
  BY <1>2, TimeInCut
<1>4. PhaseAt(ph, b) = ph.intervals[n].phase
  BY <1>2, <1>3, PhaseIs
<1>5. /\ ph.intervals[n].start * Second \in Int /\ ph.intervals[n].end * Second \in Int
      /\ DOMAIN ph.intervals = 1 .. Len(ph.intervals)
  BY CutTimes, StreamIs
<1>6. ph.intervals[n].start * Second <= b /\ b < ph.intervals[n].end * Second
  BY <1>3 DEF Within
<1>7. ~(a < ph.intervals[n].end * Second /\ ph.intervals[n].start * Second < b)
  <2>1. ph.intervals[n].phase = EndsIn(fs, ph, l)
    BY <1>4 DEF EndsIn
  <2>2. QED BY <1>5, <2>1 DEF PartAtEnd
<1>. HIDE DEF a
<1>8. b = ph.intervals[n].start * Second
  <2>. HIDE DEF b
  <2>1. QED BY <1>1, <1>2, <1>5, <1>6, <1>7
<1>9. QED BY <1>5, <1>8

\* The deaths a phase counts.
LEMMA PhaseDeaths ==
    ASSUME NEW ph \in Stream, NEW fs \in Seq(FactT), NEW h, DeathsValued(fs, ph, h),
           NEW p \in Official
    PROVE  ScopeDeaths(fs, ph, p, h)
             = {l \in DeathLives(fs, ph, h) : EndsIn(fs, ph, l) = p /\ PartAtEnd(fs, ph, l)}
<1>. DEFINE all == AllLives(fs, ph, h)
<1>1. ValidCoverage(ph) /\ \A l \in all : Lived(fs, ph, h, l)
  BY ValuedMeans, MatchLives
<1>2. ScopeLives(fs, ph, p, h) = {l \in all : Touches(fs, ph, p, l)}
  BY LivesInFields
<1>3. p # Whole_match
  BY OfficialAre
<1>. HIDE DEF all
<1>4. ScopeDeaths(fs, ph, p, h)
        = {l \in all : Touches(fs, ph, p, l) /\ fs[l[2]].type = "death" /\ EndsIn(fs, ph, l) = p}
  BY <1>2, <1>3 DEF ScopeDeaths, Deaths, EndsIn
<1>5. \A l \in all : EndsIn(fs, ph, l) = p => (Touches(fs, ph, p, l) <=> PartAtEnd(fs, ph, l))
  BY <1>1, PartIsTouch
<1>6. DeathLives(fs, ph, h) = {l \in all : fs[l[2]].type = "death"}
  BY DEF DeathLives, all
<1>7. QED BY <1>4, <1>5, <1>6

-----------------------------------------------------------------------------
(* The deaths of the phases and of the match.                              *)

LEMMA ApartCount ==
    ASSUME NEW S, NEW T, IsFiniteSet(S), IsFiniteSet(T), S \cap T = {}
    PROVE  /\ IsFiniteSet(S \cup T) /\ Cardinality(S) \in Nat /\ Cardinality(T) \in Nat
           /\ Cardinality(S \cup T) = Cardinality(S) + Cardinality(T)
<1>1. Cardinality({}) = 0
  BY FS_EmptySet
<1>2. Cardinality(S) \in Nat /\ Cardinality(T) \in Nat
  BY FS_CardinalityType
<1>3. IsFiniteSet(S \cup T)
      /\ Cardinality(S \cup T) = Cardinality(S) + Cardinality(T) - Cardinality({})
  BY FS_Union
<1>4. QED BY <1>1, <1>2, <1>3

LEMMA DeathsPart ==
    ASSUME NEW ph \in Stream, NEW fs \in Seq(FactT), NEW h, DeathsValued(fs, ph, h)
    PROVE  Cardinality(DeathLives(fs, ph, h))
             = Cardinality(ScopeDeaths(fs, ph, "laning", h))
               + Cardinality(ScopeDeaths(fs, ph, "midgame", h))
               + Cardinality(ScopeDeaths(fs, ph, "decisive", h))
               + Cardinality({l \in DeathLives(fs, ph, h) : ~PartAtEnd(fs, ph, l)})
<1>. DEFINE D == DeathLives(fs, ph, h)
            In(p) == {l \in D : EndsIn(fs, ph, l) = p /\ PartAtEnd(fs, ph, l)}
            A == In("laning")
            B == In("midgame")
            C == In("decisive")
            X == {l \in D : ~PartAtEnd(fs, ph, l)}
<1>1. /\ ScopeDeaths(fs, ph, "laning", h) = A /\ ScopeDeaths(fs, ph, "midgame", h) = B
      /\ ScopeDeaths(fs, ph, "decisive", h) = C
  BY PhaseDeaths, OfficialAre
<1>2. IsFiniteSet(D)
  <2>1. D \subseteq AllLives(fs, ph, h) /\ IsFiniteSet(AllLives(fs, ph, h))
    BY MatchLives DEF DeathLives
  <2>2. QED BY <2>1, FS_Subset
<1>3. \A l \in D : EndsIn(fs, ph, l) \in {"laning", "midgame", "decisive"}
  <2>1. ValidCoverage(ph) /\ \A l \in D : Lived(fs, ph, h, l)
    BY ValuedMeans, MatchLives DEF DeathLives
  <2>2. QED BY <2>1, PartIsTouch, OfficialAre
<1>. HIDE DEF D
<1>4. IsFiniteSet(A) /\ IsFiniteSet(B) /\ IsFiniteSet(C) /\ IsFiniteSet(X)
  <2>1. A \subseteq D /\ B \subseteq D /\ C \subseteq D /\ X \subseteq D
    OBVIOUS
  <2>. HIDE DEF A, B, C, X
  <2>2. QED BY <1>2, <2>1, FS_Subset
<1>5. /\ D = ((A \cup B) \cup C) \cup X
      /\ A \cap B = {} /\ (A \cup B) \cap C = {} /\ ((A \cup B) \cup C) \cap X = {}
  BY <1>3
<1>. HIDE DEF A, B, C, X, In
<1>6. IsFiniteSet(A \cup B) /\ Cardinality(A \cup B) = Cardinality(A) + Cardinality(B)
  BY <1>4, <1>5, ApartCount
<1>7. IsFiniteSet((A \cup B) \cup C)
      /\ Cardinality((A \cup B) \cup C) = Cardinality(A \cup B) + Cardinality(C)
  BY <1>4, <1>5, <1>6, ApartCount
<1>8. Cardinality(D) = Cardinality((A \cup B) \cup C) + Cardinality(X)
  BY <1>4, <1>5, <1>7, ApartCount
<1>9. Cardinality(A) \in Nat /\ Cardinality(B) \in Nat /\ Cardinality(C) \in Nat
      /\ Cardinality(X) \in Nat
  BY <1>4, FS_CardinalityType
<1>10. Cardinality(D) = Cardinality(A) + Cardinality(B) + Cardinality(C) + Cardinality(X)
  BY <1>6, <1>7, <1>8, <1>9
<1>11. QED BY <1>1, <1>10 DEF D, X

\* What the rows of the phases say.
LEMMA DeathCountOf ==
    ASSUME Analysed, NEW h \in Hero, Valued(Got(h, "death", Whole_match)), NEW p \in Official
    PROVE  CountOf(h, "death", p) = Cardinality(ScopeDeaths(file, phases, p, h))
<1>. DEFINE row == Got(h, "death", p)
            n == Cardinality(ScopeDeaths(file, phases, p, h))
<1>1. /\ phases \in Stream /\ file \in Seq(FactT) /\ result = Result(file, phases)
      /\ DeathsValued(file, phases, h)
  BY DEF Analysed, DeathsValued, Got
<1>2. p \in Scope /\ "death" \in Metric
  BY DEF Scope, Metric
<1>3. CountOf(h, "death", p) = IF Valued(row) THEN row.count ELSE 0
  BY <1>1, <1>2, CountOfIs DEF Valued
<1>4. /\ Valued(row) <=> /\ TimeOf(phases, p) > 0 /\ ScopeGaps(file, phases, p, h) = {}
                         /\ ScopeLives(file, phases, p, h) # {}
      /\ Valued(row) => row.count = n
  BY <1>1, DeathRow DEF Got
<1>5. ScopeGaps(file, phases, p, h) = {}
  BY <1>1, ValuedMeans, GapsShrink
<1>6. ASSUME ScopeLives(file, phases, p, h) = {} PROVE n = 0
  <2>1. ScopeDeaths(file, phases, p, h) = {}
    BY <1>6 DEF ScopeDeaths, Deaths
  <2>2. QED BY <2>1, FS_EmptySet
<1>7. ASSUME ScopeLives(file, phases, p, h) # {} PROVE TimeOf(phases, p) > 0
  <2>1. PICK l : Touches(file, phases, p, l)
    <3>1. ScopeLives(file, phases, p, h)
            = {l \in AllLives(file, phases, h) : Touches(file, phases, p, l)}
      BY <1>1, LivesInFields
    <3>2. QED BY <1>7, <3>1
  <2>2. PICK k \in 1 .. Len(phases.intervals) : OfScope(phases.intervals[k], p)
    BY <2>1 DEF Touches
  <2>3. ValidCoverage(phases)
    BY <1>1, ValuedMeans
  <2>4. Duration(phases, p) > 0 /\ Duration(phases, p) \in Int
    BY <1>1, <2>2, <2>3, DurationOf, DurationTyped
  <2>5. QED BY <2>4 DEF TimeOf, Second
<1>. HIDE DEF row, n
<1>8. QED BY <1>3, <1>4, <1>5, <1>6, <1>7 DEF n

LEMMA DeathsAddUp ==
    ASSUME Analysed, NEW h \in Hero, NEW row, row = Got(h, "death", Whole_match), Valued(row)
    PROVE  /\ row.lives = AllLives(file, phases, h)
           /\ row.count = Cardinality(DeathLives(file, phases, h))
           /\ row.time <= phases.eligible * Second
           /\ row.count = PhaseTotal(h, "death")
                + Cardinality({l \in DeathLives(file, phases, h) : ~PartAtEnd(file, phases, l)})
<1>1. /\ phases \in Stream /\ file \in Seq(FactT) /\ DeathsValued(file, phases, h)
  BY DEF Analysed, DeathsValued, Got
<1>2. /\ row.count = Cardinality(ScopeDeaths(file, phases, Whole_match, h))
      /\ row.lives = ScopeLives(file, phases, Whole_match, h)
      /\ row.time = ScopeTime(file, phases, Whole_match, h)
  BY <1>1, DeathRow DEF Got
<1>3. ScopeLives(file, phases, Whole_match, h) = AllLives(file, phases, h)
  BY <1>1, MatchLives
<1>4. ScopeDeaths(file, phases, Whole_match, h) = DeathLives(file, phases, h)
  BY <1>3 DEF ScopeDeaths, Deaths, DeathLives
<1>5. ScopeTime(file, phases, Whole_match, h) <= phases.eligible * Second
  <2>. DEFINE lives == LivesOf(ProvenLives(file, phases, h))
  <2>1. ValidCoverage(phases) /\ ListsLives(file, Sign(file, phases, h), lives)
    BY <1>1, ValuedMeans
  <2>2. ScopeTime(file, phases, Whole_match, h)
          = SumUp([k \in 1 .. Len(lives) |-> TimeIn(file, phases, Whole_match, lives[k])])
    BY <1>1, LivesInFields
  <2>. HIDE DEF lives
  <2>3. QED BY <1>1, <2>1, <2>2, TotalTime
<1>6. \A p \in Official : CountOf(h, "death", p) = Cardinality(ScopeDeaths(file, phases, p, h))
  BY DeathCountOf
<1>7. PhaseTotal(h, "death") = Cardinality(ScopeDeaths(file, phases, "laning", h))
               + Cardinality(ScopeDeaths(file, phases, "midgame", h))
               + Cardinality(ScopeDeaths(file, phases, "decisive", h))
  BY <1>6, OfficialAre DEF PhaseTotal
<1>8. Cardinality(DeathLives(file, phases, h)) = PhaseTotal(h, "death")
        + Cardinality({l \in DeathLives(file, phases, h) : ~PartAtEnd(file, phases, l)})
  BY <1>1, <1>7, DeathsPart
<1>9. QED BY <1>2, <1>3, <1>4, <1>5, <1>8

-----------------------------------------------------------------------------
(* What is said of the metrics.                                            *)

LEMMA EvidenceIs ==
    ASSUME Analysed, NEW h, ValidCoverage(phases)
    PROVE  /\ Evidence(h) = Sign(file, phases, h)
           /\ \A i, j : Earlier(i, j) <=> Sooner(file, i, j)
           /\ \A i, j : IsLife(h, i, j) <=> LifeOf(file, Sign(file, phases, h), i, j)
<1>1. phases \in Stream /\ file \in Seq(FactT)
  BY DEF Analysed
<1>2. Accepted(file, phases, Whole_match)
        = {i \in DOMAIN file : 0 <= file[i].at /\ file[i].at < phases.eligible * Second}
  BY <1>1, AcceptedIs
<1>3. \A i \in DOMAIN file : file[i].at \in Int
  BY <1>1, FactAt
<1>4. \A i \in DOMAIN file : 0 <= file[i].at <=> file[i].at >= 0
  BY <1>3
<1>5. Evidence(h) = Sign(file, phases, h)
  BY <1>2, <1>4 DEF Evidence, Sign
<1>6. \A i, j : Earlier(i, j) <=> Sooner(file, i, j)
  BY DEF Earlier, Sooner
<1>7. ASSUME NEW i, NEW j
      PROVE  IsLife(h, i, j) <=> LifeOf(file, Sign(file, phases, h), i, j)
  BY <1>5, <1>6 DEF IsLife, LifeOf, Risen
<1>8. QED BY <1>5, <1>6, <1>7

LEMMA DeathValues ==
    ASSUME Analysed, NEW v \in Values("death", Whole_match)
    PROVE  \E h \in Hero : /\ v[1] = Key(h, "death", Whole_match) /\ v[1][1] = h
                           /\ v[2] = Got(h, "death", Whole_match)
                           /\ Valued(Got(h, "death", Whole_match))
<1>1. v \in result.values /\ v[1][2] = "death" /\ v[1][3] = Whole_match
  BY DEF Values
<1>2. PICK h \in Hero, m \in Metric, s \in Scope :
          /\ v[1] = Key(h, m, s) /\ v[2] = Got(h, m, s) /\ Why(Got(h, m, s)) = ""
  BY <1>1, ValuesAre DEF Analysed
<1>2a. v[1] = Key(h, m, s)
  BY <1>2
<1>3. v[1][1] = h /\ v[1][2] = m /\ v[1][3] = s
  BY <1>2a, KeyParts
<1>4. m = "death" /\ s = Whole_match
  BY <1>1, <1>3
<1>5. QED BY <1>2, <1>3, <1>4 DEF Valued

LEMMA AnalysedLives == ASSUME Analysed PROVE LivesAreProven
<1>. SUFFICES ASSUME NEW v \in Values("death", Whole_match)
              PROVE  LET h == v[1][1] IN
        /\ \A l \in v[2].lives : IsLife(h, l[1], l[2])
        /\ \A i, j \in Evidence(h) : IsLife(h, i, j) => <<i, j>> \in v[2].lives
        /\ v[2].count = Cardinality({l \in v[2].lives : file[l[2]].type = "death"})
        /\ v[2].count <= Cardinality({i \in Evidence(h) : file[i].type = "death"})
        /\ v[2].time <= phases.eligible * Second
  BY DEF LivesAreProven
<1>1. PICK h \in Hero : /\ v[1][1] = h /\ v[2] = Got(h, "death", Whole_match)
                        /\ Valued(Got(h, "death", Whole_match))
  BY DeathValues
<1>. DEFINE row == v[2]
<1>2. phases \in Stream /\ file \in Seq(FactT) /\ DeathsValued(file, phases, h)
  BY <1>1 DEF Analysed, DeathsValued, Got
<1>3. row = Got(h, "death", Whole_match) /\ Valued(row)
  BY <1>1
<1>. HIDE DEF row
<1>4. /\ row.lives = AllLives(file, phases, h)
      /\ row.count = Cardinality(DeathLives(file, phases, h))
      /\ row.time <= phases.eligible * Second
  BY <1>3, DeathsAddUp
<1>5. /\ Evidence(h) = Sign(file, phases, h)
      /\ \A i, j : IsLife(h, i, j) <=> LifeOf(file, Sign(file, phases, h), i, j)
  BY <1>2, ValuedMeans, EvidenceIs
<1>6. /\ \A l \in AllLives(file, phases, h) : Lived(file, phases, h, l)
      /\ \A x, y : LifeOf(file, Sign(file, phases, h), x, y) => <<x, y>> \in AllLives(file, phases, h)
  BY <1>2, MatchLives
<1>7. \A l \in row.lives : IsLife(h, l[1], l[2])
  BY <1>4, <1>5, <1>6 DEF Lived
<1>8. \A i, j \in Evidence(h) : IsLife(h, i, j) => <<i, j>> \in row.lives
  BY <1>4, <1>5, <1>6
<1>9. row.count = Cardinality({l \in row.lives : file[l[2]].type = "death"})
  BY <1>4 DEF DeathLives
<1>10. row.count <= Cardinality({i \in Evidence(h) : file[i].type = "death"})
  BY <1>2, <1>4, <1>5, DeathsToldOf DEF DeathLives
<1>11. QED BY <1>1, <1>4, <1>7, <1>8, <1>9, <1>10 DEF row

\* What the row of a hero and a metric says of the match and of its phases.
SumsUp(h, metric, row) ==
    LET phaseTotal == PhaseTotal(h, metric)
        all == {i \in DOMAIN file : Credits(file[i], h, metric)}
        odd == {i \in all : \/ ~Opposing(file[i].account, file[i].by)
                            \/ Opposing(file[i].by, h)}
        edge == {l \in row.lives : file[l[2]].type = "death" /\ ~HasPart(l)}
    IN  CASE metric = "hero_damage" ->
                 /\ row.count = phaseTotal
                 /\ row.count + row.excluded = Cardinality(all)
          [] metric = "objective_damage" -> row.count = phaseTotal
          [] metric = "death" ->
                 /\ row.count = phaseTotal + Cardinality(edge)
                 /\ \A l \in edge : \E n \in DOMAIN phases.intervals :
                       file[l[2]].at = phases.intervals[n].start * Second
          [] OTHER -> /\ row.count >= phaseTotal
                      /\ odd = {} => row.count = phaseTotal
                                        /\ row.count <= row.chances

LEMMA DamageSumsUp ==
    ASSUME Analysed, NEW h \in Hero, Valued(Got(h, "hero_damage", Whole_match))
    PROVE  SumsUp(h, "hero_damage", Got(h, "hero_damage", Whole_match))
<1>. DEFINE row == Got(h, "hero_damage", Whole_match)
<1>1. /\ row.count = PhaseTotal(h, "hero_damage")
      /\ row.count + row.excluded
           = Cardinality({i \in DOMAIN file : Credits(file[i], h, "hero_damage")})
  BY DamageAddsUp, DamageComplete
<1>. HIDE DEF row
<1>2. SumsUp(h, "hero_damage", row)
  BY <1>1 DEF SumsUp
<1>3. QED BY <1>2 DEF row

LEMMA ObjectivesSumUp ==
    ASSUME Analysed, NEW h \in Hero, Valued(Got(h, "objective_damage", Whole_match))
    PROVE  SumsUp(h, "objective_damage", Got(h, "objective_damage", Whole_match))
<1>. DEFINE row == Got(h, "objective_damage", Whole_match)
<1>1. row.count = PhaseTotal(h, "objective_damage")
  BY DamageAddsUp
<1>. HIDE DEF row
<1>2. SumsUp(h, "objective_damage", row)
  BY <1>1 DEF SumsUp
<1>3. QED BY <1>2 DEF row

LEMMA KillsSumUp ==
    ASSUME Analysed, NEW h \in Hero, NEW m \in {"kill", "assist"}, Valued(Got(h, m, Whole_match))
    PROVE  SumsUp(h, m, Got(h, m, Whole_match))
<1>. DEFINE row == Got(h, m, Whole_match)
<1>1. /\ row.count >= PhaseTotal(h, m)
      /\ Odd(h, m) = {} => row.count = PhaseTotal(h, m) /\ row.count <= row.chances
  BY KillsAddUp
<1>2. m # "hero_damage" /\ m # "objective_damage" /\ m # "death"
  OBVIOUS
<1>. HIDE DEF row
<1>3. SumsUp(h, m, row)
  BY <1>1, <1>2 DEF SumsUp, Odd
<1>4. QED BY <1>3 DEF row

LEMMA DeathsSumUp ==
    ASSUME Analysed, NEW h \in Hero, Valued(Got(h, "death", Whole_match))
    PROVE  SumsUp(h, "death", Got(h, "death", Whole_match))
<1>. DEFINE row == Got(h, "death", Whole_match)
            edge == {l \in row.lives : file[l[2]].type = "death" /\ ~HasPart(l)}
            apart == {l \in DeathLives(file, phases, h) : ~PartAtEnd(file, phases, l)}
<1>1. phases \in Stream /\ file \in Seq(FactT) /\ DeathsValued(file, phases, h)
  BY DEF Analysed, DeathsValued, Got
<1>2. row = Got(h, "death", Whole_match) /\ Valued(row)
  OBVIOUS
<1>. HIDE DEF row
<1>3. /\ row.lives = AllLives(file, phases, h)
      /\ row.count = PhaseTotal(h, "death") + Cardinality(apart)
  BY <1>2, DeathsAddUp
<1>4. \A l : HasPart(l) <=> PartAtEnd(file, phases, l)
  BY DEF HasPart, PartAtEnd, EndsIn
<1>5. edge = apart
  BY <1>3, <1>4 DEF DeathLives
<1>6. ASSUME NEW l \in edge
      PROVE  \E n \in DOMAIN phases.intervals : file[l[2]].at = phases.intervals[n].start * Second
  <2>1. Lived(file, phases, h, l)
    BY <1>1, <1>3, MatchLives
  <2>2. ~PartAtEnd(file, phases, l) /\ ValidCoverage(phases)
    BY <1>1, <1>4, ValuedMeans
  <2>. HIDE DEF edge
  <2>3. QED BY <1>1, <2>1, <2>2, EdgeStarts
<1>7. SumsUp(h, "death", row)
  BY <1>3, <1>5, <1>6 DEF SumsUp
<1>8. QED BY <1>7 DEF row

LEMMA AnalysedSums == ASSUME Analysed PROVE PhasesAddUp
<1>. SUFFICES ASSUME NEW v \in result.values, v[1][3] = Whole_match
              PROVE  SumsUp(v[1][1], v[1][2], v[2])
  BY DEF PhasesAddUp, SumsUp
<1>1. PICK h \in Hero, m \in Metric, s \in Scope :
          /\ v[1] = Key(h, m, s) /\ v[2] = Got(h, m, s) /\ Why(Got(h, m, s)) = ""
  BY ValuesAre DEF Analysed
<1>2. v[1] = Key(h, m, s)
  BY <1>1
<1>3. v[1][1] = h /\ v[1][2] = m /\ v[1][3] = s
  BY <1>2, KeyParts
<1>4. s = Whole_match
  BY <1>3
<1>5. v[2] = Got(h, m, Whole_match) /\ Valued(Got(h, m, Whole_match))
  BY <1>1, <1>4 DEF Valued
<1>6. m \in {"kill", "assist", "death", "hero_damage", "objective_damage"}
  BY DEF Metric
<1>7. SumsUp(h, m, Got(h, m, Whole_match))
  <2>1. CASE m \in {"kill", "assist"}
    BY <1>5, <2>1, KillsSumUp
  <2>2. CASE m = "death"
    BY <1>5, <2>2, DeathsSumUp
  <2>3. CASE m = "hero_damage"
    BY <1>5, <2>3, DamageSumsUp
  <2>4. CASE m = "objective_damage"
    BY <1>5, <2>4, ObjectivesSumUp
  <2>5. QED BY <1>6, <2>1, <2>2, <2>3, <2>4
<1>8. QED BY <1>3, <1>5, <1>7

-----------------------------------------------------------------------------
(* The metrics of a run.                                                   *)

ResultInv ==
    /\ phases \in Streams \cup {NoStream}
    /\ stage = "done" => phases \in Streams /\ result = Result(file, phases)
    /\ stage # "done" => result = NoResult

LEMMA ResultBegins == AnalysisInit => ResultInv
  BY DEF AnalysisInit, FactsInit, ResultInv

LEMMA ResultStep == ResultInv /\ [AnalysisNext]_analysisVars => ResultInv'
<1>. SUFFICES ASSUME ResultInv, [AnalysisNext]_analysisVars PROVE ResultInv'
  OBVIOUS
<1>1. CASE UNCHANGED <<stage, file, phases, result>>
  BY <1>1 DEF ResultInv
<1>2. CASE FactsNext /\ UNCHANGED <<episodes, phases, result>>
  <2>1. stage # "done" /\ stage' # "done"
    BY <1>2 DEF FactsNext, Begin, Pause, Publish, EmitCombat, Sample, Reads
  <2>2. QED BY <1>2, <2>1 DEF ResultInv
<1>3. CASE BuildEpisodes
  <2>1. stage # "done" /\ stage' # "done" /\ UNCHANGED <<phases, result>>
    BY <1>3 DEF BuildEpisodes
  <2>2. QED BY <2>1 DEF ResultInv
<1>4. CASE BuildMetrics
  BY <1>4 DEF BuildMetrics, ResultInv
<1>5. QED
  BY <1>1, <1>2, <1>3, <1>4 DEF AnalysisNext, analysisVars, factVars

LEMMA DoneIsAnalysed == FactsInv /\ ResultInv /\ Done => Analysed
  BY StreamsAssumption DEF FactsInv, FactsTyped, ResultInv, Done, Analysed

\* What is said of the phases adds up to what is said of the match, every
\* metric of every hero is answered once, and a count of deaths rests on all
\* the lives the facts prove and on no other, whatever was recorded in the demo
\* and whatever the phases are (metrics.Calculator.Result).
THEOREM MetricsReconciled == AnalysisSpec => []MetricsReconcile
<1>1. ASSUME FactsInv, ResultInv PROVE MetricsReconcile
  <2>1. CASE Done
    <3>1. Analysed
      BY <1>1, <2>1, DoneIsAnalysed
    <3>2. AllAnswered
      BY <3>1, EveryMetricAnswered DEF Analysed
    <3>3. QED BY <3>1, <3>2, AnalysedSums, AnalysedLives DEF MetricsReconcile
  <2>2. CASE ~Done
    BY <2>2 DEF MetricsReconcile, PhasesAddUp, AllAnswered, LivesAreProven
  <2>3. QED BY <2>1, <2>2
<1>2. QED BY <1>1, ResultBegins, ResultStep, AlwaysFacts, PTL DEF AnalysisSpec

-----------------------------------------------------------------------------
(* Types.                                                                  *)

LEMMA DeathRowCounts ==
    ASSUME NEW ph \in Stream, NEW fs \in Seq(FactT), NEW s, NEW h
    PROVE  Cardinality(ScopeDeaths(fs, ph, s, h)) \in Nat
<1>. DEFINE E == Sign(fs, ph, h)
            lives == LivesOf(ProvenLives(fs, ph, h))
<1>1. IsFiniteSet(E \X E)
  BY SaysFinite, FS_Product
<1>2. lives \in Seq(E \X E)
  BY ProvenLivesAre, LifeTyped DEF LivesOf
<1>3. AllLives(fs, ph, h) = ToSet(lives)
  BY DEF AllLives
<1>. HIDE DEF E, lives
<1>4. ToSet(lives) \subseteq E \X E
  BY <1>2 DEF ToSet
<1>5. ScopeDeaths(fs, ph, s, h) \subseteq E \X E
  <2>1. ScopeDeaths(fs, ph, s, h) \subseteq ScopeLives(fs, ph, s, h)
    BY DEF ScopeDeaths, Deaths
  <2>2. ScopeLives(fs, ph, s, h) = {l \in AllLives(fs, ph, h) : Touches(fs, ph, s, l)}
    BY LivesInFields
  <2>3. QED BY <1>3, <1>4, <2>1, <2>2
<1>6. IsFiniteSet(ScopeDeaths(fs, ph, s, h))
  BY <1>1, <1>5, FS_Subset
<1>7. QED BY <1>6, FS_CardinalityType

LEMMA RowCounts ==
    ASSUME Analysed, NEW h \in Hero, NEW m \in Metric, NEW s \in Scope, Valued(Got(h, m, s))
    PROVE  Got(h, m, s).count \in Nat
<1>. DEFINE n == CountIn(file, phases, s, h, m)
<1>1. phases \in Stream /\ file \in Seq(FactT)
  BY DEF Analysed
<1>2. n \in Nat
  BY <1>1, CountTyped
<1>. HIDE DEF n
<1>3. CASE m \in {"kill", "assist"}
  <2>1. Got(h, m, s).count = n
    BY <1>3, KillCountOf DEF n
  <2>2. QED BY <1>2, <2>1
<1>4. CASE m \in {"hero_damage", "objective_damage"}
  <2>1. Got(h, m, s).count = n
    BY <1>4, DamageCountOf DEF n
  <2>2. QED BY <1>2, <2>1
<1>5. CASE m = "death"
  <2>1. Got(h, "death", s).count = Cardinality(ScopeDeaths(file, phases, s, h))
    BY <1>1, <1>5, DeathRow DEF Got
  <2>2. QED BY <1>1, <1>5, <2>1, DeathRowCounts
<1>6. QED BY <1>3, <1>4, <1>5 DEF Metric

LEMMA ValuesTyped ==
    ASSUME Analysed, NEW v \in result.values
    PROVE  v[1] \in Keys /\ v[2].count \in Nat
<1>1. PICK h \in Hero, m \in Metric, s \in Scope :
          /\ v[1] = Key(h, m, s) /\ v[2] = Got(h, m, s) /\ Why(Got(h, m, s)) = ""
  BY ValuesAre DEF Analysed
<1>2. Got(h, m, s).count \in Nat
  BY <1>1, RowCounts DEF Valued
<1>3. Key(h, m, s) \in Keys
  BY DEF Key, Keys
<1>4. QED BY <1>1, <1>2, <1>3

\* Every variable keeps its type, whatever the demo: no more is observed than
\* its messages and its end, no fact is before it was read, and what a row of
\* the result counts is a number (runner.RunMatch, stages 2 to 5).
THEOREM AnalysisTyped == AnalysisSpec => []AnalysisTypeOK
<1>1. ASSUME GatesInv, FactsInv, ResultInv PROVE AnalysisTypeOK
  <2>1. Len(observed) <= MaxMessages + 1
    BY <1>1, GatesAssumption DEF GatesInv, GatesTyped
  <2>2. \A v \in result.values : v[1] \in Keys /\ v[2].count \in Nat
    <3>1. CASE Done
      BY <1>1, <3>1, DoneIsAnalysed, ValuesTyped
    <3>2. CASE ~Done
      BY <1>1, <3>2 DEF ResultInv, Done, NoResult
    <3>3. QED BY <3>1, <3>2
  <2>3. phases \in Streams \cup {NoStream}
    BY <1>1 DEF ResultInv
  <2>4. QED
    BY <1>1, <2>1, <2>2, <2>3 DEF GatesInv, GatesTyped, FactsInv, FactsTyped, AnalysisTypeOK
<1>2. QED BY <1>1, ResultBegins, ResultStep, AlwaysFacts, AlwaysGates, PTL DEF AnalysisSpec

=============================================================================
