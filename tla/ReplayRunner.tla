---------------------------- MODULE ReplayRunner ----------------------------
(***************************************************************************)
(* The output tree of one match: runner.RunMatch builds it artifact by     *)
(* artifact and marks it complete, or resumes it when store.               *)
(* ValidateCanonical finds it intact; `replay verify` rewrites one         *)
(* artifact of it; the API's role override rewrites its report and status; *)
(* the catalog and the API read it.  Processes are killed, writes fail,    *)
(* files rot, and the operator changes the inputs between runs.            *)
(*                                                                         *)
(* A demo stands for the manifest entry and the pipeline version, a        *)
(* registry for the role and metric registries with the override file      *)
(* beside the manifest: together they are the resume fingerprint.  A       *)
(* closure is the metric closure contract.                                 *)
(***************************************************************************)
EXTENDS Naturals, Sequences

CONSTANTS
    Demo, Registry, Closure,
    Config,         \* the combinations of them the operator may set
    GateOf,         \* which gate refuses a demo: parse, identity, clock or none
    Complete,       \* the registries with ten sourced roles
    None,           \* no value
    MaxRuns,        \* bound on runs
    MaxEvents       \* bound on changed inputs, failed reads and writes, files
                    \* that rot, verify commands and overrides together

Gates == {"none", "parse", "identity", "clock"}

ASSUME ConstantsAssumption ==
    /\ GateOf \in [Demo -> Gates]
    /\ Config \subseteq [demo : Demo, registry : Registry, closure : Closure]
    /\ Complete \subseteq Registry
    /\ None \notin Demo \cup Registry \cup Closure
    /\ {MaxRuns, MaxEvents} \subseteq Nat

VARIABLES
    archive,        \* what archive.Verify finds on the corpus drive
    config,         \* the input files a new process loads
    source, report, status, marker,     \* the match directory
    run,            \* the runner: where it stands, its inputs, its outcome
    answer,         \* the last result a run returned
    serving,        \* the registry `replay serve` has loaded
    override,       \* the newest override of the data root
    api,            \* the override handler: where it stands, and its snapshots
    bounds          \* what happened so far; together: encounters of a run and
                    \* another process on the match

tree == <<source, report, status, marker>>
others == <<serving, override, api>>
inputs == <<archive, config>>
vars == <<inputs, tree, run, answer, others, bounds>>

Stages == <<"input", "verification", "raw", "raw-meta", "identity", "clock",
            "facts", "facts-summary", "episodes", "phases", "metrics">>
Source == {Stages[i] : i \in DOMAIN Stages}
Fingerprint(c) == [demo |-> c.demo, registry |-> c.registry]

ArchiveStates == {"verified", "missing", "corrupt"}
Outcomes == {"verified", "missing", "corrupt", "parse_failed", "quarantined"}
Unreadable == {"absent", "rotten"}

\* An artifact: what it was made from, and what it says.
Artifact(demo, with, says) == [of |-> demo, with |-> with, says |-> says]
Absent == Artifact(None, None, "absent")
Rotten == Artifact(None, None, "rotten")
NoReport == [from |-> None, registry |-> None, override |-> None, says |-> "absent"]
NoStatus == [of |-> None, says |-> "absent"]
NoMarker == [of |-> None, covers |-> <<>>]
BadMarker == [of |-> None, covers |-> <<"rotten">>]

Init ==
    /\ archive = "verified" /\ config \in Config
    /\ source = [s \in Source |-> Absent]
    /\ report = NoReport /\ status = NoStatus /\ marker = NoMarker
    /\ run = [at |-> "idle", with |-> config, says |-> "none"]
    /\ answer = [says |-> "none", resumed |-> FALSE]
    /\ serving = config.registry /\ override = 0
    /\ api = [at |-> "idle", says |-> "none", report |-> NoReport, status |-> NoStatus,
              override |-> 0]
    /\ bounds = [together |-> 0, runs |-> 0, changes |-> 0, faults |-> 0, rot |-> 0, others |-> 0]

Spend(b) ==
    /\ bounds.changes + bounds.faults + bounds.rot + bounds.others < MaxEvents
    /\ bounds' = [bounds EXCEPT ![b] = @ + 1]
Meets(busy) == IF busy THEN 1 ELSE 0

-----------------------------------------------------------------------------
(* What the stages write                                                   *)

Refusal(s, demo, good) == IF GateOf[demo] = s THEN "quarantined" ELSE good

\* The content of a source artifact made from inputs c.
Content(s, c, found, parsed) ==
    CASE s = "verification" -> Artifact(c.demo, None, found)
      [] s = "raw-meta"     -> Artifact(c.demo, None, IF parsed THEN "ok" ELSE "parse_error")
      [] s = "identity"     -> Artifact(c.demo, None, Refusal(s, c.demo, "verified"))
      [] s = "clock"        -> Artifact(c.demo, None, Refusal(s, c.demo, "calibrated"))
      [] s = "metrics"      -> Artifact(c.demo, <<c.registry, c.closure>>, "ok")
      [] OTHER              -> Artifact(c.demo, None, "ok")

\* report.ComputeState: the gates, from what the directory holds.
ReportState(src, registry) ==
    LET ver == src["verification"].says IN
    CASE ver = "absent" -> "missing"
      [] ver \in {"missing", "corrupt"} -> ver
      [] OTHER -> IF /\ src["identity"].says = "verified"
                     /\ src["clock"].says = "calibrated"
                     /\ src["phases"].says \notin Unreadable
                     /\ registry \in Complete
                  THEN "verified" ELSE "quarantined"

\* report.Build merges what it can read; three artifacts must not be damaged.
Embedded == Source \ {"raw", "raw-meta", "facts"}
Buildable(src) == \A s \in {"verification", "identity", "clock"} : src[s] # Rotten
BuildReport(src, registry, o) ==
    [from |-> [s \in Embedded |-> IF src[s] = Rotten THEN Absent ELSE src[s]],
     registry |-> registry, override |-> o, says |-> ReportState(src, registry)]

NewStatus(says, c) == [of |-> Fingerprint(c), says |-> says]
Covered == <<source, report, status>>
NewMarker(c) == [of |-> Fingerprint(c), covers |-> Covered]

\* A slip: the fingerprint is not compared.
Valid_AnyFingerprint(c) ==
    marker \notin {NoMarker, BadMarker} /\ marker.covers = Covered

\* A slip: the marker is believed, the files are not hashed again.
Valid_MarkerOnly(c) ==
    marker \notin {NoMarker, BadMarker} /\ marker.of = Fingerprint(c)

\* store.ValidateCanonical: the fingerprint and every file the marker covers.
Valid(c) ==
    /\ marker \notin {NoMarker, BadMarker}
    /\ marker.of = Fingerprint(c)
    /\ marker.covers = Covered

-----------------------------------------------------------------------------
(* runner.RunMatch                                                         *)

Goto(at) == run' = [run EXCEPT !.at = at]
Return(says, resumed) ==
    /\ run' = [run EXCEPT !.at = "idle", !.says = "none"]
    /\ answer' = [says |-> says, resumed |-> resumed]

SpendOther ==
    /\ bounds.changes + bounds.faults + bounds.rot + bounds.others < MaxEvents
    /\ bounds' = [bounds EXCEPT !.others = @ + 1, !.together = @ + Meets(run.at # "idle")]

Start ==
    /\ run.at = "idle"
    /\ bounds.runs < MaxRuns
    /\ bounds' = [bounds EXCEPT !.runs = @ + 1, !.together = @ + Meets(api.at # "idle")]
    /\ run' = [at |-> "validate", with |-> config, says |-> "none"]
    /\ UNCHANGED <<inputs, tree, answer, others>>

Validate ==
    /\ run.at = "validate"
    /\ Goto(IF Valid(run.with) THEN "resume" ELSE "invalidate")
    /\ UNCHANGED <<inputs, tree, answer, others, bounds>>

\* A slip: a status that cannot be read sends the run back to the check.
Resume_Retries ==
    /\ run.at = "resume"
    /\ \/ Return(status.says, TRUE) /\ status.says \notin Unreadable /\ UNCHANGED bounds
       \/ Goto("validate") /\ UNCHANGED <<answer, bounds>>
    /\ UNCHANGED <<inputs, tree, others>>

\* The persisted status is the outcome; if it cannot be read, rebuild.
Resume ==
    /\ run.at = "resume"
    /\ \/ /\ status.says \notin Unreadable
          /\ Return(status.says, TRUE)
          /\ UNCHANGED bounds
       \/ /\ IF status.says \in Unreadable THEN UNCHANGED bounds
             ELSE Spend("faults")
          /\ Goto("input") /\ UNCHANGED answer
    /\ UNCHANGED <<inputs, tree, others>>

Invalidate ==
    /\ run.at = "invalidate"
    /\ marker' = NoMarker
    /\ Goto("input")
    /\ UNCHANGED <<inputs, source, report, status, answer, others, bounds>>

\* The stage that follows, or the terminal status of a refused match.
After(s, content) ==
    LET i == CHOOSE i \in DOMAIN Stages : Stages[i] = s IN
    IF content.says \in {"missing", "corrupt", "parse_error", "quarantined"}
    THEN "terminal"
    ELSE IF i = Len(Stages) THEN "report" ELSE Stages[i + 1]

\* A slip: a failed parse is recorded under the name raw-meta gives it.
Outcome_Unmapped(content) ==
    CASE content.says \in {"missing", "corrupt", "quarantined", "parse_error"} -> content.says
      [] OTHER -> run.says

Outcome(content) ==
    CASE content.says = "parse_error" -> "parse_failed"
      [] content.says \in {"missing", "corrupt", "quarantined"} -> content.says
      [] OTHER -> run.says

\* One source artifact is made and promoted.
WriteSource(s) ==
    LET content == Content(s, run.with, archive, run.says # "parse_failed") IN
    /\ run.at = s
    /\ s = "raw" => GateOf[run.with.demo] # "parse"
    /\ source' = [source EXCEPT ![s] = content]
    /\ run' = [run EXCEPT !.at = After(s, content), !.says = Outcome(content)]
    /\ UNCHANGED <<inputs, report, status, marker, answer, others, bounds>>

\* The demo does not parse, or its stream cannot be written.
ParseFails ==
    /\ run.at = "raw"
    /\ IF GateOf[run.with.demo] = "parse" THEN UNCHANGED bounds
       ELSE Spend("faults")
    /\ run' = [run EXCEPT !.at = "raw-meta", !.says = "parse_failed"]
    /\ UNCHANGED <<inputs, tree, answer, others>>

\* writeTerminalStatus: no report, no marker.
Terminal ==
    /\ run.at = "terminal"
    /\ status' = NewStatus(run.says, run.with)
    /\ Return(run.says, FALSE)
    /\ UNCHANGED <<inputs, source, report, marker, others, bounds>>

WriteReport ==
    /\ run.at = "report" /\ Buildable(source)
    /\ report' = BuildReport(source, run.with.registry, 0)
    /\ run' = [run EXCEPT !.at = "status", !.says = report'.says]
    /\ UNCHANGED <<inputs, source, status, marker, answer, others, bounds>>

\* A slip: the status of the last run stays when this one is quarantined.
WriteStatus_OnlyVerified ==
    /\ run.at = "status"
    /\ status' = IF run.says = "verified" \/ status = NoStatus
                 THEN NewStatus(run.says, run.with) ELSE status
    /\ Goto("marker")
    /\ UNCHANGED <<inputs, source, report, marker, answer, others, bounds>>

WriteStatus ==
    /\ run.at = "status"
    /\ status' = NewStatus(run.says, run.with)
    /\ Goto("marker")
    /\ UNCHANGED <<inputs, source, report, marker, answer, others, bounds>>

\* store.WriteCanonical hashes what the directory holds by now.
WriteMarker ==
    /\ run.at = "marker"
    /\ marker' = NewMarker(run.with)
    /\ Return(run.says, FALSE)
    /\ UNCHANGED <<inputs, source, report, status, others, bounds>>

Working == run.at \notin {"idle", "validate", "resume"}

\* A read or a write fails, or the sync after it did, with the new file in
\* place: the run returns an error.
StageFails ==
    /\ Working /\ run.at # "raw"
    /\ Spend("faults")
    /\ Return("error", FALSE)
    /\ \/ UNCHANGED tree
       \/ /\ run.at \in Source
          /\ source' = [source EXCEPT ![run.at] =
                Content(run.at, run.with, archive, run.says # "parse_failed")]
          /\ UNCHANGED <<report, status, marker>>
       \/ /\ run.at = "report" /\ Buildable(source)
          /\ report' = BuildReport(source, run.with.registry, 0)
          /\ UNCHANGED <<source, status, marker>>
       \/ /\ run.at \in {"status", "terminal"}
          /\ status' = NewStatus(run.says, run.with)
          /\ UNCHANGED <<source, report, marker>>
       \/ /\ run.at = "marker"
          /\ marker' = NewMarker(run.with)
          /\ UNCHANGED <<source, report, status>>
    /\ UNCHANGED <<inputs, others>>

Kill ==
    /\ run.at # "idle"
    /\ Return("killed", FALSE)
    /\ UNCHANGED <<inputs, tree, others, bounds>>

Runner ==
    \/ Validate \/ Resume \/ Invalidate \/ ParseFails
    \/ \E s \in Source : WriteSource(s)
    \/ Terminal \/ WriteReport \/ WriteStatus \/ WriteMarker

-----------------------------------------------------------------------------
(* The other processes on the data root                                    *)

\* `replay verify`.
VerifyCommand ==
    /\ SpendOther
    /\ source' = [source EXCEPT !["verification"] =
                    Content("verification", config, archive, TRUE)]
    /\ UNCHANGED <<inputs, report, status, marker, run, answer, others>>

ServeRestarts ==
    /\ api.at = "idle" /\ serving # config.registry
    /\ serving' = config.registry
    /\ UNCHANGED <<inputs, tree, run, answer, override, api, bounds>>

\* handleRoleOverrides snapshots the files it may touch and persists the override.
OverrideBegins ==
    /\ api.at = "idle" /\ source["input"] # Absent
    /\ SpendOther
    /\ api' = [at |-> "report", says |-> "none", report |-> report, status |-> status,
               override |-> override]
    /\ override' = bounds'["others"]
    /\ UNCHANGED <<inputs, tree, run, answer, serving>>

OverrideReport ==
    /\ api.at = "report" /\ Buildable(source)
    /\ report' = BuildReport(source, serving, override)
    /\ api' = [api EXCEPT !.at = "status", !.says = report'.says]
    /\ UNCHANGED <<inputs, source, status, marker, run, answer, serving, override, bounds>>

\* The status is rewritten only when the gates changed their mind.
OverrideStatus ==
    /\ api.at = "status"
    /\ status' = IF status.says = api.says THEN status
                 ELSE [status EXCEPT !.says = api.says]
    /\ api' = [api EXCEPT !.at = "scores"]
    /\ UNCHANGED <<inputs, source, report, marker, run, answer, serving, override, bounds>>

\* Scores and correction succeed, or the process dies where it stands.
OverrideEnds ==
    /\ \/ api.at = "scores" /\ UNCHANGED bounds
       \/ api.at \notin {"idle", "scores"} /\ Spend("faults")
    /\ api' = [api EXCEPT !.at = "idle"]
    /\ UNCHANGED <<inputs, tree, run, answer, serving, override>>

\* A write, the scores or the correction fail.
OverrideFails ==
    /\ api.at \in {"report", "status", "scores"}
    /\ IF api.at = "report" /\ ~ Buildable(source) THEN UNCHANGED bounds
       ELSE Spend("faults")
    /\ api' = [api EXCEPT !.at = "undo-override"]
    /\ UNCHANGED <<inputs, tree, run, answer, serving, override>>

\* restoreSnapshots, one file after the other.
Restore ==
    /\ \/ /\ api.at = "undo-override" /\ override' = api.override
          /\ api' = [api EXCEPT !.at = "undo-report"]
          /\ UNCHANGED <<report, status>>
       \/ /\ api.at = "undo-report" /\ report' = api.report
          /\ api' = [api EXCEPT !.at = "undo-status"]
          /\ UNCHANGED <<override, status>>
       \/ /\ api.at = "undo-status" /\ status' = api.status
          /\ api' = [api EXCEPT !.at = "idle"]
          /\ UNCHANGED <<override, report>>
    /\ UNCHANGED <<inputs, source, marker, run, answer, serving, bounds>>

Others ==
    \/ VerifyCommand \/ ServeRestarts
    \/ OverrideBegins \/ OverrideReport \/ OverrideStatus \/ OverrideEnds
    \/ OverrideFails \/ Restore

-----------------------------------------------------------------------------
(* The environment                                                         *)

Reconfigure ==
    /\ Spend("changes")
    /\ config' \in Config \ {config}
    /\ UNCHANGED <<archive, tree, run, answer, others>>

ArchiveChanges ==
    /\ Spend("changes")
    /\ archive' \in ArchiveStates \ {archive}
    /\ UNCHANGED <<config, tree, run, answer, others>>

\* Between two runs: what rots while a run is under way it cannot tell apart.
Rot ==
    /\ run.at = "idle"
    /\ Spend("rot")
    /\ \/ \E s \in Source : /\ source[s].says \notin Unreadable
                            /\ source' = [source EXCEPT ![s] = Rotten]
                            /\ UNCHANGED <<report, status, marker>>
       \/ /\ report # NoReport
          /\ report' = [NoReport EXCEPT !.says = "rotten"]
          /\ UNCHANGED <<source, status, marker>>
       \/ /\ status # NoStatus
          /\ status' = [NoStatus EXCEPT !.says = "rotten"]
          /\ UNCHANGED <<source, report, marker>>
       \/ /\ marker # NoMarker
          /\ marker' = BadMarker
          /\ UNCHANGED <<source, report, status>>
    /\ UNCHANGED <<inputs, run, answer, others>>

Next ==
    \/ Start \/ Runner \/ StageFails \/ Kill
    \/ Others \/ Reconfigure \/ ArchiveChanges \/ Rot

Spec == Init /\ [][Next]_vars

\* The runner is a program: it takes its next step.  Nobody has to start it.
FairSpec == Spec /\ WF_vars(Runner)

-----------------------------------------------------------------------------
TypeOK ==
    /\ archive \in ArchiveStates /\ config \in Config
    /\ \A s \in Source : source[s].of \in Demo \cup {None}
    /\ report.says \in Outcomes \cup Unreadable
    /\ status.says \in Outcomes \cup Unreadable
    /\ run.with \in Config
    /\ run.at \in Source \cup {"idle", "validate", "resume", "invalidate", "terminal",
                              "report", "status", "marker"}
    /\ run.says \in Outcomes \cup {"none"}
    /\ answer.says \in Outcomes \cup {"none", "error", "killed"}
    /\ serving \in Registry /\ override \in 0..MaxEvents
    /\ api.at \in {"idle", "report", "status", "scores",
                  "undo-override", "undo-report", "undo-status"}

\* What a build from inputs c leaves when every gate passes.
Built(c) == [s \in Source |-> Content(s, c, "verified", TRUE)]
Passes(c) == GateOf[c.demo] = "none"
Intact == marker.covers = Covered

\* A run and another process never worked on the match at the same time.
Apart == bounds.together = 0

(***************************************************************************)
(* The marker is the terminal publish gate: whenever it covers what is in  *)
(* the directory, the directory is one whole build of the inputs it names, *)
(* no artifact left from another build or from a run that was cut off.     *)
(* (Not if an override came into the middle of a run: nothing is locked.)  *)
(***************************************************************************)
MarkerMeansComplete ==
    Apart /\ Intact => \E c \in Config :
        /\ Fingerprint(c) = marker.of
        /\ Passes(c)
        /\ source = Built(c)
        /\ report = BuildReport(source, c.registry, 0)
        /\ status = NewStatus(report.says, c)

(***************************************************************************)
(* A run answers only what status.json says, and verified only for a whole *)
(* tree of its own inputs that pass every gate: no quarantine, change of   *)
(* input, damage or interruption becomes verified on a rerun.  Of its own  *)
(* inputs, but for the closure contract, which the fingerprint leaves out. *)
(***************************************************************************)
VerifiedIsEarned ==
    [][Apart /\ run.at # "idle" /\ run'.at = "idle" /\ answer'.says \in Outcomes =>
          /\ status'.says = answer'.says
          /\ answer'.says = "verified" =>
                /\ Passes(run.with) /\ run.with.registry \in Complete
                /\ \E k \in Closure : source' = Built([run.with EXCEPT !.closure = k])
                /\ Valid(run.with)']_vars

(***************************************************************************)
(* A run ends, with an answer or an error, whatever it finds and whoever   *)
(* works beside it.                                                        *)
(***************************************************************************)
RunEnds == run.at # "idle" ~> run.at = "idle"

-----------------------------------------------------------------------------
(* What is published                                                       *)

\* A slip: the status is not asked, the gates and the marker decide.
Row_FromGates ==
    CASE source["verification"].says \in {"missing", "corrupt"} ->
                    source["verification"].says
      [] source["raw-meta"].says = "parse_error" -> "parse_failed"
      [] /\ source["verification"].says = "verified"
         /\ source["identity"].says = "verified"
         /\ source["clock"].says = "calibrated"
         /\ marker \notin {NoMarker, BadMarker} -> "verified"
      [] OTHER -> "quarantined"

\* The catalog row of the match, from what is in the directory.
Row ==
    IF status.says \notin Unreadable THEN status.says
    ELSE CASE source["verification"].says \in {"missing", "corrupt"} ->
                    source["verification"].says
           [] source["raw-meta"].says = "parse_error" -> "parse_failed"
           [] /\ source["verification"].says = "verified"
              /\ source["identity"].says = "verified"
              /\ source["clock"].says = "calibrated"
              /\ marker \notin {NoMarker, BadMarker} -> "verified"
           [] OTHER -> "quarantined"

(***************************************************************************)
(* The catalog publishes a match as verified only with a marker that       *)
(* covers the tree, when the last run came to an answer and nobody else    *)
(* and no damage touched the tree.  (After a rebuild that was cut off, the *)
(* status of the run before still publishes the half-built tree.)          *)
(***************************************************************************)
PublishedIsComplete ==
    /\ run.at = "idle" /\ answer.says \in Outcomes
    /\ bounds.rot = 0 /\ bounds.others = 0
    /\ Row = "verified"
    => Intact /\ report.registry \in Complete

\* A slip: the report is put together from the tree for each reader.
Page_FromTree ==
    IF Buildable(source) THEN BuildReport(source, serving, override) ELSE NoReport

\* Server.loadReport: the report of the last run that wrote one, with the roles
\* the server knows laid over it; without one, what the tree gives.
Page ==
    IF report.says \notin Unreadable
    THEN [report EXCEPT !.registry = serving, !.override = override]
    ELSE IF Buildable(source) THEN BuildReport(source, serving, override) ELSE NoReport

(***************************************************************************)
(* Where there is a report, its page says verified only over one whole     *)
(* build that passes, even while a run replaces the tree below it or was   *)
(* killed over it, as long as no damage and nobody else touched the tree.  *)
(* (It may be the build of an earlier run, although a later one refused    *)
(* the match; and before a first report is written the tree alone speaks.) *)
(***************************************************************************)
PageIsWhole ==
    /\ report.says \notin Unreadable /\ Page.says = "verified"
    /\ bounds.rot = 0 /\ bounds.others = 0
    => \E c \in Config : Passes(c) /\ Page.from = [s \in Embedded |-> Built(c)[s]]

(***************************************************************************)
(* Publication rests on the marker and the marker on a whole build: what   *)
(* the catalog and the report page show as verified was built, all of it,  *)
(* from one set of inputs (but for the exceptions each part names).        *)
(***************************************************************************)
CompletePublished == MarkerMeansComplete /\ PublishedIsComplete /\ PageIsWhole
=============================================================================
