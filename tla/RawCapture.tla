----------------------------- MODULE RawCapture -----------------------------
(***************************************************************************)
(* The live capture plane: GSI posts pass the gate of gsi.Server, are      *)
(* appended to raw.jsonl by session.Store and projected, one at a time, by *)
(* capture.Processor; operator.Tracker counts them; lifecycle.Run stops    *)
(* the process on a signal or a failed listener and closes the store.  The *)
(* process may be killed at any point and reopen the session.              *)
(*                                                                         *)
(* A record is its sequence number and the request it came from.  A file   *)
(* is its terminated lines and its tail: "torn" after the last newline, or *)
(* "spoilt" when bytes were written behind a torn tail.                    *)
(***************************************************************************)
EXTENDS Naturals, Sequences, FiniteSets

CONSTANTS
    Request,        \* GSI posts
    Invalid,        \* those that carry no JSON value
    Nobody,         \* the processor's mutex is free
    MaxFaults,      \* bound on failed opens and writes
    MaxRuns         \* bound on processes over the session

ASSUME ConstantsAssumption ==
    /\ IsFiniteSet(Request) /\ Invalid \subseteq Request
    /\ Nobody \notin Request
    /\ MaxFaults \in Nat
    /\ MaxRuns \in Nat \ {0}

VARIABLES
    lines, tail,            \* raw.jsonl
    sequence, sealed, closed,   \* session.Store
    base,                   \* the sequence the store was opened with
    holder,                 \* who holds Processor.mu
    prior,                  \* the tail before the holder's write
    projected,              \* the sequences each projection was applied to
    pc, status,             \* each request, and the status of its response
    inflight, stopping,     \* the gate of gsi.Server
    tracker,                \* counters and active failures
    listening,              \* the listener accepts connections
    main,                   \* where lifecycle.Run stands
    faults, runs

file == <<lines, tail>>
store == <<sequence, sealed, closed, base>>
processor == <<holder, prior, projected>>
gate == <<inflight, stopping>>
process == <<listening, main>>
bounds == <<faults, runs>>
vars == <<file, store, processor, pc, status, gate, tracker, process, bounds>>

Projections == {"latest", "profile", "analytics"}
Record == [seq : Nat \ {0}, of : Request]
Corrupt == [seq |-> 0, of |-> Nobody]

\* Inside the handler and counted neither as accepted nor as failed yet.
Uncounted == {"body", "process", "append", "writing", "written", "rollback",
              "append_failed", "store_sealed"}
\* Inside the handler: past the gate, not yet out of it.
Handling == Uncounted \cup Projections \cup {"respond"}
PCs == Handling \cup {"new", "gate", "flush", "done"}
Statuses == {"none", "200", "400", "413", "500", "503", "cut"}
Mains == {"serving", "shutdown", "wait_failed", "retry", "wait", "close",
          "stopped", "down", "refused"}

NewTracker ==
    [requests |-> 0, accepted |-> 0, rejected |-> 0, rawFailures |-> 0,
     projectionFailures |-> 0,
     active |-> [raw |-> "none", profile |-> "none", analytics |-> "none"]]

Init ==
    /\ lines = <<>> /\ tail = "clean"
    /\ sequence = 0 /\ sealed = FALSE /\ closed = FALSE /\ base = 0
    /\ holder = Nobody /\ prior = "clean"
    /\ projected = [p \in Projections |-> <<>>]
    /\ pc = [r \in Request |-> "new"]
    /\ status = [r \in Request |-> "none"]
    /\ inflight = 0 /\ stopping = FALSE
    /\ tracker = NewTracker
    /\ listening = TRUE /\ main = "serving"
    /\ faults = 0 /\ runs = 1

Goto(r, p) == pc' = [pc EXCEPT ![r] = p]
Answer(r, s) == status' = [status EXCEPT ![r] = s]

-----------------------------------------------------------------------------
(* gsi.Server                                                              *)

\* A connection is accepted and its request read.
Arrive(r) ==
    /\ listening /\ pc[r] = "new"
    /\ Goto(r, "gate")
    /\ UNCHANGED <<file, store, processor, status, gate, tracker, process, bounds>>

\* A slip: the count is given back although the gate was shut.
Enter_CountsRefused(r) ==
    /\ pc[r] = "gate"
    /\ IF stopping
       THEN /\ Goto(r, "flush") /\ Answer(r, "503") /\ UNCHANGED tracker
            /\ inflight' = inflight - 1
       ELSE /\ Goto(r, "body") /\ UNCHANGED status
            /\ inflight' = inflight + 1
            /\ tracker' = [tracker EXCEPT !.requests = @ + 1]
    /\ UNCHANGED <<file, store, processor, stopping, process, bounds>>

\* ServeHTTP: the gate, and the request counted.
Enter(r) ==
    /\ pc[r] = "gate"
    /\ IF stopping
       THEN Goto(r, "flush") /\ Answer(r, "503") /\ UNCHANGED <<inflight, tracker>>
       ELSE /\ Goto(r, "body") /\ UNCHANGED status
            /\ inflight' = inflight + 1
            /\ tracker' = [tracker EXCEPT !.requests = @ + 1]
    /\ UNCHANGED <<file, store, processor, stopping, process, bounds>>

ReadBody(r) ==
    /\ pc[r] = "body"
    /\ \/ Goto(r, "process") /\ UNCHANGED <<status, tracker>>
       \/ /\ Goto(r, "respond") /\ Answer(r, "413")      \* too large, or cut off
          /\ tracker' = [tracker EXCEPT !.rejected = @ + 1]
    /\ UNCHANGED <<file, store, processor, gate, process, bounds>>

\* A slip: a refused post is never counted out.
Respond_KeepsCount(r) ==
    /\ pc[r] = "respond"
    /\ Goto(r, "flush")
    /\ inflight' = IF status[r] = "200" THEN inflight - 1 ELSE inflight
    /\ UNCHANGED <<file, store, processor, status, stopping, tracker, process, bounds>>

\* The handler returns and leaves the gate; net/http then flushes the answer.
Respond(r) ==
    /\ pc[r] = "respond"
    /\ Goto(r, "flush")
    /\ inflight' = inflight - 1
    /\ UNCHANGED <<file, store, processor, status, stopping, tracker, process, bounds>>

Flush(r) ==
    /\ pc[r] = "flush"
    /\ Goto(r, "done")
    /\ UNCHANGED <<file, store, processor, status, gate, tracker, process, bounds>>

-----------------------------------------------------------------------------
(* capture.Processor and session.Store.Append                              *)

\* A slip: the seal is not checked.
Take_IgnoresSeal(r) ==
    /\ pc[r] = "process" /\ holder = Nobody
    /\ IF r \in Invalid
       THEN /\ Goto(r, "respond") /\ Answer(r, "400")
            /\ tracker' = [tracker EXCEPT !.rejected = @ + 1]
            /\ UNCHANGED holder
       ELSE /\ Goto(r, "append") /\ holder' = r
            /\ UNCHANGED <<status, tracker>>
    /\ UNCHANGED <<file, store, prior, projected, gate, process, bounds>>

\* Process takes its mutex; a body that is not JSON is refused first, a
\* sealed or closed store next.
Take(r) ==
    /\ pc[r] = "process" /\ holder = Nobody
    /\ IF r \in Invalid
       THEN /\ Goto(r, "respond") /\ Answer(r, "400")
            /\ tracker' = [tracker EXCEPT !.rejected = @ + 1]
            /\ UNCHANGED holder
       ELSE /\ Goto(r, IF sealed \/ closed THEN "store_sealed" ELSE "append")
            /\ holder' = r
            /\ UNCHANGED <<status, tracker>>
    /\ UNCHANGED <<file, store, prior, projected, gate, process, bounds>>

\* The file cannot be opened, or its end not found.
OpenFails(r) ==
    /\ pc[r] = "append"
    /\ faults < MaxFaults /\ faults' = faults + 1
    /\ Goto(r, "append_failed")
    /\ UNCHANGED <<file, store, processor, status, gate, tracker, process, runs>>

\* Bytes reach the end of the file, without the newline.
Write(r) ==
    /\ pc[r] = "append"
    /\ Goto(r, "writing")
    /\ prior' = tail
    /\ tail' = IF tail = "clean" THEN "torn" ELSE "spoilt"
    /\ UNCHANGED <<lines, store, holder, projected, status, gate, tracker, process, bounds>>

WriteAll(r) ==
    /\ pc[r] = "writing"
    /\ Goto(r, "written")
    /\ lines' = Append(lines, IF tail = "torn" THEN [seq |-> sequence + 1, of |-> r]
                              ELSE Corrupt)
    /\ tail' = "clean"
    /\ sequence' = sequence + 1
    /\ UNCHANGED <<sealed, closed, base, processor, status, gate, tracker, process, bounds>>

WriteShort(r) ==
    /\ pc[r] = "writing"
    /\ faults < MaxFaults /\ faults' = faults + 1
    /\ Goto(r, "rollback")
    /\ UNCHANGED <<file, store, processor, status, gate, tracker, process, runs>>

RollBack(r) ==
    /\ pc[r] = "rollback"
    /\ tail' = prior
    /\ Goto(r, "append_failed")
    /\ UNCHANGED <<lines, store, processor, status, gate, tracker, process, bounds>>

\* A slip: the store stays open.
RollBackFails_NotSealed(r) ==
    /\ pc[r] = "rollback"
    /\ tail' \in {prior, tail}
    /\ Goto(r, "append_failed")
    /\ UNCHANGED <<lines, store, processor, status, gate, tracker, process, bounds>>

\* Truncate fails, or a check after it does: the store is sealed.
RollBackFails(r) ==
    /\ pc[r] = "rollback"
    /\ tail' \in {prior, tail}
    /\ sealed' = TRUE
    /\ Goto(r, "store_sealed")
    /\ UNCHANGED <<lines, sequence, closed, base, processor, status, gate, tracker, process, bounds>>

\* A slip: one code for every failure.
RawFailure_OneCode(r) ==
    /\ pc[r] \in {"append_failed", "store_sealed"}
    /\ tracker' = [tracker EXCEPT !.rawFailures = @ + 1,
                                  !.active.raw = "raw_append_failed"]
    /\ Goto(r, "respond")
    /\ Answer(r, IF pc[r] = "store_sealed" THEN "503" ELSE "500")
    /\ holder' = Nobody
    /\ UNCHANGED <<file, store, prior, projected, gate, process, bounds>>

\* tracker.RawFailure, with the code of the error.
RawFailure(r) ==
    /\ pc[r] \in {"append_failed", "store_sealed"}
    /\ tracker' = [tracker EXCEPT !.rawFailures = @ + 1,
                                  !.active.raw = IF pc[r] = "store_sealed"
                                                 THEN "raw_store_sealed"
                                                 ELSE "raw_append_failed"]
    /\ Goto(r, "respond")
    /\ Answer(r, IF pc[r] = "store_sealed" THEN "503" ELSE "500")
    /\ holder' = Nobody
    /\ UNCHANGED <<file, store, prior, projected, gate, process, bounds>>

\* tracker.Accepted: a commit ends a transient failure, never a seal.
Accepted(r) ==
    /\ pc[r] = "written"
    /\ Goto(r, "latest")
    /\ tracker' = [tracker EXCEPT
                     !.accepted = @ + 1,
                     !.active.raw = IF @ = "raw_store_sealed" THEN @ ELSE "none"]
    /\ UNCHANGED <<file, store, processor, status, gate, process, bounds>>

AfterProjection(p) ==
    CASE p = "latest" -> "profile" [] p = "profile" -> "analytics"
      [] p = "analytics" -> "respond"

\* A slip: a failed projection keeps the next ones from the record.
Project_StopsAtFailure(r, fails) ==
    LET p == pc[r] IN
    /\ p \in Projections
    /\ p = "latest" => ~ fails
    /\ projected' = [projected EXCEPT ![p] = Append(@, sequence)]
    /\ tracker' = IF p = "latest" THEN tracker
                  ELSE IF fails
                  THEN [tracker EXCEPT !.projectionFailures = @ + 1,
                                       !.active[p] = "failed"]
                  ELSE [tracker EXCEPT !.active[p] = "none"]
    /\ Goto(r, IF fails THEN "respond" ELSE AfterProjection(p))
    /\ IF p = "analytics" \/ fails
       THEN holder' = Nobody /\ Answer(r, "200")
       ELSE UNCHANGED <<holder, status>>
    /\ UNCHANGED <<file, store, prior, gate, process, bounds>>

\* One projection of the accepted record, whatever the one before it did;
\* after the last the mutex is free.  The latest state cannot fail.
Project(r, fails) ==
    LET p == pc[r] IN
    /\ p \in Projections
    /\ p = "latest" => ~ fails
    /\ projected' = [projected EXCEPT ![p] = Append(@, sequence)]
    /\ tracker' = IF p = "latest" THEN tracker
                  ELSE IF fails
                  THEN [tracker EXCEPT !.projectionFailures = @ + 1,
                                       !.active[p] = "failed"]
                  ELSE [tracker EXCEPT !.active[p] = "none"]
    /\ Goto(r, AfterProjection(p))
    /\ IF p = "analytics"
       THEN holder' = Nobody /\ Answer(r, "200")
       ELSE UNCHANGED <<holder, status>>
    /\ UNCHANGED <<file, store, prior, gate, process, bounds>>

-----------------------------------------------------------------------------
(* lifecycle.Run                                                           *)

\* http.Server.Shutdown returns nil once no connection has a request.
Idle == \A r \in Request : pc[r] \in {"new", "done"}

\* A signal, or Serve returning on its own: Shutdown closes the listener.
BeginShutdown ==
    /\ main = "serving"
    /\ main' = "shutdown"
    /\ listening' = FALSE
    /\ UNCHANGED <<file, store, processor, pc, status, gate, tracker, bounds>>

ShutdownDone ==
    /\ main = "shutdown" /\ Idle
    /\ main' = "wait"
    /\ UNCHANGED <<file, store, processor, pc, status, gate, tracker, listening, bounds>>

\* A slip: the handlers inside are not waited for.
ShutdownFails_NoWait ==
    /\ main = "shutdown"
    /\ main' = "close"
    /\ UNCHANGED <<file, store, processor, pc, status, gate, tracker, listening, bounds>>

\* The ten seconds pass, or the listener reports an error.
ShutdownFails ==
    /\ main = "shutdown"
    /\ main' = "wait_failed"
    /\ UNCHANGED <<file, store, processor, pc, status, gate, tracker, listening, bounds>>

\* gsi.Server.Wait shuts the gate, then waits for the handlers inside.
ShutGate ==
    /\ main \in {"wait_failed", "wait"} /\ ~ stopping
    /\ stopping' = TRUE
    /\ UNCHANGED <<file, store, processor, pc, status, inflight, tracker, process, bounds>>

Drained ==
    /\ main \in {"wait_failed", "wait"} /\ stopping /\ inflight = 0
    /\ main' = IF main = "wait_failed" THEN "retry" ELSE "close"
    /\ UNCHANGED <<file, store, processor, pc, status, gate, tracker, listening, bounds>>

\* The second Shutdown has no deadline: it waits for the answers to be
\* flushed.  An error of the listener then only makes Close cut nobody.
Retry ==
    /\ main = "retry" /\ Idle
    /\ main' = "close"
    /\ UNCHANGED <<file, store, processor, pc, status, gate, tracker, listening, bounds>>

\* Store.Close takes the store's mutex, which Append holds while it writes.
CloseStore ==
    /\ main = "close"
    /\ \A r \in Request : pc[r] \notin {"append", "writing", "rollback"}
    /\ closed' = TRUE
    /\ main' = "stopped"
    /\ UNCHANGED <<file, sequence, sealed, base, processor, pc, status, gate,
                   tracker, listening, bounds>>

-----------------------------------------------------------------------------
Kill ==
    /\ main \notin {"down", "refused", "stopped"}
    /\ main' = "down"
    /\ listening' = FALSE
    /\ status' = [r \in Request |-> IF pc[r] \in {"new", "done"} THEN status[r] ELSE "cut"]
    /\ pc' = [r \in Request |-> IF pc[r] = "new" THEN "new" ELSE "done"]
    /\ holder' = Nobody
    /\ UNCHANGED <<file, store, prior, projected, gate, tracker, bounds>>

Readable == \A i \in DOMAIN lines : lines[i] # Corrupt /\ lines[i].seq = i

\* recoverRawFile validates every terminated line and drops the tail.
Reopen ==
    /\ main \in {"down", "stopped"}
    /\ runs < MaxRuns /\ runs' = runs + 1
    /\ IF Readable
       THEN /\ tail' = "clean"
            /\ sequence' = Len(lines) /\ base' = Len(lines)
            /\ sealed' = FALSE /\ closed' = FALSE
            /\ main' = "serving" /\ listening' = TRUE
       ELSE /\ main' = "refused"
            /\ UNCHANGED <<tail, store, listening>>
    /\ prior' = "clean"
    /\ projected' = [p \in Projections |-> <<>>]
    /\ inflight' = 0 /\ stopping' = FALSE
    /\ tracker' = NewTracker
    /\ UNCHANGED <<lines, holder, pc, status, faults>>

Serve(r) ==
    \/ Enter(r) \/ Respond(r) \/ Flush(r)
    \/ Take(r) \/ Write(r) \/ WriteAll(r) \/ WriteShort(r) \/ OpenFails(r)
    \/ RollBack(r) \/ RollBackFails(r) \/ RawFailure(r) \/ Accepted(r)
    \/ \E fails \in BOOLEAN : Project(r, fails)

Shutdown ==
    ShutdownDone \/ ShutdownFails \/ ShutGate \/ Drained \/ Retry \/ CloseStore

Next ==
    \/ \E r \in Request : Arrive(r) \/ ReadBody(r) \/ Serve(r)
    \/ BeginShutdown \/ Shutdown
    \/ Kill \/ Reopen

Spec == Init /\ [][Next]_vars

\* Handlers and the main goroutine are scheduled.  Nothing is assumed of
\* clients: no read timeout makes a body arrive.
FairSpec == Spec /\ (\A r \in Request : WF_vars(Serve(r))) /\ WF_vars(Shutdown)

-----------------------------------------------------------------------------
TypeOK ==
    /\ lines \in Seq(Record \cup {Corrupt})
    /\ tail \in {"clean", "torn", "spoilt"} /\ prior \in {"clean", "torn", "spoilt"}
    /\ sequence \in Nat /\ base \in 0..sequence
    /\ sealed \in BOOLEAN /\ closed \in BOOLEAN
    /\ holder \in Request \cup {Nobody}
    /\ projected \in [Projections -> Seq(Nat)]
    /\ pc \in [Request -> PCs] /\ status \in [Request -> Statuses]
    /\ inflight \in 0..Cardinality(Request) /\ stopping \in BOOLEAN
    /\ tracker.active.raw \in {"none", "raw_append_failed", "raw_store_sealed"}
    /\ listening \in BOOLEAN /\ main \in Mains
    /\ faults \in 0..MaxFaults /\ runs \in 1..MaxRuns

Up == main \notin {"down", "refused"}
Recorded(r) == {i \in DOMAIN lines : lines[i].of = r}

(***************************************************************************)
(* The evidence is what the clients were told. Whatever is terminated in   *)
(* the file can be recovered and analysed: no rollback, seal, kill or      *)
(* reopening leaves a line that is not a record or a gap in the sequence   *)
(* (recoverRawFile and readRawJSONL would refuse the whole session). And   *)
(* after 200 a snapshot is in it exactly once, after any other status it   *)
(* is not, and a client that was cut off has it there at most once.        *)
(***************************************************************************)
EvidenceTruthful ==
    /\ Readable
    /\ \A r \in Request : pc[r] = "done" =>
          Cardinality(Recorded(r)) \in
              CASE status[r] = "200" -> {1} [] status[r] = "cut" -> {0, 1}
                [] OTHER -> {0}

(***************************************************************************)
(* Whenever nobody is inside the processor, every projection was applied   *)
(* to exactly the records this process accepted, once each and in file     *)
(* order, and the operator status tells it truthfully: every post counted  *)
(* once, as accepted, rejected or failed, when it leaves the processor,    *)
(* and a sealed store, and only that, reported as sealed.                  *)
(***************************************************************************)
ProjectedOnceInOrder ==
    Up /\ holder = Nobody =>
        /\ \A p \in Projections :
              projected[p] = [i \in 1..(Len(lines) - base) |-> base + i]
        /\ tracker.accepted = Len(lines) - base
        /\ tracker.requests = tracker.accepted + tracker.rejected + tracker.rawFailures
                                + Cardinality({r \in Request : pc[r] \in Uncounted})
        /\ tracker.active.raw = "raw_store_sealed" <=> sealed

(***************************************************************************)
(* The store is closed only after the last handler has left the gate, and  *)
(* no one will pass it again; an orderly stop cuts no client off.          *)
(***************************************************************************)
DrainedBeforeClose ==
    /\ closed /\ Up => \A r \in Request : pc[r] \in {"new", "done"}
    /\ runs = 1 /\ Up => \A r \in Request : status[r] # "cut"

(***************************************************************************)
(* A shutdown that has begun ends with the store closed, if no client      *)
(* withholds its body for ever and nothing kills the process.              *)
(***************************************************************************)
StopsWhenAsked ==
    []<>(\A r \in Request : pc[r] # "body") =>
        ((main \notin {"serving", "down", "refused"}) ~> (main \in {"stopped", "down"}))
=============================================================================
