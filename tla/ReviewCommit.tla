---------------------------- MODULE ReviewCommit ----------------------------
(***************************************************************************)
(* The transaction of internal/replay/review: a mutation of a review       *)
(* document and of the shared audit log, made atomic by a journal that     *)
(* holds the prior contents of both.  One call runs at a time              *)
(* (Store.mu); every call, and the construction of the store, first rolls  *)
(* back a transaction it finds prepared.                                   *)
(*                                                                         *)
(* A file changes in two steps, as store.WriteAtomic and                   *)
(* store.RemoveDurable do it: the rename or unlink, which every reader     *)
(* sees at once, and the fsync of the parent directory, which makes it     *)
(* survive a power loss.  Either may fail, and a crash may come between    *)
(* any two steps.  A killed process leaves the visible files; a power loss *)
(* leaves, for each file, any content since its directory was last synced. *)
(***************************************************************************)
EXTENDS Naturals, Sequences, FiniteSets

CONSTANTS
    Match,              \* match ids
    Request,            \* mutation calls
    MatchOf,            \* MatchOf[r]: the match whose review r changes
    NoTx,               \* no journal file
    Boot,               \* the recovery that New runs, in place of a request
    UnlinkSyncMayFail,  \* may the fsync that follows an unlink fail?
    CrashKinds,         \* subset of {"kill", "power"}
    MaxFaults,          \* bound on failed renames, unlinks and fsyncs
    MaxCrashes          \* bound on crashes

ASSUME ConstantsAssumption ==
    /\ MatchOf \in [Request -> Match]
    /\ Boot \notin Request
    /\ UnlinkSyncMayFail \in BOOLEAN
    /\ CrashKinds \subseteq {"kill", "power"}
    /\ MaxFaults \in Nat
    /\ MaxCrashes \in Nat

VARIABLES
    journal,        \* review-transaction.json: a Tx or NoTx
    audit,          \* review-audit.json: a sequence of entries
    review,         \* corrections.json of each match: the requests it records
    journalAlt,     \* contents of the journal a power loss may leave
    auditAlt,       \* contents of the audit log a power loss may leave
    reviewAlt,      \* reviewAlt[m]: contents of m's document it may leave
    pc,             \* where the running call stands
    dirty,          \* a rename or unlink is done, its directory not yet synced
    call,           \* the request that holds the mutex, or Boot
    tx,             \* the transaction it commits or undoes
    recovering,     \* it undoes a journal it found, not its own promotion
    answer,         \* answer[r]: what the caller of r was told
    faults, crashes

files == <<journal, audit, review>>
alts == <<journalAlt, auditAlt, reviewAlt>>
vars == <<files, alts, pc, dirty, call, tx, recovering, answer, faults, crashes>>

Answers == {"none", "ok", "error", "refused", "unknown"}
Entry == [match : Match, request : Request]
Log == Seq(Entry)
Doc == SUBSET Request
\* The prepare record: the prior contents of both files.  A file that does
\* not exist yet is <<>> or {}: a committed log or document is never empty.
Tx == [match : Match, review : Doc, audit : Log]

ASSUME NoTxAssumption == NoTx \notin Tx

-----------------------------------------------------------------------------
(* The order of the file operations.                                       *)

CommitSteps == {"prepare", "audit", "review", "unlink"}
UndoSteps == {"undo_review", "undo_audit", "undo_unlink"}
FileSteps == CommitSteps \cup UndoSteps
PCs == FileSteps \cup {"down", "idle", "recover", "load", "reply", "failed"}

\* Slips in the order: the log is not restored before the journal goes;
\* the journal goes before the document is promoted; a finished rollback is
\* taken for a failed one and starts over.
OnOk_LogNotRestored(p) ==
    CASE p = "prepare"     -> "audit"
      [] p = "audit"       -> "review"
      [] p = "review"      -> "unlink"
      [] p = "unlink"      -> "reply"
      [] p = "undo_review" -> "undo_unlink"
      [] p = "undo_unlink" -> IF recovering THEN "load" ELSE "failed"

OnOk_UnlinkEarly(p) ==
    CASE p = "prepare"     -> "audit"
      [] p = "audit"       -> "unlink"
      [] p = "unlink"      -> "review"
      [] p = "review"      -> "reply"
      [] p = "undo_review" -> "undo_audit"
      [] p = "undo_audit"  -> "undo_unlink"
      [] p = "undo_unlink" -> IF recovering THEN "load" ELSE "failed"

OnOk_UndoAgain(p) ==
    CASE p = "prepare"     -> "audit"
      [] p = "audit"       -> "review"
      [] p = "review"      -> "unlink"
      [] p = "unlink"      -> "reply"
      [] p = "undo_review" -> "undo_audit"
      [] p = "undo_audit"  -> "undo_unlink"
      [] p = "undo_unlink" -> IF recovering THEN "load" ELSE "undo_review"

\* Where a file operation that succeeded leads.
OnOk(p) ==
    CASE p = "prepare"     -> "audit"
      [] p = "audit"       -> "review"
      [] p = "review"      -> "unlink"
      [] p = "unlink"      -> "reply"
      [] p = "undo_review" -> "undo_audit"
      [] p = "undo_audit"  -> "undo_unlink"
      [] p = "undo_unlink" -> IF recovering THEN "load" ELSE "failed"

\* Where one that failed leads: a promotion or the removal of the journal is
\* rolled back, a failed prepare or rollback is reported.
OnFail(p) == IF p \in {"audit", "review", "unlink"} THEN "undo_review" ELSE "failed"

JournalSteps == {"prepare", "unlink", "undo_unlink"}
AuditSteps == {"audit", "undo_audit"}
ReviewSteps == {"review", "undo_review"}

\* The steps that remove a file rather than replace it.
Removes ==
    \/ pc \in {"unlink", "undo_unlink"}
    \/ pc = "undo_review" /\ tx.review = {}
    \/ pc = "undo_audit" /\ tx.audit = <<>>

\* RemoveDurable finds no file and returns at once.
NothingToRemove ==
    \/ pc \in {"unlink", "undo_unlink"} /\ journal = NoTx
    \/ pc = "undo_review" /\ tx.review = {} /\ review[tx.match] = {}
    \/ pc = "undo_audit" /\ tx.audit = <<>> /\ audit = <<>>

\* What the pending operation writes.
NewJournal == IF pc = "prepare" THEN tx ELSE NoTx
NewAudit_NoMatch ==    \* a slip: the entry does not name the match
    IF pc = "audit" THEN Append(tx.audit, [request |-> call]) ELSE tx.audit

NewAudit ==
    IF pc = "audit"
    THEN Append(tx.audit, [match |-> tx.match, request |-> call])
    ELSE tx.audit
NewReview == IF pc = "review" THEN tx.review \cup {call} ELSE tx.review

-----------------------------------------------------------------------------
Init ==
    /\ journal = NoTx
    /\ audit = <<>>
    /\ review = [m \in Match |-> {}]
    /\ journalAlt = {NoTx}
    /\ auditAlt = {<<>>}
    /\ reviewAlt = [m \in Match |-> {{}}]
    /\ pc = "idle"
    /\ dirty = FALSE
    /\ call = Boot
    /\ tx \in [match : Match, review : {{}}, audit : {<<>>}]
    /\ recovering = FALSE
    /\ answer = [r \in Request |-> "none"]
    /\ faults = 0
    /\ crashes = 0

\* A caller takes the mutex.
Start(r) ==
    /\ pc = "idle"
    /\ answer[r] = "none"
    /\ call' = r
    /\ pc' = "recover"
    /\ UNCHANGED <<files, alts, dirty, tx, recovering, answer, faults, crashes>>

\* The process comes back and New opens the store.
Reopen ==
    /\ pc = "down"
    /\ call' = Boot
    /\ pc' = "recover"
    /\ UNCHANGED <<files, alts, dirty, tx, recovering, answer, faults, crashes>>

\* recoverPending: nothing prepared, or a transaction to roll back.
RecoverNothing ==
    /\ pc = "recover"
    /\ journal = NoTx
    /\ pc' = "load"
    /\ UNCHANGED <<files, alts, dirty, call, tx, recovering, answer, faults, crashes>>

RecoverPrepared ==
    /\ pc = "recover"
    /\ journal # NoTx
    /\ tx' = journal
    /\ recovering' = TRUE
    /\ pc' = "undo_review"
    /\ UNCHANGED <<files, alts, dirty, call, answer, faults, crashes>>

Finish(a) ==
    /\ answer' = IF call = Boot
                 THEN answer
                 ELSE [answer EXCEPT ![call] = a]
    /\ UNCHANGED <<files, alts, dirty, call, tx, recovering, faults, crashes>>

\* New has recovered: the store is open.
Opened ==
    /\ pc = "load" /\ call = Boot
    /\ pc' = "idle"
    /\ Finish("none")

\* A read is served, or a check refuses the mutation: no file changes.
Refuse ==
    /\ pc = "load" /\ call # Boot
    /\ pc' = "idle"
    /\ Finish("refused")

\* commitReviewAndAudit reads both prior contents and builds the new ones.
Begin ==
    /\ pc = "load" /\ call # Boot
    /\ tx' = [match |-> MatchOf[call], review |-> review[MatchOf[call]], audit |-> audit]
    /\ recovering' = FALSE
    /\ pc' = "prepare"
    /\ UNCHANGED <<files, alts, dirty, call, answer, faults, crashes>>

\* The rename or unlink of the pending operation takes effect.
Change ==
    /\ pc \in FileSteps /\ ~ dirty /\ ~ NothingToRemove
    /\ IF pc \in JournalSteps
       THEN /\ journal' = NewJournal
            /\ journalAlt' = journalAlt \cup {NewJournal}
       ELSE UNCHANGED <<journal, journalAlt>>
    /\ IF pc \in AuditSteps
       THEN /\ audit' = NewAudit
            /\ auditAlt' = auditAlt \cup {NewAudit}
       ELSE UNCHANGED <<audit, auditAlt>>
    /\ IF pc \in ReviewSteps
       THEN /\ review' = [review EXCEPT ![tx.match] = NewReview]
            /\ reviewAlt' = [reviewAlt EXCEPT ![tx.match] = @ \cup {NewReview}]
       ELSE UNCHANGED <<review, reviewAlt>>
    /\ dirty' = TRUE
    /\ UNCHANGED <<pc, call, tx, recovering, answer, faults, crashes>>

\* A slip: the directory is never synced.
Sync_Skipped ==
    /\ pc \in FileSteps /\ dirty
    /\ dirty' = FALSE
    /\ pc' = OnOk(pc)
    /\ UNCHANGED <<files, alts, call, tx, recovering, answer, faults, crashes>>

\* Its parent directory is synced: the journal and the log share the root.
Sync ==
    /\ pc \in FileSteps /\ dirty
    /\ IF pc \in ReviewSteps
       THEN /\ reviewAlt' = [reviewAlt EXCEPT ![tx.match] = {review[tx.match]}]
            /\ UNCHANGED <<journalAlt, auditAlt>>
       ELSE /\ journalAlt' = {journal}
            /\ auditAlt' = {audit}
            /\ UNCHANGED reviewAlt
    /\ dirty' = FALSE
    /\ pc' = OnOk(pc)
    /\ UNCHANGED <<files, call, tx, recovering, answer, faults, crashes>>

SkipRemove ==
    /\ pc \in FileSteps /\ ~ dirty /\ NothingToRemove
    /\ pc' = OnOk(pc)
    /\ UNCHANGED <<files, alts, dirty, call, tx, recovering, answer, faults, crashes>>

\* The operation fails before it took effect, or its fsync fails after.
ChangeFails ==
    /\ pc \in FileSteps /\ ~ dirty /\ ~ NothingToRemove
    /\ faults < MaxFaults
    /\ faults' = faults + 1
    /\ pc' = OnFail(pc)
    /\ UNCHANGED <<files, alts, dirty, call, tx, recovering, answer, crashes>>

SyncFails ==
    /\ pc \in FileSteps /\ dirty
    /\ Removes => UnlinkSyncMayFail
    /\ faults < MaxFaults
    /\ faults' = faults + 1
    /\ dirty' = FALSE
    /\ pc' = OnFail(pc)
    /\ UNCHANGED <<files, alts, call, tx, recovering, answer, crashes>>

Reply ==
    /\ pc = "reply"
    /\ pc' = "idle"
    /\ Finish("ok")

\* An error is returned; a store that cannot recover does not open.
Fail ==
    /\ pc = "failed"
    /\ pc' = IF call = Boot THEN "down" ELSE "idle"
    /\ Finish("error")

Stop ==
    /\ pc # "down"
    /\ crashes < MaxCrashes
    /\ crashes' = crashes + 1
    /\ pc' = "down"
    /\ dirty' = FALSE
    /\ answer' = IF pc = "idle" \/ call = Boot
                 THEN answer
                 ELSE [answer EXCEPT ![call] = "unknown"]
    /\ UNCHANGED <<call, tx, recovering, faults>>

Kill ==
    /\ "kill" \in CrashKinds
    /\ Stop
    /\ UNCHANGED <<files, alts>>

PowerLoss ==
    /\ "power" \in CrashKinds
    /\ Stop
    /\ journal' \in journalAlt
    /\ audit' \in auditAlt
    /\ review' \in {f \in [Match -> UNION {reviewAlt[m] : m \in Match}] :
                       \A m \in Match : f[m] \in reviewAlt[m]}
    /\ journalAlt' = {journal'}
    /\ auditAlt' = {audit'}
    /\ reviewAlt' = [m \in Match |-> {review'[m]}]

Step ==
    \/ RecoverNothing \/ RecoverPrepared \/ Opened \/ Refuse \/ Begin
    \/ Change \/ Sync \/ SkipRemove \/ ChangeFails \/ SyncFails
    \/ Reply \/ Fail

Next ==
    \/ \E r \in Request : Start(r)
    \/ Reopen
    \/ Step
    \/ Kill
    \/ PowerLoss

Spec == Init /\ [][Next]_vars

\* A call that runs is scheduled until it answers: it waits for nobody.
FairSpec == Spec /\ WF_vars(Step)

-----------------------------------------------------------------------------
(* The contents recovery would restore: what the store means on disk.      *)

EffectiveAudit == IF journal = NoTx THEN audit ELSE journal.audit
EffectiveReview ==
    IF journal = NoTx THEN review
    ELSE [review EXCEPT ![journal.match] = journal.review]

\* The requests a log records for match m; a log and documents that agree.
Logged(log, m) == {log[i].request : i \in {j \in DOMAIN log : log[j].match = m}}
Agree(log, docs) == \A m \in Match : docs[m] = Logged(log, m)

Ledger == INSTANCE ReviewLedger
            WITH review <- EffectiveReview, audit <- EffectiveAudit

TypeOK ==
    /\ journal \in Tx \cup {NoTx}
    /\ audit \in Log
    /\ review \in [Match -> Doc]
    /\ journalAlt \subseteq Tx \cup {NoTx}
    /\ auditAlt \subseteq Log
    /\ reviewAlt \in [Match -> SUBSET Doc]
    /\ pc \in PCs
    /\ dirty \in BOOLEAN
    /\ call \in Request \cup {Boot}
    /\ tx \in Tx
    /\ recovering \in BOOLEAN
    /\ answer \in [Request -> Answers]
    /\ faults \in 0..MaxFaults
    /\ crashes \in 0..MaxCrashes

(***************************************************************************)
(* Whatever a call is served or bases its mutation on, the documents and   *)
(* the audit log record the same requests: recoverPending runs first, and  *)
(* no order of failures and crashes leaves a split that it does not see    *)
(* (review.go, the comments of recoverPending and commitReviewAndAudit).   *)
(***************************************************************************)
SplitNeverServed ==
    pc = "load" => journal = NoTx /\ Agree(audit, review)

(***************************************************************************)
(* A mutation that was answered with success is in the document and in the *)
(* log after every later failure, rollback of another call, kill or power  *)
(* loss: no journal, present or resurrected, may undo it.                  *)
(***************************************************************************)
AckedNeverLost ==
    \A r \in Request : answer[r] = "ok" =>
        /\ r \in EffectiveReview[MatchOf[r]]
        /\ r \in Logged(EffectiveAudit, MatchOf[r])

(***************************************************************************)
(* The store implements the ledger: document and log change in one step,   *)
(* the removal of the journal, and every answer is true.  An error means   *)
(* that nothing was and nothing will be recorded.                          *)
(***************************************************************************)
LedgerSpec == Ledger!Spec

\* A call that runs comes to an end, rolled back or not.
CallsEnd == (pc \notin {"idle", "down"}) ~> (pc \in {"idle", "down"})
=============================================================================
