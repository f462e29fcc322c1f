---------------------------- MODULE Review_proofs ----------------------------
(***************************************************************************)
(* Proofs about the review of matches. First the review transaction, for   *)
(* any matches, any requests and any number of faults and crashes. Then    *)
(* what reviewers do to one match, for any reviewers, analyses and         *)
(* documents of earlier schemas: what counts as reviewed is what was       *)
(* signed, and a revision that was superseded never comes back.            *)
(***************************************************************************)
EXTENDS ReviewCommit, ReviewWorkflow, SequenceTheorems, TLAPS

-----------------------------------------------------------------------------
(* Lemmas about the log.                                                   *)

\* A log that gains an entry still is a log.
LEMMA AppendLog ==
    ASSUME NEW log \in Log, NEW m \in Match, NEW r \in Request
    PROVE  Append(log, [match |-> m, request |-> r]) \in Log
BY DEF Log, Entry

\* What a log records after an entry was appended.
LEMMA LoggedAppend ==
    ASSUME NEW log \in Log, NEW n \in Match, NEW r \in Request, NEW m \in Match
    PROVE  Logged(Append(log, [match |-> n, request |-> r]), m)
             = Logged(log, m) \cup (IF n = m THEN {r} ELSE {})
<1> DEFINE e == [match |-> n, request |-> r]
           new == Append(log, e)
<1>1. /\ Len(log) \in Nat
      /\ DOMAIN log = 1..Len(log)
      /\ DOMAIN new = 1..(Len(log) + 1)
      /\ \A i \in 1..Len(log) : new[i] = log[i]
      /\ new[Len(log) + 1] = e
  BY DEF Log, Entry
<1>2. DOMAIN new = DOMAIN log \cup {Len(log) + 1}
  BY <1>1
<1>3. e.match = n /\ e.request = r
  OBVIOUS
<1> HIDE DEF e, new
<1>4. Logged(new, m) \subseteq Logged(log, m) \cup (IF n = m THEN {r} ELSE {})
  <2>1. SUFFICES ASSUME NEW i \in DOMAIN new, new[i].match = m
                 PROVE  new[i].request \in Logged(log, m) \cup (IF n = m THEN {r} ELSE {})
    BY DEF Logged
  <2>2. CASE i \in DOMAIN log
    BY <2>1, <2>2, <1>1 DEF Logged
  <2>3. CASE i = Len(log) + 1
    BY <2>1, <2>3, <1>1, <1>3
  <2>4. QED BY <2>1, <2>2, <2>3, <1>2
<1>5. Logged(log, m) \subseteq Logged(new, m)
  <2>1. SUFFICES ASSUME NEW i \in DOMAIN log, log[i].match = m
                 PROVE  log[i].request \in Logged(new, m)
    BY DEF Logged
  <2>2. i \in DOMAIN new /\ new[i] = log[i]
    BY <1>1, <1>2
  <2>3. QED BY <2>1, <2>2 DEF Logged
<1>6. n = m => r \in Logged(new, m)
  BY <1>1, <1>2, <1>3 DEF Logged
<1>7. QED BY <1>4, <1>5, <1>6 DEF new, e

\* The steps of a transaction lead to steps of the call.
LEMMA StepsStay ==
    ASSUME NEW p \in FileSteps
    PROVE  OnOk(p) \in PCs /\ OnFail(p) \in PCs
BY DEF FileSteps, CommitSteps, UndoSteps, PCs, OnOk, OnFail

-----------------------------------------------------------------------------
(* Type correctness.                                                       *)

\* What a file operation writes has the type of its file.
LEMMA NewTypes ==
    ASSUME TypeOK, pc \in FileSteps, pc \in {"audit", "review"} => call \in Request
    PROVE  /\ NewJournal \in Tx \cup {NoTx}
           /\ NewAudit \in Log
           /\ NewReview \in Doc
           /\ tx.match \in Match
<1>1. tx \in Tx /\ tx.match \in Match /\ tx.review \in Doc /\ tx.audit \in Log
  BY DEF TypeOK, Tx
<1>2. NewAudit \in Log
  BY <1>1, AppendLog DEF NewAudit
<1>3. NewReview \in Doc
  BY <1>1 DEF NewReview, Doc
<1>4. QED BY <1>1, <1>2, <1>3 DEF NewJournal

\* A promotion runs for a request, never for the recovery of New.
Promoting == pc \in {"prepare", "audit", "review", "unlink", "reply"} => call \in Request

LEMMA TypeInit == Init => TypeOK /\ Promoting
<1> SUFFICES ASSUME Init PROVE TypeOK /\ Promoting
  OBVIOUS
<1>1. <<>> \in Log /\ {} \in Doc
  BY DEF Log, Doc
<1>2. tx \in Tx
  BY <1>1 DEF Init, Tx
<1>3. /\ journal \in Tx \cup {NoTx} /\ journalAlt \subseteq Tx \cup {NoTx}
      /\ audit \in Log /\ auditAlt \subseteq Log
  BY <1>1 DEF Init
<1>4. /\ review \in [Match -> Doc] /\ reviewAlt \in [Match -> SUBSET Doc]
  BY <1>1 DEF Init
<1>5. pc \in PCs /\ Promoting
  BY DEF Init, PCs, Promoting
<1>6. answer \in [Request -> Answers]
  BY DEF Init, Answers
<1>7. /\ dirty \in BOOLEAN /\ recovering \in BOOLEAN
      /\ call \in Request \cup {Boot}
  BY DEF Init
<1>8. faults \in 0..MaxFaults /\ crashes \in 0..MaxCrashes
  BY ConstantsAssumption DEF Init
<1>9. QED
  BY <1>2, <1>3, <1>4, <1>5, <1>6, <1>7, <1>8 DEF TypeOK

LEMMA TypeNext == TypeOK /\ Promoting /\ [Next]_vars => TypeOK' /\ Promoting'
<1> SUFFICES ASSUME TypeOK, Promoting, [Next]_vars PROVE TypeOK' /\ Promoting'
  OBVIOUS
<1> USE ConstantsAssumption
<1>1. ASSUME NEW r \in Request, Start(r) PROVE TypeOK' /\ Promoting'
  BY <1>1 DEF TypeOK, Promoting, Start, PCs, files, alts
<1>2. CASE Reopen
  BY <1>2 DEF TypeOK, Promoting, Reopen, PCs, files, alts
<1>3. CASE RecoverNothing
  BY <1>3 DEF TypeOK, Promoting, RecoverNothing, PCs, files, alts
<1>4. CASE RecoverPrepared
  BY <1>4 DEF TypeOK, Promoting, RecoverPrepared, PCs, FileSteps, UndoSteps, files, alts
<1>5. CASE Opened
  BY <1>5 DEF TypeOK, Promoting, Opened, Finish, PCs, files, alts
<1>6. CASE Refuse
  BY <1>6 DEF TypeOK, Promoting, Refuse, Finish, PCs, Answers, files, alts
<1>7. CASE Begin
  <2>1. call \in Request
    BY <1>7 DEF TypeOK, Begin
  <2>2. tx' \in Tx
    BY <1>7, <2>1 DEF TypeOK, Begin, Tx
  <2>3. QED
    BY <1>7, <2>1, <2>2
    DEF TypeOK, Promoting, Begin, PCs, FileSteps, CommitSteps, files, alts
<1>8. CASE Change
  <2>1. /\ NewJournal \in Tx \cup {NoTx}
        /\ NewAudit \in Log
        /\ NewReview \in Doc
        /\ tx.match \in Match
    BY <1>8, NewTypes DEF Change, Promoting
  <2>2. journal' \in Tx \cup {NoTx} /\ journalAlt' \subseteq Tx \cup {NoTx}
    BY <1>8, <2>1 DEF Change, TypeOK
  <2>3. audit' \in Log /\ auditAlt' \subseteq Log
    BY <1>8, <2>1 DEF Change, TypeOK
  <2>4. review' \in [Match -> Doc] /\ reviewAlt' \in [Match -> SUBSET Doc]
    <3>1. CASE pc \in ReviewSteps
      <4>1. reviewAlt[tx.match] \cup {NewReview} \in SUBSET Doc
        BY <2>1 DEF TypeOK
      <4>2. QED BY <1>8, <2>1, <3>1, <4>1 DEF Change, TypeOK
    <3>2. CASE pc \notin ReviewSteps
      BY <1>8, <3>2 DEF Change, TypeOK
    <3>3. QED BY <3>1, <3>2
  <2>5. QED
    BY <1>8, <2>2, <2>3, <2>4 DEF Change, TypeOK, Promoting
<1>9. CASE Sync
  <2>1. pc' \in PCs
    BY <1>9, StepsStay DEF Sync
  <2>2. tx.match \in Match
    BY DEF TypeOK, Tx
  <2>3. Promoting'
    BY <1>9 DEF Sync, Promoting, OnOk, FileSteps, CommitSteps, UndoSteps
  <2>4. reviewAlt' \in [Match -> SUBSET Doc]
    BY <1>9, <2>2 DEF Sync, TypeOK
  <2>5. journalAlt' \subseteq Tx \cup {NoTx} /\ auditAlt' \subseteq Log
    BY <1>9 DEF Sync, TypeOK
  <2>6. QED BY <1>9, <2>1, <2>3, <2>4, <2>5 DEF Sync, TypeOK, files
<1>10. CASE SkipRemove
  <2>1. pc' \in PCs
    BY <1>10, StepsStay DEF SkipRemove
  <2>2. Promoting'
    BY <1>10 DEF SkipRemove, Promoting, OnOk, FileSteps, CommitSteps, UndoSteps
  <2>3. QED BY <1>10, <2>1, <2>2 DEF SkipRemove, TypeOK, files, alts
<1>11. CASE ChangeFails
  <2>1. pc' \in PCs /\ Promoting'
    BY <1>11, StepsStay DEF ChangeFails, Promoting, OnFail
  <2>2. faults' \in 0..MaxFaults
    BY <1>11 DEF ChangeFails, TypeOK
  <2>3. QED BY <1>11, <2>1, <2>2 DEF ChangeFails, TypeOK, files, alts
<1>12. CASE SyncFails
  <2>1. pc' \in PCs /\ Promoting'
    BY <1>12, StepsStay DEF SyncFails, Promoting, OnFail
  <2>2. faults' \in 0..MaxFaults
    BY <1>12 DEF SyncFails, TypeOK
  <2>3. QED BY <1>12, <2>1, <2>2 DEF SyncFails, TypeOK, files, alts
<1>13. CASE Reply
  BY <1>13 DEF TypeOK, Promoting, Reply, Finish, PCs, Answers, files, alts
<1>14. CASE Fail
  BY <1>14 DEF TypeOK, Promoting, Fail, Finish, PCs, Answers, files, alts
<1>15. ASSUME Stop PROVE /\ pc' = "down" /\ pc' \in PCs /\ dirty' \in BOOLEAN
                         /\ answer' \in [Request -> Answers]
                         /\ crashes' \in 0..MaxCrashes
                         /\ UNCHANGED <<call, tx, recovering, faults>>
  <2>1. answer' \in [Request -> Answers]
    <3>1. CASE pc = "idle" \/ call = Boot
      BY <1>15, <3>1 DEF Stop, TypeOK
    <3>2. CASE ~ (pc = "idle" \/ call = Boot)
      BY <1>15, <3>2 DEF Stop, TypeOK, Answers
    <3>3. QED BY <3>1, <3>2
  <2>2. crashes' \in 0..MaxCrashes
    BY <1>15 DEF Stop, TypeOK
  <2>3. pc' \in PCs
    BY <1>15 DEF Stop, PCs
  <2>4. QED BY <1>15, <2>1, <2>2, <2>3 DEF Stop
<1>16. CASE Kill
  BY <1>15, <1>16 DEF TypeOK, Promoting, Kill, files, alts
<1>17. CASE PowerLoss
  <2>1. journal' \in Tx \cup {NoTx} /\ audit' \in Log
    BY <1>17 DEF PowerLoss, TypeOK
  <2>2. review' \in [Match -> Doc]
    <3>1. /\ review' \in [Match -> UNION {reviewAlt[m] : m \in Match}]
          /\ \A m \in Match : review'[m] \in reviewAlt[m]
      BY <1>17 DEF PowerLoss
    <3>2. \A m \in Match : reviewAlt[m] \subseteq Doc
      BY DEF TypeOK
    <3>3. QED BY <3>1, <3>2
  <2>3. reviewAlt' \in [Match -> SUBSET Doc]
    BY <1>17, <2>2 DEF PowerLoss
  <2>4. journalAlt' \subseteq Tx \cup {NoTx} /\ auditAlt' \subseteq Log
    BY <1>17, <2>1 DEF PowerLoss
  <2>5. Stop
    BY <1>17 DEF PowerLoss
  <2>6. Promoting'
    BY <1>15, <2>5 DEF Promoting
  <2>7. /\ call' \in Request \cup {Boot} /\ tx' \in Tx
        /\ recovering' \in BOOLEAN /\ faults' \in 0..MaxFaults
    BY <1>15, <2>5 DEF TypeOK
  <2>8. /\ pc' \in PCs /\ dirty' \in BOOLEAN
        /\ answer' \in [Request -> Answers] /\ crashes' \in 0..MaxCrashes
    BY <1>15, <2>5
  <2>9. TypeOK'
    BY <2>1, <2>2, <2>3, <2>4, <2>7, <2>8 DEF TypeOK
  <2>10. QED BY <2>6, <2>9
<1>18. CASE UNCHANGED vars
  BY <1>18 DEF TypeOK, Promoting, vars, files, alts
<1>19. QED
  BY <1>1, <1>2, <1>3, <1>4, <1>5, <1>6, <1>7, <1>8, <1>9, <1>10, <1>11, <1>12,
     <1>13, <1>14, <1>16, <1>17, <1>18 DEF Next, Step

\* Every variable keeps its type: in particular what a rollback restores is
\* always a document and a log.
THEOREM TypeCorrect == Spec => []TypeOK
<1>1. TypeOK /\ Promoting /\ [Next]_vars => (TypeOK /\ Promoting)'
  BY TypeNext
<1>2. QED BY TypeInit, <1>1, PTL DEF Spec

-----------------------------------------------------------------------------
(* Acknowledged mutations survive every failure, kill and power loss.      *)

AckedOf(m) == {r \in Request : answer[r] = "ok" /\ MatchOf[r] = m}

\* A content is safe if it holds every acknowledged request it should.
DocSafe(m, d) == AckedOf(m) \subseteq d
LogSafe(log) == \A m \in Match : AckedOf(m) \subseteq Logged(log, m)
TxSafe(t) == DocSafe(t.match, t.review) /\ LogSafe(t.audit)

\* Every content that is on disk, or that a power loss or a rollback may
\* bring back, is safe.
AltsSafe ==
    /\ \A m \in Match : \A d \in reviewAlt[m] : DocSafe(m, d)
    /\ \A log \in auditAlt : LogSafe(log)
    /\ \A t \in journalAlt \ {NoTx} : TxSafe(t)
AllSafe == AltsSafe /\ (pc \in FileSteps => TxSafe(tx))

VisibleIsAlt ==
    /\ journal \in journalAlt
    /\ audit \in auditAlt
    /\ \A m \in Match : review[m] \in reviewAlt[m]

InLog(log) == call \in Logged(log, MatchOf[call])

\* How far a commit has come: what is written, then what is durable.
Progress ==
    /\ dirty => pc \in FileSteps
    /\ pc \in CommitSteps => tx.match = MatchOf[call]
    /\ pc = "prepare" /\ dirty => journal # NoTx
    /\ pc \in {"audit", "review"} => journal # NoTx
    /\ pc = "unlink" => (journal = NoTx <=> dirty)
    /\ pc = "audit" /\ dirty => InLog(audit)
    /\ pc \in {"review", "unlink", "reply"} => \A log \in auditAlt : InLog(log)
    /\ pc = "review" /\ dirty => call \in review[MatchOf[call]]
    /\ pc \in {"unlink", "reply"} => \A d \in reviewAlt[MatchOf[call]] : call \in d
    /\ pc = "reply" => journalAlt = {NoTx}

AckInv == TypeOK /\ Promoting /\ AllSafe /\ VisibleIsAlt /\ Progress

LEMMA AckInit == Init => AckInv
<1> SUFFICES ASSUME Init PROVE AckInv
  OBVIOUS
<1>1. TypeOK /\ Promoting
  BY TypeInit
<1>2. \A m \in Match : AckedOf(m) = {}
  BY DEF Init, AckedOf
<1>3. AltsSafe
  BY <1>2 DEF Init, AltsSafe, DocSafe, LogSafe
<1>4. VisibleIsAlt
  BY DEF Init, VisibleIsAlt
<1>5. pc = "idle" /\ dirty = FALSE
  BY DEF Init
<1>6. QED
  BY <1>1, <1>3, <1>4, <1>5
  DEF AckInv, AllSafe, Progress, FileSteps, CommitSteps, UndoSteps

\* A step that acknowledges nothing adds nothing to what must be kept.
LEMMA NoNewAck ==
    ASSUME \A r \in Request : answer'[r] = "ok" => answer[r] = "ok"
    PROVE  /\ \A m \in Match : AckedOf(m)' \subseteq AckedOf(m)
           /\ \A m \in Match, d \in Doc : DocSafe(m, d) => DocSafe(m, d)'
           /\ \A log \in Log : LogSafe(log) => LogSafe(log)'
           /\ \A t \in Tx : TxSafe(t) => TxSafe(t)'
<1>1. \A m \in Match : AckedOf(m)' \subseteq AckedOf(m)
  BY DEF AckedOf
<1>2. \A m \in Match, d \in Doc : DocSafe(m, d) => DocSafe(m, d)'
  BY <1>1 DEF DocSafe
<1>3. \A log \in Log : LogSafe(log) => LogSafe(log)'
  BY <1>1 DEF LogSafe, Logged
<1>4. \A t \in Tx : TxSafe(t) => TxSafe(t)'
  <2> SUFFICES ASSUME NEW t \in Tx, TxSafe(t) PROVE TxSafe(t)'
    OBVIOUS
  <2>1. t.match \in Match /\ t.review \in Doc /\ t.audit \in Log
    BY DEF Tx
  <2>2. DocSafe(t.match, t.review)' /\ LogSafe(t.audit)'
    BY <2>1, <1>2, <1>3 DEF TxSafe
  <2>3. QED BY <2>2 DEF TxSafe
<1>5. QED BY <1>1, <1>2, <1>3, <1>4

\* A step that leaves the files and the answers alone leaves them safe.
LEMMA QuietSafe ==
    ASSUME TypeOK, AltsSafe, VisibleIsAlt, UNCHANGED <<files, alts>>,
           \A r \in Request : answer'[r] = "ok" => answer[r] = "ok"
    PROVE  AltsSafe' /\ VisibleIsAlt'
<1>1. UNCHANGED <<journalAlt, auditAlt, reviewAlt>>
  BY DEF alts
<1>2. VisibleIsAlt'
  BY DEF VisibleIsAlt, files, alts
<1>3. ASSUME NEW m \in Match, NEW d \in reviewAlt[m] PROVE DocSafe(m, d)'
  BY <1>3, NoNewAck DEF TypeOK, AltsSafe
<1>4. ASSUME NEW log \in auditAlt PROVE LogSafe(log)'
  BY <1>4, NoNewAck DEF TypeOK, AltsSafe
<1>5. ASSUME NEW t \in journalAlt \ {NoTx} PROVE TxSafe(t)'
  BY <1>5, NoNewAck DEF TypeOK, AltsSafe
<1>6. QED BY <1>1, <1>2, <1>3, <1>4, <1>5 DEF AltsSafe

\* What a file operation writes is safe, and a promotion adds its request.
LEMMA NewSafe ==
    ASSUME AckInv, pc \in FileSteps
    PROVE  /\ DocSafe(tx.match, NewReview)
           /\ LogSafe(NewAudit)
           /\ NewJournal # NoTx => TxSafe(NewJournal)
           /\ pc = "audit" => InLog(NewAudit)
           /\ pc = "review" => call \in NewReview
           /\ pc = "prepare" => NewJournal # NoTx
<1>1. TxSafe(tx)
  BY DEF AckInv, AllSafe
<1>2. tx \in Tx /\ tx.match \in Match /\ tx.audit \in Log
  BY DEF AckInv, TypeOK, Tx
<1>3. DocSafe(tx.match, NewReview)
  BY <1>1 DEF TxSafe, DocSafe, NewReview
<1>4. LogSafe(NewAudit) /\ (pc = "audit" => InLog(NewAudit))
  <2>1. CASE pc = "audit"
    <3>1. call \in Request /\ tx.match = MatchOf[call]
      BY <2>1 DEF AckInv, Promoting, Progress, CommitSteps
    <3>2. \A m \in Match : Logged(NewAudit, m) =
             Logged(tx.audit, m) \cup (IF tx.match = m THEN {call} ELSE {})
      BY <2>1, <3>1, <1>2, LoggedAppend DEF NewAudit
    <3>3. QED BY <1>1, <1>2, <3>1, <3>2 DEF TxSafe, LogSafe, InLog
  <2>2. CASE pc # "audit"
    BY <1>1, <2>2 DEF TxSafe, NewAudit
  <2>3. QED BY <2>1, <2>2
<1>5. NewJournal # NoTx => TxSafe(NewJournal)
  BY <1>1 DEF NewJournal
<1>6. pc = "prepare" => NewJournal # NoTx
  BY <1>2, NoTxAssumption DEF NewJournal
<1>7. QED BY <1>3, <1>4, <1>5, <1>6 DEF NewReview

LEMMA AckChange == AckInv /\ Change => AllSafe' /\ VisibleIsAlt' /\ Progress'
<1> SUFFICES ASSUME AckInv, Change PROVE AllSafe' /\ VisibleIsAlt' /\ Progress'
  OBVIOUS
<1>1. /\ pc \in FileSteps /\ ~ dirty /\ dirty' = TRUE /\ pc' = pc
      /\ call' = call /\ tx' = tx /\ answer' = answer
  BY DEF Change
<1>2. TypeOK /\ AllSafe /\ AltsSafe /\ VisibleIsAlt /\ Progress
  BY DEF AckInv, AllSafe
<1>3. /\ DocSafe(tx.match, NewReview)
      /\ LogSafe(NewAudit)
      /\ NewJournal # NoTx => TxSafe(NewJournal)
      /\ pc = "audit" => InLog(NewAudit)
      /\ pc = "review" => call \in NewReview
      /\ pc = "prepare" => NewJournal # NoTx
  BY <1>1, NewSafe
<1>4. /\ tx.match \in Match
      /\ reviewAlt \in [Match -> SUBSET Doc] /\ review \in [Match -> Doc]
  BY <1>2 DEF TypeOK, Tx
<1>5. \A m \in Match : AckedOf(m)' = AckedOf(m)
  BY <1>1 DEF AckedOf
<1>6. \A m \in Match : \A d \in reviewAlt'[m] : DocSafe(m, d)'
  <2>1. SUFFICES ASSUME NEW m \in Match, NEW d \in reviewAlt'[m] PROVE DocSafe(m, d)
    BY <1>5 DEF DocSafe
  <2>2. d \in reviewAlt[m] \/ (m = tx.match /\ d = NewReview)
    BY <1>4 DEF Change
  <2>3. QED BY <2>2, <1>2, <1>3 DEF AltsSafe
<1>7. \A log \in auditAlt' : LogSafe(log)'
  <2>1. SUFFICES ASSUME NEW log \in auditAlt' PROVE LogSafe(log)
    BY <1>5 DEF LogSafe, Logged
  <2>2. log \in auditAlt \/ log = NewAudit
    BY DEF Change
  <2>3. QED BY <2>2, <1>2, <1>3 DEF AltsSafe
<1>8. \A t \in journalAlt' \ {NoTx} : TxSafe(t)
  <2>1. SUFFICES ASSUME NEW t \in journalAlt' \ {NoTx} PROVE TxSafe(t)
    OBVIOUS
  <2>2. t \in journalAlt \/ t = NewJournal
    BY DEF Change
  <2>3. QED BY <2>2, <1>2, <1>3 DEF AltsSafe
<1>9. \A t : TxSafe(t)' <=> TxSafe(t)
  BY <1>1 DEF TxSafe, DocSafe, LogSafe, AckedOf, Logged
<1>10. AllSafe'
  BY <1>1, <1>2, <1>6, <1>7, <1>8, <1>9 DEF AllSafe, AltsSafe
<1>11. VisibleIsAlt'
  <2>1. journal' \in journalAlt' /\ audit' \in auditAlt'
    BY <1>2 DEF Change, VisibleIsAlt
  <2>2. ASSUME NEW m \in Match PROVE review'[m] \in reviewAlt'[m]
    BY <1>2, <1>4, <2>2 DEF Change, VisibleIsAlt
  <2>3. QED BY <2>1, <2>2 DEF VisibleIsAlt
<1>12. Progress'
  <2>1. pc \in {"prepare", "unlink", "undo_unlink"} => journal' = NewJournal
    BY DEF Change, JournalSteps
  <2>2. pc \in {"audit", "review"} => journal' = journal
    BY DEF Change, JournalSteps
  <2>3. pc = "unlink" => journal' = NoTx
    BY <2>1 DEF NewJournal
  <2>4. pc = "audit" => audit' = NewAudit
    BY DEF Change, AuditSteps
  <2>5. pc \in {"review", "unlink"} => auditAlt' = auditAlt
    BY DEF Change, AuditSteps
  <2>6. pc = "review" => review'[tx.match] = NewReview
    BY <1>4 DEF Change, ReviewSteps
  <2>7. pc = "unlink" => reviewAlt' = reviewAlt
    BY DEF Change, ReviewSteps
  <2>8. \A log : InLog(log)' <=> InLog(log)
    BY <1>1 DEF InLog, Logged
  <2>9. pc # "reply"
    BY <1>1 DEF FileSteps, CommitSteps, UndoSteps
  <2>10. pc \in CommitSteps => tx.match = MatchOf[call]
    BY <1>2 DEF Progress
  <2>11. pc = "review" => tx.match = MatchOf[call]
    BY <2>10 DEF CommitSteps
  <2>12. QED
    BY <1>1, <1>2, <1>3, <2>1, <2>2, <2>3, <2>4, <2>5, <2>6, <2>7, <2>8, <2>9, <2>10, <2>11
    DEF Progress
<1>13. QED BY <1>10, <1>11, <1>12

LEMMA AckSync == AckInv /\ Sync => AllSafe' /\ VisibleIsAlt' /\ Progress'
<1> SUFFICES ASSUME AckInv, Sync PROVE AllSafe' /\ VisibleIsAlt' /\ Progress'
  OBVIOUS
<1>1. /\ pc \in FileSteps /\ dirty /\ dirty' = FALSE /\ pc' = OnOk(pc)
      /\ call' = call /\ tx' = tx /\ answer' = answer
      /\ journal' = journal /\ audit' = audit /\ review' = review
      /\ recovering' = recovering
  BY DEF Sync, files
<1>2. TypeOK /\ AllSafe /\ AltsSafe /\ VisibleIsAlt /\ Progress
  BY DEF AckInv, AllSafe
<1>3. tx.match \in Match /\ reviewAlt \in [Match -> SUBSET Doc]
  BY <1>2 DEF TypeOK, Tx
<1>4. /\ journalAlt' \subseteq journalAlt /\ auditAlt' \subseteq auditAlt
      /\ \A m \in Match : reviewAlt'[m] \subseteq reviewAlt[m]
  BY <1>2, <1>3 DEF Sync, VisibleIsAlt
<1>5. VisibleIsAlt'
  BY <1>1, <1>2, <1>3 DEF Sync, VisibleIsAlt
<1>6. /\ \A m \in Match, d \in Doc : DocSafe(m, d)' <=> DocSafe(m, d)
      /\ \A log : LogSafe(log)' <=> LogSafe(log)
      /\ \A t : TxSafe(t)' <=> TxSafe(t)
      /\ \A log : InLog(log)' <=> InLog(log)
  BY <1>1 DEF TxSafe, DocSafe, LogSafe, AckedOf, Logged, InLog
<1>7. \A m \in Match : \A d \in reviewAlt'[m] : DocSafe(m, d)'
  <2>1. SUFFICES ASSUME NEW m \in Match, NEW d \in reviewAlt'[m] PROVE DocSafe(m, d)'
    OBVIOUS
  <2>2. d \in reviewAlt[m] /\ d \in Doc
    BY <1>3, <1>4
  <2>3. QED BY <2>2, <1>2, <1>6 DEF AltsSafe
<1>8. AllSafe'
  BY <1>1, <1>2, <1>4, <1>6, <1>7 DEF AllSafe, AltsSafe
<1>9. Progress'
  <2>1. CASE pc = "prepare"
    BY <1>1, <1>2, <2>1 DEF Progress, OnOk, CommitSteps
  <2>2. CASE pc = "audit"
    <3>1. pc' = "review" /\ auditAlt' = {audit}
      BY <1>1, <2>2 DEF Sync, OnOk, ReviewSteps
    <3>2. QED BY <1>1, <1>2, <1>6, <2>2, <3>1 DEF Progress, CommitSteps
  <2>3. CASE pc = "review"
    <3>1. pc' = "unlink" /\ auditAlt' = auditAlt /\ reviewAlt'[tx.match] = {review[tx.match]}
      BY <1>1, <1>3, <2>3 DEF Sync, OnOk, ReviewSteps
    <3>2. tx.match = MatchOf[call]
      BY <1>2, <2>3 DEF Progress, CommitSteps
    <3>3. QED BY <1>1, <1>2, <1>6, <2>3, <3>1, <3>2 DEF Progress, CommitSteps
  <2>4. CASE pc = "unlink"
    <3>1. /\ pc' = "reply" /\ auditAlt' \subseteq auditAlt
          /\ reviewAlt' = reviewAlt /\ journalAlt' = {journal}
      BY <1>1, <1>4, <2>4 DEF Sync, OnOk, ReviewSteps
    <3>2. journal = NoTx
      BY <1>1, <1>2, <2>4 DEF Progress
    <3>3. QED BY <1>1, <1>2, <1>6, <2>4, <3>1, <3>2 DEF Progress, CommitSteps
  <2>5. CASE pc \in UndoSteps
    <3>1. pc' \in {"undo_audit", "undo_unlink", "load", "failed"}
      BY <1>1, <2>5 DEF OnOk, UndoSteps
    <3>2. QED BY <1>1, <3>1 DEF Progress, CommitSteps
  <2>6. QED BY <1>1, <2>1, <2>2, <2>3, <2>4, <2>5 DEF FileSteps, CommitSteps
<1>10. QED BY <1>5, <1>8, <1>9

LEMMA AckPowerLoss == AckInv /\ PowerLoss => AllSafe' /\ VisibleIsAlt' /\ Progress'
<1> SUFFICES ASSUME AckInv, PowerLoss PROVE AllSafe' /\ VisibleIsAlt' /\ Progress'
  OBVIOUS
<1>1. TypeOK /\ AltsSafe
  BY DEF AckInv, AllSafe
<1>2. \A r \in Request : answer'[r] = "ok" => answer[r] = "ok"
  BY <1>1 DEF PowerLoss, Stop, TypeOK
<1>3. pc' = "down" /\ dirty' = FALSE
  BY DEF PowerLoss, Stop
<1>4. /\ journal' \in journalAlt /\ journalAlt' = {journal'}
      /\ audit' \in auditAlt /\ auditAlt' = {audit'}
      /\ \A m \in Match : review'[m] \in reviewAlt[m] /\ reviewAlt'[m] = {review'[m]}
  BY DEF PowerLoss
<1>5. VisibleIsAlt'
  BY <1>4 DEF VisibleIsAlt
<1>6. \A m \in Match : \A d \in reviewAlt'[m] : DocSafe(m, d)'
  <2>1. SUFFICES ASSUME NEW m \in Match PROVE DocSafe(m, review[m])'
    BY <1>4
  <2>2. review'[m] \in Doc /\ DocSafe(m, review'[m])
    BY <1>1, <1>4 DEF TypeOK, AltsSafe
  <2>3. AckedOf(m)' \subseteq AckedOf(m)
    BY <1>2 DEF AckedOf
  <2>4. QED BY <2>2, <2>3 DEF DocSafe
<1>7. \A log \in auditAlt' : LogSafe(log)'
  <2>1. audit' \in Log /\ LogSafe(audit')
    BY <1>1, <1>4 DEF TypeOK, AltsSafe
  <2>2. \A m \in Match : AckedOf(m)' \subseteq AckedOf(m)
    BY <1>2 DEF AckedOf
  <2>3. LogSafe(audit)'
    BY <2>1, <2>2 DEF LogSafe, Logged
  <2>4. QED BY <2>3, <1>4
<1>8. \A t \in journalAlt' \ {NoTx} : TxSafe(t)'
  <2>1. SUFFICES ASSUME journal' # NoTx PROVE TxSafe(journal)'
    BY <1>4
  <2>2. journal' \in Tx /\ TxSafe(journal')
    BY <1>1, <1>4, <2>1 DEF TypeOK, AltsSafe
  <2>3. \A m \in Match : AckedOf(m)' \subseteq AckedOf(m)
    BY <1>2 DEF AckedOf
  <2>4. journal'.match \in Match
    BY <2>2 DEF Tx
  <2>5. QED BY <2>2, <2>3, <2>4 DEF TxSafe, DocSafe, LogSafe, Logged
<1>9. AllSafe'
  BY <1>3, <1>6, <1>7, <1>8 DEF AllSafe, AltsSafe, FileSteps, CommitSteps, UndoSteps
<1>10. Progress'
  BY <1>3 DEF Progress, FileSteps, CommitSteps, UndoSteps
<1>11. QED BY <1>5, <1>9, <1>10

LEMMA AckNext == AckInv /\ [Next]_vars => AckInv'
<1> SUFFICES ASSUME AckInv, [Next]_vars PROVE AllSafe' /\ VisibleIsAlt' /\ Progress'
  BY TypeNext DEF AckInv
<1>0. TypeOK /\ Promoting /\ AllSafe /\ AltsSafe /\ VisibleIsAlt /\ Progress
  BY DEF AckInv, AllSafe
<1> DEFINE Kept == \A r \in Request : answer'[r] = "ok" => answer[r] = "ok"
\* Steps that touch no file, acknowledge nothing and are not, or no longer,
\* file operations.
<1>1. ASSUME UNCHANGED <<files, alts>>, Kept, dirty' = FALSE,
             pc' \in {"down", "idle", "recover", "load", "failed"}
      PROVE  AllSafe' /\ VisibleIsAlt' /\ Progress'
  <2>1. AltsSafe' /\ VisibleIsAlt'
    BY <1>0, <1>1, QuietSafe
  <2>2. pc' \notin FileSteps
    BY <1>1 DEF FileSteps, CommitSteps, UndoSteps
  <2>3. QED BY <1>1, <2>1, <2>2 DEF AllSafe, Progress, FileSteps, CommitSteps
\* Steps that lead to a file operation other than the rest of a commit.
<1>2. ASSUME UNCHANGED <<files, alts>>, Kept, dirty' = FALSE, TxSafe(tx'), tx' \in Tx,
             \/ pc' \in UndoSteps
             \/ pc' = "prepare" /\ tx'.match = MatchOf[call']
      PROVE  AllSafe' /\ VisibleIsAlt' /\ Progress'
  <2>1. AltsSafe' /\ VisibleIsAlt'
    BY <1>0, <1>2, QuietSafe
  <2>2. TxSafe(tx)'
    <3>1. \A m \in Match : AckedOf(m)' \subseteq AckedOf(m)
      BY <1>2 DEF AckedOf
    <3>2. tx'.match \in Match
      BY <1>2 DEF Tx
    <3>3. QED BY <1>2, <3>1, <3>2 DEF TxSafe, DocSafe, LogSafe, Logged
  <2>3. QED BY <1>2, <2>1, <2>2 DEF AllSafe, Progress, UndoSteps, CommitSteps
<1>3. pc \notin FileSteps => dirty = FALSE
  BY <1>0 DEF Progress, TypeOK
<1>4. ASSUME NEW r \in Request, Start(r) PROVE AllSafe' /\ VisibleIsAlt' /\ Progress'
  BY <1>1, <1>3, <1>4 DEF Start, FileSteps, CommitSteps, UndoSteps
<1>5. CASE Reopen
  BY <1>1, <1>3, <1>5 DEF Reopen, FileSteps, CommitSteps, UndoSteps
<1>6. CASE RecoverNothing
  BY <1>1, <1>3, <1>6 DEF RecoverNothing, FileSteps, CommitSteps, UndoSteps
<1>7. CASE RecoverPrepared
  <2>1. tx' \in Tx /\ TxSafe(tx')
    BY <1>0, <1>7 DEF RecoverPrepared, TypeOK, VisibleIsAlt, AltsSafe
  <2>2. dirty' = FALSE
    BY <1>3, <1>7 DEF RecoverPrepared, FileSteps, CommitSteps, UndoSteps
  <2>3. UNCHANGED <<files, alts>> /\ Kept /\ pc' \in UndoSteps
    BY <1>7 DEF RecoverPrepared, UndoSteps
  <2>4. QED BY <1>2, <2>1, <2>2, <2>3
<1>8. CASE Opened
  BY <1>0, <1>1, <1>3, <1>8 DEF Opened, Finish, TypeOK, FileSteps, CommitSteps, UndoSteps
<1>9. CASE Refuse
  BY <1>0, <1>1, <1>3, <1>9 DEF Refuse, Finish, TypeOK, FileSteps, CommitSteps, UndoSteps
<1>10. CASE Begin
  <2>1. call \in Request /\ MatchOf[call] \in Match
    BY <1>0, <1>10, ConstantsAssumption DEF Begin, TypeOK
  <2>2. /\ tx'.match = MatchOf[call] /\ tx'.review = review[MatchOf[call]]
        /\ tx'.audit = audit /\ tx' \in Tx
    BY <1>0, <1>10, <2>1 DEF Begin, TypeOK, Tx
  <2>3. TxSafe(tx')
    BY <1>0, <2>1, <2>2 DEF VisibleIsAlt, AltsSafe, TxSafe
  <2>4. dirty' = FALSE
    BY <1>3, <1>10 DEF Begin, FileSteps, CommitSteps, UndoSteps
  <2>5. UNCHANGED <<files, alts>> /\ Kept /\ pc' = "prepare" /\ call' = call
    BY <1>10 DEF Begin
  <2>6. QED BY <1>2, <2>2, <2>3, <2>4, <2>5
<1>11. CASE Change
  BY <1>11, AckChange
<1>12. CASE Sync
  BY <1>12, AckSync
<1>13. CASE SkipRemove
  <2>1. TxSafe(tx) /\ tx \in Tx
    BY <1>0, <1>13 DEF SkipRemove, AllSafe, TypeOK
  <2>2. pc \in UndoSteps
    BY <1>0, <1>13 DEF SkipRemove, NothingToRemove, Progress, UndoSteps
  <2>3. /\ UNCHANGED <<files, alts>> /\ Kept /\ dirty' = FALSE /\ tx' = tx
        /\ pc' \in UndoSteps \cup {"load", "failed"}
    BY <1>0, <1>13, <2>2 DEF SkipRemove, OnOk, UndoSteps, TypeOK
  <2>4. QED BY <1>1, <1>2, <2>1, <2>3
<1>14. ASSUME pc \in FileSteps, pc' = OnFail(pc), dirty' = FALSE,
              UNCHANGED <<files, alts, tx, answer>>
       PROVE  AllSafe' /\ VisibleIsAlt' /\ Progress'
  <2>1. TxSafe(tx) /\ tx \in Tx
    BY <1>0, <1>14 DEF AllSafe, TypeOK
  <2>2. pc' \in {"undo_review", "failed"} /\ Kept
    BY <1>14 DEF OnFail
  <2>3. QED BY <1>1, <1>2, <1>14, <2>1, <2>2 DEF UndoSteps
<1>15. CASE ChangeFails
  BY <1>0, <1>14, <1>15 DEF ChangeFails, TypeOK
<1>16. CASE SyncFails
  BY <1>14, <1>16 DEF SyncFails
<1>17. CASE Reply
  <2>1. call \in Request /\ pc = "reply" /\ pc' = "idle"
    BY <1>0, <1>17 DEF Reply, Promoting
  <2>2. /\ \A log \in auditAlt : InLog(log)
        /\ \A d \in reviewAlt[MatchOf[call]] : call \in d
        /\ journalAlt = {NoTx}
    BY <1>0, <2>1 DEF Progress
  <2>3. answer' = [answer EXCEPT ![call] = "ok"] /\ UNCHANGED <<files, alts, dirty, tx>>
    BY <1>17, <2>1, ConstantsAssumption DEF Reply, Finish
  <2>4. \A m \in Match : AckedOf(m)' \subseteq
            AckedOf(m) \cup (IF m = MatchOf[call] THEN {call} ELSE {})
    BY <1>0, <2>1, <2>3 DEF AckedOf, TypeOK
  <2>5. \A m \in Match : \A d \in reviewAlt'[m] : DocSafe(m, d)'
    <3>1. SUFFICES ASSUME NEW m \in Match, NEW d \in reviewAlt[m] PROVE DocSafe(m, d)'
      BY <2>3 DEF alts
    <3>2. AckedOf(m) \subseteq d
      BY <1>0 DEF AltsSafe, DocSafe
    <3>3. QED BY <2>2, <2>4, <3>2 DEF DocSafe
  <2>6. \A log \in auditAlt' : LogSafe(log)'
    <3>1. SUFFICES ASSUME NEW log \in auditAlt, NEW m \in Match
                   PROVE  AckedOf(m)' \subseteq Logged(log, m)
      BY <2>3 DEF alts, LogSafe, Logged
    <3>2. AckedOf(m) \subseteq Logged(log, m)
      BY <1>0 DEF AltsSafe, LogSafe
    <3>3. QED BY <2>2, <2>4, <3>2 DEF InLog
  <2>7. \A t \in journalAlt' \ {NoTx} : TxSafe(t)'
    BY <2>2, <2>3 DEF alts
  <2>8. pc' \notin FileSteps
    BY <2>1 DEF FileSteps, CommitSteps, UndoSteps
  <2>9. AllSafe'
    BY <2>5, <2>6, <2>7, <2>8 DEF AllSafe, AltsSafe
  <2>10. VisibleIsAlt'
    BY <1>0, <2>3 DEF VisibleIsAlt, files, alts
  <2>11. Progress'
    <3>1. dirty = FALSE
      BY <1>3, <2>1 DEF FileSteps, CommitSteps, UndoSteps
    <3>2. QED BY <2>1, <2>3, <3>1 DEF Progress, CommitSteps
  <2>12. QED BY <2>9, <2>10, <2>11
<1>18. CASE Fail
  BY <1>0, <1>1, <1>3, <1>18 DEF Fail, Finish, TypeOK, FileSteps, CommitSteps, UndoSteps
<1>19. CASE Kill
  <2>1. Kept
    BY <1>0, <1>19 DEF Kill, Stop, TypeOK
  <2>2. QED BY <1>1, <1>19, <2>1 DEF Kill, Stop
<1>20. CASE PowerLoss
  BY <1>20, AckPowerLoss
<1>21. CASE UNCHANGED vars
  <2>1. UNCHANGED <<files, alts, pc, dirty, call, tx, answer>>
    BY <1>21 DEF vars
  <2>2. AltsSafe' /\ VisibleIsAlt'
    BY <1>0, <2>1, QuietSafe
  <2>3. AllSafe'
    BY <1>0, <2>1, <2>2 DEF AllSafe, TxSafe, DocSafe, LogSafe, AckedOf, Logged
  <2>4. Progress'
    BY <1>0, <2>1 DEF Progress, files, alts, InLog, Logged
  <2>5. QED BY <2>2, <2>3, <2>4
<1>22. QED
  BY <1>4, <1>5, <1>6, <1>7, <1>8, <1>9, <1>10, <1>11, <1>12, <1>13, <1>15,
     <1>16, <1>17, <1>18, <1>19, <1>20, <1>21 DEF Next, Step

\* A mutation answered with success stays in the document and in the log.
THEOREM AcknowledgedSurvive == Spec => []AckedNeverLost
<1>1. AckInv => AckedNeverLost
  <2>1. SUFFICES ASSUME AckInv, NEW r \in Request, answer[r] = "ok"
                 PROVE  /\ r \in EffectiveReview[MatchOf[r]]
                        /\ r \in Logged(EffectiveAudit, MatchOf[r])
    BY DEF AckedNeverLost
  <2>2. MatchOf[r] \in Match /\ r \in AckedOf(MatchOf[r])
    BY <2>1, ConstantsAssumption DEF AckedOf
  <2>3. TypeOK /\ AltsSafe /\ VisibleIsAlt
    BY <2>1 DEF AckInv, AllSafe
  <2>4. r \in review[MatchOf[r]] /\ r \in Logged(audit, MatchOf[r])
    BY <2>2, <2>3 DEF AltsSafe, VisibleIsAlt, DocSafe, LogSafe
  <2>5. CASE journal = NoTx
    BY <2>4, <2>5 DEF EffectiveReview, EffectiveAudit
  <2>6. CASE journal # NoTx
    <3>1. TxSafe(journal)
      BY <2>3, <2>6 DEF AltsSafe, VisibleIsAlt
    <3>2. /\ r \in Logged(journal.audit, MatchOf[r])
          /\ journal.match = MatchOf[r] => r \in journal.review
      BY <2>2, <3>1 DEF TxSafe, DocSafe, LogSafe
    <3>3. r \in EffectiveReview[MatchOf[r]]
      BY <2>2, <2>3, <2>4, <2>6, <3>2 DEF EffectiveReview, TypeOK
    <3>4. QED BY <2>6, <3>2, <3>3 DEF EffectiveAudit
  <2>7. QED BY <2>5, <2>6
<1>2. QED BY AckInit, AckNext, <1>1, PTL DEF Spec

-----------------------------------------------------------------------------
(* Documents and log never part, and the store implements the ledger, when *)
(* crashes are kills and the fsync that follows an unlink does not fail.   *)

KillOnly == "power" \notin CrashKinds /\ ~ UnlinkSyncMayFail

\* Which of the two contents each file has at each step of a transaction.
Stage ==
    LET shown == review[tx.match]
        newDoc == tx.review \cup {call}
        newLog == Append(tx.audit, [match |-> tx.match, request |-> call])
    IN
    /\ pc \in CommitSteps => tx.match = MatchOf[call]
    /\ pc = "prepare" => /\ journal = (IF dirty THEN tx ELSE NoTx)
                         /\ audit = tx.audit /\ shown = tx.review
    /\ pc = "audit"   => /\ journal = tx
                         /\ audit = (IF dirty THEN newLog ELSE tx.audit)
                         /\ shown = tx.review
    /\ pc = "review"  => /\ journal = tx
                         /\ audit = newLog
                         /\ shown = (IF dirty THEN newDoc ELSE tx.review)
    /\ pc = "unlink"  => /\ journal = (IF dirty THEN NoTx ELSE tx)
                         /\ audit = newLog /\ shown = newDoc
    /\ pc = "undo_review" => /\ journal = tx
                             /\ dirty => shown = tx.review
    /\ pc = "undo_audit"  => /\ journal = tx
                             /\ dirty => audit = tx.audit
                             /\ shown = tx.review
    /\ pc = "undo_unlink" => /\ journal = (IF dirty THEN NoTx ELSE tx)
                             /\ audit = tx.audit /\ shown = tx.review
    /\ pc \in {"load", "reply"} => journal = NoTx
    /\ dirty => pc \in FileSteps

\* The commit point has passed but the caller has not been answered.
Committed == pc = "reply" \/ (pc = "unlink" /\ dirty)

\* A request without an answer is recorded only past its commit point.
Answered ==
    /\ \A r \in Request : answer[r] = "none" /\ r \in EffectiveReview[MatchOf[r]]
                              => r = call /\ Committed
    /\ Committed => call \in EffectiveReview[MatchOf[call]]
    /\ pc \notin {"idle", "down"} /\ call \in Request => answer[call] = "none"

SplitInv ==
    /\ TypeOK /\ Promoting /\ Stage /\ Answered
    /\ Agree(EffectiveAudit, EffectiveReview)

LEMMA SplitInit == Init => SplitInv
<1> SUFFICES ASSUME Init PROVE SplitInv
  OBVIOUS
<1>1. TypeOK /\ Promoting
  BY TypeInit
<1>2. Stage
  BY DEF Init, Stage, FileSteps, CommitSteps, UndoSteps
<1>3. EffectiveAudit = <<>> /\ \A m \in Match : EffectiveReview[m] = {}
  BY DEF Init, EffectiveAudit, EffectiveReview
<1>4. Answered
  BY <1>3, ConstantsAssumption DEF Init, Answered, Committed
<1>5. Agree(EffectiveAudit, EffectiveReview)
  BY <1>3 DEF Agree, Logged
<1>6. QED BY <1>1, <1>2, <1>4, <1>5 DEF SplitInv

\* The commit point: the request enters both effective contents at once.
CommitPoint ==
    /\ pc = "unlink" /\ ~ dirty /\ dirty' /\ UNCHANGED <<pc, call, answer>>
    /\ EffectiveReview' = [EffectiveReview EXCEPT ![MatchOf[call]] = @ \cup {call}]
    /\ EffectiveAudit' = Append(EffectiveAudit, [match |-> MatchOf[call], request |-> call])

Unmoved == EffectiveReview' = EffectiveReview /\ EffectiveAudit' = EffectiveAudit

\* A file operation leaves the stage its step promises, and moves the
\* effective contents only where it removes the journal of a commit.
LEMMA SplitChange ==
    ASSUME SplitInv, Change
    PROVE  Stage' /\ (CommitPoint \/ (Unmoved /\ pc # "unlink"))
<1>1. /\ pc \in FileSteps /\ ~ dirty /\ dirty' = TRUE
      /\ UNCHANGED <<pc, call, tx, recovering, answer>>
  BY DEF Change
<1>2. /\ TypeOK /\ Promoting /\ Stage
  BY DEF SplitInv
<1>3. /\ tx.match \in Match /\ tx \in Tx /\ tx # NoTx
      /\ review \in [Match -> Doc]
  BY <1>2, NoTxAssumption DEF TypeOK, Tx
<1>4. CASE pc = "prepare"
  <2>1. journal' = tx /\ UNCHANGED <<audit, review>>
    BY <1>4 DEF Change, JournalSteps, AuditSteps, ReviewSteps, NewJournal
  <2>2. Stage'
    BY <1>1, <1>2, <1>4, <2>1 DEF Stage, CommitSteps
  <2>3. Unmoved
    BY <1>1, <1>2, <1>3, <1>4, <2>1
    DEF Stage, Unmoved, EffectiveReview, EffectiveAudit
  <2>4. QED BY <1>4, <2>2, <2>3
<1>5. CASE pc \in {"audit", "undo_audit"}
  <2>1. audit' = NewAudit /\ UNCHANGED <<journal, review>>
    BY <1>5 DEF Change, JournalSteps, AuditSteps, ReviewSteps
  <2>2. Stage'
    BY <1>1, <1>2, <1>5, <2>1 DEF Stage, CommitSteps, NewAudit
  <2>3. Unmoved
    BY <1>1, <1>2, <1>3, <1>5, <2>1
    DEF Stage, Unmoved, EffectiveReview, EffectiveAudit
  <2>4. QED BY <1>5, <2>2, <2>3
<1>6. CASE pc \in {"review", "undo_review"}
  <2>1. review' = [review EXCEPT ![tx.match] = NewReview] /\ UNCHANGED <<journal, audit>>
    BY <1>6 DEF Change, JournalSteps, AuditSteps, ReviewSteps
  <2>2. review'[tx.match] = NewReview
    BY <2>1, <1>3
  <2>3. Stage'
    BY <1>1, <1>2, <1>6, <2>1, <2>2 DEF Stage, CommitSteps, NewReview
  <2>4. journal = tx
    BY <1>2, <1>6 DEF Stage
  <2>5. Unmoved
    BY <1>3, <2>1, <2>4 DEF Unmoved, EffectiveReview, EffectiveAudit
  <2>6. QED BY <1>6, <2>3, <2>5
<1>7. CASE pc = "unlink"
  <2>1. journal' = NoTx /\ UNCHANGED <<audit, review>>
    BY <1>7 DEF Change, JournalSteps, AuditSteps, ReviewSteps, NewJournal
  <2>2. Stage'
    BY <1>1, <1>2, <1>7, <2>1 DEF Stage, CommitSteps
  <2>3. /\ journal = tx /\ tx.match = MatchOf[call]
        /\ audit = Append(tx.audit, [match |-> tx.match, request |-> call])
        /\ review[tx.match] = tx.review \cup {call}
    BY <1>1, <1>2, <1>7 DEF Stage, CommitSteps
  <2>4. EffectiveAudit' = Append(EffectiveAudit, [match |-> MatchOf[call], request |-> call])
    BY <1>3, <2>1, <2>3 DEF EffectiveAudit
  <2>5. EffectiveReview' = [EffectiveReview EXCEPT ![MatchOf[call]] = @ \cup {call}]
    BY <1>3, <2>1, <2>3 DEF EffectiveReview
  <2>6. QED BY <1>1, <1>7, <2>2, <2>4, <2>5 DEF CommitPoint
<1>8. CASE pc = "undo_unlink"
  <2>1. journal' = NoTx /\ UNCHANGED <<audit, review>>
    BY <1>8 DEF Change, JournalSteps, AuditSteps, ReviewSteps, NewJournal
  <2>2. Stage'
    BY <1>1, <1>2, <1>8, <2>1 DEF Stage, CommitSteps
  <2>3. Unmoved
    BY <1>1, <1>2, <1>3, <1>8, <2>1
    DEF Stage, Unmoved, EffectiveReview, EffectiveAudit
  <2>4. QED BY <1>8, <2>2, <2>3
<1>9. QED
  BY <1>1, <1>4, <1>5, <1>6, <1>7, <1>8 DEF FileSteps, CommitSteps, UndoSteps

\* Every other step leaves the files, and so the effective contents, alone.
LEMMA SplitQuiet ==
    ASSUME KillOnly, SplitInv, [Next]_vars, ~ Change
    PROVE  Stage' /\ UNCHANGED files /\ Unmoved
<1> USE DEF FileSteps, CommitSteps, UndoSteps
<1>0. SUFFICES Stage' /\ UNCHANGED files
  BY DEF Unmoved, EffectiveReview, EffectiveAudit, files
<1>1. TypeOK /\ Promoting /\ Stage
  BY DEF SplitInv
<1>2. tx \in Tx /\ tx.match \in Match /\ review \in [Match -> Doc]
  BY <1>1 DEF TypeOK, Tx
<1>3. ASSUME NEW r \in Request, Start(r) PROVE Stage' /\ UNCHANGED files
  BY <1>1, <1>3 DEF Start, Stage, files
<1>4. CASE Reopen
  BY <1>1, <1>4 DEF Reopen, Stage, files
<1>5. CASE RecoverNothing
  BY <1>1, <1>5 DEF RecoverNothing, Stage, files
<1>6. CASE RecoverPrepared
  BY <1>1, <1>6 DEF RecoverPrepared, Stage, files
<1>7. CASE Opened
  BY <1>1, <1>7 DEF Opened, Finish, Stage, files
<1>8. CASE Refuse
  BY <1>1, <1>8 DEF Refuse, Finish, Stage, files
<1>9. CASE Begin
  <2>1. tx' = [match |-> MatchOf[call], review |-> review[MatchOf[call]], audit |-> audit]
    BY <1>9 DEF Begin
  <2>2. QED BY <1>1, <1>9, <2>1 DEF Begin, Stage, files
<1>10. CASE Sync
  <2>1. UNCHANGED files /\ dirty /\ ~ dirty' /\ pc' = OnOk(pc)
        /\ UNCHANGED <<call, tx, recovering>> /\ pc \in FileSteps
    BY <1>10 DEF Sync
  <2>2. UNCHANGED <<journal, audit, review>>
    BY <2>1 DEF files
  <2>3. Stage'
    BY <1>1, <2>1, <2>2 DEF Stage, OnOk
  <2>4. QED BY <2>1, <2>3
<1>11. CASE SkipRemove
  <2>1. /\ pc \in {"undo_review", "undo_audit"} /\ ~ dirty
        /\ pc = "undo_review" => review[tx.match] = tx.review
        /\ pc = "undo_audit" => audit = tx.audit
    BY <1>1, <1>2, <1>11, NoTxAssumption DEF SkipRemove, NothingToRemove, Stage
  <2>2. UNCHANGED <<journal, audit, review, call, tx, dirty>> /\ pc' = OnOk(pc)
    BY <1>11 DEF SkipRemove, files
  <2>3. Stage'
    BY <1>1, <2>1, <2>2 DEF Stage, OnOk
  <2>4. QED BY <2>2, <2>3 DEF files
<1>12. CASE ChangeFails
  <2>1. /\ pc \in FileSteps /\ ~ dirty /\ ~ dirty' /\ pc' = OnFail(pc)
        /\ UNCHANGED <<journal, audit, review, call, tx>>
    BY <1>12 DEF ChangeFails, files
  <2>2. Stage'
    BY <1>1, <2>1 DEF Stage, OnFail
  <2>3. QED BY <2>1, <2>2 DEF files
<1>13. CASE SyncFails
  <2>1. /\ pc \in FileSteps /\ dirty /\ ~ dirty' /\ pc' = OnFail(pc) /\ ~ Removes
        /\ UNCHANGED <<journal, audit, review, call, tx>>
    BY <1>13 DEF SyncFails, files, KillOnly
  <2>2. pc \notin {"unlink", "undo_unlink"}
    BY <2>1 DEF Removes
  <2>3. Stage'
    BY <1>1, <2>1, <2>2 DEF Stage, OnFail
  <2>4. QED BY <2>1, <2>3 DEF files
<1>14. CASE Reply
  BY <1>1, <1>14 DEF Reply, Finish, Stage, files
<1>15. CASE Fail
  BY <1>1, <1>15 DEF Fail, Finish, Stage, files
<1>16. CASE Kill
  BY <1>1, <1>16 DEF Kill, Stop, Stage, files
<1>17. ~ PowerLoss
  BY DEF PowerLoss, KillOnly
<1>18. CASE UNCHANGED vars
  BY <1>1, <1>18 DEF vars, files, Stage
<1>19. QED
  BY <1>3, <1>4, <1>5, <1>6, <1>7, <1>8, <1>9, <1>10, <1>11, <1>12, <1>13, <1>14,
     <1>15, <1>16, <1>17, <1>18 DEF Next, Step

LEMMA SplitNext ==
    ASSUME KillOnly, SplitInv, [Next]_vars
    PROVE  SplitInv' /\ [Ledger!Next]_Ledger!vars
<1> USE ConstantsAssumption
<1>1. TypeOK /\ Promoting /\ Stage /\ Answered /\ Agree(EffectiveAudit, EffectiveReview)
  BY DEF SplitInv
<1>2. TypeOK' /\ Promoting'
  BY <1>1, TypeNext
<1>3. /\ EffectiveReview \in [Match -> Doc] /\ EffectiveAudit \in Log
  <2>1. CASE journal = NoTx
    BY <1>1, <2>1 DEF EffectiveReview, EffectiveAudit, TypeOK
  <2>2. CASE journal # NoTx
    BY <1>1, <2>2 DEF EffectiveReview, EffectiveAudit, TypeOK, Tx
  <2>3. QED BY <2>1, <2>2
<1>4. CASE Change /\ CommitPoint
  <2>1. Stage'
    BY <1>4, SplitChange
  <2>2. call \in Request /\ MatchOf[call] \in Match
    BY <1>1, <1>4 DEF CommitPoint, Promoting
  <2>3. answer[call] = "none"
    BY <1>1, <1>4, <2>2 DEF CommitPoint, Answered
  <2>4. call \notin EffectiveReview[MatchOf[call]]
    BY <1>1, <1>4, <2>2, <2>3 DEF CommitPoint, Answered, Committed
  <2>5. /\ EffectiveReview' = [EffectiveReview EXCEPT ![MatchOf[call]] = @ \cup {call}]
        /\ EffectiveAudit' = Append(EffectiveAudit, [match |-> MatchOf[call], request |-> call])
        /\ UNCHANGED <<pc, call, answer>> /\ pc = "unlink" /\ dirty'
    BY <1>4 DEF CommitPoint
  <2>6. \A r \in Request : r # call => (r \in EffectiveReview'[MatchOf[r]]
                                            => r \in EffectiveReview[MatchOf[r]])
    BY <1>3, <2>2, <2>5
  <2>7. call \in EffectiveReview'[MatchOf[call]]
    BY <1>3, <2>2, <2>5
  <2>8. Answered'
    BY <1>1, <1>4, <2>5, <2>6, <2>7 DEF Answered, Committed, CommitPoint
  <2>9. Agree(EffectiveAudit, EffectiveReview)'
    <3>1. SUFFICES ASSUME NEW m \in Match
                   PROVE  EffectiveReview'[m] = Logged(EffectiveAudit', m)
      BY DEF Agree, Logged
    <3>2. Logged(EffectiveAudit', m) =
            Logged(EffectiveAudit, m) \cup (IF MatchOf[call] = m THEN {call} ELSE {})
      BY <1>3, <2>2, <2>5, LoggedAppend
    <3>3. EffectiveReview[m] = Logged(EffectiveAudit, m)
      BY <1>1 DEF Agree
    <3>4. QED BY <1>3, <2>2, <2>5, <3>2, <3>3
  <2>10. Ledger!Commit(call)
    BY <2>3, <2>4, <2>5 DEF Ledger!Commit, Ledger!Recorded
  <2>11. QED BY <1>2, <2>1, <2>2, <2>8, <2>9, <2>10 DEF SplitInv, Ledger!Next
<1>5. CASE ~ (Change /\ CommitPoint)
  <2>1. Stage' /\ Unmoved /\ (Change => pc # "unlink")
    BY <1>5, SplitChange, SplitQuiet
  <2>2. Agree(EffectiveAudit, EffectiveReview)'
    BY <1>1, <2>1 DEF Agree, Logged, Unmoved
  \* No caller is answered.
  <2>3. ASSUME UNCHANGED answer, Answered' PROVE SplitInv' /\ [Ledger!Next]_Ledger!vars
    BY <1>2, <2>1, <2>2, <2>3 DEF SplitInv, Unmoved, Ledger!vars
  \* The caller of the running request is answered and the call is over.
  <2>4. ASSUME call \in Request, pc \notin {"idle", "down"}, pc' \in {"idle", "down"},
               UNCHANGED call,
               NEW a \in Answers \ {"none"}, answer' = [answer EXCEPT ![call] = a],
               a = "ok" => Committed,
               a \in {"error", "refused"} => ~ Committed
        PROVE  SplitInv' /\ [Ledger!Next]_Ledger!vars
    <3>1. answer[call] = "none" /\ answer \in [Request -> Answers]
      BY <1>1, <2>4 DEF Answered, TypeOK
    <3>2. call \in EffectiveReview[MatchOf[call]] <=> Committed
      BY <1>1, <2>4, <3>1 DEF Answered
    <3>3. \A r \in Request : answer'[r] = "none" => answer[r] = "none" /\ r # call
      BY <2>4, <3>1
    <3>4. ~ Committed'
      BY <2>4 DEF Committed
    <3>5. Answered'
      BY <1>1, <2>1, <2>4, <3>3, <3>4 DEF Answered, Unmoved
    <3>6. Ledger!Tell(call, a)
      BY <2>1, <2>4, <3>1, <3>2 DEF Ledger!Tell, Ledger!Recorded, Unmoved
    <3>7. a \in Ledger!Answers \ {"none"}
      BY <2>4 DEF Ledger!Answers, Answers
    <3>8. QED BY <1>2, <2>1, <2>2, <2>4, <3>5, <3>6, <3>7 DEF SplitInv, Ledger!Next
  \* The call goes on, before or after its commit point.
  <2>5. ASSUME UNCHANGED <<answer, call>>, Committed' <=> Committed,
               pc \notin {"idle", "down"} \/ call = Boot \/ pc' \in {"idle", "down"}
        PROVE  Answered'
    BY <1>1, <2>1, <2>5 DEF Answered, Unmoved
  <2>6. ASSUME NEW r \in Request, Start(r) PROVE SplitInv' /\ [Ledger!Next]_Ledger!vars
    <3>1. ~ Committed /\ ~ Committed' /\ answer' = answer /\ answer[r] = "none" /\ call' = r
      BY <2>6 DEF Start, Committed
    <3>2. Answered'
      BY <1>1, <2>1, <3>1 DEF Answered, Unmoved
    <3>3. QED BY <2>3, <3>1, <3>2
  <2>7. CASE Reopen
    <3>1. ~ Committed /\ ~ Committed' /\ answer' = answer /\ call' = Boot
      BY <2>7 DEF Reopen, Committed
    <3>2. Answered'
      BY <1>1, <2>1, <3>1 DEF Answered, Unmoved
    <3>3. QED BY <2>3, <3>1, <3>2
  <2>8. CASE RecoverNothing \/ RecoverPrepared \/ Opened \/ Begin
    <3>1. UNCHANGED <<answer, call>>
      BY <2>8 DEF RecoverNothing, RecoverPrepared, Opened, Begin, Finish
    <3>2. ~ Committed /\ ~ Committed'
      BY <2>8 DEF RecoverNothing, RecoverPrepared, Opened, Begin, Committed
    <3>3. pc \notin {"idle", "down"}
      BY <2>8 DEF RecoverNothing, RecoverPrepared, Opened, Begin
    <3>4. QED BY <2>3, <2>5, <3>1, <3>2, <3>3
  <2>9. CASE Change
    <3>1. UNCHANGED <<answer, call, pc>> /\ pc \notin {"idle", "down"}
      BY <2>9 DEF Change, FileSteps, CommitSteps, UndoSteps
    <3>2. Committed' <=> Committed
      BY <2>1, <2>9, <3>1 DEF Committed
    <3>3. QED BY <2>3, <2>5, <3>1, <3>2
  <2>10. CASE Sync
    <3>1. /\ UNCHANGED <<answer, call>> /\ pc \notin {"idle", "down"}
          /\ dirty /\ ~ dirty' /\ pc' = OnOk(pc) /\ pc \in FileSteps
      BY <2>10 DEF Sync, FileSteps, CommitSteps, UndoSteps
    <3>2. Committed' <=> Committed
      BY <3>1 DEF Committed, OnOk, FileSteps, CommitSteps, UndoSteps
    <3>3. QED BY <2>3, <2>5, <3>1, <3>2
  <2>11. CASE SkipRemove
    <3>1. /\ UNCHANGED <<answer, call>> /\ pc \notin {"idle", "down"}
          /\ ~ dirty /\ ~ dirty' /\ pc' = OnOk(pc) /\ pc \in UndoSteps
      BY <1>1, <2>11, NoTxAssumption
      DEF SkipRemove, NothingToRemove, Stage, TypeOK, FileSteps, CommitSteps, UndoSteps
    <3>2. Committed' <=> Committed
      BY <3>1 DEF Committed, OnOk, UndoSteps
    <3>3. QED BY <2>3, <2>5, <3>1, <3>2
  <2>12. CASE ChangeFails
    <3>1. /\ UNCHANGED <<answer, call>> /\ pc \notin {"idle", "down"}
          /\ ~ dirty /\ ~ dirty' /\ pc' = OnFail(pc) /\ pc \in FileSteps
      BY <2>12 DEF ChangeFails, FileSteps, CommitSteps, UndoSteps
    <3>2. Committed' <=> Committed
      BY <3>1 DEF Committed, OnFail, FileSteps, CommitSteps, UndoSteps
    <3>3. QED BY <2>3, <2>5, <3>1, <3>2
  <2>13. CASE SyncFails
    <3>1. /\ UNCHANGED <<answer, call>> /\ pc \notin {"idle", "down"}
          /\ ~ dirty' /\ pc' = OnFail(pc) /\ pc \in FileSteps /\ pc # "unlink"
      BY <2>13 DEF SyncFails, FileSteps, CommitSteps, UndoSteps, Removes, KillOnly
    <3>2. Committed' <=> Committed
      BY <3>1 DEF Committed, OnFail, FileSteps, CommitSteps, UndoSteps
    <3>3. QED BY <2>3, <2>5, <3>1, <3>2
  <2>14. CASE Refuse
    <3>1. call \in Request /\ ~ Committed
      BY <1>1, <2>14 DEF Refuse, TypeOK, Committed
    <3>2. /\ pc \notin {"idle", "down"} /\ pc' \in {"idle", "down"} /\ UNCHANGED call
          /\ answer' = [answer EXCEPT ![call] = "refused"]
      BY <2>14, <3>1 DEF Refuse, Finish
    <3>3. "refused" \in Answers \ {"none"} /\ "refused" # "ok"
      BY DEF Answers
    <3>4. QED BY <2>4, <3>1, <3>2, <3>3
  <2>15. CASE Reply
    <3>1. call \in Request /\ Committed
      BY <1>1, <2>15 DEF Reply, Promoting, Committed
    <3>2. /\ pc \notin {"idle", "down"} /\ pc' \in {"idle", "down"} /\ UNCHANGED call
          /\ answer' = [answer EXCEPT ![call] = "ok"]
      BY <2>15, <3>1 DEF Reply, Finish
    <3>3. QED BY <2>4, <3>1, <3>2 DEF Answers
  <2>16. CASE Fail
    <3>1. ~ Committed /\ ~ Committed' /\ UNCHANGED call
          /\ pc \notin {"idle", "down"} /\ pc' \in {"idle", "down"}
      BY <2>16 DEF Fail, Finish, Committed
    <3>2. CASE call = Boot
      <4>1. answer' = answer
        BY <2>16, <3>2 DEF Fail, Finish
      <4>2. QED BY <2>3, <2>5, <3>1, <4>1
    <3>3. CASE call # Boot
      <4>1. call \in Request
        BY <1>1, <3>3 DEF TypeOK
      <4>2. answer' = [answer EXCEPT ![call] = "error"]
        BY <2>16, <3>3 DEF Fail, Finish
      <4>3. "error" \in Answers \ {"none"} /\ "error" # "ok"
        BY DEF Answers
      <4>4. QED BY <2>4, <3>1, <4>1, <4>2, <4>3
    <3>4. QED BY <3>2, <3>3
  <2>17. CASE Kill
    <3>1. /\ UNCHANGED call /\ pc' = "down" /\ pc # "down"
          /\ answer' = IF pc = "idle" \/ call = Boot THEN answer
                       ELSE [answer EXCEPT ![call] = "unknown"]
      BY <2>17 DEF Kill, Stop
    <3>2. CASE pc = "idle" \/ call = Boot
      <4>1. ~ Committed /\ ~ Committed' /\ answer' = answer
        BY <1>1, <3>1, <3>2 DEF Committed, Promoting
      <4>2. QED BY <2>3, <2>5, <3>1, <4>1
    <3>3. CASE ~ (pc = "idle" \/ call = Boot)
      <4>1. call \in Request
        BY <1>1, <3>3 DEF TypeOK
      <4>2. /\ "unknown" \in Answers \ {"none"} /\ "unknown" # "ok"
            /\ "unknown" \notin {"error", "refused"}
        BY DEF Answers
      <4>3. QED BY <2>4, <3>1, <3>3, <4>1, <4>2
    <3>4. QED BY <3>2, <3>3
  <2>18. ~ PowerLoss
    BY DEF PowerLoss, KillOnly
  <2>19. CASE UNCHANGED vars
    <3>1. UNCHANGED <<answer, call, pc, dirty>>
      BY <2>19 DEF vars
    <3>2. Answered'
      BY <1>1, <2>1, <3>1 DEF Answered, Committed, Unmoved
    <3>3. QED BY <2>3, <3>1, <3>2
  <2>20. QED
    BY <2>6, <2>7, <2>8, <2>9, <2>10, <2>11, <2>12, <2>13, <2>14, <2>15, <2>16,
       <2>17, <2>18, <2>19 DEF Next, Step
<1>6. QED BY <1>4, <1>5

\* Whatever a call is served, documents and log agree.
THEOREM NoSplit == KillOnly => (Spec => []SplitNeverServed)
<1> SUFFICES ASSUME KillOnly PROVE Spec => []SplitNeverServed
  OBVIOUS
<1>1. SplitInv => SplitNeverServed
  BY DEF SplitInv, SplitNeverServed, Stage, EffectiveReview, EffectiveAudit
<1>2. SplitInv /\ [Next]_vars => SplitInv'
  BY SplitNext
<1>3. QED BY SplitInit, <1>1, <1>2, PTL DEF Spec

\* The store implements the ledger: every commit is one step that changes
\* document and log together, and every answer tells the truth about it.
THEOREM Implements == KillOnly => (Spec => LedgerSpec)
<1> SUFFICES ASSUME KillOnly PROVE Spec => LedgerSpec
  OBVIOUS
<1>1. Init => Ledger!Init
  <2> SUFFICES ASSUME Init PROVE Ledger!Init
    OBVIOUS
  <2>1. EffectiveReview = review /\ EffectiveAudit = audit
    BY DEF Init, EffectiveReview, EffectiveAudit
  <2>2. QED BY <2>1 DEF Init, Ledger!Init
<1>2. SplitInv /\ [Next]_vars => SplitInv' /\ [Ledger!Next]_Ledger!vars
  BY SplitNext
<1>3. QED BY SplitInit, <1>1, <1>2, PTL DEF Spec, LedgerSpec, Ledger!Spec

-----------------------------------------------------------------------------
(* The review of one match: ReviewWorkflow.                                *)


-----------------------------------------------------------------------------
(* The invariant, part by part, of a document d.                           *)

\* A sequence, whatever its elements.
IsSeq(s) == s \in Seq({s[i] : i \in DOMAIN s})

\* A document has the ten fields that the code writes.
Shaped(d) ==
    /\ d = [schema |-> d.schema, status |-> d.status, corrections |-> d.corrections,
            phases |-> d.phases, overlay |-> d.overlay, decisions |-> d.decisions,
            finals |-> d.finals, current |-> d.current, stored |-> d.stored, rev |-> d.rev]
    /\ IsSeq(d.corrections) /\ IsSeq(d.phases) /\ IsSeq(d.decisions) /\ IsSeq(d.finals)
    /\ d.status \in {"pending", "in_progress", "reviewed"}
    /\ d.overlay \in Stream \cup {NoOverlay}

\* What was signed last is what d holds, on a decision with a usable revision.
SignatureHolds(d) ==
    LET final == d.finals[d.current]
        signed == final.signed.of
    IN  /\ d.current \in DOMAIN d.finals /\ d.decisions # <<>>
        /\ final.signed.kind = "rev"
        /\ signed.corrections = d.corrections /\ signed.phases = d.phases
        /\ signed.overlay = d.overlay /\ signed.decisions = d.decisions
        /\ final.decision = Last(d.decisions) /\ Usable(final.decision.rev)
        /\ d.overlay # NoOverlay => final.stream = d.overlay

\* Only a signature that holds makes a document count as reviewed.
Honest(d) ==
    IF d.current = 0 THEN d.status # "reviewed" ELSE SignatureHolds(d)

\* The revision is of these corrections, phases, decisions and sign-offs.
Names(rev, d) ==
    /\ rev.kind = "rev"
    /\ rev.of.corrections = d.corrections /\ rev.of.phases = d.phases
    /\ rev.of.overlay = d.overlay /\ rev.of.decisions = d.decisions
    /\ rev.of.finals = d.finals

Sane(d) == Shaped(d) /\ Honest(d) /\ Names(d.rev, d)
Known(d) == d = FreshDoc \/ d \in LegacyDocs \/ (d.schema = "v4" /\ Sane(d))

\* What only grows: every operation that expires a form adds to it.
Size(d) == Len(d.corrections) + Len(d.phases) + Len(d.decisions) + Len(d.finals)

Inv ==
    /\ Known(doc)
    /\ machine \in Analyses
    /\ context \in [Caller -> Analyses \cup {NoAnalysis}]
    /\ commits \in 0..MaxCommits
    /\ Size(doc) \in Nat
    /\ \A rev \in expired : rev.kind = "rev" /\ Size(rev.of) \in Nat /\ Size(rev.of) < Size(doc)

-----------------------------------------------------------------------------
(* Sequences and documents.                                                *)

\* Any sequence is one.
LEMMA SeqIsSeq ==
    ASSUME NEW S, NEW s \in Seq(S)
    PROVE  IsSeq(s) /\ Len(s) \in Nat
<1>1. \A i \in 1..Len(s) : s[i] \in {s[j] : j \in DOMAIN s}
  OBVIOUS
<1>2. s = [i \in 1..Len(s) |-> s[i]] /\ Len(s) \in Nat
  OBVIOUS
<1>3. QED BY <1>1, <1>2 DEF IsSeq

LEMMA FunctionIsSeq ==
    ASSUME NEW S, NEW n \in Nat, NEW f \in [1..n -> S]
    PROVE  f \in Seq(S) /\ Len(f) = n
OBVIOUS

\* What appending does to one.
LEMMA Longer ==
    ASSUME NEW s, IsSeq(s), NEW x
    PROVE  /\ IsSeq(Append(s, x)) /\ Len(s) \in Nat /\ Len(Append(s, x)) = Len(s) + 1
           /\ Len(s) + 1 \in DOMAIN Append(s, x) /\ Append(s, x)[Len(s) + 1] = x
           /\ Append(s, x) # <<>>
<1> DEFINE S == {s[i] : i \in DOMAIN s}
           u == Append(s, x)
<1>1. s \in Seq(S) /\ S \subseteq S \cup {x}
  BY DEF IsSeq
<1>2. s \in Seq(S \cup {x}) /\ x \in S \cup {x}
  <2>1. \A i \in 1..Len(s) : s[i] \in S
    BY <1>1
  <2>2. Len(s) \in Nat /\ DOMAIN s = 1..Len(s) /\ s = [i \in 1..Len(s) |-> s[i]]
    BY <1>1
  <2>3. QED BY <2>1, <2>2
<1>3. /\ u \in Seq(S \cup {x}) /\ Len(u) = Len(s) + 1 /\ DOMAIN u = 1..(Len(s) + 1)
      /\ u[Len(s) + 1] = x /\ \A i \in 1..Len(s) : u[i] = s[i]
      /\ Len(s) \in Nat /\ DOMAIN s = 1..Len(s)
  BY <1>2
<1>4. IsSeq(u)
  BY <1>3, SeqIsSeq
<1>5. QED BY <1>3, <1>4

\* Withdrawing an approval.
Withdrawn(d, h) ==
    /\ h.current = 0 /\ h.status \in {"pending", "in_progress"}
    /\ h = [d EXCEPT !.current = h.current, !.status = h.status]

LEMMA Invalidated ==
    ASSUME NEW d, Shaped(d), NEW h, h = InvalidateFinal(d)
    PROVE  Withdrawn(d, h) /\ Withdrawn(d, InProgress(h))
<1>1. CASE d.current # 0 \/ d.status = "reviewed"
  <2>1. h = [d EXCEPT !.current = 0, !.status = "in_progress"]
    BY <1>1 DEF InvalidateFinal
  <2>2. h.current = 0 /\ h.status = "in_progress"
    BY <2>1 DEF Shaped
  <2>3. InProgress(h) = h
    BY <2>1, <2>2 DEF InProgress, Shaped
  <2>4. QED BY <2>1, <2>2, <2>3 DEF Withdrawn
<1>2. CASE d.current = 0 /\ d.status # "reviewed"
  <2>1. h = d
    BY <1>2 DEF InvalidateFinal
  <2>2. Withdrawn(d, d)
    BY <1>2 DEF Withdrawn, Shaped
  <2>3. Withdrawn(d, InProgress(d))
    <3>1. PICK st \in {"pending", "in_progress"} : InProgress(d) = [d EXCEPT !.status = st]
      BY <1>2 DEF InProgress, Shaped
    <3>2. QED BY <1>2, <3>1 DEF Withdrawn, Shaped
  <2>4. QED BY <2>1, <2>2, <2>3
<1>3. QED BY <1>1, <1>2

\* What else a withdrawal leaves alone.
LEMMA WithdrawnShape ==
    ASSUME NEW d, Shaped(d), NEW h, Withdrawn(d, h)
    PROVE  /\ Shaped(h) /\ h.current = 0 /\ h.status # "reviewed" /\ Size(h) = Size(d)
           /\ h.corrections = d.corrections /\ h.phases = d.phases /\ h.overlay = d.overlay
           /\ h.decisions = d.decisions /\ h.finals = d.finals
BY DEF Shaped, Withdrawn, Size

\* A signature that holds rests on a usable decision.
LEMMA HonestUsable ==
    ASSUME NEW d, Sane(d), d.status = "reviewed" \/ d.current # 0
    PROVE  HasUsableDecision(d)
BY DEF Sane, Honest, SignatureHolds, HasUsableDecision

-----------------------------------------------------------------------------
(* Loading.                                                                *)

\* No decision of a legacy document is usable.
LEMMA NoneUsable ==
    ASSUME NEW d \in LegacyDoc
    PROVE  ~HasUsableDecision(d)
<1>1. d.decisions \in Seq(LegacyDecision)
  BY DEF LegacyDoc
<1>2. SUFFICES ASSUME d.decisions # <<>> PROVE ~Usable(Last(d.decisions).rev)
  BY DEF HasUsableDecision
<1>3. Len(d.decisions) \in DOMAIN d.decisions
  BY <1>1, <1>2
<1>4. Last(d.decisions) \in LegacyDecision
  BY <1>1, <1>3 DEF Last
<1>5. QED BY <1>4 DEF LegacyDecision, Usable, NoRevision, Marker

LEMMA LegacyShaped ==
    ASSUME NEW d \in LegacyDoc
    PROVE  Shaped(d)
<1>1. /\ d.corrections \in Seq(Caller) /\ d.phases \in Seq([by : Caller, after : Stream])
      /\ d.decisions \in Seq(LegacyDecision) /\ d.finals \in Seq(LegacyFinal)
      /\ d.status \in {"pending", "in_progress", "reviewed"}
      /\ d.overlay \in Stream \cup {NoOverlay}
  BY DEF LegacyDoc
<1>2. IsSeq(d.corrections) /\ IsSeq(d.phases) /\ IsSeq(d.decisions) /\ IsSeq(d.finals)
  BY <1>1, SeqIsSeq
<1>3. d = [schema |-> d.schema, status |-> d.status, corrections |-> d.corrections,
           phases |-> d.phases, overlay |-> d.overlay, decisions |-> d.decisions,
           finals |-> d.finals, current |-> d.current, stored |-> d.stored, rev |-> d.rev]
  BY DEF LegacyDoc
<1>4. QED BY <1>1, <1>2, <1>3 DEF Shaped

\* Marking a legacy document's decisions leaves it one, with none usable.
LEMMA Marked ==
    ASSUME NEW d \in LegacyDoc, NEW m, m = MarkMissing(d)
    PROVE  /\ m \in LegacyDoc /\ ~HasUsableDecision(m)
           /\ Len(m.decisions) = Len(d.decisions) /\ Len(m.finals) = Len(d.finals)
           /\ m.corrections = d.corrections /\ m.phases = d.phases /\ m.current = d.current
           /\ m.status = d.status
<1> DEFINE D == [i \in DOMAIN d.decisions |-> Mark(d.decisions[i])]
           F == [i \in DOMAIN d.finals |-> [d.finals[i] EXCEPT !.decision = Mark(@)]]
<1>1. d.decisions \in Seq(LegacyDecision) /\ d.finals \in Seq(LegacyFinal)
  BY DEF LegacyDoc
<1>2. m = [d EXCEPT !.decisions = D, !.finals = F]
  BY DEF MarkMissing
<1>3. D \in Seq(LegacyDecision) /\ Len(D) = Len(d.decisions)
  <2>1. \A i \in DOMAIN d.decisions : d.decisions[i] \in LegacyDecision
    BY <1>1
  <2>2. \A x \in LegacyDecision : Mark(x) \in LegacyDecision
    BY DEF LegacyDecision, Mark
  <2>3. D \in [1..Len(d.decisions) -> LegacyDecision] /\ Len(d.decisions) \in Nat
    BY <1>1, <2>1, <2>2
  <2>4. QED BY <2>3, FunctionIsSeq
<1>4. F \in Seq(LegacyFinal) /\ Len(F) = Len(d.finals)
  <2>1. \A i \in DOMAIN d.finals : d.finals[i] \in LegacyFinal
    BY <1>1
  <2>2. \A x \in LegacyFinal : [x EXCEPT !.decision = Mark(@)] \in LegacyFinal
    <3>1. \A y \in LegacyDecision : Mark(y) \in LegacyDecision
      BY DEF LegacyDecision, Mark
    <3>2. QED BY <3>1 DEF LegacyFinal
  <2>3. F \in [1..Len(d.finals) -> LegacyFinal] /\ Len(d.finals) \in Nat
    BY <1>1, <2>1, <2>2
  <2>4. QED BY <2>3, FunctionIsSeq
<1>5. PICK D2 \in Seq(LegacyDecision), F2 \in Seq(LegacyFinal) :
          /\ m = [d EXCEPT !.decisions = D2, !.finals = F2]
          /\ Len(D2) = Len(d.decisions) /\ Len(F2) = Len(d.finals)
  BY <1>2, <1>3, <1>4
<1>6. /\ m \in LegacyDoc /\ m.decisions = D2 /\ m.finals = F2
      /\ m.corrections = d.corrections /\ m.phases = d.phases /\ m.current = d.current
      /\ m.status = d.status
  BY <1>5 DEF LegacyDoc
<1>7. ~HasUsableDecision(m)
  BY <1>6, NoneUsable
<1>8. QED BY <1>5, <1>6, <1>7

\* An honest document with its revision.
LEMMA Hashed ==
    ASSUME NEW r, Shaped(r), Honest(r), NEW h, h = [r EXCEPT !.rev = Revision(r)]
    PROVE  Sane(h) /\ h.schema = r.schema /\ Size(h) = Size(r)
<1>1. PICK of : /\ h = [r EXCEPT !.rev = [kind |-> "rev", of |-> of]]
                /\ of.corrections = r.corrections /\ of.phases = r.phases
                /\ of.overlay = r.overlay /\ of.decisions = r.decisions /\ of.finals = r.finals
  <2> DEFINE of == [status |-> r.status, corrections |-> r.corrections, phases |-> r.phases,
                    overlay |-> r.overlay, decisions |-> r.decisions, finals |-> r.finals,
                    current |-> r.current, stored |-> r.stored]
  <2>1. /\ of.corrections = r.corrections /\ of.phases = r.phases
        /\ of.overlay = r.overlay /\ of.decisions = r.decisions /\ of.finals = r.finals
    OBVIOUS
  <2>2. Revision(r) = [kind |-> "rev", of |-> of]
    BY DEF Revision
  <2> HIDE DEF of
  <2>3. QED BY <2>1, <2>2
<1>2. /\ Shaped(h) /\ h.corrections = r.corrections /\ h.phases = r.phases
      /\ h.overlay = r.overlay /\ h.decisions = r.decisions /\ h.finals = r.finals
      /\ h.current = r.current /\ h.status = r.status /\ h.schema = r.schema
      /\ h.rev = [kind |-> "rev", of |-> of]
  BY <1>1 DEF Shaped
<1>3. Names(h.rev, h)
  BY <1>1, <1>2 DEF Names
<1>4. Honest(h)
  BY <1>2 DEF Honest, SignatureHolds
<1>5. QED BY <1>2, <1>3, <1>4 DEF Sane, Size

\* A document that was marked as being of the current schema.
LEMMA Restamped ==
    ASSUME NEW r, Sane(r), NEW b, NEW h, h = [r EXCEPT !.schema = "v4", !.stored = b]
    PROVE  Sane(h) /\ h.schema = "v4" /\ Size(h) = Size(r)
<1>1. /\ Shaped(h) /\ h.corrections = r.corrections /\ h.phases = r.phases
      /\ h.overlay = r.overlay /\ h.decisions = r.decisions /\ h.finals = r.finals
      /\ h.current = r.current /\ h.status = r.status /\ h.schema = "v4" /\ h.rev = r.rev
  BY DEF Sane, Shaped
<1>2. Names(h.rev, h) /\ Honest(h)
  BY <1>1 DEF Sane, Names, Honest, SignatureHolds
<1>3. QED BY <1>1, <1>2 DEF Sane, Size

\* Whatever a store holds, what is loaded is honest and names its content.
LEMMA Loads ==
    ASSUME NEW d, Known(d), NEW r, r = Load(d)
    PROVE  Sane(r) /\ Size(r) = Size(d) /\ Size(r) \in Nat
<1>0. Sane(r) => Size(r) \in Nat
  <2>1. ASSUME NEW s, IsSeq(s) PROVE Len(s) \in Nat
    BY <2>1, Longer
  <2>2. QED BY <2>1 DEF Sane, Shaped, Size
<1>1. CASE d = FreshDoc
  <2>1. r = d
    BY <1>1 DEF FreshDoc, Load
  <2>2. IsSeq(<<>>)
    BY DEF IsSeq
  <2>3. Shaped(d) /\ d.current = 0 /\ d.status # "reviewed" /\ Names(d.rev, d)
    BY <1>1, <2>2 DEF FreshDoc, Shaped, Names, Revision
  <2>4. QED BY <1>0, <2>1, <2>3 DEF Sane, Honest
<1>2. CASE d \in LegacyDocs
  <2>1. d \in LegacyDoc
    BY <1>2, WorkflowAssumption
  <2>2. d.schema # "absent" /\ ~Usable(d.rev) /\ d.schema # "v4"
    BY <2>1 DEF LegacyDoc, Usable, NoRevision
  <2>3. PICK m : m = IF d.schema \in Current THEN d ELSE MarkMissing(d)
    OBVIOUS
  <2>4. /\ m \in LegacyDoc /\ ~HasUsableDecision(m) /\ Size(m) = Size(d)
        /\ m.current = d.current /\ m.status = d.status
    <3>1. CASE d.schema \in Current
      BY <2>1, <2>3, <3>1, NoneUsable
    <3>2. CASE d.schema \notin Current
      <4>1. m = MarkMissing(d)
        BY <2>3, <3>2
      <4>2. QED BY <2>1, <4>1, Marked DEF Size
    <3>3. QED BY <3>1, <3>2
  <2>5. Shaped(m)
    BY <2>4, LegacyShaped
  <2>6. PICK c : c = IF d.status = "reviewed" \/ d.current # 0 THEN InvalidateFinal(m) ELSE m
    OBVIOUS
  <2>7. Shaped(c) /\ c.current = 0 /\ c.status # "reviewed" /\ Size(c) = Size(d)
    <3>1. CASE d.status = "reviewed" \/ d.current # 0
      <4>1. c = InvalidateFinal(m)
        BY <2>6, <3>1
      <4>2. Withdrawn(m, c)
        BY <2>5, <4>1, Invalidated
      <4>3. QED BY <2>4, <2>5, <4>2, WithdrawnShape
    <3>2. CASE ~(d.status = "reviewed" \/ d.current # 0)
      BY <2>4, <2>5, <2>6, <3>2
    <3>3. QED BY <3>1, <3>2
  <2>8. PICK n : n = [c EXCEPT !.schema = "v4", !.stored = TRUE]
    OBVIOUS
  <2>9. r = [n EXCEPT !.rev = Revision(n)]
    BY <2>2, <2>3, <2>4, <2>6, <2>7, <2>8 DEF Load
  <2>10. Shaped(n) /\ n.current = 0 /\ n.status # "reviewed" /\ Size(n) = Size(c)
    BY <2>7, <2>8 DEF Shaped, Size
  <2>11. Sane(r) /\ Size(r) = Size(n)
    BY <2>9, <2>10, Hashed DEF Honest
  <2>12. QED BY <1>0, <2>7, <2>10, <2>11
<1>3. CASE d.schema = "v4" /\ Sane(d)
  <2>1. (d.status = "reviewed" \/ d.current # 0) => HasUsableDecision(d)
    BY <1>3, HonestUsable
  <2>2. d.status = "reviewed" => d.current # 0
    BY <1>3 DEF Sane, Honest
  <2>3. d.schema # "absent" /\ d.schema \in Current /\ d.schema # "v1" /\ Usable(d.rev)
    BY <1>3 DEF Current, Sane, Names, Usable
  <2>4. r = [d EXCEPT !.schema = "v4", !.stored = TRUE]
    <3>1. r = [d EXCEPT !.status = d.status, !.schema = "v4", !.stored = TRUE]
      BY <2>1, <2>2, <2>3 DEF Load
    <3>2. QED BY <1>3, <3>1 DEF Sane, Shaped
  <2>5. QED BY <1>0, <1>3, <2>4, Restamped
<1>4. QED BY <1>1, <1>2, <1>3 DEF Known

-----------------------------------------------------------------------------
(* Mutations.                                                              *)

\* What a commit of r does to the store.
LEMMA StepOfCommit ==
    ASSUME NEW r, Shaped(r), Honest(r), NEW h, h = [r EXCEPT !.rev = Revision(r), !.schema = "v4"]
    PROVE  Known(h) /\ Size(h) = Size(r)
<1>1. PICK k : k = [r EXCEPT !.rev = Revision(r)]
  OBVIOUS
<1>2. Sane(k) /\ Size(k) = Size(r)
  BY <1>1, Hashed
<1>3. PICK b : h = [k EXCEPT !.schema = "v4", !.stored = b]
  <2>1. h = [k EXCEPT !.schema = "v4"]
    BY <1>1
  <2>2. h = [k EXCEPT !.schema = "v4", !.stored = k.stored]
    BY <1>2, <2>1 DEF Sane, Shaped
  <2>3. QED BY <2>2
<1>4. QED BY <1>2, <1>3, Restamped DEF Known

\* A commit that leaves the size of the document, and expires nothing.
LEMMA Kept ==
    ASSUME Inv, NEW r, Shaped(r), Honest(r), Size(r) = Size(doc), Commit(r), UNCHANGED expired
    PROVE  Inv'
<1>1. doc' = [r EXCEPT !.rev = Revision(r), !.schema = "v4"]
  BY DEF Commit
<1>2. Known(doc') /\ Size(doc') = Size(doc)
  BY <1>1, StepOfCommit
<1>3. machine' = machine /\ context' = context /\ commits' \in 0..MaxCommits
  BY WorkflowAssumption DEF Inv, Commit
<1>4. QED BY <1>2, <1>3 DEF Inv

\* A commit of a document that grew, and expires the revision it replaced.
LEMMA Grown ==
    ASSUME Inv, NEW r, Shaped(r), Honest(r), Size(r) = Size(doc) + 1, Commit(r), Expire
    PROVE  Inv'
<1>1. doc' = [r EXCEPT !.rev = Revision(r), !.schema = "v4"]
  BY DEF Commit
<1>2. Known(doc') /\ Size(doc') = Size(doc) + 1 /\ Size(doc) \in Nat
  BY <1>1, StepOfCommit DEF Inv
<1>3. machine' = machine /\ context' = context /\ commits' \in 0..MaxCommits
  BY WorkflowAssumption DEF Inv, Commit
<1>4. PICK was : was = Load(doc)
  OBVIOUS
<1>5. was.rev.kind = "rev" /\ Size(was.rev.of) = Size(doc)
  <2>1. Sane(was) /\ Size(was) = Size(doc)
    BY <1>4, Loads DEF Inv
  <2>2. QED BY <2>1 DEF Sane, Names, Size
<1>6. \A rev \in expired' : rev.kind = "rev" /\ Size(rev.of) \in Nat /\ Size(rev.of) < Size(doc')
  <2>1. SUFFICES ASSUME NEW rev \in expired'
                 PROVE  rev.kind = "rev" /\ Size(rev.of) \in Nat /\ Size(rev.of) < Size(doc')
    OBVIOUS
  <2>2. rev \in expired \/ rev = was.rev
    BY <1>4 DEF Expire
  <2>3. CASE rev \in expired
    BY <1>2, <2>3 DEF Inv
  <2>4. CASE rev = was.rev
    BY <1>2, <1>5, <2>4
  <2>5. QED BY <2>2, <2>3, <2>4
<1>7. QED BY <1>2, <1>3, <1>6 DEF Inv

\* A mutation that withdraws the approval of what it changed.
LEMMA Mutated ==
    ASSUME NEW d, Shaped(d), NEW h, h = InvalidateFinal(d)
    PROVE  /\ Shaped(h) /\ Honest(h) /\ Size(h) = Size(d)
           /\ Shaped(InProgress(h)) /\ Honest(InProgress(h)) /\ Size(InProgress(h)) = Size(d)
BY Invalidated, WithdrawnShape DEF Honest

\* A sum whose parts are the same but for one more in one of them.
LEMMA Sums ==
    ASSUME NEW a \in Nat, NEW b \in Nat, NEW c \in Nat, NEW d \in Nat,
           NEW e, NEW f, NEW g, NEW i,
        \/ e = a + 1 /\ f = b /\ g = c /\ i = d
        \/ e = a /\ f = b + 1 /\ g = c /\ i = d
        \/ e = a /\ f = b /\ g = c + 1 /\ i = d
        \/ e = a /\ f = b /\ g = c /\ i = d + 1
    PROVE  e + f + g + i = a + b + c + d + 1
OBVIOUS

\* One entry more.
LEMMA OneMore ==
    ASSUME NEW r, NEW h,
           Len(r.corrections) \in Nat, Len(r.phases) \in Nat,
           Len(r.decisions) \in Nat, Len(r.finals) \in Nat,
           \/ /\ Len(h.corrections) = Len(r.corrections) + 1 /\ Len(h.phases) = Len(r.phases)
              /\ Len(h.decisions) = Len(r.decisions) /\ Len(h.finals) = Len(r.finals)
           \/ /\ Len(h.corrections) = Len(r.corrections) /\ Len(h.phases) = Len(r.phases) + 1
              /\ Len(h.decisions) = Len(r.decisions) /\ Len(h.finals) = Len(r.finals)
           \/ /\ Len(h.corrections) = Len(r.corrections) /\ Len(h.phases) = Len(r.phases)
              /\ Len(h.decisions) = Len(r.decisions) + 1 /\ Len(h.finals) = Len(r.finals)
           \/ /\ Len(h.corrections) = Len(r.corrections) /\ Len(h.phases) = Len(r.phases)
              /\ Len(h.decisions) = Len(r.decisions) /\ Len(h.finals) = Len(r.finals) + 1
    PROVE  Size(h) = Size(r) + 1
<1> DEFINE a == Len(r.corrections)
           b == Len(r.phases)
           c == Len(r.decisions)
           d == Len(r.finals)
           e == Len(h.corrections)
           f == Len(h.phases)
           g == Len(h.decisions)
           i == Len(h.finals)
<1>1. e + f + g + i = a + b + c + d + 1
  <2> HIDE DEF a, b, c, d, e, f, g, i
  <2>1. a \in Nat /\ b \in Nat /\ c \in Nat /\ d \in Nat
    BY DEF a, b, c, d
  <2>2. \/ e = a + 1 /\ f = b /\ g = c /\ i = d
        \/ e = a /\ f = b + 1 /\ g = c /\ i = d
        \/ e = a /\ f = b /\ g = c + 1 /\ i = d
        \/ e = a /\ f = b /\ g = c /\ i = d + 1
    BY DEF a, b, c, d, e, f, g, i
  <2>3. QED BY <2>1, <2>2, Sums
<1>2. QED BY <1>1 DEF Size

\* A correction, phase operation or decision x appended to a document.
Extended(r, x, overlay, h) ==
    \/ h = [r EXCEPT !.corrections = Append(@, x)]
    \/ overlay \in Stream /\ h = [r EXCEPT !.phases = Append(@, x), !.overlay = overlay]
    \/ h = [r EXCEPT !.decisions = Append(@, x)]

LEMMA Appended ==
    ASSUME NEW r, Shaped(r), NEW x, NEW overlay, NEW h, Extended(r, x, overlay, h)
    PROVE  Shaped(h) /\ Size(h) = Size(r) + 1
<1>1. /\ IsSeq(r.corrections) /\ IsSeq(r.phases) /\ IsSeq(r.decisions) /\ IsSeq(r.finals)
  BY DEF Shaped
<1>2. /\ Len(r.corrections) \in Nat /\ Len(r.phases) \in Nat
      /\ Len(r.decisions) \in Nat /\ Len(r.finals) \in Nat
  BY <1>1, Longer
<1>3. CASE h = [r EXCEPT !.corrections = Append(@, x)]
  <2>1. PICK u : IsSeq(u) /\ Len(u) = Len(r.corrections) + 1 /\ h = [r EXCEPT !.corrections = u]
    BY <1>1, <1>3, Longer
  <2>2. /\ h.corrections = u /\ h.phases = r.phases /\ h.decisions = r.decisions /\ h.finals = r.finals
        /\ Shaped(h)
    BY <1>3, <2>1 DEF Shaped
  <2>3. Size(h) = Size(r) + 1
    <3>1. /\ Len(h.corrections) = Len(r.corrections) + 1 /\ Len(h.phases) = Len(r.phases)
          /\ Len(h.decisions) = Len(r.decisions) /\ Len(h.finals) = Len(r.finals)
      BY <2>1, <2>2
    <3>2. QED BY <1>2, <3>1, OneMore
  <2>4. QED BY <2>2, <2>3
<1>4. CASE overlay \in Stream /\ h = [r EXCEPT !.phases = Append(@, x), !.overlay = overlay]
  <2>1. PICK u : IsSeq(u) /\ Len(u) = Len(r.phases) + 1 
                 /\ h = [r EXCEPT !.phases = u, !.overlay = overlay]
    BY <1>1, <1>4, Longer
  <2>2. /\ h.corrections = r.corrections /\ h.phases = u /\ h.decisions = r.decisions /\ h.finals = r.finals
        /\ Shaped(h)
    BY <1>4, <2>1 DEF Shaped
  <2>3. Size(h) = Size(r) + 1
    <3>1. /\ Len(h.corrections) = Len(r.corrections) /\ Len(h.phases) = Len(r.phases) + 1
          /\ Len(h.decisions) = Len(r.decisions) /\ Len(h.finals) = Len(r.finals)
      BY <2>1, <2>2
    <3>2. QED BY <1>2, <3>1, OneMore
  <2>4. QED BY <2>2, <2>3
<1>5. CASE h = [r EXCEPT !.decisions = Append(@, x)]
  <2>1. PICK u : IsSeq(u) /\ Len(u) = Len(r.decisions) + 1 /\ h = [r EXCEPT !.decisions = u]
    BY <1>1, <1>5, Longer
  <2>2. /\ h.corrections = r.corrections /\ h.phases = r.phases /\ h.decisions = u /\ h.finals = r.finals
        /\ Shaped(h)
    BY <1>5, <2>1 DEF Shaped
  <2>3. Size(h) = Size(r) + 1
    <3>1. /\ Len(h.corrections) = Len(r.corrections) /\ Len(h.phases) = Len(r.phases)
          /\ Len(h.decisions) = Len(r.decisions) + 1 /\ Len(h.finals) = Len(r.finals)
      BY <2>1, <2>2
    <3>2. QED BY <1>2, <3>1, OneMore
  <2>4. QED BY <2>2, <2>3
<1>6. QED BY <1>3, <1>4, <1>5 DEF Extended

\* A final sign-off of an honest document.
LEMMA Signed ==
    ASSUME NEW r, Sane(r), Size(r) \in Nat, r.decisions # <<>>, Usable(Last(r.decisions).rev),
           NEW final, final.signed = r.rev, final.decision = Last(r.decisions),
           r.overlay # NoOverlay => final.stream = r.overlay,
           NEW h, h = [r EXCEPT !.finals = Append(@, final), !.current = NextFinal(r),
                                !.status = "reviewed"]
    PROVE  Shaped(h) /\ Honest(h) /\ Size(h) = Size(r) + 1
<1>1. /\ IsSeq(r.corrections) /\ IsSeq(r.phases) /\ IsSeq(r.decisions) /\ IsSeq(r.finals)
  BY DEF Sane, Shaped
<1>2. /\ Len(r.corrections) \in Nat /\ Len(r.phases) \in Nat
      /\ Len(r.decisions) \in Nat /\ Len(r.finals) \in Nat
  BY <1>1, Longer
<1>3. PICK u : /\ IsSeq(u) /\ Len(u) = Len(r.finals) + 1
               /\ Len(r.finals) + 1 \in DOMAIN u /\ u[Len(r.finals) + 1] = final
               /\ h = [r EXCEPT !.finals = u, !.current = Len(r.finals) + 1, !.status = "reviewed"]
  <2>1. h = [r EXCEPT !.finals = Append(r.finals, final), !.current = Len(r.finals) + 1,
                      !.status = "reviewed"]
    BY DEF NextFinal
  <2>2. PICK u : /\ u = Append(r.finals, final)
                 /\ IsSeq(u) /\ Len(u) = Len(r.finals) + 1
                 /\ Len(r.finals) + 1 \in DOMAIN u /\ u[Len(r.finals) + 1] = final
    BY <1>1, Longer
  <2>3. QED BY <2>1, <2>2
<1>4. /\ h.corrections = r.corrections /\ h.phases = r.phases /\ h.decisions = r.decisions
      /\ h.finals = u /\ h.overlay = r.overlay /\ h.current = Len(r.finals) + 1
      /\ Shaped(h)
  BY <1>3 DEF Sane, Shaped
<1>5. SignatureHolds(h)
  BY <1>3, <1>4 DEF SignatureHolds, Sane, Names
<1>6. Honest(h)
  BY <1>2, <1>4, <1>5 DEF Honest
<1>7. Size(h) = Size(r) + 1
  <2>1. /\ Len(h.corrections) = Len(r.corrections) /\ Len(h.phases) = Len(r.phases)
        /\ Len(h.decisions) = Len(r.decisions) /\ Len(h.finals) = Len(r.finals) + 1
    BY <1>3, <1>4
  <2>2. QED BY <1>2, <2>1, OneMore
<1>8. QED BY <1>4, <1>6, <1>7

-----------------------------------------------------------------------------
(* The theorems.                                                           *)

LEMMA InitInv == WorkflowInit => Inv
<1> SUFFICES ASSUME WorkflowInit PROVE Inv
  OBVIOUS
<1>1. Known(doc)
  BY DEF WorkflowInit, Known
<1>2. PICK r : r = Load(doc)
  OBVIOUS
<1>3. Size(doc) \in Nat
  BY <1>1, <1>2, Loads
<1>4. context \in [Caller -> Analyses \cup {NoAnalysis}]
  BY DEF WorkflowInit
<1>5. QED BY <1>1, <1>3, <1>4, WorkflowAssumption DEF WorkflowInit, Inv

\* Every step of a reviewer, of the runner and of a migration, and a stutter.
LEMMA NextInv == Inv /\ [WorkflowNext]_workflowVars => Inv'
<1> SUFFICES ASSUME Inv, [WorkflowNext]_workflowVars PROVE Inv'
  OBVIOUS
<1>1. PICK r : r = Load(doc)
  OBVIOUS
<1>2. Sane(r) /\ Size(r) = Size(doc) /\ Size(r) \in Nat
  BY <1>1, Loads DEF Inv
<1>3. Shaped(r) /\ Honest(r) /\ Shaped(r)
  BY <1>2 DEF Sane
<1>4. ASSUME NEW c \in Caller, Render(c) PROVE Inv'
  BY <1>4 DEF Render, Inv
<1>5. ASSUME NEW c \in Caller, ReadContext(c) PROVE Inv'
  BY <1>5 DEF ReadContext, Inv
<1>6. ASSUME NEW c \in Caller, AddAuthoritative(c) PROVE Inv'
  <2>1. PICK d : d = [r EXCEPT !.corrections = Append(@, c)]
    OBVIOUS
  <2>2. PICK h : h = InvalidateFinal(d)
    OBVIOUS
  <2>3. Commit(InProgress(h)) /\ Expire
    BY <1>1, <1>6, <2>1, <2>2 DEF AddAuthoritative
  <2>4. Shaped(d) /\ Size(d) = Size(r) + 1
    <3>1. Extended(r, c, NoOverlay, d)
      BY <2>1 DEF Extended
    <3>2. QED BY <1>3, <3>1, Appended
  <2>5. QED BY <1>2, <2>2, <2>3, <2>4, Mutated, Grown
<1>7. ASSUME NEW c \in Caller, DecideCategory(c) PROVE Inv'
  <2>1. PICK x : x = [sha |-> context[c].sha, category |-> context[c].category, rev |-> r.rev]
    OBVIOUS
  <2>2. PICK d : d = [r EXCEPT !.decisions = Append(@, x)]
    OBVIOUS
  <2>3. PICK h : h = InvalidateFinal(d)
    OBVIOUS
  <2>4. Commit(InProgress(h)) /\ Expire
    BY <1>1, <1>7, <2>1, <2>2, <2>3 DEF DecideCategory
  <2>5. Shaped(d) /\ Size(d) = Size(r) + 1
    <3>1. Extended(r, x, NoOverlay, d)
      BY <2>2 DEF Extended
    <3>2. QED BY <1>3, <3>1, Appended
  <2>6. QED BY <1>2, <2>3, <2>4, <2>5, Mutated, Grown
<1>8. ASSUME NEW c \in Caller, FinalizeReview(c) PROVE Inv'
  <2>1. PICK stream : stream = EffectiveStream(r, context[c])
    OBVIOUS
  <2>2. PICK final : final = [sha |-> context[c].sha, signed |-> r.rev, stream |-> stream,
                              decision |-> Last(r.decisions)]
    OBVIOUS
  <2>3. PICK h : h = [r EXCEPT !.finals = Append(@, final), !.current = NextFinal(r),
                               !.status = "reviewed"]
    OBVIOUS
  <2>4. /\ Commit(h) /\ Expire /\ r.decisions # <<>> /\ Usable(Last(r.decisions).rev)
    BY <1>1, <1>8, <2>1, <2>2, <2>3 DEF FinalizeReview
  <2>5. /\ final.signed = r.rev /\ final.decision = Last(r.decisions)
        /\ r.overlay # NoOverlay => final.stream = r.overlay
    BY <2>1, <2>2 DEF EffectiveStream
  <2>6. Shaped(h) /\ Honest(h) /\ Size(h) = Size(r) + 1
    BY <1>2, <2>3, <2>4, <2>5, Signed
  <2>7. QED BY <1>2, <2>4, <2>6, Grown
<1>9. ASSUME NEW c \in Caller, NEW after \in Stream, ApplyPhaseOp(c, after) PROVE Inv'
  <2>1. PICK x : x = [by |-> c, after |-> after]
    OBVIOUS
  <2>2. PICK d : d = [r EXCEPT !.phases = Append(@, x), !.overlay = after]
    OBVIOUS
  <2>3. PICK h : h = InvalidateFinal(d)
    OBVIOUS
  <2>4. Commit(InProgress(h)) /\ Expire
    BY <1>1, <1>9, <2>1, <2>2, <2>3 DEF ApplyPhaseOp
  <2>5. Shaped(d) /\ Size(d) = Size(r) + 1
    <3>1. Extended(r, x, after, d)
      BY <1>9, <2>2 DEF Extended
    <3>2. QED BY <1>3, <3>1, Appended
  <2>6. QED BY <1>2, <2>3, <2>4, <2>5, Mutated, Grown
<1>10. ASSUME NEW c \in Caller, NEW status \in {"pending", "in_progress", "reviewed"},
              SetReviewStatus(c, status)
       PROVE  Inv'
  <2>1. PICK h : h = [r EXCEPT !.status = status, !.current = IF status = "reviewed" THEN @ ELSE 0]
    OBVIOUS
  <2>2. /\ Commit(h) /\ UNCHANGED expired
        /\ status = "reviewed" => r.current \in DOMAIN r.finals
    BY <1>1, <1>10, <2>1 DEF SetReviewStatus
  <2>3. /\ h.corrections = r.corrections /\ h.phases = r.phases /\ h.decisions = r.decisions
        /\ h.finals = r.finals /\ h.overlay = r.overlay /\ h.status = status
        /\ h.current = IF status = "reviewed" THEN r.current ELSE 0
        /\ Shaped(h)
    BY <1>3, <1>10, <2>1 DEF Shaped
  <2>4. Honest(h)
    <3>1. CASE status = "reviewed"
      <4>1. r.current # 0
        <5>1. IsSeq(r.finals)
          BY <1>3 DEF Shaped
        <5>2. DOMAIN r.finals = 1..Len(r.finals)
          BY <5>1 DEF IsSeq
        <5>3. QED BY <2>2, <3>1, <5>2
      <4>2. QED BY <1>3, <2>3, <3>1, <4>1 DEF Honest, SignatureHolds
    <3>2. CASE status # "reviewed"
      BY <2>3, <3>2 DEF Honest
    <3>3. QED BY <3>1, <3>2
  <2>5. Size(h) = Size(doc)
    BY <1>2, <2>3 DEF Size
  <2>6. QED BY <2>2, <2>3, <2>4, <2>5, Kept
<1>11. ASSUME NEW stream \in Stream, SetEffectivePhases(stream) PROVE Inv'
  <2>1. PICK d : d = [r EXCEPT !.overlay = stream]
    OBVIOUS
  <2>2. PICK h : h = InvalidateFinal(d)
    OBVIOUS
  <2>3. Commit(h) /\ UNCHANGED expired
    BY <1>1, <1>11, <2>1, <2>2 DEF SetEffectivePhases
  <2>4. Shaped(d) /\ Size(d) = Size(r)
    BY <1>3, <1>11, <2>1 DEF Shaped, Size
  <2>5. QED BY <1>2, <2>2, <2>3, <2>4, Mutated, Kept
<1>12. ASSUME NEW a \in Analyses, Reanalyse(a) PROVE Inv'
  BY <1>12 DEF Reanalyse, Inv
<1>13. CASE MigrateV1
  <2>1. PICK h : h = [r EXCEPT !.schema = "v4"]
    OBVIOUS
  <2>2. doc' = h
    BY <1>1, <1>13, <2>1 DEF MigrateV1
  <2>3. PICK b : h = [r EXCEPT !.schema = "v4", !.stored = b]
    BY <1>3, <2>1 DEF Shaped
  <2>4. Known(h) /\ Size(h) = Size(doc)
    BY <1>2, <2>3, Restamped DEF Known
  <2>5. QED BY <1>13, <2>2, <2>4 DEF MigrateV1, Inv
<1>14. CASE UNCHANGED workflowVars
  BY <1>14 DEF workflowVars, Inv
<1>15. QED BY <1>4, <1>5, <1>6, <1>7, <1>8, <1>9, <1>10, <1>11, <1>12, <1>13, <1>14 DEF WorkflowNext

\* The invariant holds in every state.
THEOREM Invariant == WorkflowSpec => []Inv
BY InitInv, NextInv, PTL DEF WorkflowSpec

\* The documents, analyses and contexts keep their shape.
THEOREM WorkflowTypeCorrect == WorkflowSpec => []WorkflowTypeOK
<1>1. ASSUME Inv PROVE WorkflowTypeOK
  <2>1. /\ doc.schema \in {"absent", "v1", "v2", "v3"} \cup Current
        /\ doc.status \in {"pending", "in_progress", "reviewed"}
        /\ doc.overlay \in Stream \cup {NoOverlay}
        /\ doc.current \in 0..Len(doc.finals)
        /\ doc.rev.kind \in {"none", "marker", "rev"}
    <3>1. CASE doc = FreshDoc
      BY <3>1 DEF FreshDoc, Revision
    <3>2. CASE doc \in LegacyDocs
      <4>1. doc \in LegacyDoc /\ doc.current \in 0..Len(doc.finals)
        BY <3>2, WorkflowAssumption
      <4>2. /\ doc.schema \in {"v1", "v2", "v3", "v3_seen_by_v4"} /\ doc.rev = NoRevision
            /\ doc.status \in {"pending", "in_progress", "reviewed"}
            /\ doc.overlay \in Stream \cup {NoOverlay}
        BY <4>1 DEF LegacyDoc
      <4>3. QED BY <4>1, <4>2 DEF Current, NoRevision
    <3>3. CASE doc.schema = "v4" /\ Sane(doc)
      <4>1. doc.current \in 0..Len(doc.finals)
        <5>1. IsSeq(doc.finals)
          BY <3>3 DEF Sane, Shaped
        <5>2. DOMAIN doc.finals = 1..Len(doc.finals) /\ Len(doc.finals) \in Nat
          BY <5>1 DEF IsSeq
        <5>3. QED BY <3>3, <5>2 DEF Sane, Honest, SignatureHolds
      <4>2. QED BY <3>3, <4>1 DEF Sane, Shaped, Names, Current
    <3>4. QED BY <1>1, <3>1, <3>2, <3>3 DEF Inv, Known
  <2>2. QED BY <1>1, <2>1 DEF Inv, WorkflowTypeOK
<1>2. QED BY <1>1, Invariant, PTL

\* For any reviewers and operations, what counts as reviewed is what was signed.
THEOREM Signature == WorkflowSpec => []SignedIsCurrent
<1>1. ASSUME Inv PROVE SignedIsCurrent
  <2>1. PICK r : r = Load(doc)
    OBVIOUS
  <2>2. Sane(r)
    BY <1>1, <2>1, Loads DEF Inv
  <2>3. r.status = "reviewed" => SignatureHolds(r)
    BY <2>2 DEF Sane, Honest
  <2>4. QED BY <2>1, <2>3 DEF SignedIsCurrent, SignatureHolds
<1>2. QED BY <1>1, Invariant, PTL

\* No sequence of operations brings a superseded revision back.
THEOREM StaleForGood == WorkflowSpec => []ExpiredStaysStale
<1>1. ASSUME Inv PROVE ExpiredStaysStale
  <2>1. PICK r : r = Load(doc)
    OBVIOUS
  <2>2. Sane(r) /\ Size(r) = Size(doc) /\ Size(doc) \in Nat
    BY <1>1, <2>1, Loads DEF Inv
  <2>3. Size(r.rev.of) = Size(doc)
    BY <2>2 DEF Sane, Names, Size
  <2>4. r.rev \notin expired
    BY <1>1, <2>2, <2>3 DEF Inv
  <2>5. QED BY <2>1, <2>4 DEF ExpiredStaysStale
<1>2. QED BY <1>1, Invariant, PTL
=============================================================================
