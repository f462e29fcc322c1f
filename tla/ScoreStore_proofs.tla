-------------------------- MODULE ScoreStore_proofs --------------------------
(***************************************************************************)
(* Proofs about the persisted scores, for any number of matches, overrides *)
(* at work at one time, score runs, re-analyses and failures: what was     *)
(* acknowledged and met no other writer is kept, what was refused leaves   *)
(* nothing in the files nobody else wrote, and scoring can be repeated.    *)
(***************************************************************************)
EXTENDS ScoreStore, TLAPS, FiniteSetTheorems, WellFoundedInduction

-----------------------------------------------------------------------------
(* The shape of the state.                                                 *)

Setting == Call \cup {0}
CorpusFile == [exists : BOOLEAN, rows : [Match -> Row]]
Entries == [by : {"override", "review"}, number : Nat]
Snapshots == [overrides : [Match -> Setting], report : Setting, scores : Row,
              corpus : CorpusFile, review : Seq(Entries), audit : Seq(Entries)]
Finds == [overrides : [Match -> Setting], report : Setting, scores : [Match -> Row],
          corpus : CorpusFile, review : Seq(Entries), audit : Seq(Entries)]
CallAt == Handled \cup {"snapshot", "load", "override", "report", "read", "write", "correct",
                        "commit", "undo"}
Calls == [at : CallAt, before : Snapshots, kept : [Match -> Setting], rows : [Match -> Row],
          next : Nat]
Commands == [at : {"idle", "read", "write"}, rows : [Match -> Row], next : Nat]
Transactions == [entry : Entries, match : Match, review : Seq(Entries), audit : Seq(Entries)]
Acks == [match : Match, entry : Entries, during : SUBSET Call]
Bounds == [scores : Nat, reruns : Nat, regrades : Nat, reviews : Nat, failures : Nat]
Kinds == {"override", "score", "review", "runner"}

\* The files have their types ...
Typed ==
    /\ overrides \in [Match -> Setting] /\ report \in [Match -> Setting]
    /\ scores \in [Match -> Row] /\ corpus \in CorpusFile
    /\ review \in [Match -> Seq(Entries)] /\ audit \in Seq(Entries)

DeskType == desk = {} \/ \E t \in Transactions : desk = {t}
WriterType == writer = {} \/ \E p \in Setting : writer = {p}

\* ... and so has everything else.
Types ==
    /\ verified \in [Match -> BOOLEAN] /\ metrics \in [Match -> Nat \ {0}]
    /\ catalog \subseteq Match
    /\ Typed
    /\ call \in [Call -> Calls]
    /\ \A c \in Call : /\ call[c].at = "new" => call[c].next = 0
                       /\ call[c].at \in {"snapshot", "undo"} => call[c].next \in 0..5
    /\ command \in Commands
    /\ DeskType
    /\ acked \subseteq Acks
    /\ found \in [Call -> Finds] /\ met \in [Call -> SUBSET Kinds]
    /\ WriterType
    /\ bounds \in Bounds

-----------------------------------------------------------------------------
(* The invariant.                                                          *)

\* Requests arrive in order, and who is at work with another has met it.
Turns ==
    /\ \A c, d \in Call : d > c /\ call[c].at = "new" => call[d].at = "new"
    /\ \A c, d \in Busy : c # d => "override" \in met[c]
    /\ \A c, d \in Call : d < c /\ call[c].at # "new" /\ d \in Busy => "override" \in met[c]
    /\ \A c \in Busy : command.at # "idle" => "score" \in met[c]

\* A handler has read the first n of its files.
Took(c, n) == call[c].at # "snapshot" \/ call[c].next >= n
\* A handler that failed has put them back.
Gave(c, n) == call[c].at = "undo" /\ call[c].next >= n

Reading == {"snapshot", "load", "override"}
Written == {"report", "read", "write", "correct", "commit"}

\* No one else who writes file f was at work.
Free(c, f) == met[c] \cap Writers[f] = {}

\* Rows made from the effective overrides, written as far as match `next`.
Walked(rows, next) == \A k \in Match : rows[k] # NoRow /\ k <= next => scores[k] = rows[k]
Walk(rows, next) ==
    /\ \A k \in Match : rows[k] # NoRow => rows[k].role = overrides[k]
    /\ Walked(rows, next)
WalkDone(rows) ==
    /\ \A k \in Match : rows[k] # NoRow => rows[k].role = overrides[k] /\ scores[k] = rows[k]
    /\ corpus = [exists |-> TRUE, rows |-> rows]

\* How far a handler, or the restoration of its snapshots, has come.
OverridesHeld(c) ==
    Free(c, "overrides") =>
        LET was == found[c].overrides IN
        /\ Took(c, 1) => call[c].before.overrides = was
        /\ call[c].at \in Reading \/ Gave(c, 1) => overrides = was
        /\ call[c].at = "override" => call[c].kept = was
        /\ call[c].at \in Written => overrides = [was EXCEPT ![Target[c]] = c]

ReportHeld(c) ==
    Free(c, "report") =>
        /\ Took(c, 2) => call[c].before.report = found[c].report
        /\ call[c].at \in Reading \cup {"report"} \/ Gave(c, 2) =>
              report[Target[c]] = found[c].report

ScoresHeld(c) ==
    Free(c, "scores") =>
        /\ Took(c, 3) => call[c].before.scores = found[c].scores[Target[c]]
        /\ call[c].at \in Reading \cup {"report", "read"} \/ Gave(c, 3) =>
              scores[Target[c]] = found[c].scores[Target[c]]

CorpusHeld(c) ==
    Free(c, "corpus") =>
        /\ Took(c, 4) => call[c].before.corpus = found[c].corpus
        /\ call[c].at \in Reading \cup {"report", "read"} \/ Gave(c, 4) =>
              corpus = found[c].corpus

ReviewHeld(c) ==
    Free(c, "review") =>
        /\ Took(c, 5) => call[c].before.review = found[c].review
        /\ review[Target[c]] = found[c].review

AuditHeld(c) ==
    Free(c, "audit") =>
        /\ Took(c, 6) => call[c].before.audit = found[c].audit
        /\ audit = found[c].audit

RowsHeld(c) ==
    Unmixed(c) =>
        /\ call[c].at = "write" => Walk(call[c].rows, call[c].next)
        /\ call[c].at \in {"correct", "commit"} => WalkDone(call[c].rows)

Held(c) ==
    /\ OverridesHeld(c) /\ ReportHeld(c) /\ ScoresHeld(c) /\ CorpusHeld(c)
    /\ ReviewHeld(c) /\ AuditHeld(c) /\ RowsHeld(c)

\* An acknowledged override that no later one of its match took the place of.
Stands(c) ==
    /\ call[c].at = "200" /\ Unmixed(c)
    /\ \A d \in Call : d > c /\ Target[d] = Target[c] =>
          call[d].at = "new" \/ (Unmixed(d) /\ (d \in Busy \/ call[d].at = "500"))

\* It has its effect in an override file, a corpus and the row of its match,
Effect(c, file, corp, row) ==
    /\ file[Target[c]] = c
    /\ corp.exists
    /\ corp.rows[Target[c]] # NoRow => corp.rows[Target[c]].role = c /\ row.role = c
\* ... in the rows that someone writes, as far as match `next`,
Tells(c, rows, next) ==
    rows[Target[c]] # NoRow =>
        /\ rows[Target[c]].role = c
        /\ Target[c] <= next => scores[Target[c]].role = c
\* ... and in what handler d, of another match, would write or put back.
Carries(c, d) ==
    /\ call[d].at = "write" => Tells(c, call[d].rows, call[d].next)
    /\ call[d].at = "override" => call[d].kept[Target[c]] = c
    /\ Took(d, 1) => call[d].before.overrides[Target[c]] = c
    /\ Took(d, 4) => LET corp == call[d].before.corpus IN
          /\ corp.exists
          /\ corp.rows[Target[c]] # NoRow =>
                corp.rows[Target[c]].role = c /\ scores[Target[c]].role = c

InEffect(c) ==
    /\ Effect(c, overrides, corpus, scores[Target[c]])
    /\ command.at = "write" => Tells(c, command.rows, command.next)
    /\ \A d \in Busy : Carries(c, d)

Rival(c) == {d \in Busy : Target[d] = Target[c]}

Effective ==
    \A c \in Call : Stands(c) =>
        /\ Rival(c) = {} => InEffect(c)
        /\ \A d \in Rival(c) :
              Effect(c, found[d].overrides, found[d].corpus, found[d].scores[Target[c]])

\* An acknowledged review is in whatever a transaction or a restoration will
\* put in the place of the document and of the log.
In(entry, list) == \E i \in DOMAIN list : list[i] = entry
Certain(a) == \A c \in a.during : ~Failed(c)

InBefore(a, d) ==
    /\ Took(d, 5) /\ Target[d] = a.match => In(a.entry, call[d].before.review)
    /\ Took(d, 6) => In(a.entry, call[d].before.audit)

Safe(a) ==
    /\ In(a.entry, review[a.match]) /\ In(a.entry, audit)
    /\ \A t \in desk : In(a.entry, t.audit) /\ (t.match = a.match => In(a.entry, t.review))
    /\ \A d \in Busy \ a.during : InBefore(a, d)

Recorded == \A a \in acked : Certain(a) => Safe(a)

\* As long as nothing failed and no match changed its status, whoever wrote
\* the scores in one go wrote those of the corpus.
Smooth == bounds.failures = 0 /\ bounds.regrades = 0
Members(rows) == \A m \in Match : rows[m] # NoRow <=> m \in catalog
Wrote(prog) ==
    IF prog.at = "write" /\ prog.next > 0 THEN Walked(prog.rows, prog.next) ELSE Preflight
Agreement ==
    Smooth =>
        /\ catalog = {m \in Match : verified[m]}
        /\ \A m \in Match \ catalog : scores[m] = NoRow
        /\ \A c \in Call : ~Failed(c)
        /\ \A c \in Call : call[c].at = "write" => Members(call[c].rows)
        /\ command.at = "write" => Members(command.rows)
        /\ writer = {0} => Wrote(command)
        /\ \A c \in Call : writer = {c} => Wrote(call[c])

AllHeld == \A c \in Busy : Held(c)

Inv == Types /\ Turns /\ AllHeld /\ Effective /\ Recorded /\ Agreement
-----------------------------------------------------------------------------
(* Matches, rows and files.                                                *)

LEMMA Constants ==
    /\ \A c \in Call : c \in Nat /\ c # 0 /\ c \in Setting /\ Target[c] \in Match
    /\ 0 \in Setting /\ 0 \notin Call /\ Match \subseteq Nat /\ \A m \in Match : m > 0
BY ConstantsAssumption DEF Setting, Match

\* There is a next match to write as long as one is left.
LEMMA LeastIs ==
    ASSUME NEW S \in SUBSET Nat, S # {}
    PROVE  Least(S) \in S /\ \A n \in S : Least(S) <= n
<1>1. OpToRel(<, Nat) = {ss \in Nat \X Nat : ss[1] < ss[2]}
  BY DEF OpToRel
<1>2. PICK R : R = {ss \in Nat \X Nat : ss[1] < ss[2]} /\ IsWellFoundedOn(R, Nat)
  BY <1>1, NatLessThanWellFounded
<1>3. PICK m \in S : \A n \in S : ~ (<<n, m>> \in R)
  BY <1>2, WFMin
<1>4. ASSUME NEW n \in S PROVE m <= n
  <2>1. m \in Nat /\ n \in Nat
    OBVIOUS
  <2>2. n < m => <<n, m>> \in R
    BY <1>2, <2>1
  <2>3. QED BY <1>3, <2>1, <2>2
<1>5. QED BY <1>4 DEF Least

\* The next match of rows comes after k, and none is passed over.
LEMMA NextIs ==
    ASSUME NEW rows \in [Match -> Row], NEW k \in Nat, Following(rows, k) # {}
    PROVE  LET m == Least(Following(rows, k)) IN
           /\ m \in Match /\ m > k /\ rows[m] # NoRow
           /\ \A n \in Match : n > k /\ n < m => rows[n] = NoRow
<1>1. Following(rows, k) \in SUBSET Nat
  BY Constants DEF Following
<1>2. PICK m \in Following(rows, k) : /\ m = Least(Following(rows, k))
                                      /\ \A n \in Following(rows, k) : m <= n
  BY <1>1, LeastIs
<1>3. m \in Match /\ m > k /\ rows[m] # NoRow
  BY <1>2 DEF Following
<1>4. ASSUME NEW n \in Match, n > k, n < m PROVE rows[n] = NoRow
  <2>1. ~ (m <= n)
    BY <1>3, <1>4, Constants
  <2>2. n \notin Following(rows, k)
    BY <1>2, <2>1
  <2>3. QED BY <1>4, <2>2 DEF Following
<1>5. QED BY <1>2, <1>3, <1>4

\* None is left: every row of rows is of a match up to k.
LEMMA NoneLeft ==
    ASSUME NEW rows \in [Match -> Row], NEW k \in Nat, Following(rows, k) = {},
           NEW m \in Match, rows[m] # NoRow
    PROVE  m <= k
BY Constants DEF Following

LEMMA RowsIs ==
    ASSUME Types
    PROVE  /\ NoRow \in Row /\ NoRows \in [Match -> Row] /\ Rows \in [Match -> Row]
           /\ \A m \in Match : Rows[m] # NoRow => Rows[m].role = overrides[m]
           /\ Members(Rows)
<1>1. NoRow \in Row /\ NoRows \in [Match -> Row]
  BY DEF NoRow, NoRows, Row
<1>2. \A m \in Match : [metrics |-> metrics[m], role |-> overrides[m]] \in Row
  BY DEF Types, Typed, Row, Setting
<1>3. Rows \in [Match -> Row] /\ \A m \in Match : Rows[m] # NoRow => Rows[m].role = overrides[m]
  BY <1>1, <1>2 DEF Rows
<1>4. \A m \in Match : [metrics |-> metrics[m], role |-> overrides[m]] # NoRow
  BY DEF Types, NoRow
<1>5. QED BY <1>1, <1>3, <1>4 DEF Members, Rows

\* The files in their order.
LEMMA FilesAre ==
    /\ Len(Files) = 6
    /\ Files[1] = "overrides" /\ Files[2] = "report" /\ Files[3] = "scores"
    /\ Files[4] = "corpus" /\ Files[5] = "review" /\ Files[6] = "audit"
BY DEF Files

LEMMA SnapshotIs ==
    ASSUME Typed, NEW m \in Match
    PROVE  /\ Snapshot(m) \in Snapshots
           /\ Snapshot(m).overrides = overrides /\ Snapshot(m).report = report[m]
           /\ Snapshot(m).scores = scores[m] /\ Snapshot(m).corpus = corpus
           /\ Snapshot(m).review = review[m] /\ Snapshot(m).audit = audit
BY DEF Typed, Snapshot, Snapshots

LEMMA NothingIs ==
    /\ NoFiles \in Snapshots
    /\ NoCall \in Calls
    /\ NoCall.at = "new"
<1>1. NoRow \in Row /\ NoRows \in [Match -> Row] /\ NoCorpus \in CorpusFile
  BY DEF NoRow, NoRows, Row, NoCorpus, CorpusFile
<1>2. <<>> \in Seq(Entries) /\ [m \in Match |-> 0] \in [Match -> Setting] /\ 0 \in Setting
  BY DEF Setting
<1>3. NoFiles \in Snapshots /\ NoFiles.overrides \in [Match -> Setting]
  BY <1>1, <1>2 DEF NoFiles, Snapshots
<1>4. "new" \in CallAt
  BY DEF CallAt, Handled
<1>5. QED BY <1>1, <1>3, <1>4 DEF NoCall, Calls

-----------------------------------------------------------------------------
(* The steps of a handler: what becomes of its state.                      *)

\* Handler c, and no other, goes on to step `at`.
Moved(c, at) ==
    /\ call' \in [Call -> Calls] /\ call'[c].at = at
    /\ \A d \in Call \ {c} : call'[d] = call[d]
\* ... with what it had.
SameBefore(c) == call'[c].before = call[c].before
SameRest(c) == call'[c].kept = call[c].kept /\ call'[c].rows = call[c].rows

LEMMA Goes ==
    ASSUME call \in [Call -> Calls], NEW c \in Call, NEW at \in CallAt, Goto(c, at)
    PROVE  Moved(c, at) /\ SameBefore(c) /\ SameRest(c) /\ call'[c].next = call[c].next
<1>1. PICK r \in Calls : r = [call[c] EXCEPT !.at = at]
  BY DEF Calls
<1>2. call' = [call EXCEPT ![c] = r]
  BY <1>1 DEF Goto
<1>3. /\ r.at = at /\ r.before = call[c].before /\ r.kept = call[c].kept
      /\ r.rows = call[c].rows /\ r.next = call[c].next
  BY <1>1 DEF Calls
<1>4. QED BY <1>2, <1>3 DEF Moved, SameBefore, SameRest

LEMMA Ends ==
    ASSUME call \in [Call -> Calls], NEW c \in Call, NEW at \in Handled, End(c, at)
    PROVE  Moved(c, at)
<1>1. at \in CallAt
  BY DEF CallAt
<1>2. PICK r \in Calls : r = [NoCall EXCEPT !.at = at]
  BY <1>1, NothingIs DEF Calls
<1>3. r.at = at
  BY <1>2, NothingIs DEF Calls
<1>4. call' = [call EXCEPT ![c] = r]
  BY <1>2 DEF End
<1>5. QED BY <1>3, <1>4 DEF Moved

\* One file of a snapshot is put in the place of another's.
LEMMA CopyIs ==
    ASSUME NEW b \in Snapshots, NEW s \in Snapshots,
           NEW f \in {"overrides", "report", "scores", "corpus", "review", "audit"},
           NEW r, r = [b EXCEPT ![f] = s[f]]
    PROVE  /\ r \in Snapshots
           /\ r.overrides = IF f = "overrides" THEN s.overrides ELSE b.overrides
           /\ r.report = IF f = "report" THEN s.report ELSE b.report
           /\ r.scores = IF f = "scores" THEN s.scores ELSE b.scores
           /\ r.corpus = IF f = "corpus" THEN s.corpus ELSE b.corpus
           /\ r.review = IF f = "review" THEN s.review ELSE b.review
           /\ r.audit = IF f = "audit" THEN s.audit ELSE b.audit
<1>1. CASE f = "overrides"
  BY <1>1 DEF Snapshots
<1>2. CASE f = "report"
  BY <1>2 DEF Snapshots
<1>3. CASE f = "scores"
  BY <1>3 DEF Snapshots
<1>4. CASE f = "corpus"
  BY <1>4 DEF Snapshots
<1>5. CASE f = "review"
  BY <1>5 DEF Snapshots
<1>6. CASE f = "audit"
  BY <1>6 DEF Snapshots
<1>7. QED BY <1>1, <1>2, <1>3, <1>4, <1>5, <1>6

\* One of the files is read; n counts the files of a handler.
Copied(c, n) ==
    LET was == call[c].before  is == call'[c].before  m == Target[c] IN
    /\ is.overrides = IF n = 1 THEN overrides ELSE was.overrides
    /\ is.report = IF n = 2 THEN report[m] ELSE was.report
    /\ is.scores = IF n = 3 THEN scores[m] ELSE was.scores
    /\ is.corpus = IF n = 4 THEN corpus ELSE was.corpus
    /\ is.review = IF n = 5 THEN review[m] ELSE was.review
    /\ is.audit = IF n = 6 THEN audit ELSE was.audit

LEMMA Takes ==
    ASSUME Types, NEW c \in Call, TakeSnapshot(c)
    PROVE  \E n \in 1..6 :
              /\ n = call[c].next + 1 /\ call'[c].next = n
              /\ Moved(c, IF n = 6 THEN "load" ELSE "snapshot") /\ SameRest(c)
              /\ Copied(c, n)
<1>1. PICK n \in 1..6 : n = call[c].next + 1
  <2>1. call[c].at = "snapshot"
    BY DEF TakeSnapshot
  <2>2. call[c].next \in 0..5
    BY <2>1 DEF Types
  <2>3. QED BY <2>2
<1>2. PICK at \in CallAt : at = IF n = 6 THEN "load" ELSE "snapshot"
  BY DEF CallAt
<1>3. PICK S \in Snapshots :
         /\ S = Snapshot(Target[c])
         /\ S.overrides = overrides /\ S.report = report[Target[c]]
         /\ S.scores = scores[Target[c]] /\ S.corpus = corpus
         /\ S.review = review[Target[c]] /\ S.audit = audit
  BY SnapshotIs, Constants DEF Types
<1>4. PICK f \in {"overrides", "report", "scores", "corpus", "review", "audit"} :
         /\ f = Files[n]
         /\ (f = "overrides" <=> n = 1) /\ (f = "report" <=> n = 2) /\ (f = "scores" <=> n = 3)
         /\ (f = "corpus" <=> n = 4) /\ (f = "review" <=> n = 5) /\ (f = "audit" <=> n = 6)
  <2>1. n = 1 \/ n = 2 \/ n = 3 \/ n = 4 \/ n = 5 \/ n = 6
    OBVIOUS
  <2>2. QED BY <2>1, FilesAre
<1>5. call \in [Call -> Calls] /\ call[c] \in Calls /\ call[c].before \in Snapshots
  BY DEF Types, Calls
<1>6. PICK q : q = [call[c].before EXCEPT ![f] = S[f]]
  OBVIOUS
<1>7. /\ q \in Snapshots
      /\ q.overrides = IF f = "overrides" THEN S.overrides ELSE call[c].before.overrides
      /\ q.report = IF f = "report" THEN S.report ELSE call[c].before.report
      /\ q.scores = IF f = "scores" THEN S.scores ELSE call[c].before.scores
      /\ q.corpus = IF f = "corpus" THEN S.corpus ELSE call[c].before.corpus
      /\ q.review = IF f = "review" THEN S.review ELSE call[c].before.review
      /\ q.audit = IF f = "audit" THEN S.audit ELSE call[c].before.audit
  BY <1>5, <1>6, CopyIs
<1>8. call' = [call EXCEPT ![c] = [@ EXCEPT !.before = q, !.next = n, !.at = at]]
  <2>1. (n = Len(Files) <=> n = 6) /\ call[c].at = "snapshot"
    BY FilesAre DEF TakeSnapshot
  <2>2. /\ Files[call[c].next + 1] = f
        /\ Snapshot(Target[c])[Files[call[c].next + 1]] = S[f]
    BY <1>1, <1>3, <1>4
  <2>3. call' = [call EXCEPT ![c].before[f] = S[f], ![c].next = n,
                             ![c].at = IF n = Len(Files) THEN "load" ELSE @]
    BY <1>1, <1>3, <1>4 DEF TakeSnapshot
  <2>4. QED BY <1>2, <1>6, <2>1, <2>3
<1>9. PICK r \in Calls : r = [call[c] EXCEPT !.before = q, !.next = n, !.at = at]
  <2>1. n \in Nat
    OBVIOUS
  <2>2. QED BY <1>5, <1>7, <2>1 DEF Calls
<1>10. call' = [call EXCEPT ![c] = r]
  BY <1>5, <1>8, <1>9
<1>11. /\ r.at = at /\ r.before = q /\ r.kept = call[c].kept /\ r.rows = call[c].rows /\ r.next = n
  BY <1>5, <1>9 DEF Calls
<1>12. call'[c] = r /\ call' \in [Call -> Calls] /\ \A d \in Call \ {c} : call'[d] = call[d]
  BY <1>5, <1>10
<1>13. call'[c].before = q
  BY <1>11, <1>12
<1>14. Copied(c, n)
  BY <1>3, <1>4, <1>7, <1>13 DEF Copied
<1>15. Moved(c, at) /\ SameRest(c) /\ call'[c].next = n
  BY <1>11, <1>12 DEF Moved, SameRest
<1>16. QED BY <1>1, <1>2, <1>14, <1>15

LEMMA Loads ==
    ASSUME Types, NEW c \in Call, LoadOverrides(c)
    PROVE  Moved(c, "override") /\ SameBefore(c) /\ call'[c].kept = overrides
<1>1. PICK r \in Calls : r = [call[c] EXCEPT !.at = "override", !.kept = overrides]
  BY DEF Calls, Types, Typed, CallAt
<1>2. call' = [call EXCEPT ![c] = r]
  BY <1>1 DEF LoadOverrides, Types
<1>3. r.at = "override" /\ r.before = call[c].before /\ r.kept = overrides
  BY <1>1 DEF Types, Calls
<1>4. QED BY <1>2, <1>3 DEF Moved, SameBefore, Types

LEMMA Reads ==
    ASSUME Types, NEW c \in Call, ReadRows(c)
    PROVE  Moved(c, "write") /\ SameBefore(c) /\ call'[c].rows = Rows /\ call'[c].next = 0
<1>1. PICK rows \in [Match -> Row] : rows = Rows
  BY RowsIs
<1>2. PICK r \in Calls : r = [call[c] EXCEPT !.at = "write", !.rows = rows, !.next = 0]
  <2>1. call[c] \in Calls /\ "write" \in CallAt /\ 0 \in Nat
    BY DEF Types, CallAt
  <2>2. QED BY <2>1 DEF Calls
<1>3. call' = [call EXCEPT ![c] = r]
  BY <1>1, <1>2 DEF ReadRows, Types
<1>4. r.at = "write" /\ r.before = call[c].before /\ r.rows = Rows /\ r.next = 0
  BY <1>1, <1>2 DEF Types, Calls
<1>5. QED BY <1>3, <1>4 DEF Moved, SameBefore, Types

LEMMA Advances ==
    ASSUME Types, NEW c \in Call, NEW m \in Nat, call' = [call EXCEPT ![c].next = m]
    PROVE  Moved(c, call[c].at) /\ SameBefore(c) /\ SameRest(c) /\ call'[c].next = m
<1>1. PICK r \in Calls : r = [call[c] EXCEPT !.next = m]
  BY DEF Calls, Types
<1>2. call' = [call EXCEPT ![c] = r]
  BY <1>1 DEF Types
<1>3. /\ r.at = call[c].at /\ r.before = call[c].before /\ r.kept = call[c].kept
      /\ r.rows = call[c].rows /\ r.next = m
  BY <1>1 DEF Types, Calls
<1>4. QED BY <1>2, <1>3 DEF Moved, SameBefore, SameRest, Types

LEMMA Undoes ==
    ASSUME Types, NEW c \in Call, Fails(c)
    PROVE  Moved(c, "undo") /\ SameBefore(c) /\ call'[c].next = 0
<1>1. PICK r \in Calls : r = [call[c] EXCEPT !.at = "undo", !.next = 0]
  <2>1. call[c] \in Calls /\ "undo" \in CallAt /\ 0 \in Nat
    BY DEF Types, CallAt
  <2>2. QED BY <2>1 DEF Calls
<1>2. call' = [call EXCEPT ![c] = r]
  BY <1>1 DEF Fails, Types
<1>3. r.at = "undo" /\ r.before = call[c].before /\ r.next = 0
  BY <1>1 DEF Types, Calls
<1>4. QED BY <1>2, <1>3 DEF Moved, SameBefore, Types

\* The n-th of the files is put back.
PutBack(c, n) ==
    LET before == call[c].before  m == Target[c] IN
    /\ overrides' = IF n = 1 THEN before.overrides ELSE overrides
    /\ report' = IF n = 2 THEN [report EXCEPT ![m] = before.report] ELSE report
    /\ scores' = IF n = 3 THEN [scores EXCEPT ![m] = before.scores] ELSE scores
    /\ corpus' = IF n = 4 THEN before.corpus ELSE corpus
    /\ review' = IF n = 5 THEN [review EXCEPT ![m] = before.review] ELSE review
    /\ audit' = IF n = 6 THEN before.audit ELSE audit

LEMMA GivesBack ==
    ASSUME Types, NEW c \in Call, Restore(c)
    PROVE  \E n \in 1..6 :
              /\ n = call[c].next + 1 /\ PutBack(c, n)
              /\ Moved(c, IF n = 6 THEN "500" ELSE "undo")
              /\ n # 6 => call'[c].next = n /\ SameBefore(c)
<1>1. PICK n \in 1..6 : n = call[c].next + 1
  <2>1. call[c].at = "undo"
    BY DEF Restore
  <2>2. call[c].next \in 0..5
    BY <2>1 DEF Types
  <2>3. QED BY <2>2
<1>2. call[c].at = "undo" /\ call \in [Call -> Calls]
  BY DEF Restore, Types
<1>3. PICK f \in {"overrides", "report", "scores", "corpus", "review", "audit"} :
         /\ f = Files[n]
         /\ (f = "overrides" <=> n = 1) /\ (f = "report" <=> n = 2) /\ (f = "scores" <=> n = 3)
         /\ (f = "corpus" <=> n = 4) /\ (f = "review" <=> n = 5) /\ (f = "audit" <=> n = 6)
  <2>1. n = 1 \/ n = 2 \/ n = 3 \/ n = 4 \/ n = 5 \/ n = 6
    OBVIOUS
  <2>2. QED BY <2>1, FilesAre
<1>4. PutBack(c, n)
  BY <1>1, <1>3 DEF Restore, PutBack
<1>5. CASE n = 6
  <2>1. End(c, "500")
    BY <1>1, <1>5, FilesAre DEF Restore
  <2>2. QED BY <1>1, <1>2, <1>4, <1>5, <2>1, Ends DEF Handled
<1>6. CASE n # 6
  <2>1. call' = [call EXCEPT ![c].next = n] /\ n \in Nat
    BY <1>1, <1>6, FilesAre DEF Restore
  <2>2. QED BY <1>1, <1>2, <1>4, <1>6, <2>1, Advances
<1>7. QED BY <1>5, <1>6

LEMMA Dies ==
    ASSUME Types, ServerDies
    PROVE  /\ call' \in [Call -> Calls] /\ Busy' = {}
           /\ \A d \in Busy : call'[d].at = "cut"
           /\ \A d \in Call \ Busy : call'[d] = call[d]
<1>1. PICK r \in Calls : r = [NoCall EXCEPT !.at = "cut"]
  BY NothingIs DEF Calls, CallAt, Handled
<1>2. r.at = "cut" /\ call \in [Call -> Calls]
  BY <1>1, NothingIs DEF Calls, Types
<1>3. call' = [d \in Call |-> IF call[d].at \in Handled THEN call[d] ELSE r]
  BY <1>1 DEF ServerDies
<1>4. QED BY <1>2, <1>3 DEF Busy, Handled

LEMMA Spent ==
    ASSUME bounds \in Bounds, NEW b \in {"scores", "reruns", "regrades", "reviews", "failures"},
           Spend(b)
    PROVE  /\ bounds' \in Bounds /\ (Smooth' => Smooth)
           /\ b \in {"regrades", "failures"} => ~Smooth'
<1>1. PICK n \in Nat : n = bounds[b] + 1 /\ n # 0
  BY DEF Bounds
<1>2. bounds' = [bounds EXCEPT ![b] = n]
  BY <1>1 DEF Spend
<1>3. QED BY <1>1, <1>2 DEF Bounds, Smooth

LEMMA Failing ==
    ASSUME bounds \in Bounds, SpendFailure
    PROVE  bounds' \in Bounds /\ ~Smooth'
BY Spent DEF SpendFailure

-----------------------------------------------------------------------------
(* Every step keeps the types.                                             *)

LEMMA TypesStay ==
    ASSUME Types, NEW c \in Call, NEW at \in CallAt \ {"new"}, Moved(c, at),
           at \in {"snapshot", "undo"} => call'[c].next \in 0..5,
           UNCHANGED <<analysis, catalog, command, acked, found, met>>,
           Typed', DeskType', WriterType', bounds' \in Bounds
    PROVE  Types'
<1>1. \A d \in Call : /\ call'[d].at = "new" => call'[d].next = 0
                      /\ call'[d].at \in {"snapshot", "undo"} => call'[d].next \in 0..5
  BY DEF Types, Moved
<1>2. QED BY <1>1 DEF Types, Moved, analysis

LEMMA WriterTyped ==
    ASSUME NEW p \in Setting, NEW next, Writes(p, next)
    PROVE  WriterType'
BY DEF Writes, WriterType

\* The next of the rows is written to its match.
LEMMA WriteTyped ==
    ASSUME Types, NEW rows \in [Match -> Row], NEW next \in Nat, Following(rows, next) # {},
           NEW m, m = Least(Following(rows, next)), scores' = [scores EXCEPT ![m] = rows[m]]
    PROVE  /\ m \in Match /\ m \in Nat /\ m > next /\ rows[m] # NoRow
           /\ scores' \in [Match -> Row] /\ scores'[m] = rows[m]
           /\ \A k \in Match \ {m} : scores'[k] = scores[k]
<1>1. m \in Match /\ m > next /\ rows[m] # NoRow
  BY NextIs
<1>2. m \in Nat
  BY <1>1, Constants
<1>3. QED BY <1>1, <1>2 DEF Types, Typed

LEMMA CorpusTyped ==
    ASSUME NEW rows \in [Match -> Row], corpus' = [exists |-> TRUE, rows |-> rows]
    PROVE  corpus' \in CorpusFile /\ corpus'.exists /\ corpus'.rows = rows
BY DEF CorpusFile

LEMMA EntryTyped ==
    ASSUME NEW by \in {"override", "review"}, NEW n \in Nat
    PROVE  Entry(by, n) \in Entries
BY DEF Entry, Entries

LEMMA OpenedTyped ==
    ASSUME Types, NEW entry \in Entries, NEW m \in Match, desk' = {Opened(entry, m)}
    PROVE  DeskType'
BY DEF Types, Typed, Opened, Transactions, DeskType

LEMMA CommitTyped ==
    ASSUME Types, NEW t \in desk, Commit(t)
    PROVE  /\ t \in Transactions /\ DeskType' /\ desk' = {} /\ desk = {t}
           /\ review' \in [Match -> Seq(Entries)] /\ audit' \in Seq(Entries)
<1>1. t \in Transactions /\ desk = {t}
  BY DEF Types, DeskType
<1>2. /\ t.entry \in Entries /\ t.match \in Match /\ t.review \in Seq(Entries)
      /\ t.audit \in Seq(Entries)
  BY <1>1 DEF Transactions
<1>3. Append(t.review, t.entry) \in Seq(Entries) /\ Append(t.audit, t.entry) \in Seq(Entries)
  BY <1>2
<1>4. review' = [review EXCEPT ![t.match] = Append(t.review, t.entry)]
      /\ audit' = Append(t.audit, t.entry) /\ desk' = {}
  BY DEF Commit
<1>5. QED BY <1>1, <1>2, <1>3, <1>4 DEF Types, Typed, DeskType

LEMMA BusyIs ==
    ASSUME NEW c \in Call
    PROVE  c \in Busy <=> call[c].at \notin Handled
BY DEF Busy

LEMMA CallIs ==
    ASSUME Types, NEW c \in Call
    PROVE  /\ call[c] \in Calls /\ call[c].before \in Snapshots /\ call[c].kept \in [Match -> Setting]
           /\ call[c].rows \in [Match -> Row] /\ call[c].next \in Nat /\ call[c].at \in CallAt
           /\ Target[c] \in Match /\ c \in Setting /\ c \in Nat /\ found[c] \in Finds
           /\ met[c] \in SUBSET Kinds
BY Constants DEF Types, Calls

LEMMA BeforeIs ==
    ASSUME Types, NEW c \in Call
    PROVE  LET before == call[c].before IN
           /\ before.overrides \in [Match -> Setting] /\ before.report \in Setting
           /\ before.scores \in Row /\ before.corpus \in CorpusFile
           /\ before.review \in Seq(Entries) /\ before.audit \in Seq(Entries)
BY CallIs DEF Snapshots

LEMMA HandleTypes ==
    ASSUME Types, NEW c \in Call, Handle(c)
    PROVE  Types'
<1>0. /\ call \in [Call -> Calls] /\ Target[c] \in Match /\ c \in Setting /\ c \in Nat
      /\ Typed /\ DeskType /\ WriterType /\ bounds \in Bounds
      /\ call[c].kept \in [Match -> Setting] /\ call[c].rows \in [Match -> Row]
      /\ call[c].next \in Nat
  BY CallIs DEF Types
<1>1. CASE Begin(c)
  <2>1. call[c].at = "new" /\ Goto(c, "snapshot") /\ "snapshot" \in CallAt
    BY <1>1 DEF Begin, CallAt
  <2>2. Moved(c, "snapshot") /\ call'[c].next = 0
    BY <1>0, <2>1, Goes DEF Types
  <2>3. \A d \in Call : /\ call'[d].at = "new" => call'[d].next = 0
                        /\ call'[d].at \in {"snapshot", "undo"} => call'[d].next \in 0..5
    BY <2>2 DEF Types, Moved
  <2>4. found' \in [Call -> Finds]
    <3>1. PICK s \in Snapshots : s = Snapshot(Target[c])
      BY <1>0, SnapshotIs
    <3>2. [s EXCEPT !.scores = scores] \in Finds
      BY <1>0, <3>1 DEF Snapshots, Finds, Typed
    <3>3. found' = [found EXCEPT ![c] = [s EXCEPT !.scores = scores]]
      BY <1>1, <3>1 DEF Begin
    <3>4. QED BY <3>2, <3>3 DEF Types
  <2>5. met' \in [Call -> SUBSET Kinds]
    <3>1. met' = [d \in Call |->
                 IF d = c THEN (IF Busy = {} THEN {} ELSE {"override"})
                               \cup (IF command.at = "idle" THEN {} ELSE {"score"})
                 ELSE IF d \in Busy THEN met[d] \cup {"override"} ELSE met[d]]
      BY <1>1 DEF Begin
    <3>2. \A d \in Call : met[d] \in SUBSET Kinds
      BY DEF Types
    <3>3. QED BY <3>1, <3>2 DEF Kinds
  <2>6. UNCHANGED <<analysis, persisted, command, desk, acked, writer, bounds>>
    BY <1>1 DEF Begin
  <2>7. QED BY <2>2, <2>3, <2>4, <2>5, <2>6
            DEF Types, Typed, Moved, analysis, persisted, reviews, DeskType, WriterType
<1>2. CASE TakeSnapshot(c)
  <2>1. UNCHANGED <<analysis, persisted, command, desk, history, bounds>>
    BY <1>2 DEF TakeSnapshot
  <2>2. PICK n \in 1..6 : /\ call'[c].next = n
                          /\ Moved(c, IF n = 6 THEN "load" ELSE "snapshot")
    BY <1>2, Takes
  <2>3. PICK at \in CallAt \ {"new"} : /\ at = IF n = 6 THEN "load" ELSE "snapshot"
                                       /\ at \in {"snapshot", "undo"} => n # 6
    BY DEF CallAt
  <2>4. Moved(c, at) /\ (at \in {"snapshot", "undo"} => call'[c].next \in 0..5)
    BY <2>2, <2>3
  <2>5. QED BY <1>0, <2>1, <2>4, TypesStay
            DEF Typed, analysis, persisted, reviews, history, DeskType, WriterType
<1>3. CASE LoadOverrides(c)
  <2>1. UNCHANGED <<analysis, persisted, command, desk, history, bounds>>
    BY <1>3 DEF LoadOverrides
  <2>2. Moved(c, "override") /\ "override" \in CallAt \ {"new"}
    BY <1>3, Loads DEF CallAt
  <2>3. QED BY <1>0, <2>1, <2>2, TypesStay
            DEF Typed, analysis, persisted, reviews, history, DeskType, WriterType
<1>4. CASE WriteOverride(c)
  <2>1. /\ UNCHANGED <<analysis, catalog, report, scores, corpus, reviews, command, desk,
                       history, bounds>>
        /\ overrides' = [call[c].kept EXCEPT ![Target[c]] = c] /\ Goto(c, "report")
    BY <1>4 DEF WriteOverride
  <2>2. Moved(c, "report") /\ "report" \in CallAt \ {"new"}
    BY <1>0, <2>1, Goes DEF CallAt
  <2>3. overrides' \in [Match -> Setting]
    BY <1>0, <2>1
  <2>4. QED BY <1>0, <2>1, <2>2, <2>3, TypesStay
            DEF Typed, analysis, reviews, history, DeskType, WriterType
<1>5. CASE RebuildReport(c)
  <2>1. /\ UNCHANGED <<analysis, catalog, overrides, scores, corpus, reviews, command, desk,
                       history, bounds>>
        /\ report' = [report EXCEPT ![Target[c]] = overrides[Target[c]]] /\ Goto(c, "read")
    BY <1>5 DEF RebuildReport
  <2>2. Moved(c, "read") /\ "read" \in CallAt \ {"new"}
    BY <1>0, <2>1, Goes DEF CallAt
  <2>3. report' \in [Match -> Setting]
    BY <1>0, <2>1 DEF Typed
  <2>4. QED BY <1>0, <2>1, <2>2, <2>3, TypesStay
            DEF Typed, analysis, reviews, history, DeskType, WriterType
<1>6. CASE ReadRows(c)
  <2>1. UNCHANGED <<analysis, persisted, command, desk, history, bounds>>
    BY <1>6 DEF ReadRows
  <2>2. Moved(c, "write") /\ "write" \in CallAt \ {"new"}
    BY <1>6, Reads DEF CallAt
  <2>3. QED BY <1>0, <2>1, <2>2, TypesStay
            DEF Typed, analysis, persisted, reviews, history, DeskType, WriterType
<1>7. CASE WriteScores(c)
  <2>0. PICK rows \in [Match -> Row], next \in Nat : rows = call[c].rows /\ next = call[c].next
    BY <1>0
  <2>1. /\ UNCHANGED <<analysis, catalog, overrides, report, reviews, command, desk, bounds,
                       acked, found, met>>
        /\ call[c].at = "write" /\ Writes(c, next)
    BY <1>7, <2>0 DEF WriteScores
  <2>2. WriterType'
    BY <1>0, <2>1, WriterTyped
  <2>3. CASE Following(rows, next) # {}
    <3>1. PICK m : m = Least(Following(rows, next))
      OBVIOUS
    <3>2. /\ scores' = [scores EXCEPT ![m] = rows[m]] /\ UNCHANGED corpus
          /\ call' = [call EXCEPT ![c].next = m]
      BY <1>7, <2>0, <2>3, <3>1 DEF WriteScores
    <3>3. m \in Nat /\ scores' \in [Match -> Row]
      BY <2>3, <3>1, <3>2, WriteTyped
    <3>4. Moved(c, "write") /\ "write" \in CallAt \ {"new"}
      BY <2>1, <3>2, <3>3, Advances DEF CallAt
    <3>5. QED BY <1>0, <2>1, <2>2, <3>2, <3>3, <3>4, TypesStay
              DEF Typed, analysis, reviews, DeskType
  <2>4. CASE Following(rows, next) = {}
    <3>1. /\ corpus' = [exists |-> TRUE, rows |-> rows] /\ UNCHANGED scores
          /\ Goto(c, "correct")
      BY <1>7, <2>0, <2>4 DEF WriteScores
    <3>2. Moved(c, "correct") /\ "correct" \in CallAt \ {"new"}
      BY <1>0, <3>1, Goes DEF CallAt
    <3>3. corpus' \in CorpusFile
      BY <3>1, CorpusTyped
    <3>4. QED BY <1>0, <2>1, <2>2, <3>1, <3>2, <3>3, TypesStay
              DEF Typed, analysis, reviews, DeskType
  <2>5. QED BY <2>3, <2>4
<1>8. CASE Correct(c)
  <2>1. /\ UNCHANGED <<analysis, persisted, command, history, bounds>>
        /\ desk' = {Opened(Entry("override", c), Target[c])} /\ Goto(c, "commit")
    BY <1>8 DEF Correct
  <2>2. Moved(c, "commit") /\ "commit" \in CallAt \ {"new"}
    BY <1>0, <2>1, Goes DEF CallAt
  <2>3. DeskType'
    BY <1>0, <2>1, EntryTyped, OpenedTyped
  <2>4. QED BY <1>0, <2>1, <2>2, <2>3, TypesStay
            DEF Typed, analysis, persisted, reviews, history, WriterType
<1>9. CASE Corrected(c)
  <2>1. UNCHANGED <<analysis, catalog, overrides, report, scores, corpus, command, history,
                    bounds>> /\ End(c, "200")
    BY <1>9 DEF Corrected
  <2>2. PICK t \in desk : Commit(t)
    BY <1>9 DEF Corrected
  <2>3. Moved(c, "200") /\ "200" \in CallAt \ {"new"}
    BY <1>0, <2>1, Ends DEF CallAt, Handled
  <2>4. DeskType' /\ review' \in [Match -> Seq(Entries)] /\ audit' \in Seq(Entries)
    BY <2>2, CommitTyped
  <2>5. QED BY <1>0, <2>1, <2>3, <2>4, TypesStay DEF Typed, analysis, history, WriterType
<1>10. CASE Fails(c)
  <2>1. /\ UNCHANGED <<analysis, persisted, command, history>> /\ SpendFailure
        /\ desk' = {t \in desk : t.entry # Entry("override", c)}
    BY <1>10 DEF Fails
  <2>2. Moved(c, "undo") /\ "undo" \in CallAt \ {"new"} /\ call'[c].next \in 0..5
    BY <1>10, Undoes DEF CallAt
  <2>3. bounds' \in Bounds
    BY <1>0, <2>1, Failing
  <2>4. desk' = {} \/ desk' = desk
    BY <1>0, <2>1 DEF DeskType
  <2>5. DeskType'
    BY <1>0, <2>4 DEF DeskType
  <2>6. QED BY <1>0, <2>1, <2>2, <2>3, <2>5, TypesStay
            DEF Typed, analysis, persisted, reviews, history, WriterType
<1>11. CASE Restore(c)
  <2>1. UNCHANGED <<analysis, catalog, command, desk, history, bounds>>
    BY <1>11 DEF Restore
  <2>2. PICK n \in 1..6 : /\ PutBack(c, n) /\ Moved(c, IF n = 6 THEN "500" ELSE "undo")
                          /\ n # 6 => call'[c].next = n
    BY <1>11, GivesBack
  <2>3. PICK at \in CallAt \ {"new"} : /\ at = IF n = 6 THEN "500" ELSE "undo"
                                       /\ at \in {"snapshot", "undo"} => n # 6
    BY DEF CallAt, Handled
  <2>4. Typed'
    BY <1>0, <2>2, BeforeIs DEF PutBack, Typed
  <2>5. QED BY <1>0, <2>1, <2>2, <2>3, <2>4, TypesStay
            DEF analysis, history, DeskType, WriterType
<1>12. CASE RestoreFails(c)
  <2>1. /\ UNCHANGED <<analysis, persisted, command, desk, history>> /\ SpendFailure
        /\ End(c, "stuck")
    BY <1>12 DEF RestoreFails
  <2>2. Moved(c, "stuck") /\ "stuck" \in CallAt \ {"new"}
    BY <1>0, <2>1, Ends DEF CallAt, Handled
  <2>3. bounds' \in Bounds
    BY <1>0, <2>1, Failing
  <2>4. QED BY <1>0, <2>1, <2>2, <2>3, TypesStay
            DEF Typed, analysis, persisted, reviews, history, DeskType, WriterType
<1>13. QED BY <1>1, <1>2, <1>3, <1>4, <1>5, <1>6, <1>7, <1>8, <1>9, <1>10, <1>11, <1>12 DEF Handle

\* The score command's states.
LEMMA CommandIs ==
    ASSUME Types
    PROVE  /\ command.at \in {"idle", "read", "write"} /\ command.rows \in [Match -> Row]
           /\ command.next \in Nat
           /\ [at |-> "idle", rows |-> NoRows, next |-> 0] \in Commands
           /\ [at |-> "write", rows |-> Rows, next |-> 0] \in Commands
BY RowsIs DEF Types, Commands

LEMMA CommandAdvances ==
    ASSUME Types, NEW m \in Nat, command' = [command EXCEPT !.next = m]
    PROVE  /\ command' \in Commands /\ command'.at = command.at
           /\ command'.rows = command.rows /\ command'.next = m
BY DEF Types, Commands

LEMMA CommandReads ==
    ASSUME Types, command' = [command EXCEPT !.at = "read"]
    PROVE  command' \in Commands /\ command'.at = "read"
BY DEF Types, Commands

\* The steps of everyone else leave the handlers where they are.
LEMMA OtherTypes ==
    ASSUME Types, \/ ScoreBegins \/ ScoreReads \/ ScoreWrites \/ ScoreStops
                  \/ RebuildCatalog \/ Reviewed \/ \E m \in Match : Review(m) \/ Rerun(m)
    PROVE  Types' /\ call' = call
<1> DEFINE Calm == \A d \in Call : /\ call[d].at = "new" => call[d].next = 0
                                   /\ call[d].at \in {"snapshot", "undo"} => call[d].next \in 0..5
<1>0. /\ call \in [Call -> Calls] /\ Typed /\ DeskType /\ WriterType /\ bounds \in Bounds /\ Calm
      /\ verified \in [Match -> BOOLEAN] /\ metrics \in [Match -> Nat \ {0}]
      /\ catalog \subseteq Match /\ command \in Commands /\ acked \subseteq Acks
      /\ found \in [Call -> Finds] /\ met \in [Call -> SUBSET Kinds]
      /\ Busy \subseteq Call /\ 0 \in Setting
  BY Constants DEF Types, Busy
<1> HIDE DEF Calm
<1>a. ASSUME NEW H \in SUBSET Call, NEW who \in Kinds, Meet(H, who)
      PROVE  met' \in [Call -> SUBSET Kinds]
  BY <1>0, <1>a DEF Meet
<1>b. ASSUME /\ call' = call /\ Typed' /\ DeskType' /\ WriterType' /\ bounds' \in Bounds
             /\ verified' \in [Match -> BOOLEAN] /\ metrics' \in [Match -> Nat \ {0}]
             /\ catalog' \subseteq Match /\ command' \in Commands /\ acked' \subseteq Acks
             /\ found' \in [Call -> Finds] /\ met' \in [Call -> SUBSET Kinds]
      PROVE  Types'
  BY <1>0, <1>b DEF Types, Calm
<1>1. CASE ScoreBegins
  <2>1. /\ UNCHANGED <<analysis, overrides, report, scores, corpus, reviews, call, desk,
                       acked, found, writer>>
        /\ SpendScore
        /\ \/ /\ catalog' = {m \in Match : verified[m]} /\ Meet(Busy, "score")
              /\ command' = [command EXCEPT !.at = "read"]
           \/ UNCHANGED <<catalog, command, met>>
    BY <1>1 DEF ScoreBegins
  <2>2. bounds' \in Bounds
    BY <1>0, <2>1, Spent DEF SpendScore
  <2>3. command' \in Commands /\ catalog' \subseteq Match /\ met' \in [Call -> SUBSET Kinds]
    BY <1>0, <1>a, <2>1, CommandReads DEF Kinds
  <2>4. QED BY <1>0, <1>b, <2>1, <2>2, <2>3 DEF Typed, analysis, reviews, DeskType, WriterType
<1>2. CASE ScoreReads
  <2>1. UNCHANGED <<analysis, persisted, call, desk, history, bounds>> /\ command' \in Commands
    BY <1>2, CommandIs DEF ScoreReads
  <2>2. QED BY <1>0, <1>b, <2>1
            DEF Typed, analysis, persisted, reviews, history, DeskType, WriterType
<1>3. CASE ScoreWrites
  <2>0. PICK rows \in [Match -> Row], next \in Nat : rows = command.rows /\ next = command.next
    BY CommandIs
  <2>1. /\ UNCHANGED <<analysis, catalog, overrides, report, reviews, call, desk, bounds,
                       acked, found, met>>
        /\ Writes(0, next)
    BY <1>3, <2>0 DEF ScoreWrites
  <2>2. WriterType'
    BY <1>0, <2>1, WriterTyped
  <2>3. CASE Following(rows, next) # {}
    <3>1. PICK m : m = Least(Following(rows, next))
      OBVIOUS
    <3>2. /\ scores' = [scores EXCEPT ![m] = rows[m]] /\ UNCHANGED corpus
          /\ command' = [command EXCEPT !.next = m]
      BY <1>3, <2>0, <2>3, <3>1 DEF ScoreWrites
    <3>3. m \in Nat /\ scores' \in [Match -> Row]
      BY <2>3, <3>1, <3>2, WriteTyped
    <3>4. command' \in Commands
      BY <3>2, <3>3, CommandAdvances
    <3>5. QED BY <1>0, <1>b, <2>1, <2>2, <3>2, <3>3, <3>4 DEF Typed, analysis, reviews, DeskType
  <2>4. CASE Following(rows, next) = {}
    <3>1. /\ corpus' = [exists |-> TRUE, rows |-> rows] /\ UNCHANGED scores
          /\ command' \in Commands
      BY <1>3, <2>0, <2>4, CommandIs DEF ScoreWrites
    <3>2. corpus' \in CorpusFile
      BY <3>1, CorpusTyped
    <3>3. QED BY <1>0, <1>b, <2>1, <2>2, <3>1, <3>2 DEF Typed, analysis, reviews, DeskType
  <2>5. QED BY <2>3, <2>4
<1>4. CASE ScoreStops
  <2>1. /\ UNCHANGED <<analysis, persisted, call, desk, history>> /\ command' \in Commands
        /\ SpendFailure
    BY <1>4, CommandIs DEF ScoreStops
  <2>2. bounds' \in Bounds
    BY <1>0, <2>1, Failing
  <2>3. QED BY <1>0, <1>b, <2>1, <2>2
            DEF Typed, analysis, persisted, reviews, history, DeskType, WriterType
<1>5. CASE RebuildCatalog
  <2>1. /\ UNCHANGED <<analysis, overrides, report, scores, corpus, reviews, programs, history,
                       bounds>>
        /\ catalog' \subseteq Match
    BY <1>5 DEF RebuildCatalog
  <2>2. QED BY <1>0, <1>b, <2>1
            DEF Typed, analysis, reviews, programs, history, DeskType, WriterType
<1>6. CASE Reviewed
  <2>1. PICK t \in Outside : /\ Commit(t) /\ Meet(Busy, "review")
                             /\ acked' = acked \cup {[match |-> t.match, entry |-> t.entry,
                                                      during |-> Busy]}
                             /\ UNCHANGED <<analysis, catalog, overrides, report, scores, corpus,
                                            call, command, found, writer, bounds>>
    BY <1>6 DEF Reviewed
  <2>2. /\ t \in Transactions /\ DeskType'
        /\ review' \in [Match -> Seq(Entries)] /\ audit' \in Seq(Entries)
    BY <2>1, CommitTyped DEF Outside
  <2>3. met' \in [Call -> SUBSET Kinds]
    BY <1>0, <1>a, <2>1 DEF Kinds
  <2>4. acked' \subseteq Acks
    BY <1>0, <2>1, <2>2 DEF Transactions, Acks
  <2>5. QED BY <1>0, <1>b, <2>1, <2>2, <2>3, <2>4 DEF Typed, analysis, WriterType
<1>7. ASSUME NEW m \in Match, Review(m) PROVE Types' /\ call' = call
  <2>1. /\ UNCHANGED <<analysis, persisted, call, command, history>> /\ SpendOutside("reviews")
        /\ desk' = {Opened(Entry("review", bounds.reviews), m)}
    BY <1>7 DEF Review
  <2>2. bounds' \in Bounds /\ bounds.reviews \in Nat
    BY <1>0, <2>1, Spent DEF SpendOutside, Bounds
  <2>3. DeskType'
    BY <1>0, <2>1, <2>2, EntryTyped, OpenedTyped
  <2>4. QED BY <1>0, <1>b, <2>1, <2>2, <2>3
            DEF Typed, analysis, persisted, reviews, history, WriterType
<1>8. ASSUME NEW m \in Match, Rerun(m) PROVE Types' /\ call' = call
  <2>1. /\ \/ /\ SpendOutside("reruns") /\ UNCHANGED verified
              /\ metrics' = [metrics EXCEPT ![m] = @ + 1]
           \/ /\ SpendOutside("regrades") /\ UNCHANGED metrics
              /\ verified' = [verified EXCEPT ![m] = ~ @]
        /\ report' = [report EXCEPT ![m] = 0]
        /\ Meet({c \in Busy : Target[c] = m}, "runner")
        /\ UNCHANGED <<catalog, overrides, scores, corpus, reviews, programs, acked, found,
                       writer>>
    BY <1>8 DEF Rerun
  <2>2. bounds' \in Bounds
    BY <1>0, <2>1, Spent DEF SpendOutside
  <2>3. verified' \in [Match -> BOOLEAN] /\ metrics' \in [Match -> Nat \ {0}]
    <3>1. metrics[m] + 1 \in Nat \ {0}
      BY <1>0
    <3>2. QED BY <1>0, <2>1, <3>1
  <2>4. met' \in [Call -> SUBSET Kinds]
    <3>1. {c \in Busy : Target[c] = m} \in SUBSET Call
      BY <1>0
    <3>2. QED BY <1>a, <2>1, <3>1 DEF Kinds
  <2>5. report' \in [Match -> Setting]
    BY <1>0, <2>1 DEF Typed
  <2>6. QED BY <1>0, <1>b, <2>1, <2>2, <2>3, <2>4, <2>5
            DEF Typed, reviews, programs, DeskType, WriterType
<1>9. QED BY <1>1, <1>2, <1>3, <1>4, <1>5, <1>6, <1>7, <1>8

LEMMA TypesInv ==
    ASSUME Types, [Next]_vars
    PROVE  Types'
<1>1. CASE UNCHANGED vars
  BY <1>1 DEF Types, Typed, DeskType, WriterType, vars, analysis, persisted, reviews, programs,
              history
<1>2. CASE ServerDies
  <2>1. UNCHANGED <<analysis, persisted, command, history>> /\ SpendFailure /\ desk' = {}
    BY <1>2 DEF ServerDies
  <2>2. bounds' \in Bounds
    BY <2>1, Failing DEF Types
  <2>3. \A d \in Call : /\ call'[d].at = "new" => call'[d].next = 0
                        /\ call'[d].at \in {"snapshot", "undo"} => call'[d].next \in 0..5
    BY <1>2, Dies DEF Types
  <2>4. call' \in [Call -> Calls]
    BY <1>2, Dies
  <2>5. QED BY <2>1, <2>2, <2>3, <2>4
            DEF Types, Typed, DeskType, WriterType, analysis, persisted, reviews, history
<1>3. QED BY <1>1, <1>2, HandleTypes, OtherTypes DEF Next

-----------------------------------------------------------------------------
(* Who is at work with whom.                                               *)

\* What a step of a handler at work leaves alone.
Aside == UNCHANGED <<analysis, catalog, command, acked, found, met>>

LEMMA AtWork ==
    ASSUME Types, NEW c \in Call, Handle(c), ~ Begin(c)
    PROVE  /\ c \in Busy /\ Aside
           /\ \E at \in CallAt \ {"new"} : Moved(c, at)
<1>0. call \in [Call -> Calls] /\ call[c].next \in Nat /\ call[c].rows \in [Match -> Row]
  BY CallIs DEF Types
<1>1. CASE TakeSnapshot(c)
  <2>1. call[c].at = "snapshot" /\ Aside
    BY <1>1 DEF TakeSnapshot, Aside, persisted, history
  <2>2. PICK n \in 1..6 : Moved(c, IF n = 6 THEN "load" ELSE "snapshot")
    BY <1>1, Takes
  <2>3. QED BY <2>1, <2>2, BusyIs DEF Handled, CallAt
<1>2. CASE LoadOverrides(c)
  <2>1. call[c].at = "load" /\ Aside
    BY <1>2 DEF LoadOverrides, Aside, persisted, history
  <2>2. QED BY <1>2, <2>1, Loads, BusyIs DEF Handled, CallAt
<1>3. CASE WriteOverride(c)
  <2>1. call[c].at = "override" /\ Aside /\ Goto(c, "report")
    BY <1>3 DEF WriteOverride, Aside, history
  <2>2. QED BY <1>0, <2>1, Goes, BusyIs DEF Handled, CallAt
<1>4. CASE RebuildReport(c)
  <2>1. call[c].at = "report" /\ Aside /\ Goto(c, "read")
    BY <1>4 DEF RebuildReport, Aside, history
  <2>2. QED BY <1>0, <2>1, Goes, BusyIs DEF Handled, CallAt
<1>5. CASE ReadRows(c)
  <2>1. call[c].at = "read" /\ Aside
    BY <1>5 DEF ReadRows, Aside, persisted, history
  <2>2. QED BY <1>5, <2>1, Reads, BusyIs DEF Handled, CallAt
<1>6. CASE WriteScores(c)
  <2>1. call[c].at = "write" /\ Aside
    BY <1>6 DEF WriteScores, Aside
  <2>2. \/ Goto(c, "correct")
        \/ \E m \in Nat : call' = [call EXCEPT ![c].next = m]
    <3>1. PICK rows \in [Match -> Row], next \in Nat : rows = call[c].rows /\ next = call[c].next
      BY <1>0
    <3>2. Following(rows, next) # {} => Least(Following(rows, next)) \in Nat
      BY <3>1, NextIs, Constants
    <3>3. QED BY <1>6, <3>1, <3>2 DEF WriteScores
  <2>3. QED BY <1>0, <2>1, <2>2, Goes, Advances, BusyIs DEF Handled, CallAt
<1>7. CASE Correct(c)
  <2>1. call[c].at = "correct" /\ Aside /\ Goto(c, "commit")
    BY <1>7 DEF Correct, Aside, persisted, history
  <2>2. QED BY <1>0, <2>1, Goes, BusyIs DEF Handled, CallAt
<1>8. CASE Corrected(c)
  <2>1. call[c].at = "commit" /\ Aside /\ End(c, "200")
    BY <1>8 DEF Corrected, Aside, history
  <2>2. QED BY <1>0, <2>1, Ends, BusyIs DEF Handled, CallAt
<1>9. CASE Fails(c)
  <2>1. call[c].at \notin Handled /\ Aside
    BY <1>9 DEF Fails, Handled, Aside, persisted, history
  <2>2. QED BY <1>9, <2>1, Undoes, BusyIs DEF CallAt
<1>10. CASE Restore(c)
  <2>1. call[c].at = "undo" /\ Aside
    BY <1>10 DEF Restore, Aside, history
  <2>2. PICK n \in 1..6 : Moved(c, IF n = 6 THEN "500" ELSE "undo")
    BY <1>10, GivesBack
  <2>3. QED BY <2>1, <2>2, BusyIs DEF Handled, CallAt
<1>11. CASE RestoreFails(c)
  <2>1. call[c].at = "undo" /\ Aside /\ End(c, "stuck")
    BY <1>11 DEF RestoreFails, Aside, persisted, history
  <2>2. QED BY <1>0, <2>1, Ends, BusyIs DEF Handled, CallAt
<1>12. QED BY <1>1, <1>2, <1>3, <1>4, <1>5, <1>6, <1>7, <1>8, <1>9, <1>10, <1>11 DEF Handle

\* Nobody comes to work, nobody has met fewer.
NoArrival ==
    /\ \A d \in Call : (call'[d].at = "new" <=> call[d].at = "new") /\ (d \in Busy' => d \in Busy)
    /\ \A d \in Call : met[d] \subseteq met'[d]
    /\ command'.at # "idle" => command.at # "idle"

LEMMA TurnsStay ==
    ASSUME Turns, NoArrival
    PROVE  Turns'
<1>1. Busy \subseteq Call /\ Busy' \subseteq Call
  BY DEF Busy
<1>2. QED BY <1>1 DEF Turns, NoArrival

LEMMA HandlerArrival ==
    ASSUME Types, NEW c \in Call, Handle(c), ~ Begin(c)
    PROVE  NoArrival
<1>1. c \in Busy /\ Aside
  BY AtWork
<1>2. PICK at \in CallAt \ {"new"} : Moved(c, at)
  BY AtWork
<1>3. call[c].at # "new"
  BY <1>1, BusyIs DEF Handled
<1>4. QED BY <1>1, <1>2, <1>3 DEF NoArrival, Aside, Moved, Busy

\* A request arrives.
LEMMA Begins ==
    ASSUME Types, NEW c \in Call, Begin(c)
    PROVE  /\ Moved(c, "snapshot") /\ call'[c].next = 0 /\ Busy' = Busy \cup {c} /\ c \notin Busy
           /\ call[c].at = "new" /\ (\A d \in Call : d < c => call[d].at # "new")
           /\ UNCHANGED <<analysis, persisted, command, desk, acked, writer, bounds>>
           /\ met'[c] = (IF Busy = {} THEN {} ELSE {"override"})
                            \cup (IF command.at = "idle" THEN {} ELSE {"score"})
           /\ \A d \in Call \ {c} : /\ met[d] \subseteq met'[d] /\ found'[d] = found[d]
                                    /\ d \in Busy => "override" \in met'[d]
           /\ found'[c] = [Snapshot(Target[c]) EXCEPT !.scores = scores]
<1>1. /\ call[c].at = "new" /\ Goto(c, "snapshot") /\ "snapshot" \in CallAt
      /\ (\A d \in Call : d < c => call[d].at # "new")
      /\ UNCHANGED <<analysis, persisted, command, desk, acked, writer, bounds>>
  BY DEF Begin, CallAt
<1>2. Moved(c, "snapshot") /\ call'[c].next = 0
  BY <1>1, Goes DEF Types
<1>3. Busy' = Busy \cup {c} /\ c \notin Busy
  BY <1>1, <1>2 DEF Busy, Handled, Moved
<1>4. met' = [d \in Call |->
                 IF d = c THEN (IF Busy = {} THEN {} ELSE {"override"})
                               \cup (IF command.at = "idle" THEN {} ELSE {"score"})
                 ELSE IF d \in Busy THEN met[d] \cup {"override"} ELSE met[d]]
  BY DEF Begin
<1>5. PICK f : f = [Snapshot(Target[c]) EXCEPT !.scores = scores]
  OBVIOUS
<1>6. found' = [found EXCEPT ![c] = f] /\ found \in [Call -> Finds]
  BY <1>5 DEF Begin, Types
<1>7. found'[c] = f /\ \A d \in Call \ {c} : found'[d] = found[d]
  BY <1>6
<1>8. QED BY <1>1, <1>2, <1>3, <1>4, <1>5, <1>7

LEMMA BeginTurns ==
    ASSUME Types, Turns, NEW c \in Call, Begin(c)
    PROVE  Turns'
<1>1. /\ Busy' = Busy \cup {c} /\ c \notin Busy /\ call[c].at = "new" /\ call'[c].at # "new"
      /\ \A d \in Call \ {c} : call'[d] = call[d]
      /\ (\A d \in Call : d < c => call[d].at # "new") /\ command' = command
      /\ Busy # {} => "override" \in met'[c]
      /\ command.at # "idle" => "score" \in met'[c]
      /\ \A d \in Call \ {c} : met[d] \subseteq met'[d] /\ (d \in Busy => "override" \in met'[d])
  BY Begins DEF Moved
<1>2. Busy \subseteq Call /\ \A d \in Call : d \in Nat
  BY Constants DEF Busy
<1>3. ASSUME NEW e \in Call, NEW d \in Call, d > e, call'[e].at = "new" PROVE call'[d].at = "new"
  <2>1. call[e].at = "new" /\ e # c
    BY <1>1, <1>3
  <2>2. call[d].at = "new"
    BY <1>3, <2>1 DEF Turns
  <2>3. d # c
    BY <1>1, <1>2, <1>3, <2>1
  <2>4. QED BY <1>1, <2>2, <2>3
<1>4. ASSUME NEW e \in Busy', NEW d \in Busy', e # d PROVE "override" \in met'[e]
  BY <1>1, <1>2, <1>4
<1>5. ASSUME NEW e \in Call, NEW d \in Call, d < e, call'[e].at # "new", d \in Busy'
      PROVE  "override" \in met'[e]
  <2>1. CASE e = c
    BY <1>1, <1>2, <1>5, <2>1
  <2>2. CASE e # c
    <3>1. call[e].at # "new"
      BY <1>1, <1>5, <2>2
    <3>2. d # c
      BY <1>1, <1>2, <1>5, <3>1 DEF Turns
    <3>3. "override" \in met[e]
      BY <1>1, <1>5, <3>1, <3>2 DEF Turns
    <3>4. QED BY <1>1, <2>2, <3>3
  <2>3. QED BY <2>1, <2>2
<1>6. ASSUME NEW e \in Busy', command'.at # "idle" PROVE "score" \in met'[e]
  BY <1>1, <1>2, <1>6 DEF Turns
<1>7. QED BY <1>3, <1>4, <1>5, <1>6 DEF Turns

\* The others meet who is at work.
LEMMA Meets ==
    ASSUME Types, NEW H \in SUBSET Call, NEW who, Meet(H, who)
    PROVE  \A d \in Call : met[d] \subseteq met'[d] /\ (d \in H => who \in met'[d])
BY DEF Meet

LEMMA ServerDiesArrival ==
    ASSUME Types, ServerDies
    PROVE  NoArrival
<1>1. UNCHANGED <<command, history>>
  BY DEF ServerDies
<1>2. QED BY <1>1, Dies DEF NoArrival, history, Busy, Handled

LEMMA OtherArrival ==
    ASSUME Types, \/ ScoreReads \/ ScoreWrites \/ ScoreStops
                  \/ RebuildCatalog \/ Reviewed \/ \E m \in Match : Review(m) \/ Rerun(m)
    PROVE  NoArrival
<1>1. call' = call /\ Busy' = Busy /\ Busy \in SUBSET Call
  BY OtherTypes DEF Busy
<1>2. SUFFICES /\ \A d \in Call : met[d] \subseteq met'[d]
               /\ command'.at # "idle" => command.at # "idle"
  BY <1>1 DEF NoArrival
<1>3. CASE ScoreReads
  BY <1>3 DEF ScoreReads, history
<1>4. CASE ScoreWrites
  BY <1>4 DEF ScoreWrites
<1>5. CASE ScoreStops
  BY <1>5 DEF ScoreStops, history
<1>6. CASE RebuildCatalog
  BY <1>6 DEF RebuildCatalog, history, programs
<1>7. CASE Reviewed
  BY <1>1, <1>7, Meets DEF Reviewed
<1>8. ASSUME NEW m \in Match, Review(m) PROVE met' = met /\ command' = command
  BY <1>8 DEF Review, history
<1>9. ASSUME NEW m \in Match, Rerun(m)
      PROVE  (\A d \in Call : met[d] \subseteq met'[d]) /\ command' = command
  <2>1. {c \in Busy : Target[c] = m} \in SUBSET Call
    BY <1>1
  <2>2. QED BY <1>9, <2>1, Meets DEF Rerun, programs
<1>10. QED BY <1>3, <1>4, <1>5, <1>6, <1>7, <1>8, <1>9

\* A score command begins, or is refused by its preflight.
LEMMA ScoreBeginning ==
    ASSUME Types, ScoreBegins
    PROVE  /\ call' = call /\ Busy' = Busy /\ command.at = "idle"
           /\ UNCHANGED <<analysis, overrides, report, scores, corpus, reviews, desk, acked,
                          found, writer>>
           /\ command' = command \/ (command'.at = "read" /\ \A d \in Busy : "score" \in met'[d])
           /\ \A d \in Call : met[d] \subseteq met'[d]
           /\ catalog' = catalog \/ catalog' = {m \in Match : verified[m]}
           /\ bounds' \in Bounds /\ (Smooth' => Smooth)
<1>1. /\ UNCHANGED <<analysis, overrides, report, scores, corpus, reviews, call, desk,
                     acked, found, writer>>
      /\ SpendScore /\ command.at = "idle"
      /\ \/ /\ catalog' = {m \in Match : verified[m]} /\ Meet(Busy, "score")
            /\ command' = [command EXCEPT !.at = "read"]
         \/ UNCHANGED <<catalog, command, met>>
  BY DEF ScoreBegins
<1>2. Busy' = Busy /\ Busy \in SUBSET Call
  BY <1>1 DEF Busy
<1>3. bounds' \in Bounds /\ (Smooth' => Smooth)
  BY <1>1, Spent DEF SpendScore, Types
<1>4. QED BY <1>1, <1>2, <1>3, Meets, CommandReads

LEMMA TurnsInv ==
    ASSUME Types, Turns, [Next]_vars
    PROVE  Turns'
<1>1. CASE UNCHANGED vars
  BY <1>1 DEF Turns, Busy, vars, programs, history
<1>2. CASE ScoreBegins
  <2>1. Busy \subseteq Call
    BY DEF Busy
  <2>2. QED BY <1>2, <2>1, ScoreBeginning DEF Turns
<1>3. ASSUME NEW c \in Call, Handle(c) PROVE Turns'
  BY <1>3, BeginTurns, HandlerArrival, TurnsStay
<1>4. QED BY <1>1, <1>2, <1>3, TurnsStay, OtherArrival, ServerDiesArrival DEF Next

-----------------------------------------------------------------------------
(* A handler holds its files, unless who writes them was at work.          *)

LEMMA FreeIs ==
    ASSUME NEW c \in Call
    PROVE  /\ Free(c, "overrides") <=> "override" \notin met[c]
           /\ Free(c, "report") <=> "override" \notin met[c] /\ "runner" \notin met[c]
           /\ Free(c, "scores") <=> "override" \notin met[c] /\ "score" \notin met[c]
           /\ Free(c, "corpus") <=> "override" \notin met[c] /\ "score" \notin met[c]
           /\ Free(c, "review") <=> "override" \notin met[c] /\ "review" \notin met[c]
           /\ Free(c, "audit") <=> "override" \notin met[c] /\ "review" \notin met[c]
           /\ Unmixed(c) <=> "override" \notin met[c] /\ "score" \notin met[c]
BY DEF Free, Writers, Unmixed

\* What others do to the files leaves a handler's hold on them.
Spared(d) ==
    /\ Free(d, "overrides")' => overrides' = overrides
    /\ Free(d, "report")' => report'[Target[d]] = report[Target[d]]
    /\ Free(d, "scores")' => scores' = scores
    /\ Free(d, "corpus")' => corpus' = corpus
    /\ Free(d, "review")' => review'[Target[d]] = review[Target[d]]
    /\ Free(d, "audit")' => audit' = audit

LEMMA HeldStays ==
    ASSUME NEW d \in Call, Held(d), call'[d] = call[d], found'[d] = found[d],
           met[d] \subseteq met'[d], Spared(d)
    PROVE  Held(d)'
<1>1. /\ Free(d, "overrides")' => Free(d, "overrides") /\ overrides' = overrides
      /\ Free(d, "report")' => Free(d, "report") /\ report'[Target[d]] = report[Target[d]]
      /\ Free(d, "scores")' => Free(d, "scores") /\ scores' = scores
      /\ Free(d, "corpus")' => Free(d, "corpus") /\ corpus' = corpus
      /\ Free(d, "review")' => Free(d, "review") /\ review'[Target[d]] = review[Target[d]]
      /\ Free(d, "audit")' => Free(d, "audit") /\ audit' = audit
      /\ Unmixed(d)' => /\ Unmixed(d) /\ overrides' = overrides /\ scores' = scores
                        /\ corpus' = corpus
  BY DEF Spared, Free, Writers, Unmixed
<1>2. /\ \A n \in 1..6 : Took(d, n)' <=> Took(d, n)
      /\ \A n \in 1..6 : Gave(d, n)' <=> Gave(d, n)
  BY DEF Took, Gave
<1>3. OverridesHeld(d)'
  BY <1>1, <1>2 DEF Held, OverridesHeld
<1>4. ReportHeld(d)'
  BY <1>1, <1>2 DEF Held, ReportHeld
<1>5. ScoresHeld(d)'
  BY <1>1, <1>2 DEF Held, ScoresHeld
<1>6. CorpusHeld(d)'
  BY <1>1, <1>2 DEF Held, CorpusHeld
<1>7. ReviewHeld(d)' /\ AuditHeld(d)'
  BY <1>1, <1>2 DEF Held, ReviewHeld, AuditHeld
<1>8. RowsHeld(d)'
  BY <1>1 DEF Held, RowsHeld, Walk, Walked, WalkDone
<1>9. QED BY <1>3, <1>4, <1>5, <1>6, <1>7, <1>8 DEF Held

\* Whoever met another handler holds nothing for certain.
LEMMA MixedHeld ==
    ASSUME NEW d \in Call, "override" \in met'[d]
    PROVE  Held(d)'
BY DEF Held, OverridesHeld, ReportHeld, ScoresHeld, CorpusHeld, ReviewHeld, AuditHeld, RowsHeld,
       Free, Writers, Unmixed

\* The handler's own steps.
LEMMA BeginHeld ==
    ASSUME Types, NEW c \in Call, Begin(c)
    PROVE  Held(c)'
<1>1. /\ call'[c].at = "snapshot" /\ call'[c].next = 0
      /\ UNCHANGED persisted /\ found'[c] = [Snapshot(Target[c]) EXCEPT !.scores = scores]
  BY Begins DEF Moved
<1>2. /\ found'[c].overrides = overrides /\ found'[c].report = report[Target[c]]
      /\ found'[c].scores = scores /\ found'[c].corpus = corpus
      /\ found'[c].review = review[Target[c]] /\ found'[c].audit = audit
  <2>1. PICK s \in Snapshots : s = Snapshot(Target[c])
    BY SnapshotIs, Constants DEF Types
  <2>2. found'[c] = [s EXCEPT !.scores = scores]
    BY <1>1, <2>1
  <2>3. /\ s.overrides = overrides /\ s.report = report[Target[c]] /\ s.corpus = corpus
        /\ s.review = review[Target[c]] /\ s.audit = audit
    BY <2>1, SnapshotIs, Constants DEF Types
  <2>4. QED BY <2>2, <2>3 DEF Snapshots
<1>3. /\ \A n \in 1..6 : ~ Took(c, n)'
      /\ \A n \in 1..6 : ~ Gave(c, n)'
  BY <1>1 DEF Took, Gave
<1>4. QED BY <1>1, <1>2, <1>3
          DEF Held, OverridesHeld, ReportHeld, ScoresHeld, CorpusHeld, ReviewHeld, AuditHeld,
              RowsHeld, Written, persisted, reviews

LEMMA TakeHeld ==
    ASSUME Types, NEW c \in Call, Held(c), TakeSnapshot(c)
    PROVE  Held(c)'
<1>1. call[c].at = "snapshot" /\ UNCHANGED <<persisted, history>>
  BY DEF TakeSnapshot
<1>2. PICK n \in 1..6 : /\ n = call[c].next + 1 /\ call'[c].next = n /\ Copied(c, n)
                        /\ call'[c].at = IF n = 6 THEN "load" ELSE "snapshot"
  BY Takes DEF Moved
<1>3. \A k \in 1..6 : /\ Took(c, k)' => k <= n
                      /\ k < n => Took(c, k)
                      /\ ~ Gave(c, k)'
  BY <1>1, <1>2, CallIs DEF Took, Gave
<1>4. \A k \in 1..6 : Took(c, k)' => k = n \/ Took(c, k)
  BY <1>3
<1>5. /\ call[c].at \in Reading /\ call'[c].at \in Reading /\ call'[c].at # "override"
      /\ call'[c].at \notin Written
      /\ call'[c].at \notin {"write", "correct", "commit"}
  BY <1>1, <1>2 DEF Reading, Written
<1>6. UNCHANGED <<overrides, report, scores, corpus, review, audit, found, met>>
  BY <1>1 DEF persisted, reviews, history
<1>7. OverridesHeld(c)'
  BY <1>2, <1>3, <1>4, <1>5, <1>6 DEF Held, OverridesHeld, Free, Copied
<1>8. ReportHeld(c)'
  BY <1>2, <1>3, <1>4, <1>5, <1>6 DEF Held, ReportHeld, Free, Copied
<1>9. ScoresHeld(c)'
  BY <1>2, <1>3, <1>4, <1>5, <1>6 DEF Held, ScoresHeld, Free, Copied
<1>10. CorpusHeld(c)'
  BY <1>2, <1>3, <1>4, <1>5, <1>6 DEF Held, CorpusHeld, Free, Copied
<1>11. ReviewHeld(c)' /\ AuditHeld(c)'
  BY <1>2, <1>3, <1>4, <1>5, <1>6 DEF Held, ReviewHeld, AuditHeld, Free, Copied
<1>12. RowsHeld(c)'
  BY <1>5 DEF RowsHeld
<1>13. QED BY <1>7, <1>8, <1>9, <1>10, <1>11, <1>12 DEF Held

\* All of its files are read, and it is not putting them back.
LEMMA AllTaken ==
    ASSUME NEW c \in Call, call[c].at # "snapshot"
    PROVE  /\ \A n \in 1..6 : Took(c, n)
           /\ call[c].at # "undo" => \A n \in 1..6 : ~ Gave(c, n)
BY DEF Took, Gave

LEMMA LoadHeld ==
    ASSUME Types, NEW c \in Call, Held(c), LoadOverrides(c)
    PROVE  Held(c)'
<1>1. call[c].at = "load" /\ UNCHANGED <<persisted, history>>
  BY DEF LoadOverrides
<1>2. call'[c].at = "override" /\ SameBefore(c) /\ call'[c].kept = overrides
  BY Loads DEF Moved
<1>3. /\ \A k \in 1..6 : Took(c, k) /\ Took(c, k)'
      /\ \A k \in 1..6 : ~ Gave(c, k) /\ ~ Gave(c, k)'
  BY <1>1, <1>2 DEF Took, Gave
<1>4. UNCHANGED <<overrides, report, scores, corpus, review, audit, found, met>>
  BY <1>1 DEF persisted, reviews, history
<1>5. QED BY <1>1, <1>2, <1>3, <1>4
          DEF Held, OverridesHeld, ReportHeld, ScoresHeld, CorpusHeld, ReviewHeld, AuditHeld,
              RowsHeld, Reading, Written, Free, SameBefore

LEMMA OverrideHeld ==
    ASSUME Types, NEW c \in Call, Held(c), WriteOverride(c)
    PROVE  Held(c)'
<1>1. /\ call[c].at = "override" /\ Goto(c, "report")
      /\ UNCHANGED <<report, scores, corpus, reviews, history>>
      /\ overrides' = [call[c].kept EXCEPT ![Target[c]] = c]
  BY DEF WriteOverride
<1>2. call'[c].at = "report" /\ SameBefore(c)
  BY <1>1, Goes DEF Types, CallAt, Moved
<1>3. /\ \A k \in 1..6 : Took(c, k) /\ Took(c, k)'
      /\ \A k \in 1..6 : ~ Gave(c, k) /\ ~ Gave(c, k)'
  BY <1>1, <1>2 DEF Took, Gave
<1>4. UNCHANGED <<report, scores, corpus, review, audit, found, met>>
  BY <1>1 DEF reviews, history
<1>5. QED BY <1>1, <1>2, <1>3, <1>4
          DEF Held, OverridesHeld, ReportHeld, ScoresHeld, CorpusHeld, ReviewHeld, AuditHeld,
              RowsHeld, Reading, Written, Free, SameBefore

LEMMA ReportStepHeld ==
    ASSUME Types, NEW c \in Call, Held(c), RebuildReport(c)
    PROVE  Held(c)'
<1>1. /\ call[c].at = "report" /\ Goto(c, "read")
      /\ UNCHANGED <<overrides, scores, corpus, reviews, history>>
  BY DEF RebuildReport
<1>2. call'[c].at = "read" /\ SameBefore(c)
  BY <1>1, Goes DEF Types, CallAt, Moved
<1>3. /\ \A k \in 1..6 : Took(c, k) /\ Took(c, k)'
      /\ \A k \in 1..6 : ~ Gave(c, k) /\ ~ Gave(c, k)'
  BY <1>1, <1>2 DEF Took, Gave
<1>4. UNCHANGED <<overrides, scores, corpus, review, audit, found, met>>
  BY <1>1 DEF reviews, history
<1>5. QED BY <1>1, <1>2, <1>3, <1>4
          DEF Held, OverridesHeld, ReportHeld, ScoresHeld, CorpusHeld, ReviewHeld, AuditHeld,
              RowsHeld, Reading, Written, Free, SameBefore

LEMMA ReadHeld ==
    ASSUME Types, NEW c \in Call, Held(c), ReadRows(c)
    PROVE  Held(c)'
<1>1. call[c].at = "read" /\ UNCHANGED <<persisted, history>>
  BY DEF ReadRows
<1>2. call'[c].at = "write" /\ SameBefore(c) /\ call'[c].rows = Rows /\ call'[c].next = 0
  BY Reads DEF Moved
<1>3. /\ \A k \in 1..6 : Took(c, k) /\ Took(c, k)'
      /\ \A k \in 1..6 : ~ Gave(c, k) /\ ~ Gave(c, k)'
  BY <1>1, <1>2 DEF Took, Gave
<1>4. UNCHANGED <<overrides, report, scores, corpus, review, audit, found, met>>
  BY <1>1 DEF persisted, reviews, history
<1>5. RowsHeld(c)'
  <2>1. \A m \in Match : Rows[m] # NoRow => Rows[m].role = overrides'[m]
    BY <1>4, RowsIs
  <2>2. \A m \in Match : ~ (m <= 0)
    BY Constants
  <2>3. QED BY <1>2, <2>1, <2>2 DEF RowsHeld, Walk, Walked
<1>6. QED BY <1>1, <1>2, <1>3, <1>4, <1>5
          DEF Held, OverridesHeld, ReportHeld, ScoresHeld, CorpusHeld, ReviewHeld, AuditHeld,
              Reading, Written, Free, SameBefore

\* The next row is written, and the walk has come to its match.
LEMMA WalkGoesOn ==
    ASSUME Types, NEW rows \in [Match -> Row], NEW next \in Nat, Walked(rows, next),
           Following(rows, next) # {}, NEW m, m = Least(Following(rows, next)),
           scores' = [scores EXCEPT ![m] = rows[m]],
           NEW k \in Match, k <= m, rows[k] # NoRow
    PROVE  scores'[k] = rows[k]
<1>1. /\ m \in Match /\ m > next /\ m \in Nat
      /\ \A n \in Match : n > next /\ n < m => rows[n] = NoRow
  BY NextIs, Constants
<1>2. scores'[m] = rows[m] /\ \A n \in Match \ {m} : scores'[n] = scores[n]
  BY WriteTyped
<1>3. k \in Nat
  BY Constants
<1>4. k # m => k <= next
  BY <1>1, <1>3
<1>5. QED BY <1>2, <1>4 DEF Walked

LEMMA WriteHeld ==
    ASSUME Types, NEW c \in Call, Held(c), WriteScores(c)
    PROVE  Held(c)'
<1>0. PICK rows \in [Match -> Row], next \in Nat : rows = call[c].rows /\ next = call[c].next
  BY CallIs
<1>1. /\ call[c].at = "write"
      /\ UNCHANGED <<overrides, report, reviews, found, met>>
  BY DEF WriteScores
<1>2. Unmixed(c) => Walk(rows, next)
  BY <1>0, <1>1 DEF Held, RowsHeld
<1>3. CASE Following(rows, next) # {}
  <2>1. PICK m : m = Least(Following(rows, next))
    OBVIOUS
  <2>2. /\ scores' = [scores EXCEPT ![m] = rows[m]] /\ UNCHANGED corpus
        /\ call' = [call EXCEPT ![c].next = m]
    BY <1>0, <1>3, <2>1 DEF WriteScores
  <2>3. m \in Nat
    BY <1>3, <2>1, <2>2, WriteTyped
  <2>4. /\ call'[c].at = "write" /\ SameBefore(c) /\ call'[c].next = m
        /\ call'[c].rows = rows
    BY <1>0, <1>1, <2>2, <2>3, Advances DEF Moved, SameRest
  <2>5. RowsHeld(c)'
    <3>1. SUFFICES ASSUME Unmixed(c)' PROVE Walk(rows, m)'
      BY <2>4 DEF RowsHeld
    <3>2. Walk(rows, next)
      BY <1>1, <1>2, <3>1 DEF Unmixed
    <3>3. \A k \in Match : rows[k] # NoRow /\ k <= m => scores'[k] = rows[k]
      BY <1>3, <2>1, <2>2, <3>2, WalkGoesOn DEF Walk
    <3>4. QED BY <1>1, <3>2, <3>3 DEF Walk, Walked
  <2>6. /\ \A k \in 1..6 : Took(c, k) /\ Took(c, k)'
        /\ \A k \in 1..6 : ~ Gave(c, k) /\ ~ Gave(c, k)'
    BY <1>1, <2>4 DEF Took, Gave
  <2>7. UNCHANGED <<overrides, report, review, audit, found, met>>
    BY <1>1 DEF reviews
  <2>8. QED BY <1>1, <2>4, <2>5, <2>6, <2>7
            DEF Held, OverridesHeld, ReportHeld, ScoresHeld, CorpusHeld, ReviewHeld, AuditHeld,
                Reading, Written, Free, SameBefore
<1>4. CASE Following(rows, next) = {}
  <2>1. /\ corpus' = [exists |-> TRUE, rows |-> rows] /\ UNCHANGED scores
        /\ Goto(c, "correct")
    BY <1>0, <1>4 DEF WriteScores
  <2>2. call'[c].at = "correct" /\ SameBefore(c) /\ call'[c].rows = rows
    BY <1>0, <2>1, Goes DEF Types, CallAt, Moved, SameRest
  <2>3. RowsHeld(c)'
    <3>1. SUFFICES ASSUME Unmixed(c)' PROVE WalkDone(rows)'
      BY <2>2 DEF RowsHeld
    <3>2. Walk(rows, next)
      BY <1>1, <1>2, <3>1 DEF Unmixed
    <3>3. \A k \in Match : rows[k] # NoRow => k <= next
      BY <1>4, NoneLeft
    <3>4. QED BY <1>1, <2>1, <3>2, <3>3 DEF Walk, Walked, WalkDone
  <2>4. /\ \A k \in 1..6 : Took(c, k) /\ Took(c, k)'
        /\ \A k \in 1..6 : ~ Gave(c, k) /\ ~ Gave(c, k)'
    BY <1>1, <2>2 DEF Took, Gave
  <2>5. UNCHANGED <<overrides, report, review, audit, found, met>>
    BY <1>1 DEF reviews
  <2>6. QED BY <1>1, <2>2, <2>3, <2>4, <2>5
            DEF Held, OverridesHeld, ReportHeld, ScoresHeld, CorpusHeld, ReviewHeld, AuditHeld,
                Reading, Written, Free, SameBefore
<1>5. QED BY <1>3, <1>4

LEMMA CorrectHeld ==
    ASSUME Types, NEW c \in Call, Held(c), Correct(c)
    PROVE  Held(c)'
<1>1. /\ call[c].at = "correct" /\ Goto(c, "commit") /\ UNCHANGED <<persisted, history>>
  BY DEF Correct
<1>2. call'[c].at = "commit" /\ SameBefore(c) /\ call'[c].rows = call[c].rows
  BY <1>1, Goes DEF Types, CallAt, Moved, SameRest
<1>3. /\ \A k \in 1..6 : Took(c, k) /\ Took(c, k)'
      /\ \A k \in 1..6 : ~ Gave(c, k) /\ ~ Gave(c, k)'
  BY <1>1, <1>2 DEF Took, Gave
<1>4. UNCHANGED <<overrides, report, scores, corpus, review, audit, found, met>>
  BY <1>1 DEF persisted, reviews, history
<1>5. RowsHeld(c)'
  BY <1>1, <1>2, <1>4 DEF Held, RowsHeld, WalkDone, Unmixed
<1>6. QED BY <1>1, <1>2, <1>3, <1>4, <1>5
          DEF Held, OverridesHeld, ReportHeld, ScoresHeld, CorpusHeld, ReviewHeld, AuditHeld,
              Reading, Written, Free, SameBefore

LEMMA FailHeld ==
    ASSUME Types, NEW c \in Call, Held(c), Fails(c)
    PROVE  Held(c)'
<1>1. /\ call[c].at \notin {"snapshot", "undo"} /\ UNCHANGED <<persisted, history>>
  BY DEF Fails
<1>2. call'[c].at = "undo" /\ SameBefore(c) /\ call'[c].next = 0
  BY Undoes DEF Moved
<1>3. /\ \A k \in 1..6 : Took(c, k) /\ Took(c, k)'
      /\ \A k \in 1..6 : ~ Gave(c, k)'
  BY <1>1, <1>2 DEF Took, Gave
<1>4. UNCHANGED <<overrides, report, scores, corpus, review, audit, found, met>>
  BY <1>1 DEF persisted, reviews, history
<1>5. QED BY <1>1, <1>2, <1>3, <1>4
          DEF Held, OverridesHeld, ReportHeld, ScoresHeld, CorpusHeld, ReviewHeld, AuditHeld,
              RowsHeld, Reading, Written, Free, SameBefore

\* Each file is put back as the handler found it: the first n of them are.
LEMMA PutBackHeld ==
    ASSUME Types, NEW c \in Call, Held(c), call[c].at = "undo", NEW n \in 1..6,
           n = call[c].next + 1, PutBack(c, n), UNCHANGED <<found, met>>
    PROVE  LET m == Target[c]  was == found[c] IN
           /\ Free(c, "overrides") => /\ call[c].before.overrides = was.overrides
                                      /\ overrides' = was.overrides
           /\ Free(c, "report") => /\ call[c].before.report = was.report
                                   /\ n >= 2 => report'[m] = was.report
           /\ Free(c, "scores") => /\ call[c].before.scores = was.scores[m]
                                   /\ n >= 3 => scores'[m] = was.scores[m]
           /\ Free(c, "corpus") => /\ call[c].before.corpus = was.corpus
                                   /\ n >= 4 => corpus' = was.corpus
           /\ Free(c, "review") => /\ call[c].before.review = was.review
                                   /\ review'[m] = was.review
           /\ Free(c, "audit") => /\ call[c].before.audit = was.audit
                                  /\ audit' = was.audit
<1>1. /\ \A k \in 1..6 : Took(c, k)
      /\ \A k \in 1..6 : Gave(c, k) <=> k < n
  BY CallIs DEF Took, Gave
<1>2. /\ overrides \in [Match -> Setting] /\ report \in [Match -> Setting]
      /\ scores \in [Match -> Row] /\ review \in [Match -> Seq(Entries)] /\ Target[c] \in Match
  BY CallIs DEF Types, Typed
<1>3. Free(c, "overrides") => /\ call[c].before.overrides = found[c].overrides
                              /\ overrides' = found[c].overrides
  BY <1>1 DEF Held, OverridesHeld, PutBack
<1>4. Free(c, "report") => /\ call[c].before.report = found[c].report
                           /\ n >= 2 => report'[Target[c]] = found[c].report
  BY <1>1, <1>2 DEF Held, ReportHeld, PutBack
<1>5. Free(c, "scores") => /\ call[c].before.scores = found[c].scores[Target[c]]
                           /\ n >= 3 => scores'[Target[c]] = found[c].scores[Target[c]]
  BY <1>1, <1>2 DEF Held, ScoresHeld, PutBack
<1>6. Free(c, "corpus") => /\ call[c].before.corpus = found[c].corpus
                           /\ n >= 4 => corpus' = found[c].corpus
  BY <1>1 DEF Held, CorpusHeld, PutBack
<1>7. Free(c, "review") => /\ call[c].before.review = found[c].review
                           /\ review'[Target[c]] = found[c].review
  BY <1>1, <1>2 DEF Held, ReviewHeld, PutBack
<1>8. Free(c, "audit") => call[c].before.audit = found[c].audit /\ audit' = found[c].audit
  BY <1>1 DEF Held, AuditHeld, PutBack
<1>9. QED BY <1>3, <1>4, <1>5, <1>6, <1>7, <1>8

LEMMA RestoreHeld ==
    ASSUME Types, NEW c \in Call, Held(c), Restore(c), c \in Busy'
    PROVE  Held(c)'
<1>1. call[c].at = "undo" /\ UNCHANGED <<found, met>>
  BY DEF Restore, history
<1>2. PICK n \in 1..6 : /\ n = call[c].next + 1 /\ PutBack(c, n)
                        /\ call'[c].at = IF n = 6 THEN "500" ELSE "undo"
                        /\ n # 6 => call'[c].next = n /\ SameBefore(c)
  BY GivesBack DEF Moved
<1>3. n # 6 /\ call'[c].at = "undo" /\ call'[c].next = n /\ call'[c].before = call[c].before
  BY <1>2 DEF Busy, Handled, SameBefore
<1>4. \A k \in 1..6 : Gave(c, k)' <=> k <= n
  BY <1>3 DEF Gave
<1>5. PICK m \in Match, was \in Finds : m = Target[c] /\ was = found[c]
  BY CallIs
<1>6. /\ Free(c, "overrides") => /\ call[c].before.overrides = was.overrides
                                 /\ overrides' = was.overrides
      /\ Free(c, "report") => /\ call[c].before.report = was.report
                              /\ n >= 2 => report'[m] = was.report
      /\ Free(c, "scores") => /\ call[c].before.scores = was.scores[m]
                              /\ n >= 3 => scores'[m] = was.scores[m]
      /\ Free(c, "corpus") => /\ call[c].before.corpus = was.corpus
                              /\ n >= 4 => corpus' = was.corpus
      /\ Free(c, "review") => /\ call[c].before.review = was.review
                              /\ review'[m] = was.review
      /\ Free(c, "audit") => /\ call[c].before.audit = was.audit
                             /\ audit' = was.audit
  BY <1>1, <1>2, <1>5, PutBackHeld
<1>7. found'[c] = was /\ met'[c] = met[c]
  BY <1>1, <1>5
<1>8. OverridesHeld(c)' /\ ReportHeld(c)'
  BY <1>3, <1>4, <1>5, <1>6, <1>7 DEF OverridesHeld, ReportHeld, Reading, Written, Free
<1>9. ScoresHeld(c)' /\ CorpusHeld(c)'
  BY <1>3, <1>4, <1>5, <1>6, <1>7 DEF ScoresHeld, CorpusHeld, Reading, Written, Free
<1>10. ReviewHeld(c)' /\ AuditHeld(c)' /\ RowsHeld(c)'
  BY <1>3, <1>4, <1>5, <1>6, <1>7 DEF ReviewHeld, AuditHeld, RowsHeld, Free
<1>11. QED BY <1>8, <1>9, <1>10 DEF Held

LEMMA HandleHeld ==
    ASSUME Types, Turns, AllHeld, NEW c \in Call, Handle(c)
    PROVE  AllHeld'
<1>1. CASE Begin(c)
  <2>1. /\ Busy' = Busy \cup {c} /\ Busy \subseteq Call
        /\ \A d \in Call \ {c} : d \in Busy => "override" \in met'[d]
    BY <1>1, Begins DEF Busy
  <2>2. QED BY <1>1, <2>1, BeginHeld, MixedHeld DEF AllHeld
<1>2. CASE ~ Begin(c)
  <2>1. c \in Busy /\ met' = met /\ NoArrival
    BY <1>2, AtWork, HandlerArrival DEF Aside
  <2>2. SUFFICES ASSUME NEW d \in Call, d \in Busy' PROVE Held(d)'
    BY DEF AllHeld, Busy
  <2>3. d \in Busy /\ Held(c)
    BY <2>1, <2>2 DEF NoArrival, AllHeld
  <2>4. CASE d # c
    <3>1. "override" \in met'[d]
      BY <2>1, <2>3, <2>4 DEF Turns
    <3>2. QED BY <3>1, MixedHeld
  <2>5. CASE d = c
    <3>1. ~ Corrected(c)
      <4>1. ASSUME Corrected(c) PROVE FALSE
        <5>1. Moved(c, "200")
          BY <4>1, Ends DEF Corrected, Types, Handled
        <5>2. QED BY <2>2, <2>5, <5>1 DEF Moved, Busy, Handled
      <4>2. QED BY <4>1
    <3>2. ~ RestoreFails(c)
      <4>1. ASSUME RestoreFails(c) PROVE FALSE
        <5>1. Moved(c, "stuck")
          BY <4>1, Ends DEF RestoreFails, Types, Handled
        <5>2. QED BY <2>2, <2>5, <5>1 DEF Moved, Busy, Handled
      <4>2. QED BY <4>1
    <3>3. QED BY <1>2, <2>2, <2>3, <2>5, <3>1, <3>2, TakeHeld, LoadHeld, OverrideHeld,
                 ReportStepHeld, ReadHeld, WriteHeld, CorrectHeld, FailHeld, RestoreHeld
              DEF Handle
  <2>6. QED BY <2>4, <2>5
<1>3. QED BY <1>1, <1>2

LEMMA OtherHeld ==
    ASSUME Types, Turns, AllHeld,
           \/ ScoreBegins \/ ScoreReads \/ ScoreWrites \/ ScoreStops
           \/ RebuildCatalog \/ Reviewed \/ \E m \in Match : Review(m) \/ Rerun(m)
    PROVE  AllHeld'
<1>1. call' = call /\ Busy' = Busy /\ Busy \in SUBSET Call /\ \A d \in Call : met[d] \subseteq met'[d]
  BY OtherTypes, OtherArrival, ScoreBeginning DEF Busy, NoArrival
<1>2. SUFFICES found' = found /\ \A d \in Busy : Spared(d)
  BY <1>1, HeldStays DEF AllHeld
<1>3. CASE ScoreBegins
  BY <1>3, ScoreBeginning DEF Spared, reviews
<1>4. CASE ScoreReads
  BY <1>4 DEF ScoreReads, Spared, persisted, reviews, history
<1>5. CASE ScoreWrites
  <2>1. /\ UNCHANGED <<overrides, report, reviews, found, met>>
        /\ command.at = "write"
    BY <1>5 DEF ScoreWrites
  <2>2. \A d \in Busy : "score" \in met'[d]
    BY <1>1, <2>1 DEF Turns
  <2>3. QED BY <2>1, <2>2 DEF Spared, reviews, Free, Writers
<1>6. CASE ScoreStops
  BY <1>6 DEF ScoreStops, Spared, persisted, reviews, history
<1>7. CASE RebuildCatalog
  BY <1>7 DEF RebuildCatalog, Spared, reviews, history
<1>8. CASE Reviewed
  <2>1. UNCHANGED <<overrides, report, scores, corpus, found>> /\ Meet(Busy, "review")
    BY <1>8 DEF Reviewed
  <2>2. \A d \in Busy : "review" \in met'[d]
    BY <1>1, <2>1, Meets
  <2>3. QED BY <2>1, <2>2 DEF Spared, Free, Writers
<1>9. ASSUME NEW m \in Match, Review(m)
      PROVE  found' = found /\ \A d \in Busy : Spared(d)
  BY <1>9 DEF Review, Spared, persisted, reviews, history
<1>10. ASSUME NEW m \in Match, Rerun(m)
       PROVE  found' = found /\ \A d \in Busy : Spared(d)
  <2>1. /\ UNCHANGED <<overrides, scores, corpus, reviews, found>>
        /\ Meet({c \in Busy : Target[c] = m}, "runner")
        /\ report' = [report EXCEPT ![m] = 0]
    BY <1>10 DEF Rerun
  <2>2. {c \in Busy : Target[c] = m} \in SUBSET Call
    BY <1>1
  <2>3. \A d \in Busy : Target[d] = m => "runner" \in met'[d]
    BY <1>1, <2>1, <2>2, Meets
  <2>4. \A d \in Busy : Target[d] # m => report'[Target[d]] = report[Target[d]]
    BY <1>1, <2>1, Constants DEF Types, Typed
  <2>5. QED BY <2>1, <2>3, <2>4 DEF Spared, reviews, Free, Writers
<1>11. QED BY <1>3, <1>4, <1>5, <1>6, <1>7, <1>8, <1>9, <1>10

LEMMA HeldInv ==
    ASSUME Types, Turns, AllHeld, [Next]_vars
    PROVE  AllHeld'
<1>1. CASE UNCHANGED vars
  <2>1. /\ UNCHANGED <<call, found, met, overrides, report, scores, corpus, review, audit>>
        /\ Busy' = Busy /\ Busy \subseteq Call
    BY <1>1 DEF vars, persisted, reviews, programs, history, Busy
  <2>2. \A d \in Busy : Spared(d)
    BY <2>1 DEF Spared
  <2>3. QED BY <2>1, <2>2, HeldStays DEF AllHeld
<1>2. CASE ServerDies
  BY <1>2, Dies DEF AllHeld
<1>3. QED BY <1>1, <1>2, HandleHeld, OtherHeld DEF Next

-----------------------------------------------------------------------------
(* What a refused override leaves behind.                                  *)

LEMMA RefusedStep ==
    ASSUME Types, AllHeld, [Next]_vars, NEW c \in Call,
           call[c].at # "500", call'[c].at = "500"
    PROVE  LET m == Target[c]  was == [found[c] EXCEPT !.scores = @[m]] IN
           \A f \in DOMAIN Writers : met[c] \cap Writers[f] = {} => Snapshot(m)'[f] = was[f]
<1>1. Restore(c)
  <2>1. ASSUME NEW d \in Call, Handle(d) PROVE d = c /\ ~ Begin(d)
    <3>1. CASE Begin(d)
      BY <2>1, <3>1, Begins DEF Moved
    <3>2. CASE ~ Begin(d)
      <4>1. PICK at \in CallAt \ {"new"} : Moved(d, at)
        BY <2>1, <3>2, AtWork
      <4>2. QED BY <3>2, <4>1 DEF Moved
    <3>3. QED BY <3>1, <3>2
  <2>2. ~ ServerDies
    <3>1. ServerDies => call'[c].at \in {"cut", call[c].at}
      BY Dies
    <3>2. QED BY <3>1
  <2>3. call' # call /\ ~ UNCHANGED vars
    BY DEF vars, programs
  <2>4. Handle(c) /\ ~ Begin(c)
    BY <2>1, <2>2, <2>3, OtherTypes DEF Next
  <2>5. ~ TakeSnapshot(c)
    <3>1. TakeSnapshot(c) => call'[c].at \in {"load", "snapshot"}
      BY Takes DEF Moved
    <3>2. QED BY <3>1
  <2>6. ~ LoadOverrides(c) /\ ~ ReadRows(c) /\ ~ Fails(c)
    BY Loads, Reads, Undoes DEF Moved
  <2>7. /\ \A at \in CallAt : Goto(c, at) => at = "500"
        /\ \A at \in Handled : End(c, at) => at = "500"
    BY Goes, Ends DEF Types, Moved
  <2>8. ~ WriteOverride(c) /\ ~ RebuildReport(c) /\ ~ Correct(c)
    BY <2>7 DEF WriteOverride, RebuildReport, Correct, CallAt
  <2>9. ~ Corrected(c) /\ ~ RestoreFails(c)
    BY <2>7 DEF Corrected, RestoreFails, Handled
  <2>10. ~ WriteScores(c)
    <3>1. SUFFICES ASSUME WriteScores(c) PROVE FALSE
      OBVIOUS
    <3>2. PICK rows \in [Match -> Row], next \in Nat : rows = call[c].rows /\ next = call[c].next
      BY CallIs
    <3>3. Following(rows, next) # {} => Least(Following(rows, next)) \in Nat
      BY NextIs, Constants
    <3>4. \/ Goto(c, "correct")
          \/ \E m \in Nat : call' = [call EXCEPT ![c].next = m]
      BY <3>1, <3>2, <3>3 DEF WriteScores
    <3>5. call'[c].at = call[c].at
      BY <2>7, <3>4, Advances DEF Moved, CallAt
    <3>6. QED BY <3>5
  <2>11. QED BY <2>4, <2>5, <2>6, <2>8, <2>9, <2>10 DEF Handle
<1>2. call[c].at = "undo" /\ UNCHANGED <<found, met>>
  BY <1>1 DEF Restore, history
<1>3. Held(c)
  BY <1>2 DEF AllHeld, Busy, Handled
<1>4. PICK n \in 1..6 : /\ n = call[c].next + 1 /\ PutBack(c, n)
                        /\ call'[c].at = IF n = 6 THEN "500" ELSE "undo"
  BY <1>1, GivesBack DEF Moved
<1>5. n = 6
  BY <1>4
<1>6. PICK m \in Match, F \in Finds : m = Target[c] /\ F = found[c]
  BY CallIs
<1>7. /\ Free(c, "overrides") => overrides' = F.overrides
      /\ Free(c, "report") => report'[m] = F.report
      /\ Free(c, "scores") => scores'[m] = F.scores[m]
      /\ Free(c, "corpus") => corpus' = F.corpus
      /\ Free(c, "review") => review'[m] = F.review
      /\ Free(c, "audit") => audit' = F.audit
  BY <1>2, <1>3, <1>4, <1>5, <1>6, PutBackHeld
<1>8. PICK was : was = [F EXCEPT !.scores = @[m]]
  OBVIOUS
<1>9. /\ was.overrides = F.overrides /\ was.report = F.report /\ was.scores = F.scores[m]
      /\ was.corpus = F.corpus /\ was.review = F.review /\ was.audit = F.audit
  BY <1>6, <1>8 DEF Finds
<1>10. /\ Snapshot(m)'.overrides = overrides' /\ Snapshot(m)'.report = report'[m]
       /\ Snapshot(m)'.scores = scores'[m] /\ Snapshot(m)'.corpus = corpus'
       /\ Snapshot(m)'.review = review'[m] /\ Snapshot(m)'.audit = audit'
  BY DEF Snapshot
<1>11. DOMAIN Writers = {"overrides", "report", "scores", "corpus", "review", "audit"}
  BY DEF Writers
<1>12. \A f \in DOMAIN Writers : Free(c, f) => Snapshot(m)'[f] = was[f]
  BY <1>7, <1>9, <1>10, <1>11
<1>13. QED BY <1>6, <1>8, <1>12 DEF Free

-----------------------------------------------------------------------------
(* An acknowledged review is kept.                                         *)

\* Who has failed stays so.
FailedStays == \A d \in Call : Failed(d) => Failed(d)'

LEMMA CertainBefore ==
    ASSUME NEW a \in Acks, FailedStays, Certain(a)'
    PROVE  Certain(a)
BY DEF FailedStays, Certain, Acks

LEMMA HandleFailed ==
    ASSUME Types, NEW c \in Call, Handle(c)
    PROVE  FailedStays
<1>1. CASE Begin(c)
  BY <1>1, Begins DEF FailedStays, Failed, Moved
<1>2. CASE ~ Begin(c)
  <2>1. c \in Busy /\ \E at \in CallAt \ {"new"} : Moved(c, at)
    BY <1>2, AtWork
  <2>2. \A d \in Call \ {c} : call'[d] = call[d]
    BY <2>1 DEF Moved
  <2>3. Failed(c) => call[c].at = "undo"
    BY <2>1, BusyIs DEF Failed, Handled
  <2>4. Restore(c) => Failed(c)'
    BY GivesBack DEF Moved, Failed
  <2>5. RestoreFails(c) => Failed(c)'
    <3>1. SUFFICES ASSUME RestoreFails(c) PROVE Failed(c)'
      OBVIOUS
    <3>2. Moved(c, "stuck")
      BY <3>1, Ends DEF RestoreFails, Handled, Types
    <3>3. QED BY <3>2 DEF Moved, Failed
  <2>6. call[c].at = "undo" => Restore(c) \/ RestoreFails(c)
    BY <1>2 DEF Handle, TakeSnapshot, LoadOverrides, WriteOverride, RebuildReport, ReadRows,
                WriteScores, Correct, Corrected, Fails
  <2>7. QED BY <2>2, <2>3, <2>4, <2>5, <2>6 DEF FailedStays, Failed
<1>3. QED BY <1>1, <1>2

\* A step that leaves alone the documents, the log and what is in hand.
LEMMA RecordedStays ==
    ASSUME Types, Recorded, acked' = acked, FailedStays, review' = review, audit' = audit,
           desk' \subseteq desk, Busy' \subseteq Busy,
           \A d \in Busy' : /\ Took(d, 5)' => Took(d, 5)
                            /\ Took(d, 6)' => Took(d, 6)
                            /\ call'[d].before.review = call[d].before.review
                            /\ call'[d].before.audit = call[d].before.audit
    PROVE  Recorded'
<1>1. SUFFICES ASSUME NEW a \in acked, Certain(a)' PROVE Safe(a)'
  BY DEF Recorded
<1>2. Safe(a)
  BY <1>1, CertainBefore DEF Recorded, Types
<1>3. QED BY <1>2 DEF Safe, InBefore

\* Handler c keeps what it has read, and who else is at work stays.
LEMMA SameBusy ==
    ASSUME Types, NEW c \in Call, c \in Busy, NEW at \in CallAt, Moved(c, at), SameBefore(c),
           call[c].at # "snapshot"
    PROVE  /\ Busy' \subseteq Busy
           /\ \A d \in Busy' : /\ Took(d, 5)' => Took(d, 5)
                               /\ Took(d, 6)' => Took(d, 6)
                               /\ call'[d].before.review = call[d].before.review
                               /\ call'[d].before.audit = call[d].before.audit
BY DEF Moved, SameBefore, Busy, Took

LEMMA EndBusy ==
    ASSUME Types, NEW c \in Call, c \in Busy, NEW at \in Handled, Moved(c, at)
    PROVE  /\ Busy' = Busy \ {c}
           /\ \A d \in Busy' : call'[d] = call[d]
BY DEF Moved, Busy

LEMMA BeginRecorded ==
    ASSUME Types, Recorded, NEW c \in Call, Begin(c)
    PROVE  Recorded'
<1>1. /\ Busy' = Busy \cup {c} /\ c \notin Busy /\ call'[c].at = "snapshot" /\ call'[c].next = 0
      /\ \A d \in Call \ {c} : call'[d] = call[d]
      /\ UNCHANGED <<review, audit, desk, acked>>
  BY Begins DEF Moved, persisted, reviews
<1>2. SUFFICES ASSUME NEW a \in acked, Certain(a)' PROVE Safe(a)'
  BY <1>1 DEF Recorded
<1>3. Safe(a)
  BY <1>2, CertainBefore, HandleFailed DEF Recorded, Types, Handle
<1>4. \A n \in 5..6 : ~ Took(c, n)'
  BY <1>1 DEF Took
<1>5. Busy \subseteq Call
  BY DEF Busy
<1>6. \A d \in Busy' \ a.during : InBefore(a, d)'
  <2>1. InBefore(a, c)'
    BY <1>4 DEF InBefore
  <2>2. ASSUME NEW d \in Busy \ a.during PROVE InBefore(a, d)'
    BY <1>1, <1>3, <1>5, <2>2 DEF Safe, InBefore, Took
  <2>3. QED BY <1>1, <2>1, <2>2
<1>7. QED BY <1>1, <1>3, <1>6 DEF Safe

LEMMA TakeRecorded ==
    ASSUME Types, Recorded, NEW c \in Call, TakeSnapshot(c)
    PROVE  Recorded'
<1>1. /\ call[c].at = "snapshot" /\ UNCHANGED <<review, audit, desk, acked>>
  BY DEF TakeSnapshot, persisted, reviews, history
<1>2. PICK n \in 1..6 : /\ n = call[c].next + 1 /\ call'[c].next = n /\ Copied(c, n)
                        /\ Moved(c, IF n = 6 THEN "load" ELSE "snapshot")
  BY Takes
<1>3. /\ c \in Busy /\ Busy' = Busy /\ Busy \subseteq Call
      /\ \A d \in Call \ {c} : call'[d] = call[d]
  BY <1>1, <1>2 DEF Moved, Busy, Handled
<1>4. SUFFICES ASSUME NEW a \in acked, Certain(a)' PROVE Safe(a)'
  BY <1>1 DEF Recorded
<1>5. Safe(a)
  BY <1>4, CertainBefore, HandleFailed DEF Recorded, Types, Handle
<1>6. \A k \in 5..6 : Took(c, k)' => k = n \/ Took(c, k)
  BY <1>1, <1>2, CallIs DEF Took, Moved
<1>7. ASSUME c \notin a.during PROVE InBefore(a, c)'
  BY <1>2, <1>3, <1>5, <1>6, <1>7 DEF Safe, InBefore, Copied
<1>8. ASSUME NEW d \in Busy \ a.during, d # c PROVE InBefore(a, d)'
  BY <1>3, <1>5, <1>8 DEF Safe, InBefore, Took
<1>9. QED BY <1>1, <1>3, <1>5, <1>7, <1>8 DEF Safe

\* A transaction opened now has what is on disk now.
LEMMA OpenRecorded ==
    ASSUME Types, Recorded, acked' = acked, FailedStays, review' = review, audit' = audit,
           NEW entry, NEW m \in Match, desk' = {Opened(entry, m)}, Busy' = Busy,
           \A d \in Busy : /\ Took(d, 5)' => Took(d, 5)
                           /\ Took(d, 6)' => Took(d, 6)
                           /\ call'[d].before.review = call[d].before.review
                           /\ call'[d].before.audit = call[d].before.audit
    PROVE  Recorded'
<1>1. SUFFICES ASSUME NEW a \in acked, Certain(a)' PROVE Safe(a)'
  BY DEF Recorded
<1>2. Safe(a)
  BY <1>1, CertainBefore DEF Recorded, Types
<1>3. \A t \in desk' : t.match = m /\ t.review = review[m] /\ t.audit = audit
  BY DEF Opened
<1>4. QED BY <1>2, <1>3 DEF Safe, InBefore

\* What a transaction had read it keeps, and its own entry comes to it.
LEMMA AppendKeeps ==
    ASSUME NEW list \in Seq(Entries), NEW entry \in Entries, NEW other
    PROVE  /\ In(entry, Append(list, entry))
           /\ In(other, list) => In(other, Append(list, entry))
<1>1. Len(list) \in Nat /\ DOMAIN list = 1..Len(list)
  OBVIOUS
<1>2. Append(list, entry) \in Seq(Entries) /\ Len(Append(list, entry)) = Len(list) + 1
  OBVIOUS
<1>3. DOMAIN Append(list, entry) = 1..(Len(list) + 1)
  BY <1>2
<1>4. Append(list, entry)[Len(list) + 1] = entry
  OBVIOUS
<1>5. \A i \in 1..Len(list) : Append(list, entry)[i] = list[i]
  OBVIOUS
<1>6. In(entry, Append(list, entry))
  BY <1>1, <1>3, <1>4 DEF In
<1>7. ASSUME In(other, list) PROVE In(other, Append(list, entry))
  <2>1. PICK i \in 1..Len(list) : list[i] = other
    BY <1>1, <1>7 DEF In
  <2>2. i \in DOMAIN Append(list, entry) /\ Append(list, entry)[i] = other
    BY <1>1, <1>3, <1>5, <2>1
  <2>3. QED BY <2>2 DEF In
<1>8. QED BY <1>6, <1>7

LEMMA CommitRecorded ==
    ASSUME Types, Recorded, NEW t \in desk, Commit(t),
           NEW a \in acked, Safe(a), Busy' \subseteq Busy, \A d \in Busy' : call'[d] = call[d]
    PROVE  Safe(a)'
<1>1. /\ t \in Transactions /\ desk' = {} /\ desk = {t}
      /\ review' = [review EXCEPT ![t.match] = Append(t.review, t.entry)]
      /\ audit' = Append(t.audit, t.entry)
  BY CommitTyped DEF Commit
<1>2. /\ t.entry \in Entries /\ t.match \in Match /\ t.review \in Seq(Entries)
      /\ t.audit \in Seq(Entries) /\ a \in Acks /\ a.match \in Match
  BY <1>1 DEF Transactions, Types, Acks
<1>3. In(a.entry, t.audit) /\ (t.match = a.match => In(a.entry, t.review))
  BY <1>1 DEF Safe
<1>4. In(a.entry, audit')
  BY <1>1, <1>2, <1>3, AppendKeeps
<1>5. In(a.entry, review'[a.match])
  <2>1. CASE t.match = a.match
    <3>1. review'[a.match] = Append(t.review, t.entry)
      BY <1>1, <1>2, <2>1 DEF Types, Typed
    <3>2. QED BY <1>2, <1>3, <2>1, <3>1, AppendKeeps
  <2>2. CASE t.match # a.match
    <3>1. review'[a.match] = review[a.match]
      BY <1>1, <1>2, <2>2 DEF Types, Typed
    <3>2. QED BY <3>1 DEF Safe
  <2>3. QED BY <2>1, <2>2
<1>6. \A d \in Busy' \ a.during : InBefore(a, d)'
  BY DEF Safe, InBefore, Took
<1>7. In(a.entry, review[a.match])' /\ In(a.entry, audit)'
  BY <1>4, <1>5 DEF In
<1>8. QED BY <1>1, <1>6, <1>7 DEF Safe

LEMMA RestoreRecorded ==
    ASSUME Types, Recorded, NEW c \in Call, Restore(c)
    PROVE  Recorded'
<1>1. /\ call[c].at = "undo" /\ UNCHANGED <<desk, acked>>
  BY DEF Restore, history
<1>2. PICK n \in 1..6 : /\ n = call[c].next + 1 /\ PutBack(c, n)
                        /\ Moved(c, IF n = 6 THEN "500" ELSE "undo")
                        /\ n # 6 => SameBefore(c)
  BY GivesBack
<1>3. SUFFICES ASSUME NEW a \in acked, Certain(a)' PROVE Safe(a)'
  BY <1>1 DEF Recorded
<1>4. Certain(a) /\ Safe(a) /\ a \in Acks
  BY <1>3, CertainBefore, HandleFailed DEF Recorded, Types, Handle
<1>5. c \in Busy \ a.during
  <2>1. c \in Busy /\ Failed(c)
    BY <1>1 DEF Busy, Handled, Failed
  <2>2. QED BY <1>4, <2>1 DEF Certain
<1>6. /\ Target[c] = a.match => In(a.entry, call[c].before.review)
      /\ In(a.entry, call[c].before.audit)
  BY <1>1, <1>4, <1>5 DEF Safe, InBefore, Took
<1>7. In(a.entry, review'[a.match]) /\ In(a.entry, audit')
  <2>1. /\ review \in [Match -> Seq(Entries)] /\ Target[c] \in Match /\ a.match \in Match
    BY <1>4, CallIs DEF Types, Typed, Acks
  <2>2. review'[a.match] = review[a.match]
           \/ (Target[c] = a.match /\ review'[a.match] = call[c].before.review)
    BY <1>2, <2>1 DEF PutBack
  <2>3. audit' = audit \/ audit' = call[c].before.audit
    BY <1>2 DEF PutBack
  <2>4. QED BY <1>4, <1>6, <2>2, <2>3 DEF Safe
<1>8. Busy' \subseteq Busy /\ \A d \in Busy' : /\ d # c => call'[d] = call[d]
                                               /\ d = c => n # 6
  BY <1>2, <1>5 DEF Moved, Busy, Handled
<1>9. \A d \in Busy' \ a.during : InBefore(a, d)'
  <2>1. ASSUME c \in Busy' PROVE InBefore(a, c)'
    BY <1>2, <1>6, <1>8, <2>1 DEF InBefore, SameBefore
  <2>2. ASSUME NEW d \in Busy' \ a.during, d # c PROVE InBefore(a, d)'
    BY <1>4, <1>8, <2>2 DEF Safe, InBefore, Took
  <2>3. QED BY <2>1, <2>2
<1>10. In(a.entry, review[a.match])' /\ In(a.entry, audit)'
  BY <1>7 DEF In
<1>11. QED BY <1>1, <1>4, <1>9, <1>10 DEF Safe

LEMMA HandleRecorded ==
    ASSUME Types, Recorded, NEW c \in Call, Handle(c)
    PROVE  Recorded'
<1>1. FailedStays /\ call \in [Call -> Calls]
  BY HandleFailed DEF Types
<1>2. CASE Begin(c) \/ TakeSnapshot(c) \/ Restore(c)
  BY <1>2, BeginRecorded, TakeRecorded, RestoreRecorded
<1>3. ASSUME ~ Begin(c) PROVE c \in Busy
  BY <1>3, AtWork
<1>4. CASE LoadOverrides(c)
  <2>1. /\ call[c].at = "load" /\ UNCHANGED <<review, audit, desk, acked>>
    BY <1>4 DEF LoadOverrides, persisted, reviews, history
  <2>2. Moved(c, "override") /\ SameBefore(c) /\ "override" \in CallAt /\ c \in Busy
    BY <1>4, <2>1, Loads, BusyIs DEF CallAt, Handled
  <2>3. QED BY <1>1, <2>1, <2>2, SameBusy, RecordedStays
<1>5. CASE WriteOverride(c)
  <2>1. /\ call[c].at = "override" /\ UNCHANGED <<review, audit, desk, acked>> /\ Goto(c, "report")
    BY <1>5 DEF WriteOverride, reviews, history
  <2>2. Moved(c, "report") /\ SameBefore(c) /\ "report" \in CallAt /\ c \in Busy
    BY <1>1, <2>1, Goes, BusyIs DEF CallAt, Handled
  <2>3. QED BY <1>1, <2>1, <2>2, SameBusy, RecordedStays
<1>6. CASE RebuildReport(c)
  <2>1. /\ call[c].at = "report" /\ UNCHANGED <<review, audit, desk, acked>> /\ Goto(c, "read")
    BY <1>6 DEF RebuildReport, reviews, history
  <2>2. Moved(c, "read") /\ SameBefore(c) /\ "read" \in CallAt /\ c \in Busy
    BY <1>1, <2>1, Goes, BusyIs DEF CallAt, Handled
  <2>3. QED BY <1>1, <2>1, <2>2, SameBusy, RecordedStays
<1>7. CASE ReadRows(c)
  <2>1. /\ call[c].at = "read" /\ UNCHANGED <<review, audit, desk, acked>>
    BY <1>7 DEF ReadRows, persisted, reviews, history
  <2>2. Moved(c, "write") /\ SameBefore(c) /\ "write" \in CallAt /\ c \in Busy
    BY <1>7, <2>1, Reads, BusyIs DEF CallAt, Handled
  <2>3. QED BY <1>1, <2>1, <2>2, SameBusy, RecordedStays
<1>8. CASE WriteScores(c)
  <2>1. /\ call[c].at = "write" /\ UNCHANGED <<review, audit, desk, acked>>
    BY <1>8 DEF WriteScores, reviews
  <2>2. \/ Goto(c, "correct")
        \/ \E m \in Nat : call' = [call EXCEPT ![c].next = m]
    <3>1. PICK rows \in [Match -> Row], next \in Nat : rows = call[c].rows /\ next = call[c].next
      BY CallIs
    <3>2. Following(rows, next) # {} => Least(Following(rows, next)) \in Nat
      BY NextIs, Constants
    <3>3. QED BY <1>8, <3>1, <3>2 DEF WriteScores
  <2>3. c \in Busy /\ \E at \in CallAt : Moved(c, at) /\ SameBefore(c)
    BY <1>1, <2>1, <2>2, Goes, Advances, BusyIs DEF CallAt, Handled
  <2>4. QED BY <1>1, <2>1, <2>3, SameBusy, RecordedStays
<1>9. CASE Correct(c)
  <2>1. /\ call[c].at = "correct" /\ UNCHANGED <<review, audit, acked>> /\ Goto(c, "commit")
        /\ desk' = {Opened(Entry("override", c), Target[c])}
    BY <1>9 DEF Correct, persisted, reviews, history
  <2>2. Moved(c, "commit") /\ SameBefore(c) /\ "commit" \in CallAt /\ c \in Busy
    BY <1>1, <2>1, Goes, BusyIs DEF CallAt, Handled
  <2>3. Busy' = Busy
    BY <2>1, <2>2 DEF Moved, Busy, Handled
  <2>4. \A d \in Busy : /\ Took(d, 5)' => Took(d, 5)
                        /\ Took(d, 6)' => Took(d, 6)
                        /\ call'[d].before.review = call[d].before.review
                        /\ call'[d].before.audit = call[d].before.audit
    BY <2>1, <2>2, <2>3, SameBusy
  <2>5. Target[c] \in Match
    BY Constants
  <2>6. QED BY <1>1, <2>1, <2>3, <2>4, <2>5, OpenRecorded
<1>10. CASE Corrected(c)
  <2>1. PICK t \in desk : Commit(t)
    BY <1>10 DEF Corrected
  <2>2. UNCHANGED acked /\ Moved(c, "200") /\ "200" \in Handled /\ c \in Busy
    BY <1>1, <1>10, Ends, BusyIs DEF Corrected, Handled, history
  <2>3. Busy' \subseteq Busy /\ \A d \in Busy' : call'[d] = call[d]
    BY <2>2, EndBusy
  <2>4. SUFFICES ASSUME NEW a \in acked, Certain(a)' PROVE Safe(a)'
    BY <2>2 DEF Recorded
  <2>5. Safe(a)
    BY <1>1, <2>4, CertainBefore DEF Recorded, Types
  <2>6. QED BY <2>1, <2>3, <2>5, CommitRecorded
<1>11. CASE Fails(c)
  <2>1. /\ call[c].at \notin Handled \cup {"snapshot"} /\ UNCHANGED <<review, audit, acked>>
        /\ desk' \subseteq desk
    BY <1>11 DEF Fails, Handled, persisted, reviews, history
  <2>2. Moved(c, "undo") /\ SameBefore(c) /\ "undo" \in CallAt /\ c \in Busy
    BY <1>11, <2>1, Undoes, BusyIs DEF CallAt
  <2>3. QED BY <1>1, <2>1, <2>2, SameBusy, RecordedStays
<1>12. CASE RestoreFails(c)
  <2>1. UNCHANGED <<review, audit, desk, acked>> /\ Moved(c, "stuck") /\ "stuck" \in Handled
        /\ c \in Busy
    BY <1>1, <1>12, Ends, BusyIs DEF RestoreFails, Handled, persisted, reviews, history
  <2>2. Busy' \subseteq Busy /\ \A d \in Busy' : call'[d] = call[d]
    BY <2>1, EndBusy
  <2>3. QED BY <1>1, <2>1, <2>2, RecordedStays DEF Took
<1>13. QED BY <1>2, <1>4, <1>5, <1>6, <1>7, <1>8, <1>9, <1>10, <1>11, <1>12 DEF Handle

LEMMA ReviewedRecorded ==
    ASSUME Types, Recorded, Reviewed
    PROVE  Recorded'
<1>1. PICK t \in Outside : /\ Commit(t) /\ call' = call
                           /\ acked' = acked \cup {[match |-> t.match, entry |-> t.entry,
                                                    during |-> Busy]}
  BY DEF Reviewed
<1>2. t \in desk /\ Busy' = Busy /\ FailedStays
  BY <1>1 DEF Outside, Busy, FailedStays, Failed
<1>3. ASSUME NEW a \in acked, Certain(a)' PROVE Safe(a)'
  <2>1. Safe(a)
    BY <1>2, <1>3, CertainBefore DEF Recorded, Types
  <2>2. \A d \in Busy' : call'[d] = call[d]
    BY <1>1
  <2>3. QED BY <1>1, <1>2, <2>1, <2>2, CommitRecorded
<1>4. ASSUME NEW a, a = [match |-> t.match, entry |-> t.entry, during |-> Busy]
      PROVE  Safe(a)'
  <2>1. /\ t \in Transactions /\ desk' = {}
        /\ review' = [review EXCEPT ![t.match] = Append(t.review, t.entry)]
        /\ audit' = Append(t.audit, t.entry)
    BY <1>1, <1>2, CommitTyped DEF Commit
  <2>2. /\ t.entry \in Entries /\ t.match \in Match /\ t.review \in Seq(Entries)
        /\ t.audit \in Seq(Entries) /\ review \in [Match -> Seq(Entries)]
    BY <2>1 DEF Transactions, Types, Typed
  <2>3. a.match = t.match /\ a.entry = t.entry /\ a.during = Busy
    BY <1>4
  <2>4. review'[a.match] = Append(t.review, t.entry)
    BY <2>1, <2>2, <2>3
  <2>5. In(a.entry, review'[a.match]) /\ In(a.entry, audit')
    BY <2>1, <2>2, <2>3, <2>4, AppendKeeps
  <2>6. In(a.entry, review[a.match])' /\ In(a.entry, audit)'
    BY <2>5 DEF In
  <2>7. QED BY <1>2, <2>1, <2>3, <2>6 DEF Safe
<1>5. QED BY <1>1, <1>3, <1>4 DEF Recorded

LEMMA RecordedInv ==
    ASSUME Types, Recorded, [Next]_vars
    PROVE  Recorded'
<1>0. ASSUME call' = call
      PROVE  /\ FailedStays /\ Busy' = Busy
             /\ \A d \in Busy : /\ Took(d, 5)' => Took(d, 5)
                                /\ Took(d, 6)' => Took(d, 6)
                                /\ call'[d].before.review = call[d].before.review
                                /\ call'[d].before.audit = call[d].before.audit
  BY <1>0 DEF FailedStays, Failed, Busy, Took
<1>1. CASE call' = call /\ UNCHANGED <<review, audit, desk, acked>>
  BY <1>0, <1>1, RecordedStays
<1>2. CASE UNCHANGED vars
  BY <1>1, <1>2 DEF vars, persisted, reviews, programs, history
<1>3. CASE ServerDies
  <2>1. UNCHANGED <<review, audit, acked>> /\ desk' = {}
    BY <1>3 DEF ServerDies, persisted, reviews, history
  <2>2. FailedStays
    BY <1>3, Dies DEF FailedStays, Failed
  <2>3. Busy' = {}
    BY <1>3, Dies
  <2>4. QED BY <2>1, <2>2, <2>3, RecordedStays
<1>4. CASE ScoreBegins \/ ScoreReads \/ ScoreWrites \/ ScoreStops \/ RebuildCatalog
  BY <1>1, <1>4 DEF ScoreBegins, ScoreReads, ScoreWrites, ScoreStops, RebuildCatalog, persisted,
                    reviews, programs, history
<1>5. ASSUME NEW m \in Match, Rerun(m) PROVE Recorded'
  BY <1>1, <1>5 DEF Rerun, programs, reviews
<1>6. ASSUME NEW m \in Match, Review(m) PROVE Recorded'
  <2>1. /\ UNCHANGED <<review, audit, acked, call>>
        /\ desk' = {Opened(Entry("review", bounds.reviews), m)}
    BY <1>6 DEF Review, persisted, reviews, history
  <2>2. QED BY <1>0, <2>1, OpenRecorded
<1>7. QED BY <1>2, <1>3, <1>4, <1>5, <1>6, HandleRecorded, ReviewedRecorded DEF Next

-----------------------------------------------------------------------------
(* The scores agree.                                                       *)

LEMMA WroteIs ==
    ASSUME NEW prog
    PROVE  /\ prog.at # "write" \/ prog.next = 0 => (Wrote(prog) <=> Preflight)
           /\ prog.at = "write" /\ prog.next > 0 => (Wrote(prog) <=> Walked(prog.rows, prog.next))
BY DEF Wrote

\* A handler's step that writes no scores.
LEMMA AgreeStays ==
    ASSUME Types, Agreement, NEW c \in Call, call[c].at # "write", NEW at \in CallAt, Moved(c, at),
           UNCHANGED <<verified, catalog, scores, corpus, writer, command, bounds>>,
           at \notin {"undo", "500", "stuck", "cut"},
           at = "write" => call'[c].next = 0 /\ Members(call'[c].rows)
    PROVE  Agreement'
<1>1. SUFFICES ASSUME Smooth' PROVE Agreement'
  BY DEF Agreement
<1>2. Smooth
  BY <1>1 DEF Smooth
<1>3. (Preflight' <=> Preflight) /\ (\A rows, n : Walked(rows, n)' <=> Walked(rows, n))
  BY DEF Preflight, Walked
<1>4. writer = {0} => Wrote(command)'
  BY <1>2, <1>3 DEF Agreement, Wrote
<1>5. ASSUME NEW d \in Call, writer = {d} PROVE Wrote(call[d])'
  <2>1. CASE d = c
    <3>1. Preflight
      BY <1>2, <1>5, <2>1 DEF Agreement, Wrote
    <3>2. call'[c].at # "write" \/ ~ (call'[c].next > 0)
      BY DEF Moved
    <3>3. QED BY <1>3, <2>1, <3>1, <3>2 DEF Wrote
  <2>2. CASE d # c
    <3>1. call'[d] = call[d]
      BY <2>2 DEF Moved
    <3>2. QED BY <1>2, <1>3, <1>5, <3>1 DEF Agreement, Wrote
  <2>3. QED BY <2>1, <2>2
<1>6. \A d \in Call : ~ Failed(d)'
  BY <1>2 DEF Agreement, Moved, Failed
<1>7. \A d \in Call : call'[d].at = "write" => Members(call[d].rows)'
  BY <1>2 DEF Agreement, Moved, Members
<1>8. QED BY <1>2, <1>4, <1>5, <1>6, <1>7 DEF Agreement, Members

\* Who writes in one go has written the walk so far.
LEMMA WalkedSoFar ==
    ASSUME Types, NEW prog, NEW p, prog.at = "write", prog.next \in Nat,
           prog.next = 0 \/ writer = {p},
           writer = {p} => Wrote(prog)
    PROVE  Walked(prog.rows, prog.next)
<1>1. CASE prog.next = 0
  BY <1>1, Constants DEF Walked
<1>2. CASE prog.next # 0
  BY <1>2 DEF Wrote
<1>3. QED BY <1>1, <1>2

\* At the end, the corpus has the scores of all matches.
LEMMA WalkAgrees ==
    ASSUME Types, NEW rows \in [Match -> Row], NEW next \in Nat, Walked(rows, next),
           Following(rows, next) = {}, Members(rows),
           \A m \in Match \ catalog : scores[m] = NoRow,
           corpus' = [exists |-> TRUE, rows |-> rows], scores' = scores
    PROVE  Preflight'
<1>1. ASSUME NEW m \in Match PROVE rows[m] = scores[m]
  <2>1. CASE rows[m] # NoRow
    BY <2>1, NoneLeft DEF Walked
  <2>2. CASE rows[m] = NoRow
    BY <2>2 DEF Members
  <2>3. QED BY <2>1, <2>2
<1>2. rows = scores
  BY <1>1 DEF Types, Typed
<1>3. QED BY <1>2 DEF Preflight

LEMMA WriteAgrees ==
    ASSUME Types, Agreement, NEW c \in Call, WriteScores(c)
    PROVE  Agreement'
<1>0. PICK rows \in [Match -> Row], next \in Nat : rows = call[c].rows /\ next = call[c].next
  BY CallIs
<1>1. /\ call[c].at = "write" /\ Writes(c, next)
      /\ UNCHANGED <<verified, catalog, command, bounds>>
  BY <1>0 DEF WriteScores, analysis
<1>2. SUFFICES ASSUME Smooth' PROVE Agreement'
  BY DEF Agreement
<1>3. Smooth /\ Members(rows) /\ \A m \in Match \ catalog : scores[m] = NoRow
  BY <1>0, <1>1, <1>2 DEF Smooth, Agreement
<1>4. /\ writer' = {0} => FALSE
      /\ \A d \in Call : writer' = {d} => d = c /\ (next = 0 \/ writer = {c})
  BY <1>1, Constants DEF Writes
<1>5. next = 0 \/ writer = {c} => Walked(rows, next)
  BY <1>0, <1>1, <1>3, WalkedSoFar DEF Agreement
<1>6. CASE Following(rows, next) # {}
  <2>1. PICK m : m = Least(Following(rows, next))
    OBVIOUS
  <2>2. /\ scores' = [scores EXCEPT ![m] = rows[m]] /\ UNCHANGED corpus
        /\ call' = [call EXCEPT ![c].next = m]
    BY <1>0, <1>6, <2>1 DEF WriteScores
  <2>3. /\ m \in Nat /\ m > next /\ rows[m] # NoRow /\ m \in Match
        /\ \A k \in Match \ {m} : scores'[k] = scores[k]
    BY <1>6, <2>1, <2>2, WriteTyped
  <2>4. Moved(c, "write") /\ call'[c].next = m /\ call'[c].rows = rows /\ call'[c].at = "write"
    BY <1>0, <1>1, <2>2, <2>3, Advances DEF Moved, SameRest
  <2>5. \A k \in Match \ catalog' : scores'[k] = NoRow
    BY <1>1, <1>3, <2>3 DEF Members
  <2>6. ASSUME NEW d \in Call, writer' = {d} PROVE Wrote(call[d])'
    <3>1. d = c /\ Walked(rows, next)
      BY <1>4, <1>5, <2>6
    <3>2. \A k \in Match : rows[k] # NoRow /\ k <= m => scores'[k] = rows[k]
      BY <1>6, <2>1, <2>2, <3>1, WalkGoesOn
    <3>3. QED BY <2>3, <2>4, <3>1, <3>2 DEF Wrote, Walked
  <2>7. \A d \in Call : ~ Failed(d)' /\ (call'[d].at = "write" => Members(call[d].rows)')
    BY <1>0, <1>1, <1>3, <2>4 DEF Agreement, Moved, Failed, Members
  <2>8. QED BY <1>1, <1>3, <1>4, <2>5, <2>6, <2>7 DEF Agreement, Members
<1>7. CASE Following(rows, next) = {}
  <2>1. /\ corpus' = [exists |-> TRUE, rows |-> rows] /\ UNCHANGED scores
        /\ Goto(c, "correct")
    BY <1>0, <1>7 DEF WriteScores
  <2>2. Moved(c, "correct") /\ call'[c].at = "correct"
    BY <2>1, Goes DEF Types, CallAt, Moved
  <2>3. ASSUME NEW d \in Call, writer' = {d} PROVE Wrote(call[d])'
    <3>1. d = c /\ Walked(rows, next)
      BY <1>4, <1>5, <2>3
    <3>2. Preflight'
      BY <1>3, <1>7, <2>1, <3>1, WalkAgrees
    <3>3. QED BY <2>2, <3>1, <3>2 DEF Wrote
  <2>4. \A d \in Call : ~ Failed(d)' /\ (call'[d].at = "write" => Members(call[d].rows)')
    BY <1>1, <1>3, <2>2 DEF Agreement, Moved, Failed, Members
  <2>5. QED BY <1>1, <1>3, <1>4, <2>1, <2>3, <2>4 DEF Agreement, Members
<1>8. QED BY <1>6, <1>7

LEMMA HandleAgrees ==
    ASSUME Types, Agreement, NEW c \in Call, Handle(c)
    PROVE  Agreement'
<1>0. call \in [Call -> Calls] /\ bounds \in Bounds
  BY DEF Types
<1>1. CASE Begin(c)
  <2>1. /\ call[c].at # "write" /\ Moved(c, "snapshot") /\ "snapshot" \in CallAt
        /\ UNCHANGED <<verified, catalog, scores, corpus, writer, command, bounds>>
    BY <1>1, Begins DEF CallAt, analysis, persisted
  <2>2. QED BY <2>1, AgreeStays
<1>2. CASE TakeSnapshot(c)
  <2>1. /\ call[c].at # "write"
        /\ UNCHANGED <<verified, catalog, scores, corpus, writer, command, bounds>>
    BY <1>2 DEF TakeSnapshot, analysis, persisted, history
  <2>2. PICK n \in 1..6 : Moved(c, IF n = 6 THEN "load" ELSE "snapshot")
    BY <1>2, Takes
  <2>3. PICK at \in {"load", "snapshot"} : at \in CallAt /\ Moved(c, at)
    BY <2>2 DEF CallAt
  <2>4. QED BY <2>1, <2>3, AgreeStays
<1>3. CASE LoadOverrides(c)
  <2>1. /\ call[c].at # "write" /\ Moved(c, "override") /\ "override" \in CallAt
        /\ UNCHANGED <<verified, catalog, scores, corpus, writer, command, bounds>>
    BY <1>3, Loads DEF LoadOverrides, CallAt, analysis, persisted, history
  <2>2. QED BY <2>1, AgreeStays
<1>4. CASE WriteOverride(c)
  <2>1. /\ call[c].at # "write" /\ Moved(c, "report") /\ "report" \in CallAt
        /\ UNCHANGED <<verified, catalog, scores, corpus, writer, command, bounds>>
    BY <1>0, <1>4, Goes DEF WriteOverride, CallAt, analysis, history
  <2>2. QED BY <2>1, AgreeStays
<1>5. CASE RebuildReport(c)
  <2>1. /\ call[c].at # "write" /\ Moved(c, "read") /\ "read" \in CallAt
        /\ UNCHANGED <<verified, catalog, scores, corpus, writer, command, bounds>>
    BY <1>0, <1>5, Goes DEF RebuildReport, CallAt, analysis, history
  <2>2. QED BY <2>1, AgreeStays
<1>6. CASE ReadRows(c)
  <2>1. /\ call[c].at # "write" /\ Moved(c, "write") /\ "write" \in CallAt
        /\ call'[c].next = 0 /\ call'[c].rows = Rows
        /\ UNCHANGED <<verified, catalog, scores, corpus, writer, command, bounds>>
    BY <1>6, Reads DEF ReadRows, CallAt, analysis, persisted, history
  <2>2. QED BY <2>1, AgreeStays, RowsIs
<1>7. CASE WriteScores(c)
  BY <1>7, WriteAgrees
<1>8. CASE Correct(c)
  <2>1. /\ call[c].at # "write" /\ Moved(c, "commit") /\ "commit" \in CallAt
        /\ UNCHANGED <<verified, catalog, scores, corpus, writer, command, bounds>>
    BY <1>0, <1>8, Goes DEF Correct, CallAt, analysis, persisted, history
  <2>2. QED BY <2>1, AgreeStays
<1>9. CASE Corrected(c)
  <2>1. /\ call[c].at # "write" /\ Moved(c, "200") /\ "200" \in CallAt
        /\ UNCHANGED <<verified, catalog, scores, corpus, writer, command, bounds>>
    BY <1>0, <1>9, Ends DEF Corrected, CallAt, Handled, analysis, history
  <2>2. QED BY <2>1, AgreeStays
<1>10. CASE Fails(c) \/ RestoreFails(c)
  <2>1. ~ Smooth'
    BY <1>0, <1>10, Failing DEF Fails, RestoreFails
  <2>2. QED BY <2>1 DEF Agreement
<1>11. CASE Restore(c)
  <2>1. call[c].at = "undo" /\ bounds' = bounds
    BY <1>11 DEF Restore
  <2>2. ~ Smooth'
    BY <2>1 DEF Agreement, Smooth, Failed
  <2>3. QED BY <2>2 DEF Agreement
<1>12. QED BY <1>1, <1>2, <1>3, <1>4, <1>5, <1>6, <1>7, <1>8, <1>9, <1>10, <1>11 DEF Handle

LEMMA ScoreWritesAgrees ==
    ASSUME Types, Agreement, ScoreWrites
    PROVE  Agreement'
<1>0. PICK rows \in [Match -> Row], next \in Nat : rows = command.rows /\ next = command.next
  BY CommandIs
<1>1. /\ command.at = "write" /\ Writes(0, next)
      /\ UNCHANGED <<verified, catalog, call, bounds>>
  BY <1>0 DEF ScoreWrites, analysis
<1>2. SUFFICES ASSUME Smooth' PROVE Agreement'
  BY DEF Agreement
<1>3. Smooth /\ Members(rows) /\ \A m \in Match \ catalog : scores[m] = NoRow
  BY <1>0, <1>1, <1>2 DEF Smooth, Agreement
<1>4. /\ \A d \in Call : ~ (writer' = {d})
      /\ writer' = {0} => next = 0 \/ writer = {0}
  BY <1>1, Constants DEF Writes
<1>5. next = 0 \/ writer = {0} => Walked(rows, next)
  BY <1>0, <1>1, <1>3, WalkedSoFar DEF Agreement
<1>6. \A d \in Call : ~ Failed(d)' /\ (call'[d].at = "write" => Members(call[d].rows)')
  BY <1>1, <1>3 DEF Agreement, Failed, Members
<1>7. CASE Following(rows, next) # {}
  <2>1. PICK m : m = Least(Following(rows, next))
    OBVIOUS
  <2>2. /\ scores' = [scores EXCEPT ![m] = rows[m]] /\ UNCHANGED corpus
        /\ command' = [command EXCEPT !.next = m]
    BY <1>0, <1>7, <2>1 DEF ScoreWrites
  <2>3. /\ m \in Nat /\ m > next /\ rows[m] # NoRow /\ m \in Match
        /\ \A k \in Match \ {m} : scores'[k] = scores[k]
    BY <1>7, <2>1, <2>2, WriteTyped
  <2>4. command'.at = "write" /\ command'.next = m /\ command'.rows = rows
    BY <1>0, <1>1, <2>2, <2>3, CommandAdvances
  <2>5. \A k \in Match \ catalog' : scores'[k] = NoRow
    BY <1>1, <1>3, <2>3 DEF Members
  <2>6. ASSUME writer' = {0} PROVE Wrote(command)'
    <3>1. \A k \in Match : rows[k] # NoRow /\ k <= m => scores'[k] = rows[k]
      BY <1>4, <1>5, <1>7, <2>1, <2>2, <2>6, WalkGoesOn
    <3>2. Walked(command.rows, command.next)'
      BY <2>4, <3>1 DEF Walked
    <3>3. command'.at = "write" /\ command'.next > 0
      BY <2>3, <2>4
    <3>4. QED BY <3>2, <3>3 DEF Wrote
  <2>7. QED BY <1>1, <1>3, <1>4, <1>6, <2>4, <2>5, <2>6 DEF Agreement, Members
<1>8. CASE Following(rows, next) = {}
  <2>1. /\ corpus' = [exists |-> TRUE, rows |-> rows] /\ UNCHANGED scores
        /\ command' = [at |-> "idle", rows |-> NoRows, next |-> 0]
    BY <1>0, <1>8 DEF ScoreWrites
  <2>2. ASSUME writer' = {0} PROVE Wrote(command)'
    <3>1. Preflight'
      BY <1>3, <1>4, <1>5, <1>8, <2>1, <2>2, WalkAgrees
    <3>2. QED BY <2>1, <3>1 DEF Wrote
  <2>3. QED BY <1>1, <1>3, <1>4, <1>6, <2>1, <2>2 DEF Agreement, Members
<1>9. QED BY <1>7, <1>8

\* A step that leaves handlers, scores and catalog where they are.
LEMMA AgreeAside ==
    ASSUME Types, Agreement, Smooth' => Smooth,
           UNCHANGED <<call, scores, corpus, writer, catalog, verified>>,
           \/ command' = command
           \/ command.at # "write" /\ command'.at # "write"
           \/ command.at # "write" /\ command'.at = "write" /\ command'.next = 0
                 /\ Members(command'.rows)
    PROVE  Agreement'
<1>1. SUFFICES ASSUME Smooth' PROVE Agreement'
  BY DEF Agreement
<1>2. (Preflight' <=> Preflight) /\ (\A rows, n : Walked(rows, n)' <=> Walked(rows, n))
  BY DEF Preflight, Walked
<1>3. writer = {0} => Wrote(command)'
  BY <1>1, <1>2 DEF Agreement, Wrote
<1>4. \A d \in Call : writer = {d} => Wrote(call[d])'
  BY <1>1, <1>2 DEF Agreement, Wrote
<1>5. QED BY <1>1, <1>3, <1>4 DEF Agreement, Members, Failed

LEMMA AgreementInv ==
    ASSUME Types, Agreement, [Next]_vars
    PROVE  Agreement'
<1>0. bounds \in Bounds
  BY DEF Types
<1>1. CASE UNCHANGED vars
  <2>1. UNCHANGED <<call, scores, corpus, writer, catalog, verified, command, bounds>>
    BY <1>1 DEF vars, analysis, persisted, programs, history
  <2>2. Smooth' => Smooth
    BY <2>1 DEF Smooth
  <2>3. QED BY <2>1, <2>2, AgreeAside
<1>2. CASE ScoreBegins
  <2>1. /\ UNCHANGED <<call, scores, corpus, writer, verified>>
        /\ command.at = "idle" /\ (command' = command \/ command'.at = "read")
        /\ catalog' = catalog \/ catalog' = {m \in Match : verified[m]}
        /\ Smooth' => Smooth
    BY <1>2, ScoreBeginning DEF analysis
  <2>2. Smooth' => catalog' = catalog
    BY <2>1 DEF Agreement
  <2>3. CASE Smooth'
    BY <2>1, <2>2, <2>3, AgreeAside
  <2>4. CASE ~ Smooth'
    BY <2>4 DEF Agreement
  <2>5. QED BY <2>3, <2>4
<1>3. CASE ScoreReads
  <2>1. /\ UNCHANGED <<call, scores, corpus, writer, catalog, verified, bounds>>
        /\ command.at = "read" /\ command' = [at |-> "write", rows |-> Rows, next |-> 0]
    BY <1>3 DEF ScoreReads, analysis, persisted, history
  <2>2. Smooth' => Smooth
    BY <2>1 DEF Smooth
  <2>3. command'.at = "write" /\ command'.next = 0 /\ Members(command'.rows)
    BY <2>1, RowsIs
  <2>4. QED BY <2>1, <2>2, <2>3, AgreeAside
<1>4. CASE ScoreWrites
  BY <1>4, ScoreWritesAgrees
<1>5. CASE ScoreStops \/ ServerDies
  <2>1. ~ Smooth'
    BY <1>0, <1>5, Failing DEF ScoreStops, ServerDies
  <2>2. QED BY <2>1 DEF Agreement
<1>6. CASE RebuildCatalog
  <2>1. /\ catalog # {m \in Match : verified[m]} /\ bounds' = bounds
    BY <1>6 DEF RebuildCatalog
  <2>2. ~ Smooth'
    BY <2>1 DEF Agreement, Smooth
  <2>3. QED BY <2>2 DEF Agreement
<1>7. CASE Reviewed
  <2>1. UNCHANGED <<call, scores, corpus, writer, catalog, verified, command, bounds>>
    BY <1>7 DEF Reviewed, analysis
  <2>2. Smooth' => Smooth
    BY <2>1 DEF Smooth
  <2>3. QED BY <2>1, <2>2, AgreeAside
<1>8. ASSUME NEW m \in Match, Review(m) PROVE Agreement'
  <2>1. UNCHANGED <<call, scores, corpus, writer, catalog, verified, command>>
    BY <1>8 DEF Review, analysis, persisted, history
  <2>2. Smooth' => Smooth
    BY <1>0, <1>8, Spent DEF Review, SpendOutside
  <2>3. QED BY <2>1, <2>2, AgreeAside
<1>9. ASSUME NEW m \in Match, Rerun(m) PROVE Agreement'
  <2>1. UNCHANGED <<call, scores, corpus, writer, catalog, command>>
    BY <1>9 DEF Rerun, programs
  <2>2. CASE SpendOutside("reruns") /\ UNCHANGED verified
    <3>1. Smooth' => Smooth
      BY <1>0, <2>2, Spent DEF SpendOutside
    <3>2. QED BY <2>1, <2>2, <3>1, AgreeAside
  <2>3. CASE SpendOutside("regrades")
    <3>1. ~ Smooth'
      BY <1>0, <2>3, Spent DEF SpendOutside
    <3>2. QED BY <3>1 DEF Agreement
  <2>4. QED BY <1>9, <2>2, <2>3 DEF Rerun
<1>10. QED BY <1>1, <1>2, <1>3, <1>4, <1>5, <1>6, <1>7, <1>8, <1>9, HandleAgrees DEF Next

-----------------------------------------------------------------------------
(* An acknowledged override that met no other writer is effective.         *)

\* A handler's progress as far as it matters to the others.
Onward ==
    \A d \in Call : /\ met[d] \subseteq met'[d]
                    /\ call'[d].at = "new" => call[d].at = "new"
                    /\ d \in Busy' \/ call'[d].at = "500" =>
                          call[d].at = "new" \/ d \in Busy \/ call[d].at = "500"

LEMMA StandsBefore ==
    ASSUME Onward, NEW e \in Call, Stands(e)', call[e].at = "200"
    PROVE  Stands(e)
<1>1. \A d \in Call : Unmixed(d)' => Unmixed(d)
  BY DEF Onward, Unmixed
<1>2. ASSUME NEW d \in Call, d > e, Target[d] = Target[e]
      PROVE  call[d].at = "new" \/ (Unmixed(d) /\ (d \in Busy \/ call[d].at = "500"))
  <2>1. call'[d].at = "new" \/ (Unmixed(d)' /\ (d \in Busy' \/ call'[d].at = "500"))
    BY <1>2 DEF Stands
  <2>2. QED BY <1>1, <2>1 DEF Onward
<1>3. QED BY <1>1, <1>2 DEF Stands

\* While it stands, one at work on the same match is there alone.
LEMMA RivalAlone ==
    ASSUME Types, Turns, NEW e \in Call, Stands(e), NEW d \in Busy
    PROVE  /\ d \in Call /\ d # e /\ d > e
           /\ Target[d] = Target[e] => Unmixed(d) /\ Busy = {d} /\ command.at = "idle"
<1>1. d \in Call /\ call[d].at \notin Handled /\ d \in Nat /\ e \in Nat
  BY Constants DEF Busy
<1>2. d # e
  BY <1>1 DEF Stands, Handled
<1>3. ~ (d < e)
  BY <1>1 DEF Stands, Unmixed, Turns
<1>4. d > e
  BY <1>1, <1>2, <1>3
<1>5. ASSUME Target[d] = Target[e] PROVE Unmixed(d) /\ Busy = {d} /\ command.at = "idle"
  <2>1. Unmixed(d)
    BY <1>1, <1>4, <1>5 DEF Stands, Handled
  <2>2. Busy = {d} /\ command.at = "idle"
    BY <2>1 DEF Unmixed, Turns
  <2>3. QED BY <2>1, <2>2
<1>6. QED BY <1>1, <1>2, <1>4, <1>5

LEMMA EffectiveIs ==
    ASSUME Types, Turns, Effective, NEW e \in Call, Stands(e)
    PROVE  \/ Rival(e) = {} /\ InEffect(e)
           \/ \E d \in Call : /\ Busy = {d} /\ Rival(e) = {d} /\ Target[d] = Target[e]
                              /\ command.at = "idle" /\ d > e /\ Unmixed(d)
                              /\ Effect(e, found[d].overrides, found[d].corpus,
                                        found[d].scores[Target[e]])
<1>1. CASE Rival(e) = {}
  BY <1>1 DEF Effective
<1>2. CASE Rival(e) # {}
  <2>1. PICK d \in Busy : Target[d] = Target[e]
    BY <1>2 DEF Rival
  <2>2. d \in Call /\ d > e /\ Unmixed(d) /\ Busy = {d} /\ command.at = "idle"
    BY <2>1, RivalAlone
  <2>3. Rival(e) = {d}
    BY <2>1, <2>2 DEF Rival
  <2>4. Effect(e, found[d].overrides, found[d].corpus, found[d].scores[Target[e]])
    BY <2>3 DEF Effective
  <2>5. QED BY <2>1, <2>2, <2>3, <2>4
<1>3. QED BY <1>1, <1>2

\* The rows of its match are written with its role, or not at all.
RowKept(e) == scores'[Target[e]] = scores[Target[e]] \/ scores'[Target[e]].role = e

LEMMA CarriesStays ==
    ASSUME NEW e \in Call, NEW d \in Call, Carries(e, d), call'[d] = call[d], RowKept(e)
    PROVE  Carries(e, d)'
BY DEF Carries, Tells, Took, RowKept

\* Nothing that is at work takes the effect away.
LEMMA InEffectStays ==
    ASSUME NEW e \in Call, InEffect(e), RowKept(e), overrides'[Target[e]] = overrides[Target[e]],
           \/ corpus' = corpus
           \/ /\ corpus'.exists
              /\ corpus'.rows[Target[e]] # NoRow =>
                    corpus'.rows[Target[e]].role = e /\ scores'[Target[e]].role = e,
           command' = command \/ command'.at # "write" \/ Tells(e, command.rows, command.next)',
           \A d \in Busy' : (d \in Busy /\ call'[d] = call[d]) \/ Carries(e, d)'
    PROVE  InEffect(e)'
<1>1. Effect(e, overrides, corpus, scores[Target[e]])'
  BY DEF InEffect, Effect, RowKept
<1>2. command'.at = "write" => Tells(e, command.rows, command.next)'
  BY DEF InEffect, Tells, RowKept
<1>3. Busy \subseteq Call /\ Busy' \subseteq Call
  BY DEF Busy
<1>4. \A d \in Busy' : Carries(e, d)'
  BY <1>3, CarriesStays DEF InEffect
<1>5. QED BY <1>1, <1>2, <1>4 DEF InEffect

\* What a handler carries does not depend on where it is, but for what it
\* has just read.
LEMMA CarriesSame ==
    ASSUME NEW e \in Call, NEW c \in Call, Carries(e, c), RowKept(e), SameBefore(c),
           call[c].at # "snapshot", call'[c].at \notin {"write", "override"}
    PROVE  Carries(e, c)'
BY DEF Carries, SameBefore, Took, RowKept

\* A step of handler c that is at work: what it does to the overrides of
\* other matches, and how it ends.
LEMMA HandlerEffective ==
    ASSUME Types, Turns, Effective, NEW c \in Call, c \in Busy, Aside,
           NEW at \in CallAt \ {"new", "200"}, Moved(c, at),
           \A e \in Call : Stands(e) /\ InEffect(e) /\ Target[e] # Target[c] => InEffect(e)',
           at = "500" /\ Unmixed(c) =>
              /\ overrides' = found[c].overrides /\ corpus' = found[c].corpus
              /\ scores'[Target[c]] = found[c].scores[Target[c]]
    PROVE  Effective'
<1>1. Onward
  BY DEF Onward, Aside, Moved, Busy, Handled
<1>2. SUFFICES ASSUME NEW e \in Call, Stands(e)'
               PROVE  /\ Rival(e)' = {} => InEffect(e)'
                      /\ \A d \in Rival(e)' :
                            Effect(e, found'[d].overrides, found'[d].corpus,
                                   found'[d].scores[Target[e]])
  BY DEF Effective
<1>3. e # c /\ call'[e] = call[e] /\ call[e].at = "200"
  BY <1>2 DEF Stands, Moved
<1>4. Stands(e)
  BY <1>1, <1>2, <1>3, StandsBefore
<1>5. UNCHANGED <<command, found, met>> /\ \A d \in Call \ {c} : call'[d] = call[d]
  BY DEF Aside, Moved
<1>6. CASE Rival(e) = {} /\ InEffect(e)
  <2>1. Target[e] # Target[c]
    BY <1>6 DEF Rival
  <2>2. InEffect(e)'
    BY <1>4, <1>6, <2>1
  <2>3. Rival(e)' = {}
    BY <1>5, <1>6, <2>1 DEF Rival, Busy
  <2>4. QED BY <2>2, <2>3
<1>7. CASE Rival(e) # {} \/ ~ InEffect(e)
  <2>1. /\ Busy = {c} /\ Rival(e) = {c} /\ Target[c] = Target[e] /\ command.at = "idle"
        /\ c > e /\ Unmixed(c)
        /\ Effect(e, found[c].overrides, found[c].corpus, found[c].scores[Target[e]])
    BY <1>4, <1>7, EffectiveIs
  <2>2. Busy' = IF at \in Handled THEN {} ELSE {c}
    BY <1>5, <2>1 DEF Busy, Moved
  <2>3. CASE at \notin Handled
    <3>1. Rival(e)' = {c}
      BY <2>1, <2>2, <2>3 DEF Rival
    <3>2. QED BY <1>5, <2>1, <3>1
  <2>4. CASE at \in Handled
    <3>1. at = "500"
      <4>1. call'[c].at = "new" \/ c \in Busy' \/ call'[c].at = "500"
        BY <1>2, <2>1 DEF Stands
      <4>2. QED BY <2>2, <2>4, <4>1 DEF Moved
    <3>2. /\ overrides' = found[c].overrides /\ corpus' = found[c].corpus
          /\ scores'[Target[e]] = found[c].scores[Target[e]]
      BY <2>1, <3>1
    <3>3. Rival(e)' = {} /\ Busy' = {} /\ command'.at = "idle"
      BY <1>5, <2>1, <2>2, <2>4 DEF Rival
    <3>4. Effect(e, overrides, corpus, scores[Target[e]])'
      BY <2>1, <3>2 DEF Effect
    <3>5. QED BY <3>3, <3>4 DEF InEffect
  <2>5. QED BY <2>3, <2>4
<1>8. QED BY <1>6, <1>7

LEMMA BeginEffective ==
    ASSUME Types, Turns, Effective, NEW c \in Call, Begin(c)
    PROVE  Effective'
<1>1. /\ Moved(c, "snapshot") /\ call'[c].next = 0 /\ Busy' = Busy \cup {c} /\ c \notin Busy
      /\ call[c].at = "new" /\ UNCHANGED <<overrides, scores, corpus, command>>
      /\ met'[c] = (IF Busy = {} THEN {} ELSE {"override"})
                       \cup (IF command.at = "idle" THEN {} ELSE {"score"})
      /\ \A d \in Call \ {c} : /\ met[d] \subseteq met'[d] /\ found'[d] = found[d]
                               /\ d \in Busy => "override" \in met'[d]
      /\ found'[c] = [Snapshot(Target[c]) EXCEPT !.scores = scores]
  BY Begins DEF persisted
<1>2. Busy \subseteq Call /\ \A d \in Call \ {c} : call'[d] = call[d]
  BY <1>1 DEF Moved, Busy
<1>3. SUFFICES ASSUME NEW e \in Call, Stands(e)'
               PROVE  /\ Rival(e)' = {} => InEffect(e)'
                      /\ \A d \in Rival(e)' :
                            Effect(e, found'[d].overrides, found'[d].corpus,
                                   found'[d].scores[Target[e]])
  BY DEF Effective
<1>4. e # c /\ call'[e] = call[e] /\ call[e].at = "200"
  BY <1>1, <1>3 DEF Stands, Moved
<1>5. Stands(e)
  <2>1. \A d \in Call \ {c} : Unmixed(d)' => Unmixed(d)
    BY <1>1 DEF Unmixed
  <2>2. ASSUME NEW d \in Call, d > e, Target[d] = Target[e]
        PROVE  call[d].at = "new" \/ (Unmixed(d) /\ (d \in Busy \/ call[d].at = "500"))
    <3>1. CASE d = c
      BY <1>1, <3>1
    <3>2. CASE d # c
      BY <1>1, <1>2, <1>3, <2>1, <2>2, <3>2 DEF Stands
    <3>3. QED BY <3>1, <3>2
  <2>3. QED BY <1>3, <1>4, <2>1, <2>2 DEF Stands
<1>6. CASE Rival(e) = {} /\ InEffect(e)
  <2>1. CASE Target[c] # Target[e]
    <3>1. Rival(e)' = {}
      BY <1>1, <1>6, <2>1 DEF Rival
    <3>2. Carries(e, c)'
      BY <1>1 DEF Carries, Took, Moved
    <3>3. RowKept(e) /\ overrides'[Target[e]] = overrides[Target[e]] /\ corpus' = corpus
      BY <1>1 DEF RowKept
    <3>4. \A d \in Busy' : (d \in Busy /\ call'[d] = call[d]) \/ Carries(e, d)'
      BY <1>1, <1>2, <3>2
    <3>5. InEffect(e)'
      BY <1>1, <1>6, <3>3, <3>4, InEffectStays
    <3>6. QED BY <3>1, <3>5
  <2>2. CASE Target[c] = Target[e]
    <3>1. Rival(e)' = {c}
      BY <1>1, <1>6, <2>2 DEF Rival
    <3>2. PICK s \in Snapshots : /\ s = Snapshot(Target[c]) /\ s.overrides = overrides
                                 /\ s.corpus = corpus
      BY SnapshotIs, Constants DEF Types
    <3>3. /\ found'[c].overrides = overrides /\ found'[c].corpus = corpus
          /\ found'[c].scores = scores
      <4>1. found'[c] = [s EXCEPT !.scores = scores]
        BY <1>1, <3>2
      <4>2. QED BY <3>2, <4>1 DEF Snapshots
    <3>4. Effect(e, overrides, corpus, scores[Target[e]])
      BY <1>6 DEF InEffect
    <3>5. QED BY <3>1, <3>3, <3>4 DEF Effect
  <2>3. QED BY <2>1, <2>2
<1>7. CASE Rival(e) # {} \/ ~ InEffect(e)
  <2>1. PICK d \in Call : Busy = {d} /\ Target[d] = Target[e] /\ d > e
    BY <1>5, <1>7, EffectiveIs
  <2>2. d # c /\ ~ Unmixed(d)' /\ d \in Busy'
    BY <1>1, <2>1 DEF Unmixed
  <2>3. call'[d].at # "new"
    BY <2>2 DEF Busy, Handled
  <2>4. QED BY <1>3, <2>1, <2>2, <2>3 DEF Stands
<1>8. QED BY <1>5, <1>6, <1>7, EffectiveIs

\* The steps of a handler, as an override of another match sees them.
LEMMA TakeEffect ==
    ASSUME Types, NEW c \in Call, TakeSnapshot(c), NEW e \in Call, InEffect(e),
           Target[e] # Target[c]
    PROVE  InEffect(e)'
<1>1. /\ UNCHANGED <<overrides, scores, corpus, command>> /\ call[c].at = "snapshot"
  BY DEF TakeSnapshot, persisted
<1>2. PICK n \in 1..6 : /\ n = call[c].next + 1 /\ call'[c].next = n /\ Copied(c, n)
                        /\ Moved(c, IF n = 6 THEN "load" ELSE "snapshot")
  BY Takes
<1>3. c \in Busy /\ Busy' = Busy /\ \A d \in Call \ {c} : call'[d] = call[d]
  BY <1>1, <1>2 DEF Moved, Busy, Handled
<1>4. Carries(e, c) /\ Effect(e, overrides, corpus, scores[Target[e]])
  BY <1>3 DEF InEffect
<1>5. \A k \in 1..6 : Took(c, k)' => k = n \/ Took(c, k)
  BY <1>1, <1>2, CallIs DEF Took, Moved
<1>6. Carries(e, c)'
  <2>1. Took(c, 1)' => call'[c].before.overrides[Target[e]] = e
    BY <1>2, <1>4, <1>5 DEF Carries, Copied, Effect
  <2>2. ASSUME Took(c, 4)'
        PROVE  LET corp == call'[c].before.corpus IN
               /\ corp.exists
               /\ corp.rows[Target[e]] # NoRow =>
                     corp.rows[Target[e]].role = e /\ scores'[Target[e]].role = e
    BY <1>1, <1>2, <1>4, <1>5, <2>2 DEF Carries, Copied, Effect
  <2>3. call'[c].at \notin {"write", "override"}
    BY <1>2 DEF Moved
  <2>4. QED BY <2>1, <2>2, <2>3 DEF Carries
<1>7. Busy \subseteq Call
  BY DEF Busy
<1>8. \A d \in Busy' : (d \in Busy /\ call'[d] = call[d]) \/ Carries(e, d)'
  BY <1>3, <1>6, <1>7
<1>9. QED BY <1>1, <1>8, InEffectStays DEF RowKept

\* A step of handler c after which it carries what it may.
LEMMA StepEffect ==
    ASSUME Types, NEW c \in Call, c \in Busy, NEW at \in CallAt \ {"new"}, Moved(c, at),
           command' = command, NEW e \in Call, InEffect(e), RowKept(e),
           overrides'[Target[e]] = overrides[Target[e]],
           \/ corpus' = corpus
           \/ /\ corpus'.exists
              /\ corpus'.rows[Target[e]] # NoRow =>
                    corpus'.rows[Target[e]].role = e /\ scores'[Target[e]].role = e,
           c \in Busy' => Carries(e, c)'
    PROVE  InEffect(e)'
<1>1. \A d \in Busy' : (d \in Busy /\ call'[d] = call[d]) \/ Carries(e, d)'
  BY DEF Moved, Busy
<1>2. QED BY <1>1, InEffectStays

LEMMA WriteEffect ==
    ASSUME Types, NEW c \in Call, WriteScores(c), NEW e \in Call, InEffect(e),
           Target[e] # Target[c]
    PROVE  InEffect(e)'
<1>0. PICK rows \in [Match -> Row], next \in Nat : rows = call[c].rows /\ next = call[c].next
  BY CallIs
<1>1. call[c].at = "write" /\ UNCHANGED <<overrides, command>> /\ c \in Busy
  BY BusyIs DEF WriteScores, Handled
<1>2. PICK m \in Match : m = Target[e] /\ m \in Nat
  BY Constants
<1>3. /\ Carries(e, c) /\ Effect(e, overrides, corpus, scores[m])
      /\ rows[m] # NoRow => rows[m].role = e /\ (m <= next => scores[m].role = e)
  BY <1>0, <1>1, <1>2 DEF InEffect, Carries, Tells
<1>4. CASE Following(rows, next) # {}
  <2>1. PICK k : k = Least(Following(rows, next))
    OBVIOUS
  <2>2. /\ scores' = [scores EXCEPT ![k] = rows[k]] /\ UNCHANGED corpus
        /\ call' = [call EXCEPT ![c].next = k]
    BY <1>0, <1>4, <2>1 DEF WriteScores
  <2>3. /\ k \in Match /\ k \in Nat /\ rows[k] # NoRow /\ scores'[k] = rows[k]
        /\ \A n \in Match \ {k} : scores'[n] = scores[n]
    BY <1>4, <2>1, <2>2, WriteTyped
  <2>4. \A n \in Match : n > next /\ n < k => rows[n] = NoRow
    BY <1>4, <2>1, NextIs
  <2>5. RowKept(e)
    BY <1>2, <1>3, <2>3 DEF RowKept
  <2>6. /\ Moved(c, "write") /\ "write" \in CallAt /\ SameBefore(c)
        /\ call'[c].rows = rows /\ call'[c].next = k /\ call'[c].at = "write"
    BY <1>0, <1>1, <2>2, <2>3, Advances DEF CallAt, Moved, SameRest
  <2>7. rows[m] # NoRow /\ m <= k => scores'[m].role = e
    <3>1. SUFFICES ASSUME rows[m] # NoRow, m <= k PROVE scores'[m].role = e
      OBVIOUS
    <3>2. CASE m = k
      BY <1>3, <2>3, <3>1, <3>2
    <3>3. CASE m # k
      <4>1. m < k
        BY <1>2, <2>3, <3>1, <3>3
      <4>2. m <= next
        BY <1>2, <2>4, <3>1, <4>1
      <4>3. QED BY <1>3, <2>3, <3>1, <3>3, <4>2
    <3>4. QED BY <3>2, <3>3
  <2>8. Carries(e, c)'
    BY <1>1, <1>2, <1>3, <2>5, <2>6, <2>7 DEF Carries, Tells, Took, SameBefore, RowKept
  <2>9. "write" \in CallAt \ {"new"}
    BY <2>6
  <2>10. QED BY <1>1, <2>2, <2>5, <2>6, <2>8, <2>9, StepEffect
<1>5. CASE Following(rows, next) = {}
  <2>1. /\ corpus' = [exists |-> TRUE, rows |-> rows] /\ UNCHANGED scores
        /\ Goto(c, "correct")
    BY <1>0, <1>5 DEF WriteScores
  <2>2. Moved(c, "correct") /\ "correct" \in CallAt \ {"new"} /\ SameBefore(c)
        /\ call'[c].at = "correct"
    BY <2>1, Goes DEF Types, CallAt, Moved
  <2>3. rows[m] # NoRow => rows[m].role = e /\ scores'[m].role = e
    <3>1. rows[m] # NoRow => m <= next
      BY <1>5, NoneLeft
    <3>2. QED BY <1>3, <2>1, <3>1
  <2>4. RowKept(e)
    BY <2>1 DEF RowKept
  <2>5. Carries(e, c)'
    BY <1>1, <1>3, <2>2, <2>4, CarriesSame
  <2>6. /\ corpus'.exists
        /\ corpus'.rows[Target[e]] # NoRow =>
              corpus'.rows[Target[e]].role = e /\ scores'[Target[e]].role = e
    BY <1>2, <2>1, <2>3
  <2>7. QED BY <1>1, <2>2, <2>4, <2>5, <2>6, StepEffect
<1>6. QED BY <1>4, <1>5

LEMMA RestoreEffect ==
    ASSUME Types, NEW c \in Call, Restore(c), NEW e \in Call, InEffect(e),
           Target[e] # Target[c]
    PROVE  InEffect(e)'
<1>1. call[c].at = "undo" /\ UNCHANGED command /\ c \in Busy
  BY BusyIs DEF Restore, Handled
<1>2. PICK n \in 1..6 : /\ PutBack(c, n) /\ Moved(c, IF n = 6 THEN "500" ELSE "undo")
                        /\ n # 6 => SameBefore(c)
  BY GivesBack
<1>3. /\ Carries(e, c) /\ Took(c, 1) /\ Took(c, 4)
      /\ Effect(e, overrides, corpus, scores[Target[e]])
  BY <1>1 DEF InEffect, Took
<1>4. Target[e] \in Match /\ Target[c] \in Match /\ scores \in [Match -> Row]
  BY Constants DEF Types, Typed
<1>5. scores'[Target[e]] = scores[Target[e]]
  BY <1>2, <1>4 DEF PutBack
<1>6. overrides'[Target[e]] = overrides[Target[e]]
  BY <1>2, <1>3 DEF PutBack, Carries, Effect
<1>7. \/ corpus' = corpus
      \/ /\ corpus'.exists
         /\ corpus'.rows[Target[e]] # NoRow =>
               corpus'.rows[Target[e]].role = e /\ scores'[Target[e]].role = e
  BY <1>2, <1>3, <1>5 DEF PutBack, Carries
<1>8. RowKept(e)
  BY <1>5 DEF RowKept
<1>9. c \in Busy' => Carries(e, c)'
  <2>1. SUFFICES ASSUME c \in Busy' PROVE Carries(e, c)'
    OBVIOUS
  <2>2. n # 6 /\ call'[c].at = "undo"
    BY <1>2, <2>1 DEF Busy, Handled, Moved
  <2>3. QED BY <1>1, <1>2, <1>3, <1>8, <2>2, CarriesSame
<1>10. PICK at \in CallAt \ {"new"} : at = IF n = 6 THEN "500" ELSE "undo"
  BY DEF CallAt, Handled
<1>11. QED BY <1>1, <1>2, <1>6, <1>7, <1>8, <1>9, <1>10, StepEffect

\* The correction is committed: the override is acknowledged, in effect.
LEMMA CorrectedEffective ==
    ASSUME Types, Turns, AllHeld, Effective, NEW c \in Call, Corrected(c)
    PROVE  Effective'
<1>1. /\ call[c].at = "commit" /\ End(c, "200") /\ c \in Busy
      /\ UNCHANGED <<overrides, scores, corpus, command, found, met>>
  BY BusyIs DEF Corrected, Handled, history
<1>2. Moved(c, "200") /\ call'[c].at = "200" /\ "200" \in CallAt \ {"new"}
  BY <1>1, Ends DEF Types, Handled, CallAt, Moved
<1>3. Onward /\ Busy' = Busy \ {c} /\ Busy \subseteq Call
      /\ \A d \in Call \ {c} : call'[d] = call[d]
  BY <1>1, <1>2 DEF Onward, Moved, Busy, Handled
<1>4. SUFFICES ASSUME NEW e \in Call, Stands(e)'
               PROVE  /\ Rival(e)' = {} => InEffect(e)'
                      /\ \A d \in Rival(e)' :
                            Effect(e, found'[d].overrides, found'[d].corpus,
                                   found'[d].scores[Target[e]])
  BY DEF Effective
<1>5. CASE e = c
  <2>1. Unmixed(c)
    BY <1>1, <1>4, <1>5 DEF Stands, Unmixed
  <2>2. Busy = {c} /\ command.at = "idle"
    BY <1>1, <2>1, <1>3 DEF Unmixed, Turns
  <2>3. OverridesHeld(c) /\ RowsHeld(c)
    BY <1>1 DEF AllHeld, Held
  <2>4. overrides = [found[c].overrides EXCEPT ![Target[c]] = c] /\ WalkDone(call[c].rows)
    BY <1>1, <2>1, <2>3, FreeIs DEF OverridesHeld, RowsHeld, Written
  <2>5. overrides[Target[c]] = c /\ Target[c] \in Match
    BY <2>4, CallIs DEF Finds
  <2>6. Effect(c, overrides, corpus, scores[Target[c]])
    BY <2>4, <2>5 DEF Effect, WalkDone
  <2>7. Effect(c, overrides, corpus, scores[Target[c]])'
    BY <1>1, <2>6 DEF Effect
  <2>8. Busy' = {} /\ Rival(c)' = {} /\ command'.at # "write"
    BY <1>1, <1>3, <2>2 DEF Rival
  <2>9. QED BY <1>5, <2>7, <2>8 DEF InEffect
<1>6. CASE e # c
  <2>1. call'[e] = call[e] /\ call[e].at = "200"
    BY <1>3, <1>4, <1>6 DEF Stands
  <2>2. Stands(e)
    BY <1>3, <1>4, <2>1, StandsBefore
  <2>3. Target[e] # Target[c]
    <3>1. c > e
      BY <1>1, <2>2, RivalAlone
    <3>2. QED BY <1>2, <1>3, <1>4, <3>1 DEF Stands
  <2>4. Rival(e) = {} /\ InEffect(e)
    BY <1>1, <2>2, <2>3, EffectiveIs
  <2>5. Rival(e)' = {}
    BY <1>3, <2>4 DEF Rival
  <2>6. RowKept(e) /\ overrides'[Target[e]] = overrides[Target[e]] /\ corpus' = corpus
    BY <1>1 DEF RowKept
  <2>7. InEffect(e)'
    BY <1>1, <1>2, <1>3, <2>4, <2>6, StepEffect
  <2>8. QED BY <2>5, <2>7
<1>7. QED BY <1>5, <1>6

LEMMA HandleEffective ==
    ASSUME Types, Turns, AllHeld, Effective, NEW c \in Call, Handle(c)
    PROVE  Effective'
<1>0. /\ call \in [Call -> Calls] /\ Target[c] \in Match /\ c \in Nat
      /\ overrides \in [Match -> Setting] /\ call[c].kept \in [Match -> Setting]
  BY CallIs DEF Types, Typed
<1>1. CASE Begin(c)
  BY <1>1, BeginEffective
<1>2. CASE Corrected(c)
  BY <1>2, CorrectedEffective
<1>3. ASSUME ~ Begin(c) PROVE c \in Busy /\ Aside
  BY <1>3, AtWork
<1>4. ASSUME NEW e \in Call, Target[e] # Target[c], InEffect(e), c \in Busy
      PROVE  /\ Carries(e, c) /\ Effect(e, overrides, corpus, scores[Target[e]])
             /\ Target[e] \in Match
  BY <1>4, Constants DEF InEffect
<1>5. CASE TakeSnapshot(c)
  <2>1. PICK n \in 1..6 : Moved(c, IF n = 6 THEN "load" ELSE "snapshot")
    BY <1>5, Takes
  <2>2. PICK at \in {"load", "snapshot"} : Moved(c, at)
    BY <2>1
  <2>3. c \in Busy /\ Aside
    BY <1>3, <1>5 DEF TakeSnapshot, Begin
  <2>4. at \in CallAt \ {"new", "200"} /\ at # "500"
    BY DEF CallAt
  <2>5. QED BY <1>5, <2>2, <2>3, <2>4, TakeEffect, HandlerEffective
<1>6. CASE LoadOverrides(c)
  <2>1. /\ call[c].at = "load" /\ UNCHANGED <<persisted, command>> /\ c \in Busy /\ Aside
    BY <1>3, <1>6 DEF LoadOverrides, Begin
  <2>2. /\ Moved(c, "override") /\ SameBefore(c) /\ call'[c].kept = overrides
        /\ "override" \in CallAt \ {"new", "200"}
    BY <1>6, Loads DEF CallAt
  <2>3. ASSUME NEW e \in Call, InEffect(e), Target[e] # Target[c] PROVE InEffect(e)'
    <3>1. UNCHANGED <<overrides, scores, corpus>> /\ RowKept(e)
      BY <2>1 DEF persisted, RowKept
    <3>2. Carries(e, c)'
      BY <1>4, <2>1, <2>2, <2>3, <3>1 DEF Carries, SameBefore, Took, Moved, Effect
    <3>3. "override" \in CallAt \ {"new"}
      BY <2>2
    <3>4. QED BY <2>1, <2>2, <2>3, <3>1, <3>2, <3>3, StepEffect
  <2>4. QED BY <2>1, <2>2, <2>3, HandlerEffective
<1>7. CASE WriteOverride(c)
  <2>1. /\ call[c].at = "override" /\ UNCHANGED <<scores, corpus, command>> /\ Goto(c, "report")
        /\ overrides' = [call[c].kept EXCEPT ![Target[c]] = c] /\ c \in Busy /\ Aside
    BY <1>3, <1>7 DEF WriteOverride, Begin
  <2>2. Moved(c, "report") /\ SameBefore(c) /\ "report" \in CallAt \ {"new", "200"}
    BY <1>0, <2>1, Goes DEF CallAt
  <2>3. ASSUME NEW e \in Call, InEffect(e), Target[e] # Target[c] PROVE InEffect(e)'
    <3>1. RowKept(e)
      BY <2>1 DEF RowKept
    <3>2. Carries(e, c)'
      BY <1>4, <2>1, <2>2, <2>3, <3>1, CarriesSame DEF Moved
    <3>3. overrides'[Target[e]] = overrides[Target[e]]
      <4>1. call[c].kept[Target[e]] = e /\ overrides[Target[e]] = e
        BY <1>4, <2>1, <2>3 DEF Carries, Effect
      <4>2. QED BY <1>0, <1>4, <2>1, <2>3, <4>1
    <3>4. "report" \in CallAt \ {"new"}
      BY <2>2
    <3>5. QED BY <2>1, <2>2, <2>3, <3>1, <3>2, <3>3, <3>4, StepEffect
  <2>4. QED BY <2>1, <2>2, <2>3, HandlerEffective
<1>8. ASSUME c \in Busy, Aside, UNCHANGED <<overrides, scores, corpus>>,
             NEW at \in {"read", "commit", "undo"}, Moved(c, at), SameBefore(c),
             call[c].at # "snapshot"
      PROVE  Effective'
  <2>1. at \in CallAt \ {"new", "200"} /\ at \in CallAt \ {"new"} /\ at # "500"
    BY DEF CallAt
  <2>2. ASSUME NEW e \in Call, InEffect(e), Target[e] # Target[c] PROVE InEffect(e)'
    <3>1. RowKept(e) /\ command' = command
      BY <1>8 DEF RowKept, Aside
    <3>2. Carries(e, c)'
      BY <1>4, <1>8, <2>2, <3>1, CarriesSame DEF Moved
    <3>3. QED BY <1>8, <2>1, <2>2, <3>1, <3>2, StepEffect
  <2>3. QED BY <1>8, <2>1, <2>2, HandlerEffective
<1>9. CASE RebuildReport(c)
  <2>1. /\ call[c].at = "report" /\ UNCHANGED <<overrides, scores, corpus>> /\ Goto(c, "read")
        /\ c \in Busy /\ Aside
    BY <1>3, <1>9 DEF RebuildReport, Begin
  <2>2. Moved(c, "read") /\ SameBefore(c)
    BY <1>0, <2>1, Goes DEF CallAt
  <2>3. QED BY <1>8, <2>1, <2>2
<1>10. CASE Correct(c)
  <2>1. /\ call[c].at = "correct" /\ UNCHANGED <<overrides, scores, corpus>> /\ Goto(c, "commit")
        /\ c \in Busy /\ Aside
    BY <1>3, <1>10 DEF Correct, Begin, persisted
  <2>2. Moved(c, "commit") /\ SameBefore(c)
    BY <1>0, <2>1, Goes DEF CallAt
  <2>3. QED BY <1>8, <2>1, <2>2
<1>11. CASE Fails(c)
  <2>1. /\ call[c].at \notin {"new", "snapshot"} /\ UNCHANGED <<overrides, scores, corpus>>
    BY <1>11 DEF Fails, persisted
  <2>2. c \in Busy /\ Aside
    BY <1>3, <2>1 DEF Begin
  <2>3. Moved(c, "undo") /\ SameBefore(c)
    BY <1>11, Undoes
  <2>4. QED BY <1>8, <2>1, <2>2, <2>3
<1>12. CASE ReadRows(c)
  <2>1. /\ call[c].at = "read" /\ UNCHANGED <<persisted, command>> /\ c \in Busy /\ Aside
    BY <1>3, <1>12 DEF ReadRows, Begin
  <2>2. /\ Moved(c, "write") /\ SameBefore(c) /\ call'[c].rows = Rows /\ call'[c].next = 0
        /\ "write" \in CallAt \ {"new", "200"}
    BY <1>12, Reads DEF CallAt
  <2>3. ASSUME NEW e \in Call, InEffect(e), Target[e] # Target[c] PROVE InEffect(e)'
    <3>1. UNCHANGED <<overrides, scores, corpus>> /\ RowKept(e)
      BY <2>1 DEF persisted, RowKept
    <3>2. /\ Rows[Target[e]] # NoRow => Rows[Target[e]].role = e
          /\ ~ (Target[e] <= 0)
      <4>1. PICK m \in Match : m = Target[e] /\ m \in Nat /\ m > 0 /\ overrides[m] = e
        BY <1>4, <2>1, <2>3, Constants DEF Effect
      <4>2. Rows[m] # NoRow => Rows[m].role = e
        BY <4>1, RowsIs
      <4>3. ~ (m <= 0)
        BY <4>1
      <4>4. QED BY <4>1, <4>2, <4>3
    <3>3. Carries(e, c)'
      BY <1>4, <2>1, <2>2, <2>3, <3>1, <3>2 DEF Carries, Tells, SameBefore, Took, Moved
    <3>4. "write" \in CallAt \ {"new"}
      BY <2>2
    <3>5. QED BY <2>1, <2>2, <2>3, <3>1, <3>3, <3>4, StepEffect
  <2>4. QED BY <2>1, <2>2, <2>3, HandlerEffective
<1>13. CASE WriteScores(c)
  <2>1. call[c].at = "write" /\ c \in Busy /\ Aside
    BY <1>3, <1>13 DEF WriteScores, Begin
  <2>2. PICK at \in {"write", "correct"} : Moved(c, at)
    <3>1. PICK rows \in [Match -> Row], next \in Nat : rows = call[c].rows /\ next = call[c].next
      BY CallIs
    <3>2. Following(rows, next) # {} => Least(Following(rows, next)) \in Nat
      BY NextIs, Constants
    <3>3. \/ Goto(c, "correct")
          \/ \E m \in Nat : call' = [call EXCEPT ![c].next = m]
      BY <1>13, <3>1, <3>2 DEF WriteScores
    <3>4. Moved(c, "correct") \/ Moved(c, "write")
      BY <1>0, <2>1, <3>3, Goes, Advances DEF CallAt
    <3>5. QED BY <3>4
  <2>3. at \in CallAt \ {"new", "200"} /\ at # "500"
    BY DEF CallAt
  <2>4. QED BY <1>13, <2>1, <2>2, <2>3, WriteEffect, HandlerEffective
<1>14. CASE Restore(c)
  <2>1. call[c].at = "undo" /\ UNCHANGED <<found, met>> /\ c \in Busy /\ Aside
    BY <1>3, <1>14 DEF Restore, Begin, history
  <2>2. PICK n \in 1..6 : /\ n = call[c].next + 1 /\ PutBack(c, n)
                          /\ Moved(c, IF n = 6 THEN "500" ELSE "undo")
    BY <1>14, GivesBack
  <2>3. PICK at \in {"500", "undo"} : Moved(c, at) /\ (at = "500" => n = 6)
    BY <2>2
  <2>4. at \in CallAt \ {"new", "200"}
    BY DEF CallAt, Handled
  <2>5. ASSUME at = "500", Unmixed(c)
        PROVE  /\ overrides' = found[c].overrides /\ corpus' = found[c].corpus
               /\ scores'[Target[c]] = found[c].scores[Target[c]]
    <3>1. PICK m \in Match, F \in Finds : m = Target[c] /\ F = found[c]
      BY CallIs
    <3>2. Held(c) /\ n = 6
      BY <2>1, <2>3, <2>5 DEF AllHeld
    <3>3. /\ Free(c, "overrides") => overrides' = F.overrides
          /\ Free(c, "scores") => scores'[m] = F.scores[m]
          /\ Free(c, "corpus") => corpus' = F.corpus
      BY <2>1, <2>2, <3>1, <3>2, PutBackHeld
    <3>4. QED BY <2>5, <3>1, <3>3, FreeIs
  <2>6. QED BY <1>14, <2>1, <2>3, <2>4, <2>5, RestoreEffect, HandlerEffective
<1>15. CASE RestoreFails(c)
  <2>1. /\ call[c].at = "undo" /\ UNCHANGED <<persisted, command>> /\ End(c, "stuck")
        /\ c \in Busy /\ Aside
    BY <1>3, <1>15 DEF RestoreFails, Begin
  <2>2. Moved(c, "stuck") /\ "stuck" \in CallAt \ {"new", "200"} /\ "stuck" \in Handled
    BY <1>0, <2>1, Ends DEF CallAt, Handled
  <2>3. ASSUME NEW e \in Call, InEffect(e), Target[e] # Target[c] PROVE InEffect(e)'
    <3>1. UNCHANGED <<overrides, scores, corpus>> /\ RowKept(e)
      BY <2>1 DEF persisted, RowKept
    <3>2. c \notin Busy'
      BY <2>2 DEF Moved, Busy
    <3>3. "stuck" \in CallAt \ {"new"}
      BY <2>2
    <3>4. QED BY <2>1, <2>2, <2>3, <3>1, <3>2, <3>3, StepEffect
  <2>4. QED BY <2>1, <2>2, <2>3, HandlerEffective
<1>16. QED BY <1>1, <1>2, <1>5, <1>6, <1>7, <1>9, <1>10, <1>11, <1>12, <1>13, <1>14, <1>15
           DEF Handle

\* The steps of everyone else, who leave the handlers where they are.
LEMMA OthersEffective ==
    ASSUME Types, Effective, call' = call, found' = found, \A d \in Call : met[d] \subseteq met'[d],
           \A e \in Call : InEffect(e) => InEffect(e)'
    PROVE  Effective'
<1>1. Onward /\ Busy' = Busy /\ Busy \subseteq Call /\ \A e \in Call : Rival(e)' = Rival(e)
  BY DEF Onward, Busy, Rival
<1>2. ASSUME NEW e \in Call, Stands(e)' PROVE Stands(e)
  <2>1. call[e].at = "200"
    BY <1>2 DEF Stands
  <2>2. QED BY <1>1, <1>2, <2>1, StandsBefore
<1>3. QED BY <1>1, <1>2 DEF Effective

LEMMA ScoreWritesEffect ==
    ASSUME Types, ScoreWrites, NEW e \in Call, InEffect(e)
    PROVE  InEffect(e)'
<1>0. PICK rows \in [Match -> Row], next \in Nat : rows = command.rows /\ next = command.next
  BY CommandIs
<1>1. command.at = "write" /\ UNCHANGED <<overrides, call>>
  BY DEF ScoreWrites
<1>2. PICK m \in Match : m = Target[e] /\ m \in Nat
  BY Constants
<1>3. /\ Effect(e, overrides, corpus, scores[m])
      /\ rows[m] # NoRow => rows[m].role = e /\ (m <= next => scores[m].role = e)
  BY <1>0, <1>1, <1>2 DEF InEffect, Tells
<1>4. \A d \in Busy' : d \in Busy /\ call'[d] = call[d]
  BY <1>1 DEF Busy
<1>5. CASE Following(rows, next) # {}
  <2>1. PICK k : k = Least(Following(rows, next))
    OBVIOUS
  <2>2. /\ scores' = [scores EXCEPT ![k] = rows[k]] /\ UNCHANGED corpus
        /\ command' = [command EXCEPT !.next = k]
    BY <1>0, <1>5, <2>1 DEF ScoreWrites
  <2>3. /\ k \in Match /\ k \in Nat /\ rows[k] # NoRow /\ scores'[k] = rows[k]
        /\ \A n \in Match \ {k} : scores'[n] = scores[n]
    BY <1>5, <2>1, <2>2, WriteTyped
  <2>4. \A n \in Match : n > next /\ n < k => rows[n] = NoRow
    BY <1>5, <2>1, NextIs
  <2>5. RowKept(e)
    BY <1>2, <1>3, <2>3 DEF RowKept
  <2>6. command'.rows = rows /\ command'.next = k
    BY <1>0, <2>2, <2>3, CommandAdvances
  <2>7. rows[m] # NoRow /\ m <= k => scores'[m].role = e
    <3>1. SUFFICES ASSUME rows[m] # NoRow, m <= k PROVE scores'[m].role = e
      OBVIOUS
    <3>2. CASE m = k
      BY <1>3, <2>3, <3>1, <3>2
    <3>3. CASE m # k
      <4>1. m < k
        BY <1>2, <2>3, <3>1, <3>3
      <4>2. m <= next
        BY <1>2, <2>4, <3>1, <4>1
      <4>3. QED BY <1>3, <2>3, <3>1, <3>3, <4>2
    <3>4. QED BY <3>2, <3>3
  <2>8. Tells(e, command.rows, command.next)'
    BY <1>2, <1>3, <2>6, <2>7 DEF Tells
  <2>9. QED BY <1>1, <1>4, <2>2, <2>5, <2>8, InEffectStays
<1>6. CASE Following(rows, next) = {}
  <2>1. /\ corpus' = [exists |-> TRUE, rows |-> rows] /\ UNCHANGED scores
        /\ command'.at = "idle"
    BY <1>0, <1>6 DEF ScoreWrites
  <2>2. rows[m] # NoRow => rows[m].role = e /\ scores'[m].role = e
    <3>1. rows[m] # NoRow => m <= next
      BY <1>6, NoneLeft
    <3>2. QED BY <1>3, <2>1, <3>1
  <2>3. /\ RowKept(e) /\ corpus'.exists
        /\ corpus'.rows[Target[e]] # NoRow =>
              corpus'.rows[Target[e]].role = e /\ scores'[Target[e]].role = e
    BY <1>2, <2>1, <2>2 DEF RowKept
  <2>4. QED BY <1>1, <1>4, <2>1, <2>3, InEffectStays
<1>7. QED BY <1>5, <1>6

LEMMA OtherEffective ==
    ASSUME Types, Turns, Effective,
           \/ ScoreBegins \/ ScoreReads \/ ScoreWrites \/ ScoreStops
           \/ RebuildCatalog \/ Reviewed \/ \E m \in Match : Review(m) \/ Rerun(m)
    PROVE  Effective'
<1>1. call' = call /\ (\A d \in Call : met[d] \subseteq met'[d])
      /\ \A d \in Busy' : d \in Busy /\ call'[d] = call[d]
  BY OtherTypes, OtherArrival, ScoreBeginning DEF Busy, NoArrival
<1>2. ASSUME found' = found, UNCHANGED <<overrides, scores, corpus>>,
             command' = command \/ command'.at # "write"
      PROVE  Effective'
  <2>1. \A e \in Call : RowKept(e)
    BY <1>2 DEF RowKept
  <2>2. \A e \in Call : InEffect(e) => InEffect(e)'
    BY <1>1, <1>2, <2>1, InEffectStays
  <2>3. QED BY <1>1, <1>2, <2>2, OthersEffective
<1>3. CASE ScoreBegins
  BY <1>2, <1>3, ScoreBeginning
<1>4. CASE ScoreReads
  <2>1. /\ UNCHANGED <<overrides, scores, corpus, found>>
        /\ command' = [at |-> "write", rows |-> Rows, next |-> 0]
    BY <1>4 DEF ScoreReads, persisted, history
  <2>2. ASSUME NEW e \in Call, InEffect(e) PROVE InEffect(e)'
    <3>1. PICK m \in Match : m = Target[e] /\ m \in Nat /\ m > 0 /\ overrides[m] = e
      BY <2>2, Constants DEF InEffect, Effect
    <3>2. Rows[m] # NoRow => Rows[m].role = e
      BY <3>1, RowsIs
    <3>3. ~ (m <= 0)
      BY <3>1
    <3>4. Tells(e, command.rows, command.next)'
      BY <2>1, <3>1, <3>2, <3>3 DEF Tells
    <3>5. RowKept(e)
      BY <2>1 DEF RowKept
    <3>6. QED BY <1>1, <2>1, <2>2, <3>4, <3>5, InEffectStays
  <2>3. QED BY <1>1, <2>1, <2>2, OthersEffective
<1>5. CASE ScoreWrites
  <2>1. found' = found
    BY <1>5 DEF ScoreWrites
  <2>2. QED BY <1>1, <1>5, <2>1, ScoreWritesEffect, OthersEffective
<1>6. CASE ScoreStops
  BY <1>2, <1>6 DEF ScoreStops, persisted, history
<1>7. CASE RebuildCatalog
  BY <1>2, <1>7 DEF RebuildCatalog, programs, history
<1>8. CASE Reviewed
  BY <1>2, <1>8 DEF Reviewed
<1>9. ASSUME NEW m \in Match, Review(m) PROVE Effective'
  BY <1>2, <1>9 DEF Review, persisted, history
<1>10. ASSUME NEW m \in Match, Rerun(m) PROVE Effective'
  BY <1>2, <1>10 DEF Rerun, programs
<1>11. QED BY <1>3, <1>4, <1>5, <1>6, <1>7, <1>8, <1>9, <1>10

LEMMA ServerDiesEffective ==
    ASSUME Types, Turns, Effective, ServerDies
    PROVE  Effective'
<1>1. /\ UNCHANGED <<overrides, scores, corpus, command, found, met>> /\ Busy' = {}
      /\ \A d \in Busy : call'[d].at = "cut"
      /\ \A d \in Call \ Busy : call'[d] = call[d]
  BY Dies DEF ServerDies, persisted, history
<1>2. Onward
  BY <1>1 DEF Onward
<1>3. SUFFICES ASSUME NEW e \in Call, Stands(e)' PROVE InEffect(e)'
  BY <1>1 DEF Effective, Rival
<1>4. e \notin Busy /\ call[e].at = "200"
  BY <1>1, <1>3 DEF Stands
<1>5. Stands(e)
  BY <1>2, <1>3, <1>4, StandsBefore
<1>6. ASSUME NEW d \in Busy, Target[d] = Target[e] PROVE FALSE
  <2>1. d \in Call /\ d > e
    BY <1>5, RivalAlone
  <2>2. call'[d].at = "cut" /\ d \notin Busy'
    BY <1>1
  <2>3. QED BY <1>3, <1>6, <2>1, <2>2 DEF Stands
<1>7. Rival(e) = {}
  BY <1>6 DEF Rival
<1>8. InEffect(e)
  BY <1>5, <1>7 DEF Effective
<1>9. RowKept(e)
  BY <1>1 DEF RowKept
<1>10. QED BY <1>1, <1>8, <1>9, InEffectStays

LEMMA EffectiveInv ==
    ASSUME Types, Turns, AllHeld, Effective, [Next]_vars
    PROVE  Effective'
<1>1. CASE UNCHANGED vars
  <2>1. UNCHANGED <<call, found, met, overrides, scores, corpus, command>>
    BY <1>1 DEF vars, persisted, programs, history
  <2>2. \A d \in Busy' : d \in Busy /\ call'[d] = call[d]
    BY <2>1 DEF Busy
  <2>3. \A e \in Call : RowKept(e)
    BY <2>1 DEF RowKept
  <2>4. \A e \in Call : InEffect(e) => InEffect(e)'
    BY <2>1, <2>2, <2>3, InEffectStays
  <2>5. QED BY <2>1, <2>4, OthersEffective
<1>2. QED BY <1>1, HandleEffective, OtherEffective, ServerDiesEffective DEF Next

-----------------------------------------------------------------------------
(* The invariant holds at any time.                                        *)

LEMMA InitInv ==
    ASSUME Init
    PROVE  Inv
<1>0. /\ NoRow \in Row /\ NoRows \in [Match -> Row] /\ NoCorpus \in CorpusFile
  BY DEF NoRow, NoRows, Row, NoCorpus, CorpusFile
<1>1. /\ verified \in [Match -> BOOLEAN] /\ metrics \in [Match -> Nat \ {0}]
      /\ catalog = {m \in Match : verified[m]}
      /\ overrides = [m \in Match |-> 0] /\ report = [m \in Match |-> 0]
      /\ review = [m \in Match |-> <<>>] /\ audit = <<>>
      /\ call = [c \in Call |-> NoCall] /\ desk = {} /\ acked = {}
      /\ command = [at |-> "idle", rows |-> NoRows, next |-> 0]
      /\ met = [c \in Call |-> {}] /\ writer = {0}
      /\ bounds = [scores |-> 0, reruns |-> 0, regrades |-> 0, reviews |-> 0, failures |-> 0]
  BY DEF Init
<1>2. /\ 0 \in Setting /\ <<>> \in Seq(Entries) /\ 0 \in Nat
  BY DEF Setting
<1>3. Rows \in [Match -> Row] /\ \A m \in Match : Rows[m] # NoRow <=> m \in catalog
  <2>1. \A m \in Match : [metrics |-> metrics[m], role |-> overrides[m]] \in Row
    BY <1>1, <1>2 DEF Row, Setting
  <2>2. \A m \in Match : [metrics |-> metrics[m], role |-> overrides[m]] # NoRow
    BY <1>1 DEF NoRow
  <2>3. QED BY <1>0, <2>1, <2>2 DEF Rows
<1>4. /\ scores \in [Match -> Row] /\ corpus \in CorpusFile /\ Preflight
      /\ \A m \in Match \ catalog : scores[m] = NoRow
  <2>1. CASE scores = NoRows /\ corpus = NoCorpus
    BY <1>0, <2>1 DEF NoRows, NoCorpus, Preflight
  <2>2. CASE scores = Rows /\ corpus = [exists |-> TRUE, rows |-> Rows]
    BY <1>3, <2>2 DEF CorpusFile, Preflight
  <2>3. QED BY <2>1, <2>2 DEF Init
<1>5. Typed
  BY <1>1, <1>2, <1>4 DEF Typed
<1>6. Busy = {} /\ \A c \in Call : call[c].at = "new" /\ call[c].next = 0
  BY <1>1 DEF Busy, Handled, NoCall
<1>7. Types
  <2>1. found \in [Call -> Finds]
    <3>1. [NoFiles EXCEPT !.scores = NoRows] \in Finds
      BY <1>0, NothingIs DEF Snapshots, Finds
    <3>2. QED BY <3>1 DEF Init
  <2>2. command \in Commands /\ bounds \in Bounds
    BY <1>0, <1>1 DEF Commands, Bounds
  <2>3. call \in [Call -> Calls]
    BY <1>1, NothingIs
  <2>4. DeskType /\ WriterType /\ acked \subseteq Acks /\ met \in [Call -> SUBSET Kinds]
    BY <1>1, <1>2 DEF DeskType, WriterType
  <2>5. QED BY <1>1, <1>5, <1>6, <2>1, <2>2, <2>3, <2>4 DEF Types
<1>8. Turns
  BY <1>6 DEF Turns
<1>9. AllHeld /\ Effective /\ Recorded
  BY <1>1, <1>6 DEF AllHeld, Effective, Stands, Recorded
<1>10. Agreement
  <2>1. command.at = "idle" /\ \A c \in Call : writer # {c}
    BY <1>1, Constants
  <2>2. QED BY <1>1, <1>4, <1>6, <2>1 DEF Agreement, Wrote, Failed
<1>11. QED BY <1>7, <1>8, <1>9, <1>10 DEF Inv

LEMMA NextInv ==
    ASSUME Inv, [Next]_vars
    PROVE  Inv'
BY TypesInv, TurnsInv, HeldInv, EffectiveInv, RecordedInv, AgreementInv DEF Inv

LEMMA Invariance == Spec => []Inv
<1>1. Init => Inv
  BY InitInv
<1>2. Inv /\ [Next]_vars => Inv'
  BY NextInv
<1>3. QED BY <1>1, <1>2, PTL DEF Spec

-----------------------------------------------------------------------------
(* What the invariant says.                                                *)

(***************************************************************************)
(* Files, handlers, score command and review transactions have their types *)
(* at any time (the type invariant of api_scores.go's handler and of       *)
(* `replay score`).                                                        *)
(***************************************************************************)
THEOREM TypeCorrect == Spec => []TypeOK
<1>1. Inv => TypeOK
  <2>1. SUFFICES ASSUME Types PROVE TypeOK
    BY DEF Inv
  <2>2. /\ catalog \subseteq Match /\ overrides \in [Match -> Call \cup {0}]
        /\ report \in [Match -> Call \cup {0}] /\ scores \in [Match -> Row]
        /\ corpus.rows \in [Match -> Row]
    BY <2>1 DEF Types, Typed, Setting, CorpusFile
  <2>3. command.at \in {"idle", "read", "write"}
    BY <2>1 DEF Types, Commands
  <2>4. \A c \in Call : call[c].at \in Handled \cup
            {"snapshot", "load", "override", "report", "read", "write", "correct", "commit",
             "undo"}
    BY <2>1, CallIs DEF CallAt
  <2>5. met \in [Call -> SUBSET {"override", "score", "review", "runner"}]
    BY <2>1 DEF Types, Kinds
  <2>6. Cardinality(desk) <= 1
    <3>1. CASE desk = {}
      BY <3>1, FS_EmptySet
    <3>2. CASE \E t \in Transactions : desk = {t}
      BY <3>2, FS_Singleton
    <3>3. QED BY <2>1, <3>1, <3>2 DEF Types, DeskType
  <2>7. QED BY <2>2, <2>3, <2>4, <2>5, <2>6 DEF TypeOK
<1>2. QED BY <1>1, Invariance, PTL

(***************************************************************************)
(* For any number of matches, requests, score runs, re-analyses, reviews   *)
(* and failures, overlapping as they like: an acknowledged override that   *)
(* met no other writer of its files stays effective until another one of   *)
(* its match comes, and a review that was acknowledged stays recorded,     *)
(* unless an override that was at work as it was committed failed          *)
(* (handleRoleOverrides, restoreSnapshots).                                *)
(***************************************************************************)
THEOREM Kept == Spec => []AckedKept
<1>1. Inv => AckedKept
  <2>1. SUFFICES ASSUME Types, Turns, Effective, Recorded PROVE AckedKept
    BY DEF Inv
  <2>2. ASSUME NEW c \in Call, call[c].at = "200", Unmixed(c),
               \A d \in Call : d > c /\ Target[d] = Target[c] =>
                   call[d].at = "new" \/ (call[d].at = "500" /\ Unmixed(d))
        PROVE  Effect(c, overrides, corpus, scores[Target[c]])
    <3>1. Stands(c)
      BY <2>2 DEF Stands
    <3>2. ASSUME NEW d \in Busy, Target[d] = Target[c] PROVE FALSE
      <4>1. d \in Call /\ d > c /\ call[d].at \notin Handled
        BY <2>1, <3>1, RivalAlone DEF Busy
      <4>2. QED BY <2>2, <3>2, <4>1 DEF Handled
    <3>3. Rival(c) = {}
      BY <3>2 DEF Rival
    <3>4. QED BY <2>1, <3>1, <3>3 DEF Effective, InEffect
  <2>3. AckedIsEffective
    BY <2>2 DEF AckedIsEffective, Effect
  <2>4. AckedReviewKept
    BY <2>1 DEF AckedReviewKept, Recorded, Certain, Safe, In
  <2>5. QED BY <2>3, <2>4 DEF AckedKept
<1>2. QED BY <1>1, Invariance, PTL

(***************************************************************************)
(* Scoring can be repeated: whatever overlapped, as long as nothing failed *)
(* and no match changed its status, the score run after writers that were  *)
(* not interrupted in their writing passes its preflight                   *)
(* (ComputeAndPersist, PreflightPersistedScores).                          *)
(***************************************************************************)
THEOREM Repeatable == Spec => []ScoresAgree
<1>1. Inv => ScoresAgree
  <2>1. SUFFICES ASSUME Types, Agreement, Quiet, writer # {}, Smooth PROVE Preflight
    BY DEF Inv, ScoresAgree, Smooth
  <2>2. command.at = "idle" /\ \A c \in Call : call[c].at # "write"
    BY <2>1 DEF Quiet, Busy, Handled
  <2>3. writer = {0} \/ \E c \in Call : writer = {c}
    BY <2>1 DEF Types, WriterType, Setting
  <2>4. CASE writer = {0}
    BY <2>1, <2>2, <2>4 DEF Agreement, Wrote
  <2>5. ASSUME NEW c \in Call, writer = {c} PROVE Preflight
    BY <2>1, <2>2, <2>5 DEF Agreement, Wrote
  <2>6. QED BY <2>3, <2>4, <2>5
<1>2. QED BY <1>1, Invariance, PTL

(***************************************************************************)
(* A refused override leaves nothing of its own behind in a file nobody    *)
(* else wrote while it was at work, whatever else was under way            *)
(* (snapshotFiles, restoreSnapshots).                                      *)
(***************************************************************************)
THEOREM Refused == Spec => RefusedLeavesNothing
<1> DEFINE Leaves ==
      \A c \in Call : call[c].at # "500" /\ call'[c].at = "500" =>
          LET m == Target[c]  was == [found[c] EXCEPT !.scores = @[m]] IN
          \A f \in DOMAIN Writers :
              met[c] \cap Writers[f] = {} => Snapshot(m)'[f] = was[f]
<1>1. Inv /\ [Next]_vars => Leaves
  BY RefusedStep DEF Inv
<1>2. Inv /\ [Next]_vars => [Leaves]_vars
  BY <1>1
<1>3. Spec => [][Leaves]_vars
  <2> HIDE DEF Leaves
  <2>1. QED BY <1>2, Invariance, PTL DEF Spec
<1>4. RefusedLeavesNothing <=> [][Leaves]_vars
  BY DEF RefusedLeavesNothing
<1>5. QED BY <1>3, <1>4
=============================================================================
