---------------------------- MODULE ReviewLedger ----------------------------
(***************************************************************************)
(* What the review store promises its callers: one ledger in which a       *)
(* correction enters the match's review document and the shared audit log  *)
(* in one indivisible step, and an answer that tells the truth about it.   *)
(* No files, no journal, no rollback: ReviewCommit is the program that     *)
(* has to keep this promise.                                               *)
(***************************************************************************)
EXTENDS Naturals, Sequences

CONSTANTS
    Match,      \* match ids
    Request,    \* mutation calls, each with an identity of its own
    MatchOf     \* MatchOf[r]: the match whose review r changes

VARIABLES
    review,     \* review[m]: the requests recorded in the document of m
    audit,      \* the audit log: entries [match, request], oldest first
    answer      \* answer[r]: what the caller of r was told

vars == <<review, audit, answer>>

Answers == {"none", "ok", "error", "refused", "unknown"}

Recorded(r) == r \in review[MatchOf[r]]

Init ==
    /\ review = [m \in Match |-> {}]
    /\ audit = <<>>
    /\ answer = [r \in Request |-> "none"]

\* The one effect of a mutation: document and log change together.
Commit(r) ==
    /\ answer[r] = "none"
    /\ ~ Recorded(r)
    /\ review' = [review EXCEPT ![MatchOf[r]] = @ \cup {r}]
    /\ audit' = Append(audit, [match |-> MatchOf[r], request |-> r])
    /\ UNCHANGED answer

\* "ok" only for what is recorded, "error" and "refused" only for what is
\* not; a caller cut off by a crash learns nothing.
Tell(r, a) ==
    /\ answer[r] = "none"
    /\ a = "ok" => Recorded(r)
    /\ a \in {"error", "refused"} => ~ Recorded(r)
    /\ answer' = [answer EXCEPT ![r] = a]
    /\ UNCHANGED <<review, audit>>

Next ==
    \E r \in Request :
        \/ Commit(r)
        \/ \E a \in Answers \ {"none"} : Tell(r, a)

Spec == Init /\ [][Next]_vars
=============================================================================
