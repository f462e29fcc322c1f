---------------------------- MODULE PhaseTimeline ----------------------------
(***************************************************************************)
(* What the phase editor promises.  A reviewer sees a match as a line of   *)
(* seconds, each in one phase, cut into intervals; every edit repaints the *)
(* seconds of the intervals it names, or moves, adds or removes a cut      *)
(* between them, and leaves all other seconds and cuts alone.  An edit     *)
(* that names no interval of the line is stale, one that asks for what no  *)
(* line can be is invalid, and neither changes anything.                   *)
(***************************************************************************)
EXTENDS Integers, FiniteSets

CONSTANTS
    Eligible,       \* seconds of the match
    Idle            \* no edit is asked for; the edits are those of PhaseOps

VARIABLES phaseAt, cuts, asked, told

line == <<phaseAt, cuts, asked, told>>

Phase == {"laning", "midgame", "decisive"}
Second == 0 .. Eligible - 1

\* The seconds of the interval that starts at s, as the line is cut.
Stop(s) == CHOOSE c \in cuts \cup {Eligible} :
               c > s /\ \A d \in cuts \cup {Eligible} : d > s => c <= d
Starts == cuts \cup {0}
Holder(s) == CHOOSE b \in Starts : b <= s /\ \A d \in Starts : d <= s => d <= b

Named(ref) == ref.start \in Starts /\ (ref.end = -1 \/ ref.end = Stop(ref.start))

\* Laning is not taken up again once it was left.
LaningReturns(p) ==
    \E a, b, c \in Second : /\ a < b /\ b < c
                            /\ p[a] = "laning" /\ p[b] # "laning" /\ p[c] = "laning"

Paint(from, to, phase) ==
    [s \in Second |-> IF from <= s /\ s < to THEN phase ELSE phaseAt[s]]

Refused(why) == told' = why /\ UNCHANGED <<phaseAt, cuts>>

Becomes(p, c) ==
    IF LaningReturns(p) THEN Refused("invalid")
    ELSE told' = "ok" /\ phaseAt' = p /\ cuts' = c

Accept(r) ==
    /\ r.op = "accept"
    /\ \/ ~Named(r.ref) /\ Refused("stale")
       \/ Named(r.ref) /\ Becomes(phaseAt, cuts)

Relabel(r) ==
    LET s == r.ref.start IN
    /\ r.op = "relabel"
    /\ \/ ~Named(r.ref) /\ Refused("stale")
       \/ /\ Named(r.ref)
          /\ IF /\ r.value.start = s /\ r.value.end = Stop(s)
                /\ r.value.phase \in Phase
             THEN Becomes(Paint(s, Stop(s), r.value.phase), cuts)
             ELSE Refused("invalid")

Split(r) ==
    LET s == r.ref.start IN
    /\ r.op = "split"
    /\ \/ ~Named(r.ref) /\ Refused("stale")
       \/ /\ Named(r.ref)
          /\ IF s < r.at /\ r.at < Stop(s)
             THEN Becomes(phaseAt, cuts \cup {r.at})
             ELSE Refused("invalid")

\* The two intervals may be named in either order.
Merge(r) ==
    LET a == r.ref.start   b == r.other.start
        left == IF a <= b THEN a ELSE b
        mid == IF a <= b THEN b ELSE a
        phase == IF r.value.phase = "" THEN phaseAt[left] ELSE r.value.phase
    IN
    /\ r.op = "merge"
    /\ \/ ~(Named(r.ref) /\ Named(r.other)) /\ Refused("stale")
       \/ /\ Named(r.ref) /\ Named(r.other)
          /\ IF left # mid /\ Stop(left) = mid /\ phase \in Phase
             THEN Becomes(Paint(left, Stop(mid), phase), cuts \ {mid})
             ELSE Refused("invalid")

\* One of the two cuts of an interval moves, up to the far ends of the two
\* intervals it parts and not onto them.
Move(r) ==
    LET s == r.ref.start
        t == Stop(s)
        v == r.value
        left == Holder(s - 1)
    IN
    /\ r.op = "move"
    /\ \/ ~Named(r.ref) /\ Refused("stale")
       \/ /\ Named(r.ref)
          /\ \/ /\ v.phase \in {"", phaseAt[s]} /\ v.end = t
                /\ s # 0 /\ v.start # s /\ left < v.start /\ v.start < t
                /\ Becomes(IF v.start < s THEN Paint(v.start, s, phaseAt[s])
                           ELSE Paint(s, v.start, phaseAt[left]),
                           (cuts \ {s}) \cup {v.start})
             \/ /\ v.phase \in {"", phaseAt[s]} /\ v.start = s
                /\ t # Eligible /\ v.end # t /\ s < v.end /\ v.end < Stop(t)
                /\ Becomes(IF v.end < t THEN Paint(v.end, t, phaseAt[t])
                           ELSE Paint(t, v.end, phaseAt[s]),
                           (cuts \ {t}) \cup {v.end})
             \/ /\ \/ v.phase \notin {"", phaseAt[s]}
                   \/ v.start # s /\ v.end # t
                   \/ v.start = s /\ v.end = t
                   \/ v.start # s /\ (s = 0 \/ v.start <= left \/ v.start >= t)
                   \/ v.end # t /\ (t = Eligible \/ v.end <= s \/ v.end >= Stop(t))
                /\ Refused("invalid")

\* A range of one interval is painted and cut out.
Add(r) ==
    LET v == r.value IN
    /\ r.op = "add"
    /\ IF ~(v.phase \in Phase /\ 0 <= v.start /\ v.start < v.end /\ v.end <= Eligible)
       THEN Refused("invalid")
       ELSE IF \E c \in cuts : v.start < c /\ c < v.end
       THEN Refused("stale")
       ELSE Becomes(Paint(v.start, v.end, v.phase),
                    cuts \cup ({v.start, v.end} \ {0, Eligible}))

\* An interval is given to a neighbour.
Delete(r) ==
    LET s == r.ref.start   o == r.other.start IN
    /\ r.op = "delete"
    /\ \/ r.other.end = 0 /\ Refused("invalid")
       \/ r.other.end # 0 /\ ~(Named(r.ref) /\ Named(r.other)) /\ Refused("stale")
       \/ /\ r.other.end # 0 /\ Named(r.ref) /\ Named(r.other)
          /\ IF s # o /\ (Stop(o) = s \/ Stop(s) = o)
             THEN Becomes(Paint(s, Stop(s), phaseAt[o]),
                          cuts \ {IF o < s THEN s ELSE o})
             ELSE Refused("invalid")

Edit(r) == \/ Accept(r) \/ Relabel(r) \/ Split(r) \/ Merge(r)
           \/ Move(r) \/ Add(r) \/ Delete(r)

\* The reviewer asks for an edit, the editor answers.
Next ==
    \/ asked = Idle /\ asked' # Idle /\ told' = "none" /\ UNCHANGED <<phaseAt, cuts>>
    \/ asked # Idle /\ Edit(asked) /\ asked' = Idle

Init ==
    /\ phaseAt \in [Second -> Phase]
    /\ cuts \in SUBSET (Second \ {0})
    /\ \A s \in Second \ {0} : phaseAt[s] # phaseAt[s - 1] => s \in cuts
    /\ ~LaningReturns(phaseAt)
    /\ asked = Idle /\ told = "none"

Spec == Init /\ [][Next]_line
=============================================================================
