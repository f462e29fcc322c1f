------------------------------ MODULE PhaseOps ------------------------------
(***************************************************************************)
(* The edits of a phase stream (internal/replay/review/phase_ops.go): a    *)
(* sorted list of intervals, edited by splicing it, every result checked   *)
(* as a whole before it is returned.  A reference is a start and, unless   *)
(* it is open (end -1), an end; the empty one matches nothing (end 0).     *)
(***************************************************************************)
EXTENDS Integers, PhaseStream

CONSTANTS
    Eligible,       \* seconds of the match
    Labels,         \* labels a request may carry: phases, "", and unknown ones
    Streams         \* streams the machine emits and validateStream accepts

Interval == [start : 0 .. Eligible, end : 0 .. Eligible, phase : Phase]

ASSUME EditConstants ==
    /\ Eligible \in Nat \ {0}
    /\ \A w \in Streams : w \in Seq(Interval) /\ ValidStream(w, Eligible)

VARIABLES
    stream,         \* the effective stream of the review
    asked,          \* the edit under way, or Idle
    answer          \* what the last edit returned

editVars == <<stream, asked, answer>>

Ref == {r \in [start : 0 .. Eligible - 1, end : {-1} \cup 0 .. Eligible] :
            \/ r.end = -1 \/ r.end > r.start \/ (r.start = 0 /\ r.end = 0)}
NoRef == [start |-> 0, end |-> 0]
Value == {v \in [start : 0 .. Eligible, end : 0 .. Eligible + 1, phase : Labels] :
              v.start <= v.end}
NoValue == [start |-> 0, end |-> 0, phase |-> ""]

Req(ops, refs, others, values, ats) ==
    [op : ops, ref : refs, other : others, value : values, at : ats]

Request ==
    UNION {Req({"accept"}, Ref, {NoRef}, {NoValue}, {0}),
           Req({"relabel", "move"}, Ref, {NoRef}, Value, {0}),
           Req({"split"}, Ref, {NoRef}, {NoValue}, 0 .. Eligible),
           Req({"merge"}, Ref, Ref, [start : {0}, end : {0}, phase : Labels], {0}),
           Req({"add"}, {NoRef}, {NoRef}, Value, {0}),
           Req({"delete"}, Ref, Ref, {NoValue}, {0})}

Idle == [op |-> "none"]

-----------------------------------------------------------------------------
Result(w) == [answer |-> "ok", stream |-> w]
Stale == [answer |-> "stale", stream |-> <<>>]
Wrong == [answer |-> "invalid", stream |-> <<>>]

\* w with its intervals i to j replaced.
Splice(w, i, j, parts) == SubSeq(w, 1, i - 1) \o parts \o SubSeq(w, j + 1, Len(w))

\* findByRef: the first interval a reference matches, 0 when there is none.
FindByRef_StartOnly(w, ref) ==      \* a slip: a closed reference matches by start
    LET hits == {i \in DOMAIN w : ref.end # 0 /\ w[i].start = ref.start}
    IN  IF hits = {} THEN 0 ELSE CHOOSE i \in hits : \A j \in hits : i <= j

FindByRef(w, ref) ==
    LET hits == {i \in DOMAIN w : /\ w[i].start = ref.start
                                  /\ ref.end = -1 \/ ref.end = w[i].end}
    IN  IF hits = {} THEN 0 ELSE CHOOSE i \in hits : \A j \in hits : i <= j

\* ValidateIntervalShape.
ValidShape(v) ==
    v.phase \in Phase /\ 0 <= v.start /\ v.start < v.end /\ v.end <= Eligible

ApplyAccept(w, r) == IF FindByRef(w, r.ref) = 0 THEN Stale ELSE Result(w)

ApplyRelabel(w, r) ==
    LET i == FindByRef(w, r.ref) IN
    CASE i = 0 -> Stale
      [] i # 0 /\ ~(/\ r.value.start = w[i].start /\ r.value.end = w[i].end
                    /\ r.value.phase \in Phase) -> Wrong
      [] OTHER -> Result([w EXCEPT ![i].phase = r.value.phase])

ApplySplit(w, r) ==
    LET i == FindByRef(w, r.ref) IN
    CASE i = 0 -> Stale
      [] i # 0 /\ (r.at <= w[i].start \/ r.at >= w[i].end) -> Wrong
      [] OTHER -> Result(Splice(w, i, i, <<[w[i] EXCEPT !.end = r.at],
                                           [w[i] EXCEPT !.start = r.at]>>))

ApplyMerge(w, r) ==
    LET i == FindByRef(w, r.ref)
        j == FindByRef(w, r.other)
        a == IF i <= j THEN i ELSE j
        b == IF i <= j THEN j ELSE i
        label == IF r.value.phase = "" THEN w[a].phase ELSE r.value.phase
    IN
    CASE i = 0 \/ j = 0 -> Stale
      [] i = j /\ i # 0 -> Wrong
      [] i # j /\ a # 0 /\ (w[a].end # w[b].start \/ label \notin Phase) -> Wrong
      [] OTHER -> Result(Splice(w, a, b, <<[start |-> w[a].start, end |-> w[b].end,
                                            phase |-> label]>>))

MoveCut(w, i, k, s) == [w EXCEPT ![i].end = s, ![k].start = s]

ApplyMove(w, r) ==
    LET i == FindByRef(w, r.ref)
        v == r.value
        movedStart == v.start # w[i].start
        movedEnd == v.end # w[i].end
    IN
    CASE i = 0 -> Stale
      [] i # 0 /\ (v.phase \notin {"", w[i].phase} \/ movedStart = movedEnd) -> Wrong
      [] i # 0 /\ v.phase \in {"", w[i].phase} /\ movedStart /\ ~movedEnd ->
            IF i = 1 \/ v.start <= w[i - 1].start \/ v.start >= w[i].end THEN Wrong
            ELSE Result(MoveCut(w, i - 1, i, v.start))
      [] OTHER ->
            IF i = Len(w) \/ v.end <= w[i].start \/ v.end >= w[i + 1].end THEN Wrong
            ELSE Result(MoveCut(w, i, i + 1, v.end))

Kept(p) == IF p.start < p.end THEN <<p>> ELSE <<>>

ApplyAdd(w, r) ==
    LET v == r.value
        around == {i \in DOMAIN w : w[i].start <= v.start /\ v.end <= w[i].end}
    IN
    IF ~ValidShape(v) THEN Wrong
    ELSE IF around = {} THEN Stale
    ELSE LET i == CHOOSE k \in around : \A j \in around : k <= j
         IN  Result(Splice(w, i, i, Kept([w[i] EXCEPT !.end = v.start])
                                    \o Kept(v) \o Kept([w[i] EXCEPT !.start = v.end])))

ApplyDelete(w, r) ==
    LET i == FindByRef(w, r.ref)
        j == FindByRef(w, r.other)
    IN
    IF r.other = NoRef THEN Wrong
    ELSE IF i = 0 \/ j = 0 THEN Stale
    ELSE IF w[j].end = w[i].start
    THEN Result(Splice([w EXCEPT ![j].end = w[i].end], i, i, <<>>))
    ELSE IF w[j].start = w[i].end
    THEN Result(Splice([w EXCEPT ![j].start = w[i].start], i, i, <<>>))
    ELSE Wrong

ApplyOp(w, r) ==
    CASE r.op = "accept"  -> ApplyAccept(w, r)
      [] r.op = "relabel" -> ApplyRelabel(w, r)
      [] r.op = "split"   -> ApplySplit(w, r)
      [] r.op = "merge"   -> ApplyMerge(w, r)
      [] r.op = "move"    -> ApplyMove(w, r)
      [] r.op = "add"     -> ApplyAdd(w, r)
      [] OTHER            -> ApplyDelete(w, r)

\* sort.Slice, by the starts.
Sorted(w) ==
    LET order == CHOOSE p \in [DOMAIN w -> DOMAIN w] :
                     \A i, k \in DOMAIN w :
                         i < k => p[i] # p[k] /\ w[p[i]].start <= w[p[k]].start
    IN  [i \in DOMAIN w |-> w[order[i]]]

\* PhaseOverlay.Apply.
Apply_Unchecked(base, r) ==     \* a slip: the result is not checked as a whole
    IF base = <<>> THEN Wrong ELSE ApplyOp(Sorted(base), r)

Apply(base, r) ==
    LET out == ApplyOp(Sorted(base), r) IN
    IF base = <<>> THEN Wrong
    ELSE IF out.answer = "ok" /\ ~ValidStream(out.stream, Eligible) THEN Wrong
    ELSE out

-----------------------------------------------------------------------------
EditInit == stream \in Streams /\ asked = Idle /\ answer = "none"

Ask(r) == asked = Idle /\ asked' = r /\ answer' = "none" /\ UNCHANGED stream

\* Store.ApplyPhaseOp: a refused edit leaves the stream it was shown.
Edit ==
    LET out == Apply(stream, asked) IN
    /\ asked # Idle /\ asked' = Idle
    /\ answer' = out.answer
    /\ stream' = IF out.answer = "ok" THEN out.stream ELSE stream

EditNext == Edit \/ \E r \in Request : Ask(r)

EditSpec == EditInit /\ [][EditNext]_editVars

-----------------------------------------------------------------------------
\* The line of seconds a list of intervals stands for.
PhaseAt(w, s) == (CHOOSE iv \in {w[i] : i \in DOMAIN w} : iv.start <= s /\ s < iv.end).phase
LineOf(w) == [s \in 0 .. Eligible - 1 |-> PhaseAt(w, s)]
StartsOf(w) == {w[i].start : i \in DOMAIN w}
Line == INSTANCE PhaseTimeline WITH
            phaseAt <- LineOf(stream), cuts <- StartsOf(stream) \ {0}, told <- answer

\* Splicing lists of intervals does to the seconds of the match exactly what
\* an edit asks, refuses exactly what no line of seconds can be, and changes
\* nothing then (PhaseOverlay.Apply and its seven operations).
EditsTheLine == Line!Spec
=============================================================================
