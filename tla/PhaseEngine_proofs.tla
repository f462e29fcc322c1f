------------------------- MODULE PhaseEngine_proofs -------------------------
(***************************************************************************)
(* Proofs about the phase engine, for any length of the match, windows and *)
(* order of inputs: what it emits covers the match, a round ends only      *)
(* after quiet, and no boundary rests on what came after it.               *)
(***************************************************************************)
EXTENDS PhaseEngine, SequenceTheorems, TLAPS

-----------------------------------------------------------------------------
(* The invariant, part by part, of an engine g.                            *)

Interval == [start : Nat, end : Nat, phase : Phase, round : Nat, evidence : SUBSET Second]
Reset == [start : Second, evidence : SUBSET Second]
Moment == Second \cup {None}
Engine ==
    [current : Phase, start : Second, round : Nat, second : Moment,
     deaths : [Second -> Nat], buybacks : [Second -> Nat],
     towers : SUBSET Second, raxes : SUBSET Second, damage : [Second -> SUBSET Hero],
     ancient : Moment, lastEvidence : Moment, evidence : SUBSET Second,
     intervals : Seq(Interval), resets : Seq(Reset),
     ended : BOOLEAN]

\* The intervals w cut the seconds up to end, and leave laning once.
Cut(w, end) ==
    /\ IF w = <<>> THEN end = 0 ELSE w[1].start = 0 /\ w[Len(w)].end = end
    /\ \A i \in DOMAIN w : w[i].start < w[i].end
    /\ \A i \in DOMAIN w \ {1} : w[i].start = w[i - 1].end
    /\ \A i, j \in DOMAIN w : i < j /\ w[j].phase = "laning" => w[i].phase = "laning"

\* What an engine that came to its end has cut.
Finished(g, end) ==
    /\ end > 0 /\ Cut(g.intervals, end)
    /\ IF g.ancient # None THEN end = g.ancient + 1 /\ g.ancient <= GameEnd
       ELSE end >= GameEnd + 1

\* What the engine has emitted is a cut of the past, on evidence of the past.
Past(g) ==
    /\ IF g.ended THEN \E end \in Nat : Finished(g, end) ELSE Cut(g.intervals, g.start)
    /\ ~g.ended /\ g.current = "laning" =>
          \A i \in DOMAIN g.intervals : g.intervals[i].phase = "laning"
    /\ \A i \in DOMAIN g.intervals :
          \A v \in g.intervals[i].evidence : v <= g.intervals[i].end

\* The seconds before a reset were quiet.
Calm(g) ==
    \A i \in DOMAIN g.resets :
        \A t \in Stretch(g.resets[i].start - Quiet + 1, g.resets[i].start) :
            /\ g.deaths[t] = 0 /\ g.buybacks[t] = 0
            /\ t \notin g.towers /\ t \notin g.raxes

\* Buybacks are evidence, and evidence is not from the future.
Remembered(g) ==
    /\ \A t \in Second : g.buybacks[t] # 0 => t <= g.lastEvidence
    /\ g.lastEvidence <= g.second
    /\ \A v \in g.evidence : v <= g.second /\ v <= GameEnd

\* Before a second is judged, everything judged lies before it.
Waiting(g) ==
    /\ g.start = 0 \/ g.start < g.second
    /\ ~g.ended /\ g.ancient # None => g.ancient = g.second /\ g.ancient <= GameEnd
    /\ \A i \in DOMAIN g.resets : g.resets[i].start < g.second

\* After it was judged, nothing lies after it, and an ancient lost has told.
Decided(g) ==
    /\ g.start = 0 \/ g.start <= g.second
    /\ g.ended <=> g.ancient # None
    /\ \A i \in DOMAIN g.resets : g.resets[i].start <= g.second

Sound(g) == g \in Engine /\ Past(g) /\ Calm(g) /\ Remembered(g)
Inv == /\ Sound(e) /\ (~e.ended => Waiting(e))
       /\ output # Pending =>
            e.ended /\ output = [eligible |-> EligibleSeconds(e), intervals |-> e.intervals]

-----------------------------------------------------------------------------
(* Lists of intervals                                                      *)

\* An interval that begins where the cut ends takes it further.
LEMMA CutMore ==
    ASSUME NEW w \in Seq(Interval), NEW a \in Nat, Cut(w, a), NEW x \in Interval,
           x.start = a, a < x.end,
           x.phase = "laning" => \A i \in DOMAIN w : w[i].phase = "laning"
    PROVE  Cut(Append(w, x), x.end)
<1> DEFINE u == Append(w, x)
<1>1. /\ Len(w) \in Nat /\ DOMAIN w = 1..Len(w)
      /\ u # <<>> /\ Len(u) = Len(w) + 1 /\ DOMAIN u = 1..(Len(w) + 1)
      /\ u[Len(w) + 1] = x /\ \A i \in 1..Len(w) : u[i] = w[i]
  OBVIOUS
<1>2. u[1].start = 0
  <2>1. CASE w = <<>>
    BY <1>1, <2>1 DEF Cut
  <2>2. CASE w # <<>>
    <3>1. 1 \in 1..Len(w)
      BY <1>1, <2>2, EmptySeq
    <3>2. QED BY <1>1, <2>2, <3>1 DEF Cut
  <2>3. QED BY <2>1, <2>2
<1>3. \A i \in DOMAIN u : u[i].start < u[i].end
  BY <1>1 DEF Cut
<1>4. ASSUME NEW i \in DOMAIN u \ {1} PROVE u[i].start = u[i - 1].end
  <2>1. CASE i = Len(w) + 1
    <3>1. Len(w) # 0 /\ Len(w) \in 1..Len(w)
      BY <1>1, <2>1
    <3>2. w # <<>> /\ u[i - 1] = w[Len(w)] /\ w[Len(w)].end = a
      BY <1>1, <2>1, <3>1 DEF Cut
    <3>3. QED BY <1>1, <2>1, <3>2
  <2>2. CASE i # Len(w) + 1
    BY <1>1, <2>2 DEF Cut
  <2>3. QED BY <2>1, <2>2
<1>5. ASSUME NEW i \in DOMAIN u, NEW j \in DOMAIN u, i < j, u[j].phase = "laning"
      PROVE  u[i].phase = "laning"
  BY <1>1, <1>5 DEF Cut
<1>6. QED BY <1>1, <1>2, <1>3, <1>4, <1>5 DEF Cut

\* A cut of at least one second is a stream that a review accepts.
LEMMA CutIsStream ==
    ASSUME NEW w \in Seq(Interval), NEW end \in Nat, end > 0, Cut(w, end)
    PROVE  ValidStream(w, end) /\ w[Len(w)].end = end
<1>1. w # <<>> /\ \A i \in DOMAIN w : w[i].phase \in Phase
  <2>1. \A i \in DOMAIN w : w[i] \in Interval
    OBVIOUS
  <2>2. QED BY <2>1 DEF Cut, Interval
<1>2. w[1].start = 0 /\ w[Len(w)].end = end
  BY <1>1 DEF Cut
<1>3. \A i, j \in DOMAIN w : i < j /\ w[j].phase = "laning" => w[i].phase = "laning"
  BY DEF Cut
<1>4. /\ \A i \in DOMAIN w : w[i].phase \in Phase /\ w[i].start < w[i].end
      /\ \A i \in DOMAIN w \ {1} : w[i].start = w[i - 1].end
  BY <1>1 DEF Cut
<1>5. \A i, j, k \in DOMAIN w :
         ~(/\ i < j /\ j < k
           /\ w[i].phase = "laning" /\ w[j].phase # "laning" /\ w[k].phase = "laning")
  BY <1>3
<1>6. QED BY <1>1, <1>2, <1>4, <1>5 DEF ValidStream

-----------------------------------------------------------------------------
(* What the engine's operators keep.                                       *)

\* What closing an interval at a second leaves of an engine.
ClosedAt(g, end, next, h) ==
    /\ h \in Engine
    /\ h = [g EXCEPT !.intervals = h.intervals, !.resets = h.resets, !.evidence = {}]
    /\ h.resets = IF g.current = "decisive" /\ next = "midgame"
                  THEN Append(g.resets, [start |-> end, evidence |-> g.evidence])
                  ELSE g.resets
    /\ Cut(h.intervals, end)
    /\ \A i \in DOMAIN h.intervals :
          \A v \in h.intervals[i].evidence : v <= h.intervals[i].end

\* Closing an interval after it started, all its evidence before its end.
LEMMA Closed ==
    ASSUME NEW g \in Engine, Past(g), ~g.ended, NEW end \in Nat, g.start < end,
           NEW next, next = "midgame" => end \in Second, \A v \in g.evidence : v <= end,
           NEW h, h = CloseInterval(g, end, next)
    PROVE  ClosedAt(g, end, next, h)
<1> DEFINE x == [start |-> g.start, end |-> end, phase |-> g.current,
                 round |-> g.round, evidence |-> g.evidence]
           r == [start |-> end, evidence |-> g.evidence]
<1>1. g.start \in Nat /\ g.current \in Phase /\ g.evidence \in SUBSET Second /\ g.round \in Nat
      /\ g.intervals \in Seq(Interval)
      /\ g.resets \in Seq(Reset)
  BY DEF Engine, Second
<1>2. x \in Interval
  BY <1>1 DEF Interval
<1>3. h = [g EXCEPT !.intervals = Append(g.intervals, x),
                    !.resets = IF g.current = "decisive" /\ next = "midgame"
                               THEN Append(g.resets, r) ELSE g.resets,
                    !.evidence = {}]
  BY <1>1 DEF CloseInterval
<1>4. /\ h.intervals = Append(g.intervals, x)
      /\ h.resets = IF g.current = "decisive" /\ next = "midgame"
                    THEN Append(g.resets, r) ELSE g.resets
  BY <1>3 DEF Engine
<1>5. h.intervals \in Seq(Interval)
      /\ h.resets \in Seq(Reset)
  <2>1. next = "midgame" => r \in Reset
    BY <1>1 DEF Reset
  <2>2. h.intervals \in Seq(Interval)
    BY <1>1, <1>2, <1>4
  <2>3. h.resets \in Seq(Reset)
    <3>1. CASE g.current = "decisive" /\ next = "midgame"
      BY <1>1, <1>4, <2>1, <3>1
    <3>2. CASE ~(g.current = "decisive" /\ next = "midgame")
      BY <1>1, <1>4, <3>2
    <3>3. QED BY <3>1, <3>2
  <2>4. QED BY <2>2, <2>3
<1>6. h = [g EXCEPT !.intervals = h.intervals, !.resets = h.resets, !.evidence = {}]
  BY <1>3, <1>4
<1>7. h \in Engine
  BY <1>5, <1>6 DEF Engine
<1>8. Cut(h.intervals, end)
  <2>1. Cut(g.intervals, g.start)
        /\ (g.current = "laning" => \A i \in DOMAIN g.intervals : g.intervals[i].phase = "laning")
    BY DEF Past
  <2>2. QED BY <1>1, <1>2, <1>4, <2>1, CutMore
<1>9. ASSUME NEW i \in DOMAIN h.intervals, NEW v \in h.intervals[i].evidence
      PROVE  v <= h.intervals[i].end
  <2>1. CASE i = Len(g.intervals) + 1
    <3>1. h.intervals[i] = x
      BY <1>1, <1>4, <2>1
    <3>2. QED BY <1>9, <3>1
  <2>2. CASE i # Len(g.intervals) + 1
    <3>1. i \in DOMAIN g.intervals /\ h.intervals[i] = g.intervals[i]
      BY <1>1, <1>4, <2>2
    <3>2. QED BY <1>9, <3>1 DEF Past
  <2>3. QED BY <2>1, <2>2
<1>10. QED BY <1>4, <1>6, <1>7, <1>8, <1>9 DEF ClosedAt

\* A second s that is judged while the match goes on, and its transition.
LEMMA Moved ==
    ASSUME NEW g, Sound(g), Waiting(g), ~g.ended, g.ancient = None,
           NEW s \in Second, s = g.second, NEW to \in {"midgame", "decisive"},
           g.current = "decisive" => ShouldReset(g, s),
           NEW h, h = Transition(g, s, to)
    PROVE  Sound(h) /\ Decided(h) /\ h.second = s /\ h.ancient = g.ancient
<1>0. SUFFICES ASSUME NEW k, k = CloseInterval(g, s, to)
               PROVE  Sound(h) /\ Decided(h) /\ h.second = s /\ h.ancient = g.ancient
  OBVIOUS
<1>1. /\ g \in Engine /\ s \in Nat /\ g.start \in Nat /\ g.round \in Nat
      /\ g.resets \in Seq(Reset)
  BY DEF Sound, Engine, Second
<1>2. ASSUME k \in Engine
      PROVE  /\ h \in Engine /\ h.start = s /\ h.current = to /\ h.second = k.second
             /\ h.ended = k.ended /\ h.intervals = k.intervals /\ h.resets = k.resets
             /\ h.deaths = k.deaths /\ h.buybacks = k.buybacks /\ h.towers = k.towers
             /\ h.raxes = k.raxes /\ h.lastEvidence = k.lastEvidence
             /\ h.evidence = k.evidence /\ h.ancient = k.ancient
  <2>1. (IF to = "decisive" THEN k.round + 1 ELSE k.round) \in Nat /\ to \in Phase
    BY <1>2 DEF Engine, Phase
  <2>2. PICK n \in Nat : h = [k EXCEPT !.current = to, !.round = n, !.start = s]
    BY <1>0, <2>1 DEF Transition
  <2>3. QED BY <1>2, <2>1, <2>2 DEF Engine
<1>3. CASE s <= g.start
  <2>1. g.start = s /\ k = g
    BY <1>0, <1>1, <1>3 DEF Waiting, CloseInterval
  <2>2. Past(h) /\ Calm(h) /\ Remembered(h)
    <3>1. /\ h.start = g.start /\ h.current # "laning" /\ h.second = g.second /\ h.ended = g.ended
          /\ h.intervals = g.intervals /\ h.resets = g.resets /\ h.deaths = g.deaths
          /\ h.buybacks = g.buybacks /\ h.towers = g.towers /\ h.raxes = g.raxes
          /\ h.lastEvidence = g.lastEvidence /\ h.evidence = g.evidence
      BY <1>1, <1>2, <2>1
    <3>2. Past(h)
      BY <3>1 DEF Sound, Past
    <3>3. Calm(h) /\ Remembered(h)
      BY <3>1 DEF Sound, Calm, Remembered
    <3>4. QED BY <3>2, <3>3
  <2>3. Decided(h)
    <3>1. \A i \in DOMAIN g.resets : g.resets[i] \in Reset
      BY <1>1
    <3>2. \A i \in DOMAIN g.resets : g.resets[i].start \in Nat
      BY <3>1 DEF Reset, Second
    <3>3. h.resets = g.resets /\ h.start = s /\ h.second = s /\ h.ancient = None /\ ~h.ended
      BY <1>1, <1>2, <2>1
    <3>4. QED BY <1>1, <3>2, <3>3 DEF Decided, Waiting
  <2>4. QED BY <1>1, <1>2, <2>1, <2>2, <2>3 DEF Sound
<1>4. CASE g.start < s
  <2>1. /\ k \in Engine /\ Cut(k.intervals, s)
        /\ k = [g EXCEPT !.intervals = k.intervals, !.resets = k.resets, !.evidence = {}]
        /\ k.resets = IF g.current = "decisive" /\ to = "midgame"
                      THEN Append(g.resets, [start |-> s, evidence |-> g.evidence])
                      ELSE g.resets
        /\ \A i \in DOMAIN k.intervals :
              \A v \in k.intervals[i].evidence : v <= k.intervals[i].end
    <3>1. Past(g) /\ \A v \in g.evidence : v <= s
      BY DEF Sound, Remembered
    <3>2. ClosedAt(g, s, to, k)
      BY <1>0, <1>1, <1>4, <3>1, Closed
    <3>3. QED BY <3>2 DEF ClosedAt
  <2>2. /\ h \in Engine /\ h.start = s /\ h.second = s /\ h.ended = g.ended /\ h.current # "laning"
        /\ h.intervals = k.intervals /\ h.resets = k.resets /\ h.deaths = g.deaths
        /\ h.buybacks = g.buybacks /\ h.towers = g.towers /\ h.raxes = g.raxes
        /\ h.lastEvidence = g.lastEvidence /\ h.evidence = {} /\ h.ancient = g.ancient
    BY <1>1, <1>2, <2>1 DEF Engine
  <2>3. Past(h)
    BY <2>1, <2>2 DEF Past
  <2>4. Remembered(h)
    BY <2>2 DEF Remembered, Sound
  <2>5. \A i \in DOMAIN h.resets :
            \/ i \in DOMAIN g.resets /\ h.resets[i] = g.resets[i]
            \/ h.resets[i].start = s /\ g.current = "decisive"
    BY <1>1, <2>1, <2>2
  <2>6. ASSUME NEW t \in Stretch(s - Quiet + 1, s), g.current = "decisive"
        PROVE  /\ g.deaths[t] = 0 /\ g.buybacks[t] = 0
               /\ t \notin g.towers /\ t \notin g.raxes
    <3>1. Quiet \in Nat \ {0} /\ g.lastEvidence \in Int
      BY <1>1, ConstantsAssumption DEF Engine, Moment, Second, None
    <3>2. t \in Second /\ t \in Int /\ g.lastEvidence < t /\ t <= s
      BY <1>1, <2>6, <3>1 DEF Stretch, ShouldReset, Second
    <3>3. t \in Stretch(g.lastEvidence + 1, s)
      BY <1>1, <3>1, <3>2 DEF Stretch
    <3>4. g.deaths[t] = 0 /\ t \notin g.towers /\ t \notin g.raxes
      BY <2>6, <3>3 DEF ShouldReset
    <3>5. g.buybacks[t] = 0
      BY <3>1, <3>2 DEF Sound, Remembered
    <3>6. QED BY <3>4, <3>5
  <2>7. Calm(h)
    BY <2>2, <2>5, <2>6 DEF Calm, Sound
  <2>8. Decided(h)
    <3>1. \A i \in DOMAIN g.resets : g.resets[i] \in Reset /\ g.resets[i].start < s
      BY <1>1 DEF Waiting
    <3>2. \A i \in DOMAIN g.resets : g.resets[i].start \in Nat
      BY <3>1 DEF Reset, Second
    <3>3. \A i \in DOMAIN h.resets : h.resets[i].start <= s
      BY <1>1, <2>5, <3>1, <3>2
    <3>4. QED BY <1>1, <2>2, <3>3 DEF Decided
  <2>9. QED BY <2>2, <2>3, <2>4, <2>7, <2>8 DEF Sound
<1>5. QED BY <1>1, <1>3, <1>4

\* The judgement of the second the engine is at.
LEMMA Judged ==
    ASSUME NEW g, Sound(g), Waiting(g), ~g.ended, NEW h, h = FinalizeSecond(g, g.second)
    PROVE  Sound(h) /\ Decided(h) /\ h.second = g.second /\ h.ancient = g.ancient
<1>1. /\ g \in Engine /\ g.second \in Moment /\ g.start \in Nat /\ g.ancient \in Moment
      /\ g.resets \in Seq(Reset) /\ g.current \in Phase
  BY DEF Sound, Engine, Second
<1>2. \A i \in DOMAIN g.resets : g.resets[i].start \in Nat
  <2>1. \A i \in DOMAIN g.resets : g.resets[i] \in Reset
    BY <1>1
  <2>2. QED BY <2>1 DEF Reset, Second
<1>3. ASSUME h = g, g.ancient = None PROVE Sound(h) /\ Decided(h) /\ h.second = g.second
  <2>1. g.second \in Int
    BY <1>1 DEF Moment, Second, None
  <2>2. Decided(g)
    BY <1>1, <1>2, <1>3, <2>1 DEF Decided, Waiting
  <2>3. QED BY <1>3, <2>2
<1>4. CASE g.second = None
  <2>1. h = g
    BY <1>4 DEF FinalizeSecond, None
  <2>2. g.ancient = None
    BY <1>1, <1>4 DEF Waiting
  <2>3. QED BY <1>3, <2>1, <2>2
<1>5. CASE g.second \in Second
  <2> DEFINE s == g.second
  <2>1. s \in Nat
    BY <1>5 DEF Second
  <2>2. CASE g.ancient # None
    <3>1. g.ancient = s /\ g.ancient <= GameEnd
      BY <2>2 DEF Waiting
    <3>2. PICK k : k = CloseInterval(g, s + 1, "ended")
      OBVIOUS
    <3>3. h = [k EXCEPT !.ended = TRUE]
      BY <2>1, <2>2, <3>1, <3>2 DEF FinalizeSecond
    <3>4. Past(g) /\ g.start < s + 1 /\ s + 1 \in Nat /\ \A v \in g.evidence : v <= s + 1
      <4>1. g.start < s + 1 /\ s + 1 \in Nat
        BY <1>1, <2>1 DEF Waiting
      <4>2. g.evidence \in SUBSET Second
        BY <1>1 DEF Engine
      <4>3. \A v \in g.evidence : v <= s + 1
        BY <2>1, <4>2 DEF Sound, Remembered, Second
      <4>4. QED BY <4>1, <4>3 DEF Sound
    <3>5. ClosedAt(g, s + 1, "ended", k)
      <4> HIDE DEF s
      <4>1. "ended" # "midgame"
        OBVIOUS
      <4>2. QED BY <1>1, <3>2, <3>4, <4>1, Closed
    <3>6. k \in Engine /\ k.resets = g.resets /\ Cut(k.intervals, s + 1)
          /\ k = [g EXCEPT !.intervals = k.intervals, !.resets = k.resets, !.evidence = {}]
          /\ \A i \in DOMAIN k.intervals :
                \A v \in k.intervals[i].evidence : v <= k.intervals[i].end
      BY <3>5 DEF ClosedAt
    <3>7. /\ h \in Engine /\ h.start = g.start /\ h.second = s /\ h.ended
          /\ h.intervals = k.intervals /\ h.resets = g.resets /\ h.deaths = g.deaths
          /\ h.buybacks = g.buybacks /\ h.towers = g.towers /\ h.raxes = g.raxes
          /\ h.lastEvidence = g.lastEvidence /\ h.evidence = {} /\ h.ancient = g.ancient
      <4>1. /\ h \in Engine /\ h.start = k.start /\ h.second = k.second /\ h.ended
            /\ h.intervals = k.intervals /\ h.resets = k.resets /\ h.deaths = k.deaths
            /\ h.buybacks = k.buybacks /\ h.towers = k.towers /\ h.raxes = k.raxes
            /\ h.lastEvidence = k.lastEvidence /\ h.evidence = k.evidence
            /\ h.ancient = k.ancient
        <5>1. k \in Engine
          BY <3>6
        <5>2. QED BY <3>3, <5>1 DEF Engine
      <4>2. /\ k.start = g.start /\ k.second = s /\ k.deaths = g.deaths
            /\ k.buybacks = g.buybacks /\ k.towers = g.towers /\ k.raxes = g.raxes
            /\ k.lastEvidence = g.lastEvidence /\ k.evidence = {} /\ k.ancient = g.ancient
        BY <1>1, <3>6 DEF Engine
      <4>3. QED BY <3>6, <4>1, <4>2
    <3>8. Past(h)
      <4>1. Finished(h, s + 1)
        BY <2>1, <2>2, <3>1, <3>6, <3>7 DEF Finished
      <4>2. QED BY <3>4, <3>6, <3>7, <4>1 DEF Past
    <3>9. Calm(h) /\ Remembered(h)
      BY <3>7 DEF Sound, Calm, Remembered
    <3>10. Decided(h)
      BY <1>1, <1>2, <2>1, <2>2, <3>7 DEF Decided, Waiting
    <3>11. QED BY <3>7, <3>8, <3>9, <3>10 DEF Sound
  <2>3. CASE g.ancient = None
    <3>1. \/ g.current = "laning" /\ h = Transition(g, s, "midgame")
          \/ g.current = "midgame" /\ h = Transition(g, s, "decisive")
          \/ g.current = "decisive" /\ ShouldReset(g, s) /\ h = Transition(g, s, "midgame")
          \/ h = g
      BY <1>5, <2>1, <2>3 DEF FinalizeSecond
    <3>2. CASE h = g
      BY <1>3, <2>3, <3>2
    <3>3. CASE g.current = "laning" /\ h = Transition(g, s, "midgame")
      BY <1>5, <2>3, <3>3, Moved
    <3>4. CASE g.current = "midgame" /\ h = Transition(g, s, "decisive")
      BY <1>5, <2>3, <3>4, Moved
    <3>5. CASE g.current = "decisive" /\ ShouldReset(g, s) /\ h = Transition(g, s, "midgame")
      BY <1>5, <2>3, <3>5, Moved
    <3>6. QED BY <3>1, <3>2, <3>3, <3>4, <3>5
  <2>4. QED BY <2>2, <2>3
<1>6. QED BY <1>1, <1>4, <1>5 DEF Moment

\* What an input at second t may change of an engine.
Changed(g, t, h) ==
    /\ h \in Engine /\ h.start = g.start /\ h.second = g.second /\ h.ended = g.ended
    /\ h.current = g.current /\ h.intervals = g.intervals /\ h.resets = g.resets
    /\ \A u \in Second \ {t} :
          /\ h.deaths[u] = g.deaths[u] /\ h.buybacks[u] = g.buybacks[u]
          /\ u \in h.towers => u \in g.towers
          /\ u \in h.raxes => u \in g.raxes
    /\ h.evidence \subseteq g.evidence \cup {t}
    /\ \/ h.lastEvidence = t
       \/ h.lastEvidence = g.lastEvidence /\ h.buybacks = g.buybacks
    /\ h.ancient = g.ancient \/ (g.ancient = None /\ h.ancient = t)

\* Each kind of input changes that at most.
LEMMA Recording ==
    ASSUME NEW g \in Engine, NEW in \in Input, NEW h, h = Take(g, in)
    PROVE  Changed(g, in.second, h)
<1>1. PICK t \in Second : t = in.second
  BY DEF Input
<1>2. PICK last \in Moment : /\ last = IF in.kind \in Decisive THEN t ELSE g.lastEvidence
                             /\ h = Recorded(g, in, last)
  BY <1>1 DEF Take, Engine, Moment
<1>3. PICK f : f = [g EXCEPT !.evidence = @ \cup {t}, !.lastEvidence = last]
  OBVIOUS
<1>4. /\ f \in Engine /\ f.start = g.start /\ f.second = g.second /\ f.ended = g.ended
      /\ f.current = g.current /\ f.intervals = g.intervals /\ f.resets = g.resets
      /\ f.deaths = g.deaths /\ f.buybacks = g.buybacks /\ f.towers = g.towers
      /\ f.raxes = g.raxes /\ f.damage = g.damage /\ f.lastEvidence = last
      /\ f.evidence = g.evidence \cup {t} /\ f.ancient = g.ancient
  BY <1>2, <1>3 DEF Engine
<1>5. in.kind \in Kinds /\ (in.kind \in {"death", "damage"} => in.hero \in Hero)
  BY DEF Input, Kinds
<1>6. CASE in.kind = "death"
  <2>1. h = [f EXCEPT !.deaths[t] = @ + 1, !.damage[t] = @ \cup {in.hero}]
    BY <1>1, <1>2, <1>3, <1>6 DEF Recorded
  <2>2. f.deaths \in [Second -> Nat] /\ f.damage \in [Second -> SUBSET Hero]
    BY <1>4 DEF Engine
  <2>3. PICK d \in [Second -> Nat], m \in [Second -> SUBSET Hero] :
            h = [f EXCEPT !.deaths = d, !.damage = m] /\ \A u \in Second \ {t} : d[u] = f.deaths[u]
    <3>1. [f.deaths EXCEPT ![t] = @ + 1] \in [Second -> Nat]
      BY <2>2
    <3>2. [f.damage EXCEPT ![t] = @ \cup {in.hero}] \in [Second -> SUBSET Hero]
      BY <1>5, <1>6, <2>2
    <3>3. h = [f EXCEPT !.deaths = [f.deaths EXCEPT ![t] = @ + 1],
                        !.damage = [f.damage EXCEPT ![t] = @ \cup {in.hero}]]
      BY <1>4, <2>1 DEF Engine
    <3>4. \A u \in Second \ {t} : [f.deaths EXCEPT ![t] = @ + 1][u] = f.deaths[u]
      BY <2>2
    <3>5. QED BY <3>1, <3>2, <3>3, <3>4
  <2>4. /\ h \in Engine /\ h.start = f.start /\ h.second = f.second /\ h.ended = f.ended
        /\ h.current = f.current /\ h.intervals = f.intervals /\ h.resets = f.resets
        /\ h.deaths = d /\ h.buybacks = f.buybacks /\ h.towers = f.towers /\ h.raxes = f.raxes
        /\ h.evidence = f.evidence /\ h.lastEvidence = f.lastEvidence /\ h.ancient = f.ancient
    BY <1>4, <2>3 DEF Engine
  <2>5. QED BY <1>1, <1>2, <1>4, <1>6, <2>3, <2>4 DEF Changed, Decisive
<1>7. CASE in.kind = "buyback"
  <2>1. h = [f EXCEPT !.buybacks[t] = @ + 1] /\ last = t
    BY <1>1, <1>2, <1>3, <1>7 DEF Recorded, Decisive
  <2>2. f.buybacks \in [Second -> Nat]
    BY <1>4 DEF Engine
  <2>3. PICK d \in [Second -> Nat] :
            h = [f EXCEPT !.buybacks = d] /\ \A u \in Second \ {t} : d[u] = f.buybacks[u]
    <3>1. [f.buybacks EXCEPT ![t] = @ + 1] \in [Second -> Nat]
      BY <2>2
    <3>2. h = [f EXCEPT !.buybacks = [f.buybacks EXCEPT ![t] = @ + 1]]
      BY <1>4, <2>1 DEF Engine
    <3>3. \A u \in Second \ {t} : [f.buybacks EXCEPT ![t] = @ + 1][u] = f.buybacks[u]
      BY <2>2
    <3>4. QED BY <3>1, <3>2, <3>3
  <2>4. /\ h \in Engine /\ h.start = f.start /\ h.second = f.second /\ h.ended = f.ended
        /\ h.current = f.current /\ h.intervals = f.intervals /\ h.resets = f.resets
        /\ h.deaths = f.deaths /\ h.buybacks = d /\ h.towers = f.towers /\ h.raxes = f.raxes
        /\ h.evidence = f.evidence /\ h.lastEvidence = f.lastEvidence /\ h.ancient = f.ancient
    BY <1>4, <2>3 DEF Engine
  <2>5. QED BY <1>1, <1>4, <2>1, <2>3, <2>4 DEF Changed
<1>8. CASE in.kind = "tower"
  <2>1. h = [f EXCEPT !.towers = @ \cup {t}]
    BY <1>1, <1>2, <1>3, <1>8 DEF Recorded
  <2>2. /\ h \in Engine /\ h.start = f.start /\ h.second = f.second /\ h.ended = f.ended
        /\ h.current = f.current /\ h.intervals = f.intervals /\ h.resets = f.resets
        /\ h.deaths = f.deaths /\ h.buybacks = f.buybacks
        /\ h.towers = f.towers \cup {t} /\ h.raxes = f.raxes
        /\ h.evidence = f.evidence /\ h.lastEvidence = f.lastEvidence /\ h.ancient = f.ancient
    BY <1>4, <2>1 DEF Engine
  <2>3. last = t
    BY <1>2, <1>8 DEF Decisive
  <2>4. QED BY <1>1, <1>4, <2>2, <2>3 DEF Changed
<1>9. CASE in.kind = "rax"
  <2>1. h = [f EXCEPT !.raxes = @ \cup {t}]
    BY <1>1, <1>2, <1>3, <1>9 DEF Recorded
  <2>2. /\ h \in Engine /\ h.start = f.start /\ h.second = f.second /\ h.ended = f.ended
        /\ h.current = f.current /\ h.intervals = f.intervals /\ h.resets = f.resets
        /\ h.deaths = f.deaths /\ h.buybacks = f.buybacks
        /\ h.raxes = f.raxes \cup {t} /\ h.towers = f.towers
        /\ h.evidence = f.evidence /\ h.lastEvidence = f.lastEvidence /\ h.ancient = f.ancient
    BY <1>4, <2>1 DEF Engine
  <2>3. last = t
    BY <1>2, <1>9 DEF Decisive
  <2>4. QED BY <1>1, <1>4, <2>2, <2>3 DEF Changed
<1>10. CASE in.kind = "damage"
  <2>1. h = [f EXCEPT !.damage[t] = @ \cup {in.hero}]
    BY <1>1, <1>2, <1>3, <1>10 DEF Recorded
  <2>2. f.damage \in [Second -> SUBSET Hero]
    BY <1>4 DEF Engine
  <2>3. PICK m \in [Second -> SUBSET Hero] : h = [f EXCEPT !.damage = m]
    <3>1. [f.damage EXCEPT ![t] = @ \cup {in.hero}] \in [Second -> SUBSET Hero]
      BY <1>5, <1>10, <2>2
    <3>2. h = [f EXCEPT !.damage = [f.damage EXCEPT ![t] = @ \cup {in.hero}]]
      BY <1>4, <2>1 DEF Engine
    <3>3. QED BY <3>1, <3>2
  <2>4. QED BY <1>1, <1>2, <1>4, <1>10, <2>3 DEF Changed, Engine, Decisive
<1>11. CASE in.kind = "ancient"
  <2>1. \/ g.ancient = None /\ h = [f EXCEPT !.ancient = t]
        \/ h = g
    BY <1>1, <1>2, <1>3, <1>11 DEF Recorded
  <2>2. CASE g.ancient = None /\ h = [f EXCEPT !.ancient = t]
    BY <1>1, <1>2, <1>4, <1>11, <2>2 DEF Changed, Engine, Moment, Decisive
  <2>3. CASE h = g
    BY <1>1, <2>3 DEF Changed
  <2>4. QED BY <2>1, <2>2, <2>3
<1>12. CASE in.kind = "position"
  <2>1. h = g
    BY <1>2, <1>12 DEF Recorded
  <2>2. QED BY <1>1, <2>1 DEF Changed
<1>13. QED BY <1>5, <1>6, <1>7, <1>8, <1>9, <1>10, <1>11, <1>12 DEF Kinds

\* An input of the second the engine is at leaves what was judged alone.
LEMMA Taken ==
    ASSUME NEW g, Sound(g), Waiting(g), g.ended => g.ancient # None,
           NEW in \in Input, in.second = g.second, in.second <= GameEnd,
           NEW h, h = Take(g, in)
    PROVE  Sound(h) /\ Waiting(h)
<1>1. PICK t \in Second : t = in.second
  BY DEF Input
<1>2. Changed(g, t, h)
  BY <1>1, Recording DEF Sound
<1>3. t \in Nat /\ g.second = t /\ h.second = t /\ t <= GameEnd /\ None \notin Second
  BY <1>1, <1>2 DEF Changed, Second, None
<1>4. Past(h)
  <2>1. /\ h.ended = g.ended /\ h.intervals = g.intervals /\ h.start = g.start
        /\ h.current = g.current /\ (g.ended => h.ancient = g.ancient)
    BY <1>2 DEF Changed
  <2>2. QED BY <2>1 DEF Sound, Past, Finished
<1>5. Remembered(h)
  <2>1. g \in Engine /\ g.lastEvidence \in Int
    <3>1. g \in Engine /\ g.lastEvidence \in Moment
      BY DEF Sound, Engine
    <3>2. QED BY <3>1 DEF Moment, Second, None
  <2>2. \A u \in Second : h.buybacks[u] # 0 => u <= h.lastEvidence
    <3>1. CASE h.lastEvidence = g.lastEvidence /\ h.buybacks = g.buybacks
      BY <3>1 DEF Sound, Remembered
    <3>2. CASE h.lastEvidence = t
      <4>1. SUFFICES ASSUME NEW u \in Second, u # t, h.buybacks[u] # 0 PROVE u <= t
        BY <1>3, <3>2
      <4>2. g.buybacks[u] # 0 /\ u \in Nat
        BY <1>2, <4>1 DEF Changed, Second
      <4>3. QED BY <1>3, <2>1, <4>2 DEF Sound, Remembered
    <3>3. QED BY <1>2, <3>1, <3>2 DEF Changed
  <2>3. h.lastEvidence <= h.second
    BY <1>2, <1>3, <2>1 DEF Changed, Sound, Remembered
  <2>4. \A v \in h.evidence : v <= h.second /\ v <= GameEnd
    BY <1>2, <1>3 DEF Changed, Sound, Remembered
  <2>5. QED BY <2>2, <2>3, <2>4 DEF Remembered
<1>6. Waiting(h)
  BY <1>2, <1>3 DEF Changed, Waiting
<1>7. Calm(h)
  <2>1. h.resets = g.resets /\ g.resets \in Seq(Reset)
    BY <1>2 DEF Changed, Sound, Engine
  <2>2. SUFFICES ASSUME NEW i \in DOMAIN g.resets,
                        NEW u \in Stretch(g.resets[i].start - Quiet + 1, g.resets[i].start)
                 PROVE  /\ h.deaths[u] = 0 /\ h.buybacks[u] = 0
                        /\ u \notin h.towers /\ u \notin h.raxes
    BY <2>1 DEF Calm
  <2>3. g.resets[i] \in Reset
    BY <2>1
  <2>4. g.resets[i].start \in Nat /\ g.resets[i].start < t
    BY <1>3, <2>3 DEF Reset, Second, Waiting
  <2>5. u \in Second /\ u # t
    BY <1>3, <2>4 DEF Stretch, Second
  <2>6. QED BY <1>2, <2>5 DEF Changed, Sound, Calm
<1>8. QED BY <1>2, <1>4, <1>5, <1>6, <1>7 DEF Sound, Changed

\* Ready for an input of second t.
ReadyAt(g, t) ==
    Sound(g) /\ Waiting(g) /\ (g.ended => g.ancient # None) /\ g.second = t

\* The engine goes on to a later second t.
LEMMA Advanced ==
    ASSUME NEW g, Sound(g), Decided(g), NEW t \in Second, g.second < t,
           NEW h, h = [g EXCEPT !.second = t]
    PROVE  ReadyAt(h, t)
<1>1. /\ g \in Engine /\ g.second \in Int /\ g.lastEvidence \in Int /\ t \in Nat
      /\ g.start \in Nat /\ g.resets \in Seq(Reset) /\ g.evidence \in SUBSET Second
  <2>1. /\ g \in Engine /\ g.second \in Moment /\ g.lastEvidence \in Moment /\ g.start \in Second
        /\ g.resets \in Seq(Reset) /\ g.evidence \in SUBSET Second
    BY DEF Sound, Engine
  <2>2. g.second \in Int /\ g.lastEvidence \in Int
    BY <2>1 DEF Moment, Second, None
  <2>3. t \in Nat /\ g.start \in Nat
    BY <2>1 DEF Second
  <2>4. QED BY <2>1, <2>2, <2>3
<1>2. /\ h \in Engine /\ h.start = g.start /\ h.second = t /\ h.ended = g.ended
      /\ h.current = g.current /\ h.intervals = g.intervals /\ h.resets = g.resets
      /\ h.deaths = g.deaths /\ h.buybacks = g.buybacks /\ h.towers = g.towers
      /\ h.raxes = g.raxes /\ h.evidence = g.evidence /\ h.lastEvidence = g.lastEvidence
      /\ h.ancient = g.ancient
  BY <1>1 DEF Engine, Moment
<1>3. Past(h) /\ Calm(h)
  BY <1>2 DEF Sound, Past, Finished, Calm
<1>4. Remembered(h)
  <2>1. \A v \in g.evidence : v \in Nat
    BY <1>1 DEF Second
  <2>2. QED BY <1>1, <1>2, <2>1 DEF Sound, Remembered
<1>5. Waiting(h)
  <2>1. \A i \in DOMAIN g.resets : g.resets[i] \in Reset
    BY <1>1
  <2>2. \A i \in DOMAIN g.resets : g.resets[i].start \in Nat
    BY <2>1 DEF Reset, Second
  <2>3. QED BY <1>1, <1>2, <2>2 DEF Waiting, Decided
<1>6. QED BY <1>2, <1>3, <1>4, <1>5 DEF ReadyAt, Sound, Decided

\* Engine_.Feed of an engine that goes on.
LEMMA Received ==
    ASSUME NEW g, Sound(g), Waiting(g), ~g.ended,
           NEW in \in Input, g.second <= in.second, NEW h, h = Receive(g, in)
    PROVE  Sound(h) /\ Waiting(h)
<1>1. /\ g.second \in Int /\ in.second \in Second /\ in.second \in Nat /\ GameEnd \in Nat
  <2>1. g.second \in Moment
    BY DEF Sound, Engine
  <2>2. in.second \in Second
    BY DEF Input
  <2>3. QED BY <2>1, <2>2, ConstantsAssumption DEF Moment, Second, None
<1>2. PICK k : k = IF in.second > g.second
                   THEN [FinalizeSecond(g, g.second) EXCEPT !.second = in.second] ELSE g
  OBVIOUS
<1>3. Sound(k) /\ Waiting(k) /\ (k.ended => k.ancient # None) /\ k.second = in.second
  <2>1. CASE in.second > g.second
    <3>1. PICK f : f = FinalizeSecond(g, g.second)
      OBVIOUS
    <3>2. Sound(f) /\ Decided(f) /\ f.second = g.second
      BY <3>1, Judged
    <3>3. k = [f EXCEPT !.second = in.second] /\ f.second < in.second
      BY <1>1, <1>2, <2>1, <3>1, <3>2
    <3>4. PICK t \in Second : t = in.second
      BY <1>1
    <3>5. k = [f EXCEPT !.second = t] /\ f.second < t
      BY <3>3, <3>4
    <3>6. ReadyAt(k, t)
      BY <3>2, <3>5, Advanced
    <3>7. QED BY <3>4, <3>6 DEF ReadyAt
  <2>2. CASE ~(in.second > g.second)
    BY <1>1, <1>2, <2>2
  <2>3. QED BY <2>1, <2>2
<1>4. CASE in.second > GameEnd
  BY <1>2, <1>3, <1>4 DEF Receive
<1>5. CASE in.second <= GameEnd
  <2>1. h = Take(k, in)
    BY <1>1, <1>2, <1>5 DEF Receive
  <2>2. QED BY <1>3, <1>5, <2>1, Taken
<1>6. QED BY <1>1, <1>4, <1>5

\* The end of the stream, judged and closed.
LEMMA Concluded ==
    ASSUME NEW g, Sound(g), Waiting(g), ~g.ended, NEW h, h = CloseAt(g)
    PROVE  Sound(h) /\ h.ended
<1>1. PICK f : f = FinalizeSecond(g, g.second)
  OBVIOUS
<1>2. Sound(f) /\ Decided(f) /\ f.second = g.second /\ f.ancient = g.ancient
  BY <1>1, Judged
<1>3. f \in Engine /\ f.start \in Nat /\ GameEnd \in Nat
  <2>1. f \in Engine /\ f.start \in Second
    BY <1>2 DEF Sound, Engine
  <2>2. QED BY <2>1, ConstantsAssumption DEF Second
<1>4. CASE g.ancient # None
  <2>1. g.second = g.ancient /\ f.ended
    BY <1>2, <1>4 DEF Waiting, Decided
  <2>2. [f EXCEPT !.second = g.ancient] = f
    BY <1>2, <1>3, <2>1 DEF Engine
  <2>3. FinalizeSecond(f, f.second) = f
    BY <2>1 DEF FinalizeSecond
  <2>4. h = f
    <3>1. CASE g.ancient < GameEnd
      BY <1>1, <1>4, <2>1, <2>2, <2>3, <3>1 DEF CloseAt
    <3>2. CASE ~(g.ancient < GameEnd)
      BY <1>1, <2>1, <3>2 DEF CloseAt
    <3>3. QED BY <3>1, <3>2
  <2>5. QED BY <1>2, <2>1, <2>4
<1>5. CASE g.ancient = None
  <2>1. ~f.ended /\ f.ancient = None
    BY <1>2, <1>5 DEF Decided
  <2>2. PICK k : k = CloseInterval(f, GameEnd + 1, "ended")
    OBVIOUS
  <2>3. h = [k EXCEPT !.ended = TRUE]
    BY <1>1, <1>5, <2>1, <2>2 DEF CloseAt
  <2>4. /\ k \in Engine /\ k.ancient = None /\ k.resets = f.resets
        /\ \E end \in Nat : end >= GameEnd + 1 /\ Cut(k.intervals, end)
        /\ \A i \in DOMAIN k.intervals :
              \A v \in k.intervals[i].evidence : v <= k.intervals[i].end
        /\ k.deaths = f.deaths /\ k.buybacks = f.buybacks /\ k.towers = f.towers
        /\ k.raxes = f.raxes /\ k.lastEvidence = f.lastEvidence /\ k.second = f.second
        /\ k.evidence \subseteq f.evidence
    <3>1. CASE GameEnd + 1 <= f.start
      <4>1. k = f
        BY <2>2, <3>1 DEF CloseInterval
      <4>2. QED BY <1>2, <1>3, <2>1, <3>1, <4>1 DEF Sound, Past
    <3>2. CASE f.start < GameEnd + 1
      <4>1. Past(f) /\ GameEnd + 1 \in Nat
        BY <1>2, <1>3 DEF Sound
      <4>2. \A v \in f.evidence : v <= GameEnd + 1
        <5>1. f.evidence \in SUBSET Second
          BY <1>3 DEF Engine
        <5>2. QED BY <1>2, <1>3, <5>1 DEF Sound, Remembered, Second
      <4>3. "ended" # "midgame"
        OBVIOUS
      <4>4. ClosedAt(f, GameEnd + 1, "ended", k)
        BY <1>3, <2>1, <2>2, <3>2, <4>1, <4>2, <4>3, Closed
      <4>5. /\ k \in Engine /\ k.resets = f.resets /\ Cut(k.intervals, GameEnd + 1)
            /\ k = [f EXCEPT !.intervals = k.intervals, !.resets = k.resets, !.evidence = {}]
            /\ \A i \in DOMAIN k.intervals :
                  \A v \in k.intervals[i].evidence : v <= k.intervals[i].end
        BY <4>3, <4>4 DEF ClosedAt
      <4>6. /\ k.ancient = f.ancient /\ k.deaths = f.deaths /\ k.buybacks = f.buybacks
            /\ k.towers = f.towers /\ k.raxes = f.raxes
            /\ k.lastEvidence = f.lastEvidence /\ k.second = f.second /\ k.evidence = {}
        BY <1>3, <4>5 DEF Engine
      <4>7. \E end \in Nat : end >= GameEnd + 1 /\ Cut(k.intervals, end)
        BY <4>1, <4>5
      <4>8. QED BY <2>1, <4>5, <4>6, <4>7
    <3>3. QED BY <1>3, <3>1, <3>2
  <2>5. /\ h \in Engine /\ h.ended /\ h.ancient = None /\ h.resets = f.resets
        /\ h.intervals = k.intervals /\ h.deaths = f.deaths /\ h.buybacks = f.buybacks
        /\ h.towers = f.towers /\ h.raxes = f.raxes /\ h.lastEvidence = f.lastEvidence
        /\ h.second = f.second /\ h.evidence \subseteq f.evidence
    <3>1. /\ h \in Engine /\ h.ended /\ h.ancient = k.ancient /\ h.resets = k.resets
          /\ h.intervals = k.intervals /\ h.deaths = k.deaths /\ h.buybacks = k.buybacks
          /\ h.towers = k.towers /\ h.raxes = k.raxes /\ h.lastEvidence = k.lastEvidence
          /\ h.second = k.second /\ h.evidence = k.evidence
      BY <2>3, <2>4 DEF Engine
    <3>2. QED BY <2>4, <3>1
  <2>6. Past(h)
    <3>1. \E end \in Nat : Finished(h, end)
      BY <1>3, <2>4, <2>5 DEF Finished
    <3>2. QED BY <2>4, <2>5, <3>1 DEF Past
  <2>7. Calm(h) /\ Remembered(h)
    BY <1>2, <2>5 DEF Sound, Calm, Remembered
  <2>8. QED BY <2>5, <2>6, <2>7 DEF Sound
<1>6. QED BY <1>4, <1>5

-----------------------------------------------------------------------------
(* The theorems.                                                           *)

\* A new engine has cut nothing and seen nothing.
LEMMA InitInv == Init => Inv
<1> SUFFICES ASSUME Init PROVE Inv
  OBVIOUS
<1>1. GameEnd \in Nat /\ LastSecond \in Nat /\ 0 \in Second
  BY ConstantsAssumption DEF Second
<1>2. /\ e.current = "laning" /\ e.start = 0 /\ e.second = None /\ e.ancient = None
      /\ e.lastEvidence = None /\ e.evidence = {} /\ e.intervals = <<>> /\ e.resets = <<>>
      /\ e.ended = FALSE /\ e.buybacks = [s \in Second |-> 0]
  BY DEF Init, NewEngine
<1>3. e \in Engine
  <2>1. /\ [s \in Second |-> 0] \in [Second -> Nat]
        /\ [s \in Second |-> {}] \in [Second -> SUBSET Hero]
    OBVIOUS
  <2>2. <<>> \in Seq(Interval) /\ <<>> \in Seq(Reset)
    OBVIOUS
  <2>3. QED BY <1>1, <2>1, <2>2 DEF Init, NewEngine, Engine, Moment, Phase
<1>4. Past(e)
  BY <1>2 DEF Past, Cut
<1>5. Calm(e)
  BY <1>2 DEF Calm
<1>6. Remembered(e)
  BY <1>2 DEF Remembered, None
<1>7. Waiting(e)
  BY <1>2 DEF Waiting
<1>8. QED BY <1>3, <1>4, <1>5, <1>6, <1>7 DEF Inv, Sound, Init

\* Every input, the end of the stream and a stutter keep the invariant.
LEMMA NextInv == Inv /\ [Next]_vars => Inv'
<1> SUFFICES ASSUME Inv, [Next]_vars PROVE Inv'
  OBVIOUS
<1>1. ASSUME NEW in \in Input, Feed(in) PROVE Inv'
  <2>1. output' = Pending /\ output = Pending
    BY <1>1 DEF Feed
  <2>2. CASE e.ended
    BY <1>1, <2>1, <2>2 DEF Feed, Inv
  <2>3. CASE ~e.ended
    <3>1. e' = Receive(e, in) /\ e.second <= in.second
      <4>1. in.second \in Int /\ e.second \in Int
        BY DEF Inv, Sound, Engine, Moment, Second, None, Input
      <4>2. QED BY <1>1, <2>3, <4>1 DEF Feed
    <3>2. Sound(e') /\ Waiting(e')
      BY <2>3, <3>1, Received DEF Inv
    <3>3. QED BY <2>1, <3>2 DEF Inv
  <2>4. QED BY <2>2, <2>3
<1>2. CASE End
  <2>1. Sound(e') /\ e'.ended
    <3>1. CASE e.ended
      BY <1>2, <3>1 DEF End, Inv
    <3>2. CASE ~e.ended
      <4>1. e' = CloseAt(e)
        BY <1>2, <3>2 DEF End
      <4>2. QED BY <3>2, <4>1, Concluded DEF Inv
    <3>3. QED BY <3>1, <3>2
  <2>2. output' = [eligible |-> EligibleSeconds(e'), intervals |-> e'.intervals]
    BY <1>2 DEF End
  <2>3. QED BY <2>1, <2>2 DEF Inv
<1>3. CASE UNCHANGED vars
  BY <1>3 DEF vars, Inv
<1>4. QED BY <1>1, <1>2, <1>3 DEF Next

\* The invariant holds in every state.
THEOREM Invariant == Spec => []Inv
BY InitInv, NextInv, PTL DEF Spec

\* The engine's state keeps its shape, whatever the inputs.
THEOREM TypeCorrect == Spec => []TypeOK
<1>1. ASSUME Inv PROVE TypeOK
  <2>1. e \in Engine
    BY <1>1 DEF Inv, Sound
  <2>2. /\ e.current \in Phase /\ e.round \in Nat /\ e.ended \in BOOLEAN
        /\ {e.start, e.second, e.ancient, e.lastEvidence} \subseteq Second \cup {None}
    BY <2>1 DEF Engine, Moment
  <2>3. \A i \in DOMAIN e.intervals : e.intervals[i].phase \in Phase
    <3>1. e.intervals \in Seq(Interval)
      BY <2>1 DEF Engine
    <3>2. \A i \in DOMAIN e.intervals : e.intervals[i] \in Interval
      BY <3>1
    <3>3. QED BY <3>2 DEF Interval
  <2>4. output.eligible \in {None} \cup 1 .. GameEnd + 1
    <3>1. CASE output = Pending
      BY <3>1 DEF Pending
    <3>2. CASE output # Pending
      <4>1. output.eligible = EligibleSeconds(e) /\ e.ancient \in Moment
        BY <1>1, <2>1, <3>2 DEF Inv, Engine
      <4>2. GameEnd \in Nat
        BY ConstantsAssumption
      <4>3. QED BY <4>1, <4>2 DEF EligibleSeconds, Moment, Second
    <3>3. QED BY <3>1, <3>2
  <2>5. QED BY <2>2, <2>3, <2>4 DEF TypeOK
<1>2. QED BY <1>1, Invariant, PTL

\* The phases of a match cover it, up to the second its ancient fell or at
\* least to its last, and are what a review accepts.
THEOREM Covered == Spec => []MatchIsCovered
<1>1. ASSUME Inv PROVE MatchIsCovered
  <2>1. SUFFICES ASSUME output # Pending
        PROVE  IF e.ancient # None THEN Reviewable
               ELSE ValidStream(output.intervals, output.intervals[Len(output.intervals)].end)
                    /\ output.intervals[Len(output.intervals)].end >= output.eligible
    BY DEF MatchIsCovered
  <2>2. /\ e.ended /\ output.eligible = EligibleSeconds(e) /\ output.intervals = e.intervals
        /\ e.ancient \in Moment /\ e.intervals \in Seq(Interval) /\ Past(e)
    BY <1>1, <2>1 DEF Inv, Sound, Engine
  <2>3. PICK end \in Nat : Finished(e, end)
    BY <2>2 DEF Past
  <2>4. ValidStream(e.intervals, end) /\ e.intervals[Len(e.intervals)].end = end
    <3>1. end > 0 /\ Cut(e.intervals, end)
      BY <2>3 DEF Finished
    <3>2. QED BY <2>2, <3>1, CutIsStream
  <2>5. CASE e.ancient # None
    <3>1. end = e.ancient + 1 /\ e.ancient <= GameEnd /\ e.ancient \in Nat /\ GameEnd \in Nat
      BY <2>2, <2>3, <2>5, ConstantsAssumption DEF Finished, Moment, Second
    <3>2. output.eligible = end
      BY <2>2, <2>5, <3>1 DEF EligibleSeconds
    <3>3. QED BY <2>2, <2>4, <2>5, <3>2 DEF Reviewable
  <2>6. CASE e.ancient = None
    <3>1. end >= GameEnd + 1 /\ output.eligible = GameEnd + 1
      BY <2>2, <2>3, <2>6 DEF Finished, EligibleSeconds
    <3>2. QED BY <2>2, <2>4, <2>6, <3>1
  <2>7. QED BY <2>5, <2>6
<1>2. QED BY <1>1, Invariant, PTL

\* No round of any match is called over while anything still happened in it.
THEOREM QuietReset == Spec => []ResetAfterQuiet
<1>1. ASSUME Inv PROVE ResetAfterQuiet
  <2>1. SUFFICES ASSUME NEW i \in DOMAIN e.resets,
                        NEW t \in Stretch(e.resets[i].start - Quiet + 1, e.resets[i].start)
                 PROVE  ~Stirring(t)
    BY DEF ResetAfterQuiet
  <2>2. /\ e.deaths[t] = 0 /\ e.buybacks[t] = 0 /\ t \notin e.towers /\ t \notin e.raxes
    BY <1>1, <2>1 DEF Inv, Sound, Calm
  <2>3. QED BY <2>2 DEF Stirring
<1>2. QED BY <1>1, Invariant, PTL

\* No interval of any match rests on evidence from after its end.
THEOREM Causal == Spec => []NoLookAhead
<1>1. Inv => NoLookAhead
  BY DEF Inv, Sound, Past, NoLookAhead
<1>2. QED BY <1>1, Invariant, PTL
=============================================================================
