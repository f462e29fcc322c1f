--------------------------- MODULE PhaseOps_proofs ---------------------------
(***************************************************************************)
(* Proofs about the edits of a phase stream, for a match of any length:    *)
(* lists of intervals, spliced, do to the line of seconds they stand for   *)
(* what each edit promises.                                                *)
(***************************************************************************)
EXTENDS PhaseOps, SequenceTheorems, WellFoundedInduction, TLAPS

Second == 0 .. Eligible - 1
Holds(iv, s) == iv.start <= s /\ s < iv.end

\* The intervals w divide the seconds from .. to - 1.
Tiles(w, from, to) ==
    /\ w \in Seq(Interval) /\ w # <<>>
    /\ w[1].start = from /\ w[Len(w)].end = to
    /\ \A i \in DOMAIN w : w[i].start < w[i].end
    /\ \A i \in DOMAIN w \ {1} : w[i].start = w[i - 1].end

Tiling(w) == Tiles(w, 0, Eligible)

-----------------------------------------------------------------------------
(* Least and greatest places in a list.                                    *)

\* A set of natural numbers has a least one.
LEMMA LeastOf ==
    ASSUME NEW S \in SUBSET Nat, S # {}
    PROVE  \E m \in S : \A n \in S : m <= n
<1>1. OpToRel(<, Nat) = {ss \in Nat \X Nat : ss[1] < ss[2]}
  BY DEF OpToRel
<1>2. PICK R : R = {ss \in Nat \X Nat : ss[1] < ss[2]} /\ IsWellFoundedOn(R, Nat)
  BY <1>1, NatLessThanWellFounded
<1>3. PICK m \in S : \A n \in S : ~ (<<n, m>> \in R)
  BY <1>2, WFMin
<1>4. ASSUME NEW n \in S PROVE m <= n
  <2>1. m \in Nat /\ n \in Nat
    OBVIOUS
  <2>2. n < m => <<n, m>> \in R
    BY <1>2, <2>1
  <2>3. QED BY <1>3, <2>1, <2>2
<1>5. QED BY <1>4

\* A bounded one has a greatest.
LEMMA GreatestOf ==
    ASSUME NEW top \in Nat, NEW S \in SUBSET (0 .. top), S # {}
    PROVE  \E m \in S : \A n \in S : n <= m
<1>1. PICK M : M = {top - n : n \in S}
  OBVIOUS
<1>2. M \in SUBSET Nat /\ M # {}
  <2>1. ASSUME NEW n \in S PROVE top - n \in Nat
    OBVIOUS
  <2>2. QED BY <1>1, <2>1
<1>3. PICK l \in M : \A k \in M : l <= k
  BY <1>2, LeastOf
<1>4. PICK m \in S : l = top - m
  BY <1>1
<1>5. ASSUME NEW n \in S PROVE n <= m
  <2>1. top - m <= top - n
    BY <1>1, <1>3, <1>4
  <2>2. n \in 0 .. top /\ m \in 0 .. top
    OBVIOUS
  <2>3. QED BY <2>1, <2>2
<1>6. QED BY <1>5

-----------------------------------------------------------------------------
(* Intervals that divide a stretch of seconds.                             *)

\* The places of such a list, and what is at each.
LEMMA Places ==
    ASSUME NEW w, NEW from, NEW to, Tiles(w, from, to)
    PROVE  /\ Len(w) \in Nat \ {0} /\ DOMAIN w = 1 .. Len(w)
           /\ \A i \in DOMAIN w : /\ w[i] \in Interval
                                  /\ w[i].start \in 0 .. Eligible /\ w[i].end \in 0 .. Eligible
                                  /\ w[i].start \in Nat /\ w[i].end \in Nat
                                  /\ w[i].phase \in Phase
                                  /\ w[i].start < w[i].end
           /\ from \in Nat /\ to \in Nat
<1>1. w \in Seq(Interval) /\ w # <<>>
  BY DEF Tiles
<1>2. Len(w) \in Nat \ {0} /\ DOMAIN w = 1 .. Len(w)
  BY <1>1
<1>3. ASSUME NEW i \in DOMAIN w
      PROVE  /\ w[i] \in Interval
             /\ w[i].start \in 0 .. Eligible /\ w[i].end \in 0 .. Eligible
             /\ w[i].phase \in Phase
  <2>1. w[i] \in Interval
    BY <1>1, <1>2
  <2>2. QED BY <2>1 DEF Interval
<1>4. \A i \in DOMAIN w : w[i].start < w[i].end
  BY DEF Tiles
<1>5. 0 .. Eligible \subseteq Nat
  BY EditConstants
<1>6. 1 \in DOMAIN w /\ Len(w) \in DOMAIN w
  BY <1>2
<1>7. from = w[1].start /\ to = w[Len(w)].end
  BY DEF Tiles
<1>8. QED BY <1>2, <1>3, <1>4, <1>5, <1>6, <1>7

\* An interval ends before any later one starts.
LEMMA Ordered ==
    ASSUME NEW w, NEW from, NEW to, Tiles(w, from, to)
    PROVE  /\ \A i, k \in DOMAIN w : i < k => w[i].end <= w[k].start /\ w[i].start < w[k].start
           /\ \A i, k \in DOMAIN w : i <= k => w[i].start <= w[k].start /\ w[i].end <= w[k].end
<1>1. /\ Len(w) \in Nat \ {0} /\ DOMAIN w = 1 .. Len(w)
      /\ \A i \in DOMAIN w : w[i].start \in Nat /\ w[i].end \in Nat /\ w[i].start < w[i].end
  BY Places
<1>2. \A i \in DOMAIN w \ {1} : w[i].start = w[i - 1].end
  BY DEF Tiles
<1>3. ASSUME NEW i \in DOMAIN w, NEW k \in DOMAIN w, i < k PROVE w[i].end <= w[k].start
  <2>1. PICK S : S = {j \in DOMAIN w : i < j /\ w[j].start < w[i].end}
    OBVIOUS
  <2>2. SUFFICES ASSUME S # {} PROVE FALSE
    <3>1. w[i].end \in Nat /\ w[k].start \in Nat
      BY <1>1
    <3>2. S = {} => ~(w[k].start < w[i].end)
      BY <2>1, <1>3
    <3>3. QED BY <3>1, <3>2
  <2>3. S \in SUBSET Nat
    BY <2>1, <1>1
  <2>4. PICK j \in S : \A l \in S : j <= l
    BY <2>2, <2>3, LeastOf
  <2>5. j \in DOMAIN w /\ i < j /\ w[j].start < w[i].end
    BY <2>1
  <2>6. j - 1 \in DOMAIN w /\ j # 1 /\ j - 1 >= i
    BY <2>5, <1>1
  <2>7. w[j].start = w[j - 1].end
    BY <1>2, <2>5, <2>6
  <2>8. CASE j - 1 = i
    BY <2>5, <2>7, <2>8, <1>1
  <2>9. CASE j - 1 > i
    <3>1. j - 1 \notin S
      BY <2>4, <2>5, <1>1
    <3>2. ~(w[j - 1].start < w[i].end)
      BY <3>1, <2>1, <2>6, <2>9
    <3>3. /\ w[j - 1].start \in Nat /\ w[j - 1].end \in Nat /\ w[j - 1].start < w[j - 1].end
          /\ w[i].end \in Nat /\ w[j].start \in Nat
      BY <1>1, <2>6, <2>5
    <3>4. QED BY <3>2, <3>3, <2>5, <2>7
  <2>10. QED BY <2>6, <2>8, <2>9, <1>1
<1>4. ASSUME NEW i \in DOMAIN w, NEW k \in DOMAIN w, i < k
      PROVE  w[i].start < w[k].start /\ w[i].end < w[k].end
  <2>1. /\ w[i].start \in Nat /\ w[i].end \in Nat /\ w[i].start < w[i].end
        /\ w[k].start \in Nat /\ w[k].end \in Nat /\ w[k].start < w[k].end
    BY <1>1
  <2>2. w[i].end <= w[k].start
    BY <1>3, <1>4
  <2>3. QED BY <2>1, <2>2
<1>5. ASSUME NEW i \in DOMAIN w, NEW k \in DOMAIN w, i <= k
      PROVE  w[i].start <= w[k].start /\ w[i].end <= w[k].end
  <2>1. i = k \/ i < k
    BY <1>5, <1>1
  <2>2. /\ w[i].start \in Nat /\ w[i].end \in Nat
        /\ w[k].start \in Nat /\ w[k].end \in Nat
    BY <1>1
  <2>3. CASE i = k
    BY <2>2, <2>3
  <2>4. CASE i < k
    <3>1. w[i].start < w[k].start /\ w[i].end < w[k].end
      BY <1>4, <2>4
    <3>2. QED BY <3>1, <2>2
  <2>5. QED BY <2>1, <2>3, <2>4
<1>6. QED BY <1>3, <1>4, <1>5

\* One interval holds a second of the stretch, and no other does.
LEMMA OneHolds ==
    ASSUME NEW w, NEW from, NEW to, Tiles(w, from, to)
    PROVE  /\ \A s \in Nat : from <= s /\ s < to => \E i \in DOMAIN w : Holds(w[i], s)
           /\ \A s \in Nat : \A i, k \in DOMAIN w : Holds(w[i], s) /\ Holds(w[k], s) => i = k
<1>1. /\ Len(w) \in Nat \ {0} /\ DOMAIN w = 1 .. Len(w)
      /\ \A i \in DOMAIN w : w[i].start \in Nat /\ w[i].end \in Nat
  BY Places
<1>2. /\ w[1].start = from /\ w[Len(w)].end = to
      /\ \A i \in DOMAIN w \ {1} : w[i].start = w[i - 1].end
  BY DEF Tiles
<1>3. ASSUME NEW s \in Nat, from <= s, s < to PROVE \E i \in DOMAIN w : Holds(w[i], s)
  <2>1. PICK S : S = {i \in DOMAIN w : s < w[i].end}
    OBVIOUS
  <2>2. Len(w) \in S /\ S \in SUBSET Nat
    BY <2>1, <1>1, <1>2, <1>3
  <2>3. PICK i \in S : \A l \in S : i <= l
    BY <2>2, LeastOf
  <2>4. i \in DOMAIN w /\ s < w[i].end
    BY <2>1
  <2>5. CASE i = 1
    BY <2>4, <2>5, <1>2, <1>3 DEF Holds
  <2>6. CASE i # 1
    <3>1. i - 1 \in DOMAIN w /\ i - 1 \notin S
      BY <2>3, <2>4, <2>6, <1>1
    <3>2. ~(s < w[i - 1].end) /\ w[i - 1].end \in Nat
      BY <3>1, <2>1, <1>1
    <3>3. w[i].start = w[i - 1].end
      BY <2>4, <2>6, <1>2
    <3>4. w[i].start <= s
      BY <3>2, <3>3
    <3>5. QED BY <3>4, <2>4 DEF Holds
  <2>7. QED BY <2>5, <2>6
<1>4. ASSUME NEW s \in Nat, NEW i \in DOMAIN w, NEW k \in DOMAIN w,
             Holds(w[i], s), Holds(w[k], s), i < k
      PROVE  FALSE
  <2>1. w[i].end <= w[k].start
    BY <1>4, Ordered
  <2>2. w[i].end \in Nat /\ w[k].start \in Nat
    BY <1>1
  <2>3. QED BY <2>1, <2>2, <1>4 DEF Holds
<1>5. ASSUME NEW s \in Nat, NEW i \in DOMAIN w, NEW k \in DOMAIN w, Holds(w[i], s), Holds(w[k], s)
      PROVE  i = k
  <2>1. i \in Nat /\ k \in Nat
    BY <1>1
  <2>2. i < k \/ k < i \/ i = k
    BY <2>1
  <2>3. QED BY <2>2, <1>4, <1>5
<1>6. QED BY <1>3, <1>5

\* The phase of a second is that of the interval that holds it.
LEMMA PhaseIs ==
    ASSUME NEW w, NEW from, NEW to, Tiles(w, from, to),
           NEW i \in DOMAIN w, NEW s \in Nat, Holds(w[i], s)
    PROVE  PhaseAt(w, s) = w[i].phase
<1>1. PICK all : all = {w[k] : k \in DOMAIN w}
  OBVIOUS
<1>2. \A iv \in all : iv.start <= s /\ s < iv.end => iv = w[i]
  BY <1>1, OneHolds DEF Holds
<1>3. w[i] \in all /\ w[i].start <= s /\ s < w[i].end
  BY <1>1 DEF Holds
<1>4. (CHOOSE iv \in all : iv.start <= s /\ s < iv.end) = w[i]
  BY <1>2, <1>3
<1>5. QED BY <1>4, <1>1 DEF PhaseAt

-----------------------------------------------------------------------------
(* Splicing.                                                               *)

\* What is where in v: a list w of n intervals, its places a to b replaced by m parts.
Replaced(v, w, a, b, parts, n, m) ==
    /\ v \in Seq(Interval) /\ Len(v) = a - 1 + m + n - b
    /\ \A k \in 1 .. (a - 1) : v[k] = w[k]
    /\ \A k \in 1 .. m : v[a - 1 + k] = parts[k]
    /\ \A k \in (b + 1) .. n : v[a - 1 + m + k - b] = w[k]

LEMMA SpliceIs ==
    ASSUME NEW w \in Seq(Interval), NEW parts \in Seq(Interval),
           NEW n, n = Len(w), NEW m, m = Len(parts),
           NEW a \in 1 .. n, NEW b \in 1 .. n, a <= b,
           NEW v, v = Splice(w, a, b, parts)
    PROVE  Replaced(v, w, a, b, parts, n, m)
<1>3. n \in Nat /\ m \in Nat /\ a \in 1 .. n /\ b \in 1 .. n
  OBVIOUS
<1>4. PICK l : l = SubSeq(w, 1, a - 1)
  OBVIOUS
<1>5. PICK t : t = SubSeq(w, b + 1, n)
  OBVIOUS
<1>6. l \in Seq(Interval) /\ Len(l) = a - 1 /\ \A k \in 1 .. (a - 1) : l[k] = w[k]
  <2>1. \A k \in 1 .. (a - 1) : w[k] \in Interval
    BY <1>3
  <2>2. QED BY <1>3, <1>4, <2>1, SubSeqProperties
<1>7. t \in Seq(Interval) /\ Len(t) = n - b /\ \A k \in 1 .. (n - b) : t[k] = w[b + k]
  <2>1. \A k \in (b + 1) .. n : w[k] \in Interval
    BY <1>3
  <2>2. QED BY <1>3, <1>5, <2>1, SubSeqProperties
<1>8. PICK lp : lp = l \o parts
  OBVIOUS
<1>9. /\ lp \in Seq(Interval) /\ Len(lp) = a - 1 + m
      /\ \A k \in 1 .. (a - 1 + m) : lp[k] = IF k <= a - 1 THEN l[k] ELSE parts[k - (a - 1)]
  <2>1. l \in Seq(Interval)
    BY <1>6
  <2>2. /\ lp \in Seq(Interval) /\ Len(lp) = Len(l) + Len(parts)
        /\ \A k \in 1 .. (Len(l) + Len(parts)) :
               lp[k] = IF k <= Len(l) THEN l[k] ELSE parts[k - Len(l)]
    BY <1>8, <2>1, ConcatProperties
  <2>3. Len(l) = a - 1 /\ Len(parts) = m
    BY <1>6
  <2>4. QED BY <2>2, <2>3
<1>10. v = lp \o t
  BY <1>4, <1>5, <1>8 DEF Splice
<1>11. /\ v \in Seq(Interval) /\ Len(v) = a - 1 + m + (n - b)
       /\ \A k \in 1 .. (a - 1 + m + (n - b)) :
              v[k] = IF k <= a - 1 + m THEN lp[k] ELSE t[k - (a - 1 + m)]
  <2>1. lp \in Seq(Interval) /\ t \in Seq(Interval)
    BY <1>7, <1>9
  <2>2. /\ v \in Seq(Interval) /\ Len(v) = Len(lp) + Len(t)
        /\ \A k \in 1 .. (Len(lp) + Len(t)) :
               v[k] = IF k <= Len(lp) THEN lp[k] ELSE t[k - Len(lp)]
    BY <1>10, <2>1, ConcatProperties
  <2>3. Len(lp) = a - 1 + m /\ Len(t) = n - b
    BY <1>7, <1>9
  <2>4. QED BY <2>2, <2>3
<1>13. ASSUME NEW k \in 1 .. (a - 1) PROVE v[k] = w[k]
  <2>1. k \in 1 .. (a - 1 + m) /\ k \in 1 .. (a - 1 + m + (n - b)) /\ k <= a - 1 /\ k <= a - 1 + m
    BY <1>3
  <2>2. v[k] = lp[k] /\ lp[k] = l[k] /\ l[k] = w[k]
    BY <2>1, <1>6, <1>9, <1>11
  <2>3. QED BY <2>2
<1>14. ASSUME NEW k \in 1 .. m PROVE v[a - 1 + k] = parts[k]
  <2>1. PICK q : q = a - 1 + k
    OBVIOUS
  <2>2. /\ q \in 1 .. (a - 1 + m) /\ q \in 1 .. (a - 1 + m + (n - b)) /\ ~(q <= a - 1)
        /\ q <= a - 1 + m /\ q - (a - 1) = k
    BY <1>3, <2>1
  <2>3. v[q] = lp[q] /\ lp[q] = parts[q - (a - 1)]
    BY <2>2, <1>9, <1>11
  <2>4. QED BY <2>1, <2>2, <2>3
<1>15. ASSUME NEW k \in (b + 1) .. n PROVE v[a - 1 + m + k - b] = w[k]
  <2>1. PICK q : q = a - 1 + m + k - b
    OBVIOUS
  <2>2. /\ q \in 1 .. (a - 1 + m + (n - b)) /\ ~(q <= a - 1 + m)
        /\ q - (a - 1 + m) = k - b /\ k - b \in 1 .. (n - b) /\ b + (k - b) = k
    BY <1>3, <2>1
  <2>3. v[q] = t[k - b] /\ t[k - b] = w[b + (k - b)]
    BY <2>2, <1>7, <1>11
  <2>4. QED BY <2>1, <2>2, <2>3
<1>16. Len(v) = a - 1 + m + n - b
  BY <1>3, <1>11
<1>17. QED BY <1>11, <1>13, <1>14, <1>15, <1>16 DEF Replaced

\* A stretch of a tiling may be divided anew.
LEMMA SplicedTiles ==
    ASSUME NEW w, NEW from, NEW to, Tiles(w, from, to),
           NEW a \in DOMAIN w, NEW b \in DOMAIN w, a <= b,
           NEW parts, Tiles(parts, w[a].start, w[b].end)
    PROVE  Tiles(Splice(w, a, b, parts), from, to)
<1>1. PICK n : n = Len(w)
  OBVIOUS
<1>2. PICK m : m = Len(parts)
  OBVIOUS
<1>3. /\ n \in Nat \ {0} /\ m \in Nat \ {0} /\ DOMAIN w = 1 .. n /\ DOMAIN parts = 1 .. m
      /\ a \in 1 .. n /\ b \in 1 .. n
  BY <1>1, <1>2, Places
<1>4. w \in Seq(Interval) /\ parts \in Seq(Interval)
  BY DEF Tiles
<1>5. PICK v : v = Splice(w, a, b, parts)
  OBVIOUS
<1>6. /\ v \in Seq(Interval) /\ Len(v) = a - 1 + m + n - b
      /\ \A k \in 1 .. (a - 1) : v[k] = w[k]
      /\ \A k \in 1 .. m : v[a - 1 + k] = parts[k]
      /\ \A k \in (b + 1) .. n : v[a - 1 + m + k - b] = w[k]
  <2>1. a \in 1 .. n /\ b \in 1 .. n
    BY <1>3
  <2>2. Replaced(v, w, a, b, parts, n, m)
    BY <1>1, <1>2, <2>1, <1>4, <1>5, SpliceIs
  <2>3. QED BY <2>2 DEF Replaced
<1>7. /\ w[1].start = from /\ w[n].end = to
      /\ \A i \in 1 .. n : w[i].start < w[i].end
      /\ \A i \in 2 .. n : w[i].start = w[i - 1].end
  <2>1. \A i \in 2 .. n : i \in DOMAIN w \ {1}
    BY <1>3
  <2>2. QED BY <1>1, <1>3, <2>1 DEF Tiles
<1>8. /\ parts[1].start = w[a].start /\ parts[m].end = w[b].end
      /\ \A i \in 1 .. m : parts[i].start < parts[i].end
      /\ \A i \in 2 .. m : parts[i].start = parts[i - 1].end
  <2>1. \A i \in 2 .. m : i \in DOMAIN parts \ {1}
    BY <1>3
  <2>2. QED BY <1>2, <1>3, <2>1 DEF Tiles
<1>9. DOMAIN v = 1 .. (a - 1 + m + n - b) /\ a - 1 + m + n - b >= 1
  BY <1>3, <1>6
<1>10. v # <<>>
  BY <1>6, <1>9
<1>11. v[1].start = from
  <2>1. CASE a = 1
    <3>1. v[a - 1 + 1] = parts[1] /\ a - 1 + 1 = 1
      BY <1>3, <1>6, <2>1
    <3>2. QED BY <3>1, <2>1, <1>7, <1>8
  <2>2. CASE a # 1
    <3>1. 1 \in 1 .. (a - 1)
      BY <1>3, <2>2
    <3>2. QED BY <3>1, <1>6, <1>7
  <2>3. QED BY <2>1, <2>2
<1>12. v[Len(v)].end = to
  <2>1. CASE b = n
    <3>1. v[a - 1 + m] = parts[m] /\ Len(v) = a - 1 + m
      BY <1>3, <1>6, <2>1
    <3>2. QED BY <3>1, <2>1, <1>7, <1>8
  <2>2. CASE b # n
    <3>1. n \in (b + 1) .. n
      BY <1>3, <2>2
    <3>2. v[a - 1 + m + n - b] = w[n]
      BY <3>1, <1>6
    <3>3. QED BY <3>2, <1>6, <1>7
  <2>3. QED BY <2>1, <2>2
<1>13. ASSUME NEW k \in DOMAIN v
       PROVE  /\ v[k].start < v[k].end
              /\ k # 1 => v[k].start = v[k - 1].end
  <2>1. k \in 1 .. (a - 1 + m + n - b)
    BY <1>9
  <2>2. CASE k <= a - 1
    <3>1. k \in 1 .. (a - 1) /\ k \in 1 .. n
      BY <2>1, <2>2, <1>3
    <3>2. k # 1 => k - 1 \in 1 .. (a - 1) /\ k \in 2 .. n
      BY <3>1, <1>3
    <3>3. v[k] = w[k] /\ (k # 1 => v[k - 1] = w[k - 1])
      BY <3>1, <3>2, <1>6
    <3>4. QED BY <3>1, <3>2, <3>3, <1>7
  <2>3. CASE a <= k /\ k <= a - 1 + m
    <3>1. PICK q : q = k - (a - 1)
      OBVIOUS
    <3>2. q \in 1 .. m /\ a - 1 + q = k
      BY <2>1, <2>3, <1>3, <3>1
    <3>3. v[k] = parts[q]
      <4>1. v[a - 1 + q] = parts[q]
        BY <3>2, <1>6
      <4>2. QED BY <4>1, <3>2
    <3>4. ASSUME k # 1 PROVE v[k].start = v[k - 1].end
      <4>1. CASE q = 1
        <5>1. a - 1 \in 1 .. (a - 1) /\ a \in 2 .. n /\ k = a
          BY <4>1, <3>2, <3>4, <1>3
        <5>2. v[a - 1] = w[a - 1]
          BY <5>1, <1>6
        <5>3. QED BY <5>1, <5>2, <3>3, <4>1, <1>7, <1>8
      <4>2. CASE q # 1
        <5>1. q - 1 \in 1 .. m /\ q \in 2 .. m /\ a - 1 + (q - 1) = k - 1
          BY <4>2, <3>2, <1>3
        <5>2. v[a - 1 + (q - 1)] = parts[q - 1]
          BY <5>1, <1>6
        <5>3. QED BY <5>1, <5>2, <3>3, <1>8
      <4>3. QED BY <4>1, <4>2
    <3>5. QED BY <3>2, <3>3, <3>4, <1>8
  <2>4. CASE k > a - 1 + m
    <3>1. PICK q : q = k - (a - 1 + m) + b
      OBVIOUS
    <3>2. q \in (b + 1) .. n /\ a - 1 + m + q - b = k /\ q \in 2 .. n
      BY <2>1, <2>4, <1>3, <3>1
    <3>3. v[k] = w[q]
      <4>1. v[a - 1 + m + q - b] = w[q]
        BY <3>2, <1>6
      <4>2. QED BY <4>1, <3>2
    <3>4. v[k].start = v[k - 1].end
      <4>1. CASE q = b + 1
        <5>1. k - 1 = a - 1 + m /\ q - 1 = b
          <6>1. q = b + 1 /\ b \in Int
            BY <4>1, <1>3
          <6>2. k \in Int /\ k = a - 1 + m + (b + 1) - b
            BY <6>1, <3>2, <2>1
          <6>3. QED BY <6>1, <6>2, <1>3
        <5>2. v[a - 1 + m] = parts[m]
          BY <1>3, <1>6
        <5>3. QED BY <5>1, <5>2, <3>2, <3>3, <1>7, <1>8
      <4>2. CASE q # b + 1
        <5>1. q - 1 \in (b + 1) .. n /\ a - 1 + m + (q - 1) - b = k - 1
          <6>1. q \in Int /\ q > b + 1 /\ q <= n
            BY <4>2, <3>2, <1>3
          <6>2. k \in Int /\ a - 1 + m + q - b = k
            BY <3>2, <2>1
          <6>3. QED BY <6>1, <6>2, <1>3
        <5>2. v[a - 1 + m + (q - 1) - b] = w[q - 1]
          BY <5>1, <1>6
        <5>3. QED BY <5>1, <5>2, <3>2, <3>3, <1>7
      <4>3. QED BY <4>1, <4>2
    <3>5. QED BY <3>2, <3>3, <3>4, <1>7
  <2>5. QED BY <2>1, <2>2, <2>3, <2>4, <1>3
<1>14. QED BY <1>5, <1>6, <1>10, <1>11, <1>12, <1>13 DEF Tiles

\* Outside of it the seconds keep their phases, inside they have those of the parts.
LEMMA SplicedLine ==
    ASSUME NEW w, NEW from, NEW to, Tiles(w, from, to),
           NEW a \in DOMAIN w, NEW b \in DOMAIN w, a <= b,
           NEW parts, Tiles(parts, w[a].start, w[b].end),
           NEW s \in Nat, from <= s, s < to
    PROVE  PhaseAt(Splice(w, a, b, parts), s) =
               IF w[a].start <= s /\ s < w[b].end THEN PhaseAt(parts, s) ELSE PhaseAt(w, s)
<1>1. PICK n : n = Len(w)
  OBVIOUS
<1>2. PICK m : m = Len(parts)
  OBVIOUS
<1>3. /\ n \in Nat \ {0} /\ m \in Nat \ {0} /\ DOMAIN w = 1 .. n /\ DOMAIN parts = 1 .. m
      /\ a \in 1 .. n /\ b \in 1 .. n
      /\ \A i \in 1 .. n : w[i].start \in Nat /\ w[i].end \in Nat
  BY <1>1, <1>2, Places
<1>4. w \in Seq(Interval) /\ parts \in Seq(Interval)
  BY DEF Tiles
<1>5. PICK v : v = Splice(w, a, b, parts)
  OBVIOUS
<1>6. /\ v \in Seq(Interval) /\ Len(v) = a - 1 + m + n - b
      /\ \A k \in 1 .. (a - 1) : v[k] = w[k]
      /\ \A k \in 1 .. m : v[a - 1 + k] = parts[k]
      /\ \A k \in (b + 1) .. n : v[a - 1 + m + k - b] = w[k]
  <2>1. a \in 1 .. n /\ b \in 1 .. n
    BY <1>3
  <2>2. Replaced(v, w, a, b, parts, n, m)
    BY <1>1, <1>2, <2>1, <1>4, <1>5, SpliceIs
  <2>3. QED BY <2>2 DEF Replaced
<1>7. Tiles(v, from, to)
  BY <1>5, SplicedTiles
<1>8. DOMAIN v = 1 .. (a - 1 + m + n - b)
  BY <1>6
<1>9. CASE w[a].start <= s /\ s < w[b].end
  <2>1. PICK q \in DOMAIN parts : Holds(parts[q], s)
    BY <1>9, OneHolds
  <2>2. q \in 1 .. m /\ a - 1 + q \in DOMAIN v
    BY <2>1, <1>3, <1>8
  <2>3. v[a - 1 + q] = parts[q]
    BY <2>2, <1>6
  <2>4. PhaseAt(v, s) = parts[q].phase /\ PhaseAt(parts, s) = parts[q].phase
    <3>1. PhaseAt(parts, s) = parts[q].phase
      BY <2>1, PhaseIs
    <3>2. PhaseAt(v, s) = v[a - 1 + q].phase
      BY <2>1, <2>2, <2>3, <1>7, PhaseIs
    <3>3. QED BY <3>1, <3>2, <2>3
  <2>5. QED BY <2>4, <1>5, <1>9
<1>10. CASE ~(w[a].start <= s /\ s < w[b].end)
  <2>1. PICK i \in DOMAIN w : Holds(w[i], s)
    BY OneHolds
  <2>2. PhaseAt(w, s) = w[i].phase
    BY <2>1, PhaseIs
  <2>3. i \in 1 .. n /\ w[i].start <= s /\ s < w[i].end
    BY <2>1, <1>3 DEF Holds
  <2>4. i < a \/ i > b
    <3>1. SUFFICES ASSUME a <= i, i <= b PROVE FALSE
      BY <2>3, <1>3
    <3>2. w[a].start <= w[i].start /\ w[i].end <= w[b].end
      BY <3>1, Ordered
    <3>3. QED BY <3>2, <2>3, <1>3, <1>10
  <2>5. PICK k \in DOMAIN v : v[k] = w[i]
    <3>1. CASE i < a
      <4>1. i \in 1 .. (a - 1) /\ i \in DOMAIN v
        BY <3>1, <2>3, <1>3, <1>8
      <4>2. QED BY <4>1, <1>6
    <3>2. CASE i > b
      <4>1. i \in Int /\ a \in Int /\ b \in Int /\ m \in Int /\ n \in Int
        BY <2>3, <1>3
      <4>2. i \in (b + 1) .. n
        BY <3>2, <2>3, <4>1
      <4>3. a - 1 + m + i - b \in 1 .. (a - 1 + m + n - b)
        BY <4>1, <4>2, <1>3
      <4>4. QED BY <4>2, <4>3, <1>6, <1>8
    <3>3. QED BY <2>4, <3>1, <3>2
  <2>6. PhaseAt(v, s) = w[i].phase
    BY <2>1, <2>5, <1>7, PhaseIs
  <2>7. QED BY <2>2, <2>6, <1>5, <1>10
<1>11. QED BY <1>9, <1>10

\* The cuts within it are those of the parts.
LEMMA SplicedStarts ==
    ASSUME NEW w, NEW from, NEW to, Tiles(w, from, to),
           NEW a \in DOMAIN w, NEW b \in DOMAIN w, a <= b,
           NEW parts, Tiles(parts, w[a].start, w[b].end)
    PROVE  StartsOf(Splice(w, a, b, parts)) =
               {d \in StartsOf(w) : d < w[a].start \/ d >= w[b].end} \cup StartsOf(parts)
<1>1. PICK n : n = Len(w)
  OBVIOUS
<1>2. PICK m : m = Len(parts)
  OBVIOUS
<1>3. /\ n \in Nat \ {0} /\ m \in Nat \ {0} /\ DOMAIN w = 1 .. n /\ DOMAIN parts = 1 .. m
      /\ a \in 1 .. n /\ b \in 1 .. n
      /\ \A i \in 1 .. n : w[i].start \in Nat /\ w[i].end \in Nat /\ w[i].start < w[i].end
  BY <1>1, <1>2, Places
<1>4. w \in Seq(Interval) /\ parts \in Seq(Interval)
  BY DEF Tiles
<1>5. PICK v : v = Splice(w, a, b, parts)
  OBVIOUS
<1>6. /\ v \in Seq(Interval) /\ Len(v) = a - 1 + m + n - b
      /\ \A k \in 1 .. (a - 1) : v[k] = w[k]
      /\ \A k \in 1 .. m : v[a - 1 + k] = parts[k]
      /\ \A k \in (b + 1) .. n : v[a - 1 + m + k - b] = w[k]
  <2>1. a \in 1 .. n /\ b \in 1 .. n
    BY <1>3
  <2>2. Replaced(v, w, a, b, parts, n, m)
    BY <1>1, <1>2, <2>1, <1>4, <1>5, SpliceIs
  <2>3. QED BY <2>2 DEF Replaced
<1>7. DOMAIN v = 1 .. (a - 1 + m + n - b)
  BY <1>6
<1>8. PICK kept : kept = {d \in StartsOf(w) : d < w[a].start \/ d >= w[b].end}
  OBVIOUS
<1>9. ASSUME NEW k \in DOMAIN v PROVE v[k].start \in kept \cup StartsOf(parts)
  <2>1. k \in 1 .. (a - 1 + m + n - b)
    BY <1>7
  <2>2. CASE k <= a - 1
    <3>1. k \in 1 .. (a - 1) /\ k \in 1 .. n /\ k < a
      BY <2>1, <2>2, <1>3
    <3>2. v[k].start = w[k].start /\ w[k].start \in StartsOf(w)
      BY <3>1, <1>3, <1>6 DEF StartsOf
    <3>3. w[k].start < w[a].start
      BY <3>1, <1>3, Ordered
    <3>4. QED BY <3>2, <3>3, <1>8
  <2>3. CASE a <= k /\ k <= a - 1 + m
    <3>1. PICK q : q = k - (a - 1)
      OBVIOUS
    <3>2. q \in 1 .. m /\ a - 1 + q = k
      BY <2>1, <2>3, <1>3, <3>1
    <3>3. v[a - 1 + q] = parts[q]
      BY <3>2, <1>6
    <3>4. v[k].start = parts[q].start
      BY <3>2, <3>3
    <3>5. QED BY <3>2, <3>4, <1>3 DEF StartsOf
  <2>4. CASE k > a - 1 + m
    <3>1. PICK q : q = k - (a - 1 + m) + b
      OBVIOUS
    <3>2. q \in (b + 1) .. n /\ a - 1 + m + q - b = k /\ q \in 1 .. n /\ b < q
      <4>1. k \in Int /\ a \in Int /\ b \in Nat /\ m \in Int /\ n \in Int
        BY <2>1, <1>3
      <4>2. q \in Int /\ a - 1 + m + q - b = k
        BY <4>1, <3>1
      <4>3. b < q /\ q <= n
        BY <4>1, <2>1, <2>4, <3>1
      <4>4. QED BY <4>1, <4>2, <4>3
    <3>3. v[a - 1 + m + q - b] = w[q]
      BY <3>2, <1>6
    <3>4. v[k].start = w[q].start /\ w[q].start \in StartsOf(w)
      BY <3>2, <3>3, <1>3 DEF StartsOf
    <3>5. w[b].end <= w[q].start
      BY <3>2, <1>3, Ordered
    <3>6. w[q].start >= w[b].end
      BY <3>5, <3>2, <1>3
    <3>7. QED BY <3>4, <3>6, <1>8
  <2>5. QED BY <2>1, <2>2, <2>3, <2>4, <1>3
<1>10. ASSUME NEW d \in kept PROVE d \in StartsOf(v)
  <2>1. PICK i \in 1 .. n : d = w[i].start
    BY <1>3, <1>8 DEF StartsOf
  <2>2. d < w[a].start \/ d >= w[b].end
    BY <1>8
  <2>3. CASE d < w[a].start
    <3>1. i < a
      <4>1. SUFFICES ASSUME a <= i PROVE FALSE
        BY <1>3
      <4>2. w[a].start <= w[i].start
        BY <4>1, <1>3, Ordered
      <4>3. QED BY <4>2, <2>1, <2>3, <1>3
    <3>2. i \in 1 .. (a - 1) /\ i \in DOMAIN v
      BY <3>1, <1>3, <1>7
    <3>3. QED BY <3>2, <2>1, <1>6 DEF StartsOf
  <2>4. CASE d >= w[b].end
    <3>1. i > b
      <4>1. SUFFICES ASSUME i <= b PROVE FALSE
        BY <1>3
      <4>2. w[i].start <= w[b].start
        BY <4>1, <1>3, Ordered
      <4>3. QED BY <4>2, <2>1, <2>4, <1>3
    <3>2. i \in (b + 1) .. n /\ a - 1 + m + i - b \in DOMAIN v
      BY <3>1, <1>3, <1>7
    <3>3. v[a - 1 + m + i - b] = w[i]
      BY <3>2, <1>6
    <3>4. QED BY <3>2, <3>3, <2>1 DEF StartsOf
  <2>5. QED BY <2>2, <2>3, <2>4
<1>11. ASSUME NEW q \in 1 .. m PROVE parts[q].start \in StartsOf(v)
  <2>1. v[a - 1 + q] = parts[q] /\ a - 1 + q \in DOMAIN v
    BY <1>3, <1>6, <1>7
  <2>2. QED BY <2>1 DEF StartsOf
<1>12. StartsOf(v) \subseteq kept \cup StartsOf(parts)
  BY <1>9 DEF StartsOf
<1>13. kept \cup StartsOf(parts) \subseteq StartsOf(v)
  <2>1. StartsOf(parts) \subseteq StartsOf(v)
    BY <1>3, <1>11 DEF StartsOf
  <2>2. kept \subseteq StartsOf(v)
    BY <1>10
  <2>3. QED BY <2>1, <2>2
<1>14. StartsOf(v) = kept \cup StartsOf(parts)
  BY <1>12, <1>13
<1>15. QED BY <1>5, <1>8, <1>14

-----------------------------------------------------------------------------
(* Valid streams.                                                          *)

\* Laning was left at one of the intervals and taken up again at a later one.
Retaken(w) ==
    \E i, j, k \in DOMAIN w :
        /\ i < j /\ j < k
        /\ w[i].phase = "laning" /\ w[j].phase # "laning" /\ w[k].phase = "laning"

\* validateStream asks for a tiling that does not take up laning again.
LEMMA ValidIs ==
    ASSUME NEW w \in Seq(Interval)
    PROVE  ValidStream(w, Eligible) <=> Tiling(w) /\ ~Retaken(w)
<1>1. \A i \in DOMAIN w : w[i].phase \in Phase
  <2>1. \A i \in DOMAIN w : w[i] \in Interval
    OBVIOUS
  <2>2. QED BY <2>1 DEF Interval
<1>2. QED BY <1>1 DEF ValidStream, Tiling, Tiles, Retaken

\* The line of a tiling.
LEMMA LineIs ==
    ASSUME NEW w, Tiling(w)
    PROVE  /\ \A s \in Second : \A i \in DOMAIN w :
                  Holds(w[i], s) => LineOf(w)[s] = w[i].phase
           /\ \A s \in Second : \E i \in DOMAIN w : Holds(w[i], s)
           /\ LineOf(w) \in [Second -> Phase]
<1>1. Tiles(w, 0, Eligible) /\ Second \subseteq Nat /\ \A s \in Second : 0 <= s /\ s < Eligible
  BY EditConstants DEF Tiling, Second
<1>2. \A s \in Second : LineOf(w)[s] = PhaseAt(w, s)
  BY DEF LineOf, Second
<1>3. \A s \in Second : \E i \in DOMAIN w : Holds(w[i], s)
  BY <1>1, OneHolds
<1>4. \A s \in Second : \A i \in DOMAIN w : Holds(w[i], s) => LineOf(w)[s] = w[i].phase
  BY <1>1, <1>2, PhaseIs
<1>5. \A i \in DOMAIN w : w[i].phase \in Phase
  BY <1>1, Places
<1>6. \A s \in Second : LineOf(w)[s] \in Phase
  BY <1>3, <1>4, <1>5
<1>7. QED BY <1>3, <1>4, <1>6 DEF LineOf, Second

\* Laning is taken up again on the line if it is in the list.
LEMMA LaningIs ==
    ASSUME NEW w, Tiling(w)
    PROVE  Retaken(w) <=> Line!LaningReturns(LineOf(w))
<1>1. /\ Tiles(w, 0, Eligible) /\ Second \subseteq Nat
      /\ \A i \in DOMAIN w : /\ w[i].start \in Nat /\ w[i].end \in 0 .. Eligible
                             /\ w[i].start < w[i].end
      /\ DOMAIN w \subseteq Nat
  <2>1. Tiles(w, 0, Eligible)
    BY DEF Tiling
  <2>2. QED BY <2>1, Places DEF Second
<1>2. PICK p : p = LineOf(w)
  OBVIOUS
<1>3. ASSUME NEW i \in DOMAIN w
      PROVE  w[i].start \in Second /\ p[w[i].start] = w[i].phase
  <2>1. w[i].start \in Second /\ Holds(w[i], w[i].start)
    BY <1>1, EditConstants DEF Second, Holds
  <2>2. QED BY <2>1, <1>2, LineIs
<1>4. ASSUME Retaken(w) PROVE Line!LaningReturns(p)
  <2>1. PICK i \in DOMAIN w, j \in DOMAIN w, k \in DOMAIN w :
            /\ i < j /\ j < k
            /\ w[i].phase = "laning" /\ w[j].phase # "laning" /\ w[k].phase = "laning"
    BY <1>4 DEF Retaken
  <2>2. w[i].start < w[j].start /\ w[j].start < w[k].start
    BY <2>1, <1>1, Ordered
  <2>3. /\ w[i].start \in Second /\ w[j].start \in Second /\ w[k].start \in Second
        /\ p[w[i].start] = "laning" /\ p[w[j].start] # "laning" /\ p[w[k].start] = "laning"
    BY <2>1, <1>3
  <2>4. QED BY <2>2, <2>3 DEF Line!LaningReturns, Line!Second, Second
<1>5. ASSUME Line!LaningReturns(p) PROVE Retaken(w)
  <2>1. PICK a \in Second, b \in Second, c \in Second :
            a < b /\ b < c /\ p[a] = "laning" /\ p[b] # "laning" /\ p[c] = "laning"
    BY <1>5 DEF Line!LaningReturns, Line!Second, Second
  <2>2. PICK i \in DOMAIN w : Holds(w[i], a)
    BY LineIs
  <2>3. PICK j \in DOMAIN w : Holds(w[j], b)
    BY LineIs
  <2>4. PICK k \in DOMAIN w : Holds(w[k], c)
    BY LineIs
  <2>5. p[a] = w[i].phase /\ p[b] = w[j].phase /\ p[c] = w[k].phase
    BY <2>2, <2>3, <2>4, <1>2, LineIs
  <2>6. ASSUME NEW s \in Nat, NEW t \in Nat, s < t,
               NEW x \in DOMAIN w, NEW y \in DOMAIN w, Holds(w[x], s), Holds(w[y], t)
        PROVE  x <= y
    <3>1. SUFFICES ASSUME y < x PROVE FALSE
      BY <1>1
    <3>2. w[y].end <= w[x].start
      BY <3>1, <1>1, Ordered
    <3>3. w[x].start <= s /\ t < w[y].end
      BY <2>6 DEF Holds
    <3>4. w[y].end \in Nat /\ w[x].start \in Nat
      BY <1>1
    <3>5. QED BY <3>2, <3>3, <3>4, <2>6
  <2>7. i <= j /\ j <= k
    <3>1. a \in Nat /\ b \in Nat /\ c \in Nat
      BY <1>1
    <3>2. QED BY <3>1, <2>1, <2>2, <2>3, <2>4, <2>6
  <2>8. i # j /\ j # k
    BY <2>1, <2>5
  <2>9. i < j /\ j < k
    BY <2>7, <2>8, <1>1
  <2>10. QED BY <2>1, <2>5, <2>9 DEF Retaken
<1>6. QED BY <1>2, <1>4, <1>5

-----------------------------------------------------------------------------
(* Sorting changes nothing: the starts of a tiling are in order.           *)

LEMMA SortedIs ==
    ASSUME NEW w, Tiling(w)
    PROVE  Sorted(w) = w
<1>1. PICK n : n = Len(w)
  OBVIOUS
<1>2. /\ Tiles(w, 0, Eligible) /\ n \in Nat \ {0} /\ DOMAIN w = 1 .. n
      /\ \A i \in 1 .. n : w[i].start \in Nat
  <2>1. Tiles(w, 0, Eligible)
    BY DEF Tiling
  <2>2. QED BY <1>1, <2>1, Places
<1>3. ASSUME NEW i \in 1 .. n, NEW k \in 1 .. n, w[i].start <= w[k].start
      PROVE  i <= k
  <2>1. SUFFICES ASSUME k < i PROVE FALSE
    OBVIOUS
  <2>2. w[k].start < w[i].start
    BY <2>1, <1>2, Ordered
  <2>3. QED BY <2>2, <1>2, <1>3
<1>4. PICK InOrder : InOrder = {p \in [1 .. n -> 1 .. n] :
                         \A i, k \in 1 .. n :
                             i < k => p[i] # p[k] /\ w[p[i]].start <= w[p[k]].start}
  OBVIOUS
<1>5. [i \in 1 .. n |-> i] \in InOrder
  <2>1. ASSUME NEW i \in 1 .. n, NEW k \in 1 .. n, i < k
        PROVE  i # k /\ w[i].start <= w[k].start
    <3>1. i <= k
      BY <2>1
    <3>2. i \in DOMAIN w /\ k \in DOMAIN w /\ i # k
      BY <2>1, <1>2
    <3>3. Tiles(w, 0, Eligible)
      BY <1>2
    <3>4. w[i].start <= w[k].start
      BY <3>1, <3>2, <3>3, Ordered
    <3>5. QED BY <3>2, <3>4
  <2>2. PICK p : p = [i \in 1 .. n |-> i]
    OBVIOUS
  <2>3. p \in [1 .. n -> 1 .. n] /\ \A i \in 1 .. n : p[i] = i
    BY <2>2
  <2>4. QED BY <2>1, <2>2, <2>3, <1>4
<1>6. PICK order : order = CHOOSE p \in InOrder : TRUE
  OBVIOUS
<1>7. order \in InOrder
  BY <1>5, <1>6
<1>8. /\ order \in [1 .. n -> 1 .. n]
      /\ \A i \in 1 .. n : order[i] \in 1 .. n
      /\ \A i, k \in 1 .. n : i < k => order[i] < order[k]
  <2>1. /\ order \in [1 .. n -> 1 .. n]
        /\ \A i, k \in 1 .. n : i < k => order[i] # order[k]
                                         /\ w[order[i]].start <= w[order[k]].start
    BY <1>4, <1>7
  <2>2. \A i \in 1 .. n : order[i] \in 1 .. n
    BY <2>1
  <2>3. ASSUME NEW i \in 1 .. n, NEW k \in 1 .. n, i < k PROVE order[i] < order[k]
    <3>1. order[i] # order[k] /\ order[i] <= order[k]
      BY <2>1, <2>2, <2>3, <1>3
    <3>2. order[i] \in Int /\ order[k] \in Int
      BY <2>2
    <3>3. QED BY <3>1, <3>2
  <2>4. QED BY <2>1, <2>2, <2>3
<1>9. \A i \in 1 .. n : order[i] >= i
  <2>1. PICK S : S = {i \in 1 .. n : order[i] < i}
    OBVIOUS
  <2>2. SUFFICES ASSUME S # {} PROVE FALSE
    BY <2>1, <1>2, <1>8
  <2>3. S \in SUBSET Nat
    BY <2>1
  <2>4. PICK i \in S : \A l \in S : i <= l
    BY <2>2, <2>3, LeastOf
  <2>5. i \in 1 .. n /\ order[i] < i /\ order[i] \in 1 .. n
    BY <2>1, <1>8
  <2>6. i - 1 \in 1 .. n /\ i - 1 < i
    BY <2>5, <1>2
  <2>7. order[i - 1] < order[i] /\ order[i - 1] \in 1 .. n
    BY <2>5, <2>6, <1>8
  <2>8. order[i - 1] < i - 1
    BY <2>5, <2>6, <2>7
  <2>9. i - 1 \in S
    BY <2>1, <2>6, <2>8
  <2>10. i <= i - 1
    BY <2>4, <2>9
  <2>11. QED BY <2>5, <2>10
<1>10. \A i \in 1 .. n : order[i] <= i
  <2>1. PICK S : S = {i \in 1 .. n : order[i] > i}
    OBVIOUS
  <2>2. SUFFICES ASSUME S # {} PROVE FALSE
    BY <2>1, <1>2, <1>8
  <2>3. S \in SUBSET (0 .. n) /\ n \in Nat
    BY <2>1, <1>2
  <2>4. PICK i \in S : \A l \in S : l <= i
    BY <2>2, <2>3, GreatestOf
  <2>5. i \in 1 .. n /\ order[i] > i /\ order[i] \in 1 .. n
    BY <2>1, <1>8
  <2>6. i + 1 \in 1 .. n /\ i < i + 1
    BY <2>5, <1>2
  <2>7. order[i] < order[i + 1] /\ order[i + 1] \in 1 .. n
    BY <2>5, <2>6, <1>8
  <2>8. order[i + 1] > i + 1
    BY <2>5, <2>6, <2>7
  <2>9. i + 1 \in S
    BY <2>1, <2>6, <2>8
  <2>10. i + 1 <= i
    BY <2>4, <2>9
  <2>11. QED BY <2>5, <2>10
<1>11. \A i \in 1 .. n : order[i] = i
  <2>1. ASSUME NEW i \in 1 .. n PROVE order[i] = i
    <3>1. order[i] >= i /\ order[i] <= i /\ order[i] \in 1 .. n
      BY <1>8, <1>9, <1>10
    <3>2. QED BY <3>1
  <2>2. QED BY <2>1
<1>12. Sorted(w) = [i \in 1 .. n |-> w[order[i]]]
  <2>1. order = CHOOSE p \in [DOMAIN w -> DOMAIN w] :
                    \A i, k \in DOMAIN w :
                        i < k => p[i] # p[k] /\ w[p[i]].start <= w[p[k]].start
    BY <1>2, <1>4, <1>6
  <2>2. QED BY <2>1, <1>2 DEF Sorted
<1>13. [i \in 1 .. n |-> w[order[i]]] = [i \in 1 .. n |-> w[i]]
  BY <1>11
<1>14. w = [i \in 1 .. n |-> w[i]]
  <2>1. w \in Seq(Interval)
    BY <1>2 DEF Tiles
  <2>2. w \in [1 .. n -> Interval]
    BY <1>1, <2>1
  <2>3. QED BY <2>2
<1>15. QED BY <1>12, <1>13, <1>14

-----------------------------------------------------------------------------
(* Intervals and references, on the line.                                  *)

\* The starts are those of the list.
LEMMA StartsAre ==
    ASSUME Tiling(stream)
    PROVE  /\ Line!Starts = StartsOf(stream)
           /\ \A d \in StartsOf(stream) : d \in Second
           /\ \A d \in StartsOf(stream) : \E i \in DOMAIN stream : d = stream[i].start
           /\ \A i \in DOMAIN stream : stream[i].start \in StartsOf(stream)
           /\ \A i \in DOMAIN stream : stream[i].start = 0 <=> i = 1
           /\ \A i \in DOMAIN stream : stream[i].end = Eligible <=> i = Len(stream)
<1>1. /\ Tiles(stream, 0, Eligible)
      /\ stream[1].start = 0 /\ stream[Len(stream)].end = Eligible
  BY DEF Tiling, Tiles
<1>2. /\ Len(stream) \in Nat \ {0} /\ DOMAIN stream = 1 .. Len(stream)
      /\ \A i \in DOMAIN stream : /\ stream[i].start \in 0 .. Eligible
                                  /\ stream[i].end \in 0 .. Eligible
                                  /\ stream[i].start < stream[i].end
  BY <1>1, Places
<1>3. 0 \in StartsOf(stream)
  BY <1>1, <1>2 DEF StartsOf
<1>4. Line!Starts = StartsOf(stream)
  BY <1>3 DEF Line!Starts
<1>5. ASSUME NEW i \in DOMAIN stream
      PROVE  stream[i].start \in Second
  BY <1>2, EditConstants DEF Second
<1>6. ASSUME NEW i \in DOMAIN stream, i # 1 PROVE stream[i].start # 0
  <2>1. 1 \in DOMAIN stream /\ 1 < i
    BY <1>2, <1>6
  <2>2. stream[1].start < stream[i].start
    BY <2>1, <1>1, Ordered
  <2>3. QED BY <2>2, <1>1
<1>7. ASSUME NEW i \in DOMAIN stream, i # Len(stream) PROVE stream[i].end # Eligible
  <2>1. Len(stream) \in DOMAIN stream /\ i < Len(stream)
    BY <1>2, <1>7
  <2>2. stream[i].end <= stream[Len(stream)].start
    BY <2>1, <1>1, Ordered
  <2>3. stream[Len(stream)].start < Eligible
    BY <2>1, <1>1, <1>2
  <2>4. QED BY <2>1, <2>2, <2>3, <1>2, EditConstants
<1>8. QED BY <1>1, <1>4, <1>5, <1>6, <1>7 DEF StartsOf

\* An interval stops where the line says.
LEMMA StopIs ==
    ASSUME Tiling(stream), NEW i \in DOMAIN stream
    PROVE  Line!Stop(stream[i].start) = stream[i].end
<1>1. Tiles(stream, 0, Eligible)
  BY DEF Tiling
<1>2. /\ Len(stream) \in Nat \ {0} /\ DOMAIN stream = 1 .. Len(stream)
      /\ \A k \in DOMAIN stream : /\ stream[k].start \in Nat /\ stream[k].end \in Nat
                                  /\ stream[k].end \in 0 .. Eligible
                                  /\ stream[k].start < stream[k].end
  BY <1>1, Places
<1>3. PICK ends : ends = (StartsOf(stream) \ {0}) \cup {Eligible}
  OBVIOUS
<1>4. stream[i].end \in ends
  <2>1. CASE i = Len(stream)
    BY <2>1, <1>3, StartsAre
  <2>2. CASE i # Len(stream)
    <3>1. i + 1 \in DOMAIN stream \ {1} /\ (i + 1) - 1 = i
      BY <2>2, <1>2
    <3>2. stream[i + 1].start = stream[i].end
      BY <3>1, <1>1 DEF Tiles
    <3>3. QED BY <3>1, <3>2, <1>3, StartsAre
  <2>3. QED BY <2>1, <2>2
<1>5. ASSUME NEW d \in ends, d > stream[i].start PROVE stream[i].end <= d
  <2>1. CASE d = Eligible
    BY <2>1, <1>2, EditConstants
  <2>2. CASE d # Eligible
    <3>1. PICK k \in DOMAIN stream : d = stream[k].start
      BY <2>2, <1>3, StartsAre
    <3>2. i < k
      <4>1. SUFFICES ASSUME k <= i PROVE FALSE
        BY <1>2
      <4>2. stream[k].start <= stream[i].start
        BY <4>1, <1>1, Ordered
      <4>3. QED BY <4>2, <3>1, <1>2, <1>5
    <3>3. QED BY <3>1, <3>2, <1>1, Ordered
  <2>3. QED BY <2>1, <2>2
<1>6. stream[i].end > stream[i].start
  BY <1>2
<1>7. \A d \in ends : d \in Nat
  <2>1. Second \subseteq Nat /\ Eligible \in Nat
    BY EditConstants DEF Second
  <2>2. QED BY <2>1, <1>3, StartsAre
<1>8. \A c \in ends : c > stream[i].start /\ (\A d \in ends : d > stream[i].start => c <= d)
                      => c = stream[i].end
  <2>1. ASSUME NEW c \in ends, c > stream[i].start,
               \A d \in ends : d > stream[i].start => c <= d
        PROVE  c = stream[i].end
    <3>1. c <= stream[i].end
      BY <2>1, <1>4, <1>6
    <3>2. stream[i].end <= c
      BY <2>1, <1>5
    <3>3. QED BY <3>1, <3>2, <1>2, <1>7
  <2>2. QED BY <2>1
<1>9. (CHOOSE c \in ends : c > stream[i].start /\ \A d \in ends : d > stream[i].start => c <= d)
          = stream[i].end
  BY <1>4, <1>5, <1>6, <1>8
<1>10. QED BY <1>3, <1>9 DEF Line!Stop

\* The second before an interval is held by the one before it.
LEMMA HolderIs ==
    ASSUME Tiling(stream), NEW i \in DOMAIN stream, i # 1
    PROVE  i - 1 \in DOMAIN stream /\ Line!Holder(stream[i].start - 1) = stream[i - 1].start
<1>1. Tiles(stream, 0, Eligible)
  BY DEF Tiling
<1>2. /\ Len(stream) \in Nat \ {0} /\ DOMAIN stream = 1 .. Len(stream)
      /\ \A k \in DOMAIN stream : stream[k].start \in Nat
  BY <1>1, Places
<1>3. i - 1 \in DOMAIN stream /\ i - 1 < i
  BY <1>2
<1>4. PICK s : s = stream[i].start - 1
  OBVIOUS
<1>5. stream[i - 1].start <= s /\ s \in Int
  <2>1. stream[i - 1].start < stream[i].start
    BY <1>1, <1>3, Ordered
  <2>2. QED BY <2>1, <1>2, <1>3, <1>4
<1>6. PICK starts : starts = StartsOf(stream)
  OBVIOUS
<1>7. stream[i - 1].start \in starts
  BY <1>3, <1>6, StartsAre
<1>8. ASSUME NEW d \in starts, d <= s PROVE d <= stream[i - 1].start /\ d \in Nat
  <2>1. PICK k \in DOMAIN stream : d = stream[k].start
    BY <1>6, StartsAre
  <2>2. k < i
    <3>1. SUFFICES ASSUME i <= k PROVE FALSE
      BY <1>2
    <3>2. stream[i].start <= stream[k].start
      BY <3>1, <1>1, Ordered
    <3>3. QED BY <3>2, <2>1, <1>2, <1>4, <1>8
  <2>3. k <= i - 1
    BY <2>2, <1>2
  <2>4. stream[k].start <= stream[i - 1].start
    BY <2>3, <1>1, <1>3, Ordered
  <2>5. QED BY <2>1, <2>4, <1>2
<1>9. \A b \in starts : b <= s /\ (\A d \in starts : d <= s => d <= b)
                        => b = stream[i - 1].start
  <2>1. ASSUME NEW b \in starts, b <= s, \A d \in starts : d <= s => d <= b
        PROVE  b = stream[i - 1].start
    <3>1. stream[i - 1].start <= b
      BY <2>1, <1>5, <1>7
    <3>2. b <= stream[i - 1].start /\ b \in Nat
      BY <2>1, <1>8
    <3>3. QED BY <3>1, <3>2, <1>2, <1>3
  <2>2. QED BY <2>1
<1>10. (CHOOSE b \in starts : b <= s /\ \A d \in starts : d <= s => d <= b) = stream[i - 1].start
  BY <1>5, <1>7, <1>8, <1>9
<1>11. QED BY <1>3, <1>4, <1>6, <1>10, StartsAre DEF Line!Holder

\* A reference is found if the line has an interval of that name, and it is this one.
LEMMA FoundIs ==
    ASSUME Tiling(stream), NEW ref \in Ref
    PROVE  LET i == FindByRef(stream, ref) IN
           /\ Line!Named(ref) => i \in DOMAIN stream /\ stream[i].start = ref.start
           /\ ~Line!Named(ref) => i = 0
<1>1. PICK hits : hits = {i \in DOMAIN stream : /\ stream[i].start = ref.start
                                                /\ ref.end = -1 \/ ref.end = stream[i].end}
  OBVIOUS
<1>2. FindByRef(stream, ref) =
          IF hits = {} THEN 0 ELSE CHOOSE i \in hits : \A j \in hits : i <= j
  BY <1>1 DEF FindByRef
<1>3. Tiles(stream, 0, Eligible)
  BY DEF Tiling
<1>4. DOMAIN stream = 1 .. Len(stream) /\ \A k \in DOMAIN stream : stream[k].start \in Nat
  BY <1>3, Places
<1>5. ASSUME NEW i \in hits, NEW j \in hits PROVE i <= j
  <2>1. i \in DOMAIN stream /\ j \in DOMAIN stream /\ stream[i].start = stream[j].start
    BY <1>1
  <2>2. SUFFICES ASSUME j < i PROVE FALSE
    BY <2>1, <1>4
  <2>3. stream[j].start < stream[i].start
    BY <2>1, <2>2, <1>3, Ordered
  <2>4. QED BY <2>1, <2>3, <1>4
<1>6. ASSUME Line!Named(ref) PROVE hits # {}
  <2>1. /\ ref.start \in Line!Starts
        /\ ref.end = -1 \/ ref.end = Line!Stop(ref.start)
    BY <1>6 DEF Line!Named
  <2>2. PICK i \in DOMAIN stream : ref.start = stream[i].start
    BY <2>1, StartsAre
  <2>3. Line!Stop(ref.start) = stream[i].end
    BY <2>2, StopIs
  <2>4. i \in hits
    BY <2>1, <2>2, <2>3, <1>1
  <2>5. QED BY <2>4
<1>7. ASSUME NEW i \in hits PROVE Line!Named(ref)
  <2>1. i \in DOMAIN stream /\ stream[i].start = ref.start /\ (ref.end = -1 \/ ref.end = stream[i].end)
    BY <1>1
  <2>2. ref.start \in Line!Starts
    BY <2>1, StartsAre
  <2>3. Line!Stop(ref.start) = stream[i].end
    BY <2>1, StopIs
  <2>4. QED BY <2>1, <2>2, <2>3 DEF Line!Named
<1>8. ASSUME hits # {} PROVE (CHOOSE i \in hits : \A j \in hits : i <= j) \in hits
  BY <1>5, <1>8
<1>9. \A i \in hits : i \in DOMAIN stream /\ stream[i].start = ref.start
  BY <1>1
<1>10. ASSUME Line!Named(ref)
       PROVE  FindByRef(stream, ref) \in DOMAIN stream
              /\ stream[FindByRef(stream, ref)].start = ref.start
  BY <1>2, <1>6, <1>8, <1>9, <1>10
<1>11. ASSUME ~Line!Named(ref) PROVE FindByRef(stream, ref) = 0
  BY <1>2, <1>7, <1>11
<1>12. QED BY <1>10, <1>11

-----------------------------------------------------------------------------
(* What an edit splices in: one interval, or two or three that follow one  *)
(* another.                                                                *)

LEMMA OnePart ==
    ASSUME NEW p \in Interval, p.start < p.end
    PROVE  /\ Tiles(<<p>>, p.start, p.end)
           /\ StartsOf(<<p>>) = {p.start}
           /\ \A s \in Nat : Holds(p, s) => PhaseAt(<<p>>, s) = p.phase
<1>1. PICK w : w = <<p>>
  OBVIOUS
<1>2. w \in Seq(Interval) /\ Len(w) = 1 /\ DOMAIN w = {1} /\ w[1] = p
  BY <1>1
<1>3. Tiles(w, p.start, p.end)
  BY <1>2 DEF Tiles
<1>4. StartsOf(w) = {p.start}
  BY <1>2 DEF StartsOf
<1>5. \A s \in Nat : Holds(p, s) => PhaseAt(w, s) = p.phase
  BY <1>2, <1>3, PhaseIs
<1>6. QED BY <1>1, <1>3, <1>4, <1>5

LEMMA TwoParts ==
    ASSUME NEW p \in Interval, NEW q \in Interval,
           p.start < p.end, p.end = q.start, q.start < q.end
    PROVE  /\ Tiles(<<p, q>>, p.start, q.end)
           /\ StartsOf(<<p, q>>) = {p.start, q.start}
           /\ \A s \in Nat : Holds(p, s) => PhaseAt(<<p, q>>, s) = p.phase
           /\ \A s \in Nat : Holds(q, s) => PhaseAt(<<p, q>>, s) = q.phase
<1>1. PICK w : w = <<p, q>>
  OBVIOUS
<1>2. w \in Seq(Interval) /\ Len(w) = 2 /\ DOMAIN w = {1, 2} /\ w[1] = p /\ w[2] = q
  BY <1>1
<1>3. Tiles(w, p.start, q.end)
  <2>1. \A i \in DOMAIN w : w[i].start < w[i].end
    BY <1>2
  <2>2. \A i \in DOMAIN w \ {1} : w[i].start = w[i - 1].end
    BY <1>2
  <2>3. w # <<>>
    <3>1. Len(w) # Len(<<>>)
      BY <1>2
    <3>2. QED BY <3>1
  <2>4. QED BY <1>2, <2>1, <2>2, <2>3 DEF Tiles
<1>4. StartsOf(w) = {p.start, q.start}
  BY <1>2 DEF StartsOf
<1>5. \A s \in Nat : \A i \in {1, 2} : Holds(w[i], s) => PhaseAt(w, s) = w[i].phase
  BY <1>2, <1>3, PhaseIs
<1>6. /\ \A s \in Nat : Holds(p, s) => PhaseAt(w, s) = p.phase
      /\ \A s \in Nat : Holds(q, s) => PhaseAt(w, s) = q.phase
  BY <1>2, <1>5
<1>7. QED BY <1>1, <1>3, <1>4, <1>6

\* Three intervals that follow one another.
Follow(p, q, t) ==
    /\ p \in Interval /\ q \in Interval /\ t \in Interval
    /\ p.start < p.end /\ q.start < q.end /\ t.start < t.end
    /\ p.end = q.start /\ q.end = t.start

LEMMA ThreeParts ==
    ASSUME NEW p, NEW q, NEW t, Follow(p, q, t)
    PROVE  /\ Tiles(<<p, q, t>>, p.start, t.end)
           /\ StartsOf(<<p, q, t>>) = {p.start, q.start, t.start}
           /\ \A s \in Nat : Holds(p, s) => PhaseAt(<<p, q, t>>, s) = p.phase
           /\ \A s \in Nat : Holds(q, s) => PhaseAt(<<p, q, t>>, s) = q.phase
           /\ \A s \in Nat : Holds(t, s) => PhaseAt(<<p, q, t>>, s) = t.phase
<1>1. PICK w : w = <<p, q, t>>
  OBVIOUS
<1>2. /\ w \in Seq(Interval) /\ Len(w) = 3 /\ DOMAIN w = {1, 2, 3}
      /\ w[1] = p /\ w[2] = q /\ w[3] = t
  BY <1>1 DEF Follow
<1>3. Tiles(w, p.start, t.end)
  <2>1. \A i \in DOMAIN w : w[i].start < w[i].end
    BY <1>2 DEF Follow
  <2>2. \A i \in DOMAIN w \ {1} : w[i].start = w[i - 1].end
    <3>1. ASSUME NEW i \in {2, 3} PROVE w[i].start = w[i - 1].end
      <4>1. CASE i = 2
        BY <4>1, <1>2 DEF Follow
      <4>2. CASE i = 3
        BY <4>2, <1>2 DEF Follow
      <4>3. QED BY <4>1, <4>2
    <3>2. DOMAIN w \ {1} = {2, 3}
      BY <1>2
    <3>3. QED BY <3>1, <3>2
  <2>3. w # <<>>
    <3>1. Len(w) # Len(<<>>)
      BY <1>2
    <3>2. QED BY <3>1
  <2>4. QED BY <1>2, <2>1, <2>2, <2>3 DEF Tiles
<1>4. StartsOf(w) = {p.start, q.start, t.start}
  BY <1>2 DEF StartsOf
<1>5. \A s \in Nat : \A i \in {1, 2, 3} : Holds(w[i], s) => PhaseAt(w, s) = w[i].phase
  BY <1>2, <1>3, PhaseIs
<1>6. /\ \A s \in Nat : Holds(p, s) => PhaseAt(w, s) = p.phase
      /\ \A s \in Nat : Holds(q, s) => PhaseAt(w, s) = q.phase
      /\ \A s \in Nat : Holds(t, s) => PhaseAt(w, s) = t.phase
  BY <1>2, <1>5
<1>7. QED BY <1>1, <1>3, <1>4, <1>6

\* What a splice makes of a tiling.
LEMMA Spliced ==
    ASSUME NEW w, Tiling(w), NEW a \in DOMAIN w, NEW b \in DOMAIN w, a <= b,
           NEW parts, Tiles(parts, w[a].start, w[b].end), NEW v, v = Splice(w, a, b, parts)
    PROVE  /\ Tiling(v)
           /\ \A s \in Second : LineOf(v)[s] =
                  IF w[a].start <= s /\ s < w[b].end THEN PhaseAt(parts, s) ELSE LineOf(w)[s]
           /\ StartsOf(v) = {d \in StartsOf(w) : d < w[a].start \/ d >= w[b].end}
                            \cup StartsOf(parts)
<1>1. Tiles(w, 0, Eligible)
  BY DEF Tiling
<1>2. Tiling(v)
  BY <1>1, SplicedTiles DEF Tiling
<1>3. ASSUME NEW s \in Second
      PROVE  LineOf(v)[s] =
                 IF w[a].start <= s /\ s < w[b].end THEN PhaseAt(parts, s) ELSE LineOf(w)[s]
  <2>1. s \in Nat /\ 0 <= s /\ s < Eligible
    BY EditConstants DEF Second
  <2>2. LineOf(v)[s] = PhaseAt(v, s) /\ LineOf(w)[s] = PhaseAt(w, s)
    BY DEF LineOf, Second
  <2>3. PhaseAt(v, s) =
            IF w[a].start <= s /\ s < w[b].end THEN PhaseAt(parts, s) ELSE PhaseAt(w, s)
    BY <1>1, <2>1, SplicedLine
  <2>4. QED BY <2>2, <2>3
<1>4. StartsOf(v) = {d \in StartsOf(w) : d < w[a].start \/ d >= w[b].end} \cup StartsOf(parts)
  BY <1>1, SplicedStarts
<1>5. QED BY <1>2, <1>3, <1>4

\* No interval starts within another.
LEMMA NoneInside ==
    ASSUME NEW w, Tiling(w), NEW i \in DOMAIN w, NEW d \in StartsOf(w)
    PROVE  d \in Nat /\ (d <= w[i].start \/ d >= w[i].end)
<1>1. Tiles(w, 0, Eligible)
  BY DEF Tiling
<1>2. /\ DOMAIN w = 1 .. Len(w) /\ Len(w) \in Nat
      /\ \A k \in DOMAIN w : w[k].start \in Nat /\ w[k].end \in Nat
  BY <1>1, Places
<1>3. PICK k \in DOMAIN w : d = w[k].start
  BY DEF StartsOf
<1>4. k <= i \/ i < k
  BY <1>2
<1>5. CASE k <= i
  BY <1>1, <1>2, <1>3, <1>5, Ordered
<1>6. CASE i < k
  <2>1. w[i].end <= w[k].start
    BY <1>1, <1>6, Ordered
  <2>2. QED BY <2>1, <1>2, <1>3
<1>7. QED BY <1>4, <1>5, <1>6

\* An interval that starts where another ends is the next one.
LEMMA Adjacent ==
    ASSUME NEW w, Tiling(w), NEW i \in DOMAIN w, NEW k \in DOMAIN w, w[i].end = w[k].start
    PROVE  k = i + 1
<1>1. Tiles(w, 0, Eligible)
  BY DEF Tiling
<1>2. /\ DOMAIN w = 1 .. Len(w) /\ Len(w) \in Nat
      /\ \A l \in DOMAIN w : w[l].start \in Nat /\ w[l].end \in Nat /\ w[l].start < w[l].end
  BY <1>1, Places
<1>3. i < k
  <2>1. SUFFICES ASSUME k <= i PROVE FALSE
    BY <1>2
  <2>2. w[k].start <= w[i].start
    BY <1>1, <2>1, Ordered
  <2>3. w[i].start < w[i].end /\ w[i].start \in Nat /\ w[k].start \in Nat /\ w[i].end \in Nat
    BY <1>2
  <2>4. QED BY <2>2, <2>3
<1>4. ~(i + 1 < k)
  <2>1. SUFFICES ASSUME i + 1 < k PROVE FALSE
    OBVIOUS
  <2>2. i + 1 \in DOMAIN w /\ i < i + 1
    BY <2>1, <1>2
  <2>3. w[i].end <= w[i + 1].start /\ w[i + 1].start < w[k].start
    BY <1>1, <2>1, <2>2, Ordered
  <2>4. w[i].end \in Nat /\ w[i + 1].start \in Nat /\ w[k].start \in Nat
    BY <1>2, <2>2
  <2>5. QED BY <2>3, <2>4
<1>5. QED BY <1>2, <1>3, <1>4

-----------------------------------------------------------------------------
(* The edits that write to the list, or to its copy, are splices too.      *)

\* One interval changed.
LEMMA ChangedOne ==
    ASSUME NEW w \in Seq(Interval), NEW i \in DOMAIN w, NEW iv \in Interval
    PROVE  [w EXCEPT ![i] = iv] = Splice(w, i, i, <<iv>>)
<1>1. PICK n : n = Len(w)
  OBVIOUS
<1>2. n \in Nat /\ i \in 1 .. n /\ i <= i
  BY <1>1
<1>3. PICK parts : parts = <<iv>>
  OBVIOUS
<1>4. parts \in Seq(Interval) /\ 1 = Len(parts) /\ parts[1] = iv
  BY <1>3
<1>5. PICK v : v = Splice(w, i, i, parts)
  OBVIOUS
<1>6. Replaced(v, w, i, i, parts, n, 1)
  BY <1>1, <1>2, <1>4, <1>5, SpliceIs
<1>7. /\ v \in Seq(Interval) /\ Len(v) = n
      /\ \A k \in 1 .. (i - 1) : v[k] = w[k]
      /\ v[i] = iv
      /\ \A k \in (i + 1) .. n : v[k] = w[k]
  <2>1. /\ v \in Seq(Interval) /\ Len(v) = i - 1 + 1 + n - i
        /\ \A k \in 1 .. (i - 1) : v[k] = w[k]
        /\ \A k \in 1 .. 1 : v[i - 1 + k] = parts[k]
        /\ \A k \in (i + 1) .. n : v[i - 1 + 1 + k - i] = w[k]
    BY <1>6 DEF Replaced
  <2>2. v[i - 1 + 1] = parts[1] /\ i - 1 + 1 = i
    BY <2>1, <1>2
  <2>3. ASSUME NEW k \in (i + 1) .. n PROVE v[k] = w[k]
    <3>1. i - 1 + 1 + k - i = k
      BY <1>2
    <3>2. v[i - 1 + 1 + k - i] = w[k]
      BY <2>1
    <3>3. QED BY <3>1, <3>2
  <2>4. i - 1 + 1 + n - i = n
    BY <1>2
  <2>5. QED BY <2>1, <2>2, <2>3, <2>4, <1>4
<1>8. PICK u : u = [w EXCEPT ![i] = iv]
  OBVIOUS
<1>9. u \in Seq(Interval) /\ Len(u) = n /\ \A k \in 1 .. n : u[k] = IF k = i THEN iv ELSE w[k]
  BY <1>1, <1>2, <1>8, ExceptSeq
<1>10. \A k \in 1 .. n : u[k] = v[k]
  <2>1. ASSUME NEW k \in 1 .. n PROVE u[k] = v[k]
    <3>1. k \in 1 .. (i - 1) \/ k = i \/ k \in (i + 1) .. n
      BY <1>2
    <3>2. k \in 1 .. (i - 1) => k # i
      BY <1>2
    <3>3. k \in (i + 1) .. n => k # i
      BY <1>2
    <3>4. QED BY <3>1, <3>2, <3>3, <1>7, <1>9
  <2>2. QED BY <2>1
<1>11. u = v
  BY <1>7, <1>9, <1>10, SeqEqual
<1>12. QED BY <1>3, <1>5, <1>8, <1>11

\* u is w with p and q at the places i and j.
Rewritten(u, w, i, j, p, q) ==
    /\ u \in Seq(Interval) /\ Len(u) = Len(w) /\ u[i] = p /\ u[j] = q
    /\ \A k \in DOMAIN w : k # i /\ k # j => u[k] = w[k]

\* Two neighbours changed.
LEMMA ChangedTwo ==
    ASSUME NEW w \in Seq(Interval), NEW i \in DOMAIN w, NEW j \in DOMAIN w, j = i + 1,
           NEW p \in Interval, NEW q \in Interval, NEW u, Rewritten(u, w, i, j, p, q)
    PROVE  u = Splice(w, i, j, <<p, q>>)
<1>1. PICK n : n = Len(w)
  OBVIOUS
<1>2. n \in Nat /\ i \in 1 .. n /\ j \in 1 .. n /\ i <= j /\ DOMAIN w = 1 .. n
  BY <1>1
<1>3. PICK parts : parts = <<p, q>>
  OBVIOUS
<1>4. parts \in Seq(Interval) /\ 2 = Len(parts) /\ parts[1] = p /\ parts[2] = q
  BY <1>3
<1>5. PICK v : v = Splice(w, i, j, parts)
  OBVIOUS
<1>6. Replaced(v, w, i, j, parts, n, 2)
  BY <1>1, <1>2, <1>4, <1>5, SpliceIs
<1>7. /\ v \in Seq(Interval) /\ Len(v) = n
      /\ \A k \in 1 .. (i - 1) : v[k] = w[k]
      /\ v[i] = p /\ v[j] = q
      /\ \A k \in (j + 1) .. n : v[k] = w[k]
  <2>1. /\ v \in Seq(Interval) /\ Len(v) = i - 1 + 2 + n - j
        /\ \A k \in 1 .. (i - 1) : v[k] = w[k]
        /\ \A k \in 1 .. 2 : v[i - 1 + k] = parts[k]
        /\ \A k \in (j + 1) .. n : v[i - 1 + 2 + k - j] = w[k]
    BY <1>6 DEF Replaced
  <2>2. v[i - 1 + 1] = parts[1] /\ i - 1 + 1 = i
    BY <2>1, <1>2
  <2>3. v[i - 1 + 2] = parts[2] /\ i - 1 + 2 = j
    BY <2>1, <1>2
  <2>4. ASSUME NEW k \in (j + 1) .. n PROVE v[k] = w[k]
    <3>1. i - 1 + 2 + k - j = k
      BY <1>2
    <3>2. v[i - 1 + 2 + k - j] = w[k]
      BY <2>1
    <3>3. QED BY <3>1, <3>2
  <2>5. i - 1 + 2 + n - j = n
    BY <1>2
  <2>6. QED BY <2>1, <2>2, <2>3, <2>4, <2>5, <1>4
<1>8. \A k \in 1 .. n : u[k] = v[k]
  <2>1. ASSUME NEW k \in 1 .. n PROVE u[k] = v[k]
    <3>1. k \in 1 .. (i - 1) \/ k = i \/ k = j \/ k \in (j + 1) .. n
      BY <1>2
    <3>2. k \in 1 .. (i - 1) => k # i /\ k # j
      BY <1>2
    <3>3. k \in (j + 1) .. n => k # i /\ k # j
      BY <1>2
    <3>4. QED BY <3>1, <3>2, <3>3, <1>2, <1>7 DEF Rewritten
  <2>2. QED BY <2>1
<1>9. u = v
  <2>1. u \in Seq(Interval) /\ Len(u) = Len(v)
    BY <1>1, <1>7 DEF Rewritten
  <2>2. QED BY <2>1, <1>1, <1>7, <1>8, SeqEqual
<1>10. QED BY <1>3, <1>5, <1>9

\* One of two neighbours changed and the other removed.
LEMMA RemovedOne ==
    ASSUME NEW w \in Seq(Interval), NEW a \in DOMAIN w, NEW b, b = a + 1, b \in DOMAIN w,
           NEW i \in {a, b}, NEW j \in {a, b}, i # j, NEW iv \in Interval
    PROVE  Splice([w EXCEPT ![j] = iv], i, i, <<>>) = Splice(w, a, b, <<iv>>)
<1>1. PICK n : n = Len(w)
  OBVIOUS
<1>2. /\ n \in Nat /\ a \in 1 .. n /\ b \in 1 .. n /\ i \in 1 .. n /\ j \in 1 .. n
      /\ a <= b /\ i <= i /\ DOMAIN w = 1 .. n
  BY <1>1
<1>3. PICK one : one = <<iv>>
  OBVIOUS
<1>4. one \in Seq(Interval) /\ 1 = Len(one) /\ one[1] = iv
  BY <1>3
<1>5. PICK none : none = <<>>
  OBVIOUS
<1>6. none \in Seq(Interval) /\ 0 = Len(none)
  BY <1>5
<1>7. PICK u : u = [w EXCEPT ![j] = iv]
  OBVIOUS
<1>8. u \in Seq(Interval) /\ Len(u) = n /\ \A k \in 1 .. n : u[k] = IF k = j THEN iv ELSE w[k]
  BY <1>1, <1>2, <1>7, ExceptSeq
<1>9. PICK v : v = Splice(w, a, b, one)
  OBVIOUS
<1>10. /\ v \in Seq(Interval) /\ Len(v) = n - 1
       /\ \A k \in 1 .. (a - 1) : v[k] = w[k]
       /\ v[a] = iv
       /\ \A k \in (b + 1) .. n : v[k - 1] = w[k]
  <2>1. Replaced(v, w, a, b, one, n, 1)
    BY <1>1, <1>2, <1>4, <1>9, SpliceIs
  <2>2. /\ v \in Seq(Interval) /\ Len(v) = a - 1 + 1 + n - b
        /\ \A k \in 1 .. (a - 1) : v[k] = w[k]
        /\ \A k \in 1 .. 1 : v[a - 1 + k] = one[k]
        /\ \A k \in (b + 1) .. n : v[a - 1 + 1 + k - b] = w[k]
    BY <2>1 DEF Replaced
  <2>3. v[a - 1 + 1] = one[1] /\ a - 1 + 1 = a
    BY <2>2, <1>2
  <2>4. ASSUME NEW k \in (b + 1) .. n PROVE v[k - 1] = w[k]
    <3>1. a - 1 + 1 + k - b = k - 1
      BY <1>2
    <3>2. v[a - 1 + 1 + k - b] = w[k]
      BY <2>2
    <3>3. QED BY <3>1, <3>2
  <2>5. a - 1 + 1 + n - b = n - 1
    BY <1>2
  <2>6. QED BY <2>2, <2>3, <2>4, <2>5, <1>4
<1>11. PICK x : x = Splice(u, i, i, none)
  OBVIOUS
<1>12. /\ x \in Seq(Interval) /\ Len(x) = n - 1
       /\ \A k \in 1 .. (i - 1) : x[k] = u[k]
       /\ \A k \in (i + 1) .. n : x[k - 1] = u[k]
  <2>1. n = Len(u)
    BY <1>8
  <2>2. Replaced(x, u, i, i, none, n, 0)
    BY <2>1, <1>2, <1>6, <1>8, <1>11, SpliceIs
  <2>3. /\ x \in Seq(Interval) /\ Len(x) = i - 1 + 0 + n - i
        /\ \A k \in 1 .. (i - 1) : x[k] = u[k]
        /\ \A k \in (i + 1) .. n : x[i - 1 + 0 + k - i] = u[k]
    BY <2>2 DEF Replaced
  <2>4. \A k \in (i + 1) .. n : i - 1 + 0 + k - i = k - 1
    BY <1>2
  <2>5. QED BY <2>3, <2>4, <1>2
<1>13. ASSUME NEW k \in 1 .. (n - 1) PROVE x[k] = v[k]
  <2>1. CASE k < a
    <3>1. k \in 1 .. (a - 1) /\ k \in 1 .. (i - 1) /\ k \in 1 .. n /\ k # j
      BY <2>1, <1>2
    <3>2. QED BY <3>1, <1>8, <1>10, <1>12
  <2>2. CASE k = a
    <3>1. CASE i = a
      <4>1. b \in (i + 1) .. n /\ b - 1 = k /\ j = b
        BY <2>2, <3>1, <1>2
      <4>2. x[b - 1] = u[b] /\ u[b] = iv
        BY <4>1, <1>2, <1>8, <1>12
      <4>3. QED BY <4>1, <4>2, <2>2, <1>10
    <3>2. CASE i = b
      <4>1. k \in 1 .. (i - 1) /\ j = k
        BY <2>2, <3>2, <1>2
      <4>2. x[k] = u[k] /\ u[k] = iv
        BY <4>1, <1>2, <1>8, <1>12
      <4>3. QED BY <4>2, <2>2, <1>10
    <3>3. QED BY <3>1, <3>2
  <2>3. CASE k > a
    <3>1. PICK q : q = k + 1
      OBVIOUS
    <3>2. /\ q \in (b + 1) .. n /\ q \in (i + 1) .. n /\ q \in 1 .. n /\ q # j
          /\ q - 1 = k
      BY <2>3, <3>1, <1>2
    <3>3. x[q - 1] = u[q] /\ u[q] = w[q] /\ v[q - 1] = w[q]
      BY <3>2, <1>8, <1>10, <1>12
    <3>4. QED BY <3>2, <3>3
  <2>4. QED BY <2>1, <2>2, <2>3, <1>2
<1>14. x = v
  BY <1>10, <1>12, <1>13, SeqEqual
<1>15. QED BY <1>3, <1>5, <1>7, <1>9, <1>11, <1>14

-----------------------------------------------------------------------------
(* The answer to an edit.                                                  *)

\* What Apply makes of the outcome of an operation, and what Edit does with it.
Checked(out) ==
    IF out.answer = "ok" /\ ~ValidStream(out.stream, Eligible) THEN Wrong ELSE out

Answers(out) ==
    /\ answer' = Checked(out).answer
    /\ stream' = IF Checked(out).answer = "ok" THEN Checked(out).stream ELSE stream

\* How it may end; either way the stream is a tiling.
Says(why) == Line!Refused(why) /\ Tiling(stream')
Makes(p, c) == Line!Becomes(p, c) /\ Tiling(stream')

LEMMA RefusesStale ==
    ASSUME Tiling(stream), Answers(Stale)
    PROVE  Says("stale")
<1>1. answer' = "stale" /\ stream' = stream
  BY DEF Answers, Checked, Stale
<1>2. UNCHANGED <<LineOf(stream), StartsOf(stream) \ {0}>>
  BY <1>1 DEF LineOf, PhaseAt, StartsOf
<1>3. QED BY <1>1, <1>2 DEF Says, Line!Refused

LEMMA RefusesWrong ==
    ASSUME Tiling(stream), Answers(Wrong)
    PROVE  Says("invalid")
<1>1. answer' = "invalid" /\ stream' = stream
  BY DEF Answers, Checked, Wrong
<1>2. UNCHANGED <<LineOf(stream), StartsOf(stream) \ {0}>>
  BY <1>1 DEF LineOf, PhaseAt, StartsOf
<1>3. QED BY <1>1, <1>2 DEF Says, Line!Refused

\* A tiling is taken as it is, unless laning is taken up again.
LEMMA Becoming ==
    ASSUME Tiling(stream), NEW v, Tiling(v), Answers(Result(v)),
           NEW p, p = LineOf(v), NEW c, c = StartsOf(v) \ {0}
    PROVE  Makes(p, c)
<1>1. v \in Seq(Interval)
  BY DEF Tiling, Tiles
<1>2. ValidStream(v, Eligible) <=> ~Line!LaningReturns(p)
  BY <1>1, ValidIs, LaningIs
<1>3. Result(v).answer = "ok" /\ Result(v).stream = v
  BY DEF Result
<1>4. CASE Line!LaningReturns(p)
  <2>1. Checked(Result(v)) = Wrong
    BY <1>2, <1>3, <1>4 DEF Checked
  <2>2. Answers(Wrong)
    BY <2>1 DEF Answers, Checked, Wrong
  <2>3. QED BY <2>2, <1>4, RefusesWrong DEF Says, Makes, Line!Becomes
<1>5. CASE ~Line!LaningReturns(p)
  <2>1. Checked(Result(v)) = Result(v)
    BY <1>2, <1>3, <1>5 DEF Checked
  <2>2. answer' = "ok" /\ stream' = v
    BY <2>1, <1>3 DEF Answers
  <2>3. LineOf(stream)' = p /\ (StartsOf(stream) \ {0})' = c
    BY <2>2 DEF LineOf, PhaseAt, StartsOf
  <2>4. QED BY <2>2, <2>3, <1>5 DEF Makes, Line!Becomes
<1>6. QED BY <1>4, <1>5

\* A stretch of the stream divided anew: what becomes of the line.
LEMMA SpliceBecomes ==
    ASSUME Tiling(stream), NEW a \in DOMAIN stream, NEW b \in DOMAIN stream, a <= b,
           NEW from, from = stream[a].start, NEW to, to = stream[b].end,
           NEW parts, Tiles(parts, from, to), Answers(Result(Splice(stream, a, b, parts))),
           NEW p, p = [s \in Second |-> IF from <= s /\ s < to THEN PhaseAt(parts, s)
                                        ELSE LineOf(stream)[s]],
           NEW c, c = ({d \in StartsOf(stream) : d < from \/ d >= to} \cup StartsOf(parts)) \ {0}
    PROVE  Makes(p, c)
<1>1. PICK v : v = Splice(stream, a, b, parts)
  OBVIOUS
<1>2. PICK w : w = stream
  OBVIOUS
<1>3. /\ Tiling(v)
      /\ \A s \in Second : LineOf(v)[s] =
             IF from <= s /\ s < to THEN PhaseAt(parts, s) ELSE LineOf(w)[s]
      /\ StartsOf(v) = {d \in StartsOf(w) : d < from \/ d >= to} \cup StartsOf(parts)
  BY <1>1, <1>2, Spliced
<1>4. LineOf(v) = [s \in Second |-> LineOf(v)[s]]
  BY DEF LineOf, Second
<1>5. p = LineOf(v)
  <2>1. \A s \in Second : LineOf(v)[s] =
            IF from <= s /\ s < to THEN PhaseAt(parts, s) ELSE LineOf(stream)[s]
    BY <1>2, <1>3
  <2>2. QED BY <1>4, <2>1
<1>6. c = StartsOf(v) \ {0}
  BY <1>2, <1>3
<1>7. Answers(Result(v))
  BY <1>1
<1>8. QED BY <1>3, <1>5, <1>6, <1>7, Becoming

-----------------------------------------------------------------------------
(* The seven edits.                                                        *)

\* What a request carries.
LEMMA RequestIs ==
    ASSUME NEW r \in Request
    PROVE  /\ r.op \in {"accept", "relabel", "split", "merge", "move", "add", "delete"}
           /\ r.ref \in Ref /\ r.other \in Ref
           /\ r.value.start \in Nat /\ r.value.end \in Nat /\ r.at \in Nat
           /\ r.op = "add" => r.value \in Value
           /\ r # Idle
<1>1. NoRef \in Ref
  <2>1. 0 \in 0 .. Eligible - 1 /\ 0 \in {-1} \cup 0 .. Eligible
    BY EditConstants
  <2>2. NoRef \in [start : 0 .. Eligible - 1, end : {-1} \cup 0 .. Eligible]
    BY <2>1 DEF NoRef
  <2>3. QED BY <2>2 DEF Ref, NoRef
<1>2. 0 .. Eligible \subseteq Nat /\ 0 .. Eligible + 1 \subseteq Nat
  BY EditConstants
<1>3. \A v \in Value : v.start \in Nat /\ v.end \in Nat
  BY <1>2 DEF Value
<1>4. NoValue.start = 0 /\ NoValue.end = 0
  BY DEF NoValue
<1>5. Idle.op = "none"
  BY DEF Idle
<1>6. CASE r \in Req({"accept"}, Ref, {NoRef}, {NoValue}, {0})
  BY <1>1, <1>4, <1>5, <1>6 DEF Req
<1>7. CASE r \in Req({"relabel", "move"}, Ref, {NoRef}, Value, {0})
  BY <1>1, <1>3, <1>5, <1>7 DEF Req
<1>8. CASE r \in Req({"split"}, Ref, {NoRef}, {NoValue}, 0 .. Eligible)
  BY <1>1, <1>2, <1>4, <1>5, <1>8 DEF Req
<1>9. CASE r \in Req({"merge"}, Ref, Ref, [start : {0}, end : {0}, phase : Labels], {0})
  BY <1>5, <1>9 DEF Req
<1>10. CASE r \in Req({"add"}, {NoRef}, {NoRef}, Value, {0})
  BY <1>1, <1>3, <1>5, <1>10 DEF Req
<1>11. CASE r \in Req({"delete"}, Ref, Ref, {NoValue}, {0})
  BY <1>4, <1>5, <1>11 DEF Req
<1>12. QED BY <1>6, <1>7, <1>8, <1>9, <1>10, <1>11 DEF Request

\* An interval with another start, end or phase.
LEMMA Changed ==
    ASSUME NEW iv \in Interval
    PROVE  /\ \A s \in 0 .. Eligible : /\ [iv EXCEPT !.start = s] \in Interval
                                       /\ [iv EXCEPT !.start = s].start = s
                                       /\ [iv EXCEPT !.start = s].end = iv.end
                                       /\ [iv EXCEPT !.start = s].phase = iv.phase
           /\ \A s \in 0 .. Eligible : /\ [iv EXCEPT !.end = s] \in Interval
                                       /\ [iv EXCEPT !.end = s].start = iv.start
                                       /\ [iv EXCEPT !.end = s].end = s
                                       /\ [iv EXCEPT !.end = s].phase = iv.phase
           /\ \A p \in Phase : /\ [iv EXCEPT !.phase = p] \in Interval
                               /\ [iv EXCEPT !.phase = p].start = iv.start
                               /\ [iv EXCEPT !.phase = p].end = iv.end
                               /\ [iv EXCEPT !.phase = p].phase = p
BY DEF Interval

\* The interval at a place, as the line has it.
At(i) ==
    /\ i \in DOMAIN stream /\ stream[i] \in Interval
    /\ stream[i].start \in Second /\ stream[i].start \in Nat
    /\ stream[i].end \in Nat /\ stream[i].end <= Eligible /\ stream[i].start < stream[i].end
    /\ stream[i].start \in StartsOf(stream)
    /\ Line!Stop(stream[i].start) = stream[i].end
    /\ \A s \in Nat : Holds(stream[i], s) => s \in Second /\ LineOf(stream)[s] = stream[i].phase
    /\ LineOf(stream)[stream[i].start] = stream[i].phase
    /\ \A d \in StartsOf(stream) : d \in Nat /\ (d <= stream[i].start \/ d >= stream[i].end)

LEMMA AtIs ==
    ASSUME Tiling(stream), NEW i \in DOMAIN stream
    PROVE  At(i)
<1>1. Tiles(stream, 0, Eligible)
  BY DEF Tiling
<1>2. /\ stream[i] \in Interval
      /\ stream[i].start \in 0 .. Eligible /\ stream[i].end \in 0 .. Eligible
      /\ stream[i].start \in Nat /\ stream[i].end \in Nat /\ stream[i].start < stream[i].end
  BY <1>1, Places
<1>3. stream[i].start \in Second /\ stream[i].start \in StartsOf(stream)
  BY StartsAre
<1>4. \A s \in Nat : Holds(stream[i], s) => s \in Second
  BY <1>2, EditConstants DEF Holds, Second
<1>5. \A s \in Nat : Holds(stream[i], s) => LineOf(stream)[s] = stream[i].phase
  BY <1>4, LineIs
<1>6. Holds(stream[i], stream[i].start)
  BY <1>2 DEF Holds
<1>7. Line!Stop(stream[i].start) = stream[i].end
  BY StopIs
<1>8. \A d \in StartsOf(stream) : d \in Nat /\ (d <= stream[i].start \/ d >= stream[i].end)
  BY NoneInside
<1>9. stream[i].end <= Eligible
  BY <1>2, EditConstants
<1>10. QED BY <1>2, <1>3, <1>4, <1>5, <1>6, <1>7, <1>8, <1>9 DEF At

\* The interval a reference names.
LEMMA NamedIs ==
    ASSUME Tiling(stream), NEW ref \in Ref, NEW i, i = FindByRef(stream, ref), Line!Named(ref)
    PROVE  At(i) /\ i # 0 /\ i \in Nat /\ stream[i].start = ref.start
<1>1. i \in DOMAIN stream /\ stream[i].start = ref.start
  BY FoundIs
<1>2. DOMAIN stream = 1 .. Len(stream)
  BY Places DEF Tiling
<1>3. QED BY <1>1, <1>2, AtIs

LEMMA NotNamed ==
    ASSUME Tiling(stream), NEW ref \in Ref, ~Line!Named(ref)
    PROVE  FindByRef(stream, ref) = 0
BY FoundIs

LEMMA AcceptEdits ==
    ASSUME Tiling(stream), NEW r \in Request, r.op = "accept", Answers(ApplyAccept(stream, r))
    PROVE  Line!Accept(r) /\ Tiling(stream')
<1>1. r.ref \in Ref
  BY RequestIs
<1>2. CASE ~Line!Named(r.ref)
  <2>1. Answers(Stale)
    BY <1>1, <1>2, NotNamed DEF ApplyAccept
  <2>2. QED BY <1>2, <2>1, RefusesStale DEF Says, Makes, Line!Accept
<1>3. CASE Line!Named(r.ref)
  <2>1. FindByRef(stream, r.ref) # 0
    BY <1>1, <1>3, NamedIs
  <2>2. Answers(Result(stream))
    BY <2>1 DEF ApplyAccept
  <2>3. Makes(LineOf(stream), StartsOf(stream) \ {0})
    BY <2>2, Becoming
  <2>4. QED BY <1>3, <2>3 DEF Says, Makes, Line!Accept
<1>4. QED BY <1>2, <1>3

LEMMA SplitEdits ==
    ASSUME Tiling(stream), NEW r \in Request, r.op = "split", Answers(ApplySplit(stream, r))
    PROVE  Line!Split(r) /\ Tiling(stream')
<1>1. r.ref \in Ref /\ r.at \in Nat
  BY RequestIs
<1>2. PICK i : i = FindByRef(stream, r.ref)
  OBVIOUS
<1>3. PICK at : at = r.at
  OBVIOUS
<1>4. ApplySplit(stream, r) =
          IF i = 0 THEN Stale
          ELSE IF at <= stream[i].start \/ at >= stream[i].end THEN Wrong
          ELSE Result(Splice(stream, i, i, <<[stream[i] EXCEPT !.end = at],
                                             [stream[i] EXCEPT !.start = at]>>))
  BY <1>2, <1>3 DEF ApplySplit
<1>5. CASE ~Line!Named(r.ref)
  <2>1. i = 0
    BY <1>1, <1>2, <1>5, NotNamed
  <2>2. Answers(Stale)
    BY <1>4, <2>1
  <2>3. QED BY <1>5, <2>2, RefusesStale DEF Says, Makes, Line!Split
<1>6. CASE Line!Named(r.ref)
  <2>1. At(i) /\ i # 0 /\ i \in Nat /\ stream[i].start = r.ref.start
    BY <1>1, <1>2, <1>6, NamedIs
  <2>2. PICK from, to : from = stream[i].start /\ to = stream[i].end
    OBVIOUS
  <2>3. /\ from = r.ref.start /\ to = Line!Stop(r.ref.start)
        /\ from \in Nat /\ to \in Nat /\ to <= Eligible /\ from < to
    BY <2>1, <2>2 DEF At
  <2>4. CASE ~(from < at /\ at < to)
    <3>1. at <= from \/ at >= to
      BY <1>1, <1>3, <2>3, <2>4
    <3>2. Answers(Wrong)
      BY <1>4, <2>1, <2>2, <3>1
    <3>3. Says("invalid")
      BY <3>2, RefusesWrong
    <3>4. QED BY <1>3, <1>6, <2>3, <2>4, <3>3 DEF Says, Makes, Line!Split
  <2>5. CASE from < at /\ at < to
    <3>1. ~(at <= from \/ at >= to) /\ at \in Nat /\ at \in 0 .. Eligible
      BY <1>1, <1>3, <2>3, <2>5, EditConstants
    <3>2. PICK l, q : l = [stream[i] EXCEPT !.end = at] /\ q = [stream[i] EXCEPT !.start = at]
      OBVIOUS
    <3>3. PICK phase : phase = stream[i].phase
      OBVIOUS
    <3>4. /\ l \in Interval /\ l.start = from /\ l.end = at /\ l.phase = phase
          /\ q \in Interval /\ q.start = at /\ q.end = to /\ q.phase = phase
      <4>1. stream[i] \in Interval
        BY <2>1 DEF At
      <4>2. QED BY <4>1, <2>2, <3>1, <3>2, <3>3, Changed
    <3>5. PICK parts : parts = <<l, q>>
      OBVIOUS
    <3>6. /\ Tiles(parts, from, to) /\ StartsOf(parts) = {from, at}
          /\ \A s \in Nat : Holds(l, s) => PhaseAt(parts, s) = phase
          /\ \A s \in Nat : Holds(q, s) => PhaseAt(parts, s) = phase
      BY <2>5, <3>4, <3>5, TwoParts
    <3>7. Answers(Result(Splice(stream, i, i, parts)))
      BY <1>4, <2>1, <2>2, <3>1, <3>2, <3>5
    <3>8. PICK p : p = [s \in Second |-> IF from <= s /\ s < to THEN PhaseAt(parts, s)
                                         ELSE LineOf(stream)[s]]
      OBVIOUS
    <3>9. PICK c : c = ({d \in StartsOf(stream) : d < from \/ d >= to} \cup StartsOf(parts)) \ {0}
      OBVIOUS
    <3>10. Makes(p, c)
      BY <2>1, <2>2, <3>6, <3>7, <3>8, <3>9, SpliceBecomes DEF At
    <3>11. p = LineOf(stream)
      <4>1. ASSUME NEW s \in Second, from <= s, s < to
            PROVE  PhaseAt(parts, s) = LineOf(stream)[s]
        <5>1. s \in Nat
          BY EditConstants DEF Second
        <5>2. Holds(l, s) \/ Holds(q, s)
          BY <5>1, <4>1, <3>1, <3>4 DEF Holds
        <5>3. Holds(stream[i], s)
          BY <4>1, <2>2 DEF Holds
        <5>4. LineOf(stream)[s] = phase
          BY <2>1, <3>3, <5>1, <5>3 DEF At
        <5>5. QED BY <5>1, <5>2, <5>4, <3>6
      <4>2. LineOf(stream) = [s \in Second |-> LineOf(stream)[s]]
        BY DEF LineOf, Second
      <4>3. QED BY <4>1, <4>2, <3>8
    <3>12. c = (StartsOf(stream) \ {0}) \cup {at}
      <4>1. \A d \in StartsOf(stream) : d \in Nat /\ (d <= from \/ d >= to)
        BY <2>1, <2>2 DEF At
      <4>2. from \in StartsOf(stream) /\ at # 0
        BY <2>1, <2>2, <2>3, <2>5 DEF At
      <4>3. \A d \in StartsOf(stream) : (d < from \/ d >= to) \/ d = from
        BY <4>1, <2>3
      <4>4. QED BY <4>2, <4>3, <3>6, <3>9
    <3>13. QED BY <1>3, <1>6, <2>3, <2>5, <3>10, <3>11, <3>12 DEF Says, Makes, Line!Split
  <2>6. QED BY <2>4, <2>5
<1>7. QED BY <1>5, <1>6

\* Intervals a to b, from one second to another, made into the one iv.
MadeOne(a, b, from, to, iv) ==
    /\ a \in DOMAIN stream /\ b \in DOMAIN stream /\ a <= b
    /\ from = stream[a].start /\ to = stream[b].end
    /\ iv \in Interval /\ iv.start = from /\ iv.end = to

\* Their seconds are painted, the cuts between go.
LEMMA PaintBecomes ==
    ASSUME Tiling(stream), NEW a, NEW b, NEW from, NEW to, NEW iv, MadeOne(a, b, from, to, iv),
           Answers(Result(Splice(stream, a, b, <<iv>>))),
           NEW p, p = Line!Paint(from, to, iv.phase),
           NEW c, c = {d \in StartsOf(stream) \ {0} : d <= from \/ d >= to}
    PROVE  Makes(p, c)
<1>1. /\ a \in DOMAIN stream /\ b \in DOMAIN stream /\ a <= b
      /\ from = stream[a].start /\ to = stream[b].end
      /\ iv \in Interval /\ iv.start = from /\ iv.end = to
  BY DEF MadeOne
<1>2. Tiles(stream, 0, Eligible)
  BY DEF Tiling
<1>3. from \in Nat /\ to \in Nat /\ from < to
  <2>1. /\ stream[a].start \in Nat /\ stream[b].start \in Nat /\ stream[b].end \in Nat
        /\ stream[b].start < stream[b].end
    BY <1>1, <1>2, Places
  <2>2. stream[a].start <= stream[b].start
    BY <1>1, <1>2, Ordered
  <2>3. QED BY <1>1, <2>1, <2>2
<1>4. PICK parts : parts = <<iv>>
  OBVIOUS
<1>5. /\ Tiles(parts, from, to) /\ StartsOf(parts) = {from}
      /\ \A s \in Nat : Holds(iv, s) => PhaseAt(parts, s) = iv.phase
  BY <1>1, <1>3, <1>4, OnePart
<1>6. p = [s \in Second |-> IF from <= s /\ s < to THEN PhaseAt(parts, s)
                            ELSE LineOf(stream)[s]]
  <2>1. ASSUME NEW s \in Second, from <= s, s < to PROVE PhaseAt(parts, s) = iv.phase
    <3>1. s \in Nat
      BY EditConstants DEF Second
    <3>2. QED BY <3>1, <2>1, <1>1, <1>5 DEF Holds
  <2>2. QED BY <2>1 DEF Line!Paint, Line!Second, Second
<1>7. c = ({d \in StartsOf(stream) : d < from \/ d >= to} \cup StartsOf(parts)) \ {0}
  <2>1. \A d \in StartsOf(stream) : d \in Nat
    <3>1. Second \subseteq Nat
      BY EditConstants DEF Second
    <3>2. QED BY <3>1, StartsAre
  <2>2. from \in StartsOf(stream)
    BY <1>1, StartsAre
  <2>3. \A d \in StartsOf(stream) : d <= from \/ d >= to <=> (d < from \/ d >= to) \/ d = from
    BY <2>1, <1>3
  <2>4. QED BY <2>2, <2>3, <1>5
<1>8. Answers(Result(Splice(stream, a, b, parts)))
  BY <1>4
<1>9. QED BY <1>1, <1>5, <1>6, <1>7, <1>8, SpliceBecomes

LEMMA RelabelEdits ==
    ASSUME Tiling(stream), NEW r \in Request, r.op = "relabel", Answers(ApplyRelabel(stream, r))
    PROVE  Line!Relabel(r) /\ Tiling(stream')
<1>1. r.ref \in Ref
  BY RequestIs
<1>2. PICK i : i = FindByRef(stream, r.ref)
  OBVIOUS
<1>3. PICK v : v = r.value
  OBVIOUS
<1>4. ApplyRelabel(stream, r) =
          IF i = 0 THEN Stale
          ELSE IF ~(v.start = stream[i].start /\ v.end = stream[i].end /\ v.phase \in Phase)
          THEN Wrong
          ELSE Result([stream EXCEPT ![i] = [stream[i] EXCEPT !.phase = v.phase]])
  BY <1>2, <1>3 DEF ApplyRelabel
<1>5. CASE ~Line!Named(r.ref)
  <2>1. i = 0
    BY <1>1, <1>2, <1>5, NotNamed
  <2>2. Answers(Stale)
    BY <1>4, <2>1
  <2>3. QED BY <1>5, <2>2, RefusesStale DEF Says, Makes, Line!Relabel
<1>6. CASE Line!Named(r.ref)
  <2>1. At(i) /\ i # 0 /\ i \in Nat /\ stream[i].start = r.ref.start
    BY <1>1, <1>2, <1>6, NamedIs
  <2>2. PICK from, to : from = stream[i].start /\ to = stream[i].end
    OBVIOUS
  <2>3. from = r.ref.start /\ to = Line!Stop(r.ref.start)
    BY <2>1, <2>2 DEF At
  <2>4. CASE ~(v.start = from /\ v.end = to /\ v.phase \in Phase)
    <3>1. Answers(Wrong)
      BY <1>4, <2>1, <2>2, <2>4
    <3>2. Says("invalid")
      BY <3>1, RefusesWrong
    <3>3. QED BY <1>3, <1>6, <2>3, <2>4, <3>2 DEF Says, Makes, Line!Relabel, Line!Phase, Phase
  <2>5. CASE v.start = from /\ v.end = to /\ v.phase \in Phase
    <3>1. PICK iv : iv = [stream[i] EXCEPT !.phase = v.phase]
      OBVIOUS
    <3>2. iv \in Interval /\ iv.start = from /\ iv.end = to /\ iv.phase = v.phase
      <4>1. stream[i] \in Interval
        BY <2>1 DEF At
      <4>2. QED BY <4>1, <2>2, <2>5, <3>1, Changed
    <3>3. Answers(Result([stream EXCEPT ![i] = iv]))
      BY <1>4, <2>1, <2>2, <2>5, <3>1
    <3>4. [stream EXCEPT ![i] = iv] = Splice(stream, i, i, <<iv>>)
      <4>1. stream \in Seq(Interval) /\ i \in DOMAIN stream
        BY <2>1 DEF At, Tiling, Tiles
      <4>2. QED BY <4>1, <3>2, ChangedOne
    <3>5. PICK p : p = Line!Paint(from, to, v.phase)
      OBVIOUS
    <3>6. PICK c : c = {d \in StartsOf(stream) \ {0} : d <= from \/ d >= to}
      OBVIOUS
    <3>7. Makes(p, c)
      <4>1. Answers(Result(Splice(stream, i, i, <<iv>>)))
        BY <3>3, <3>4
      <4>2. i \in DOMAIN stream /\ i <= i
        BY <2>1 DEF At
      <4>3. p = Line!Paint(from, to, iv.phase)
        BY <3>2, <3>5
      <4>4. MadeOne(i, i, from, to, iv)
        BY <4>2, <2>2, <3>2 DEF MadeOne
      <4>5. QED BY <4>1, <4>3, <4>4, <3>6, PaintBecomes
    <3>8. c = StartsOf(stream) \ {0}
      BY <2>1, <2>2, <3>6 DEF At
    <3>9. QED BY <1>3, <1>6, <2>3, <2>5, <3>5, <3>7, <3>8 DEF Says, Makes, Line!Relabel, Line!Phase, Phase
  <2>6. QED BY <2>4, <2>5
<1>7. QED BY <1>5, <1>6

LEMMA MergeEdits ==
    ASSUME Tiling(stream), NEW r \in Request, r.op = "merge", Answers(ApplyMerge(stream, r))
    PROVE  Line!Merge(r) /\ Tiling(stream')
<1>1. r.ref \in Ref /\ r.other \in Ref
  BY RequestIs
<1>2. PICK i, j : i = FindByRef(stream, r.ref) /\ j = FindByRef(stream, r.other)
  OBVIOUS
<1>3. PICK a, b : a = (IF i <= j THEN i ELSE j) /\ b = (IF i <= j THEN j ELSE i)
  OBVIOUS
<1>4. PICK label : label = IF r.value.phase = "" THEN stream[a].phase ELSE r.value.phase
  OBVIOUS
<1>5. CASE ~(Line!Named(r.ref) /\ Line!Named(r.other))
  <2>1. i = 0 \/ j = 0
    BY <1>1, <1>2, <1>5, NotNamed
  <2>2. i \in Nat /\ j \in Nat
    BY <1>1, <1>2, NamedIs, NotNamed
  <2>3. a = 0
    BY <1>3, <2>1, <2>2
  <2>4. ApplyMerge(stream, r) = Stale
    BY <1>2, <1>3, <2>1, <2>3 DEF ApplyMerge
  <2>5. QED BY <1>5, <2>4, RefusesStale DEF Says, Makes, Line!Merge
<1>6. CASE Line!Named(r.ref) /\ Line!Named(r.other)
  <2>1. /\ At(i) /\ i # 0 /\ i \in Nat /\ stream[i].start = r.ref.start
        /\ At(j) /\ j # 0 /\ j \in Nat /\ stream[j].start = r.other.start
    BY <1>1, <1>2, <1>6, NamedIs
  <2>2. At(a) /\ At(b) /\ a \in Nat /\ b \in Nat /\ a # 0 /\ a <= b /\ (a = b <=> i = j)
    BY <2>1, <1>3
  <2>3. PICK left, mid, to : left = stream[a].start /\ mid = stream[b].start /\ to = stream[b].end
    OBVIOUS
  <2>4. /\ left = (IF r.ref.start <= r.other.start THEN r.ref.start ELSE r.other.start)
        /\ mid = (IF r.ref.start <= r.other.start THEN r.other.start ELSE r.ref.start)
        /\ left = mid <=> i = j
    <3>1. Tiles(stream, 0, Eligible) /\ i \in DOMAIN stream /\ j \in DOMAIN stream
      BY <2>1 DEF At, Tiling
    <3>2. /\ i < j => stream[i].start < stream[j].start
          /\ j < i => stream[j].start < stream[i].start
      BY <3>1, Ordered
    <3>3. stream[i].start \in Nat /\ stream[j].start \in Nat
      BY <2>1 DEF At
    <3>4. CASE i < j
      BY <3>2, <3>3, <3>4, <2>1, <2>3, <1>3
    <3>5. CASE j < i
      BY <3>2, <3>3, <3>5, <2>1, <2>3, <1>3
    <3>6. CASE i = j
      BY <3>3, <3>6, <2>1, <2>3, <1>3
    <3>7. QED BY <3>4, <3>5, <3>6, <2>1
  <2>5. /\ Line!Stop(left) = stream[a].end /\ Line!Stop(mid) = to
        /\ LineOf(stream)[left] = stream[a].phase
        /\ left \in Nat /\ mid \in Nat /\ to \in Nat /\ mid < to
    BY <2>2, <2>3 DEF At
  <2>6. label = IF r.value.phase = "" THEN LineOf(stream)[left] ELSE r.value.phase
    BY <1>4, <2>5
  <2>7. ApplyMerge(stream, r) =
            IF i = j THEN Wrong
            ELSE IF stream[a].end # mid \/ label \notin Phase THEN Wrong
            ELSE Result(Splice(stream, a, b, <<[start |-> left, end |-> to, phase |-> label]>>))
    BY <1>2, <1>3, <1>4, <2>1, <2>2, <2>3 DEF ApplyMerge
  <2>8. CASE ~(left # mid /\ Line!Stop(left) = mid /\ label \in Phase)
    <3>1. Answers(Wrong)
      BY <2>4, <2>5, <2>7, <2>8
    <3>2. Says("invalid")
      BY <3>1, RefusesWrong
    <3>3. QED BY <1>6, <2>4, <2>6, <2>8, <3>2 DEF Says, Makes, Line!Merge, Line!Phase, Phase
  <2>9. CASE left # mid /\ Line!Stop(left) = mid /\ label \in Phase
    <3>1. PICK iv : iv = [start |-> left, end |-> to, phase |-> label]
      OBVIOUS
    <3>2. iv \in Interval /\ iv.start = left /\ iv.end = to /\ iv.phase = label
      <4>1. left \in 0 .. Eligible /\ to \in 0 .. Eligible
        <5>1. stream[a] \in Interval /\ stream[b] \in Interval
          BY <2>2 DEF At
        <5>2. QED BY <5>1, <2>3 DEF Interval
      <4>2. QED BY <4>1, <2>9, <3>1 DEF Interval
    <3>3. Answers(Result(Splice(stream, a, b, <<iv>>)))
      BY <2>4, <2>5, <2>7, <2>9, <3>1
    <3>4. PICK p : p = Line!Paint(left, to, label)
      OBVIOUS
    <3>5. PICK c : c = {d \in StartsOf(stream) \ {0} : d <= left \/ d >= to}
      OBVIOUS
    <3>6. Makes(p, c)
      <4>1. a \in DOMAIN stream /\ b \in DOMAIN stream
        BY <2>2 DEF At
      <4>2. p = Line!Paint(left, to, iv.phase)
        BY <3>2, <3>4
      <4>3. MadeOne(a, b, left, to, iv)
        BY <4>1, <2>2, <2>3, <3>2 DEF MadeOne
      <4>4. QED BY <4>2, <4>3, <3>3, <3>5, PaintBecomes
    <3>7. c = (StartsOf(stream) \ {0}) \ {mid}
      <4>1. left < mid
        BY <2>2, <2>3, <2>5, <2>9 DEF At
      <4>2. \A d \in StartsOf(stream) : /\ d \in Nat /\ (d <= left \/ d >= mid)
                                        /\ d <= mid \/ d >= to
        BY <2>2, <2>3, <2>5, <2>9 DEF At
      <4>3. \A d \in StartsOf(stream) : d <= left \/ d >= to <=> d # mid
        BY <4>1, <4>2, <2>5
      <4>4. QED BY <4>3, <3>5
    <3>8. Makes(Line!Paint(left, Line!Stop(mid), label), (StartsOf(stream) \ {0}) \ {mid})
      BY <2>5, <3>4, <3>6, <3>7
    <3>9. QED BY <1>6, <2>4, <2>6, <2>9, <3>8 DEF Says, Makes, Line!Merge, Line!Phase, Phase
  <2>10. QED BY <2>8, <2>9
<1>7. QED BY <1>5, <1>6

\* Of two neighbours a and b, i is given to j: i takes the phase of j, the cut between goes.
LEMMA GivenTo ==
    ASSUME Tiling(stream), NEW a, NEW b, At(a), At(b), stream[a].end = stream[b].start,
           NEW i \in {a, b}, NEW j \in {a, b}, i # j,
           NEW iv \in Interval, iv.start = stream[a].start, iv.end = stream[b].end,
           iv.phase = stream[j].phase,
           Answers(Result(Splice(stream, a, b, <<iv>>)))
    PROVE  Makes(Line!Paint(stream[i].start, stream[i].end, LineOf(stream)[stream[j].start]),
                        (StartsOf(stream) \ {0}) \ {stream[b].start})
<1>1. stream \in Seq(Interval) /\ a \in DOMAIN stream /\ b \in DOMAIN stream
  BY DEF Tiling, Tiles, At
<1>2. b = a + 1 /\ a <= b
  <2>1. b = a + 1
    BY <1>1, Adjacent
  <2>2. DOMAIN stream = 1 .. Len(stream)
    BY <1>1
  <2>3. QED BY <1>1, <2>1, <2>2
<1>3. PICK from, mid, to : from = stream[a].start /\ mid = stream[b].start /\ to = stream[b].end
  OBVIOUS
<1>4. /\ from \in Nat /\ mid \in Nat /\ to \in Nat /\ from < mid /\ mid < to
      /\ stream[a].end = mid
      /\ \A d \in StartsOf(stream) : d \in Nat /\ (d <= from \/ d >= mid) /\ (d <= mid \/ d >= to)
  BY <1>3 DEF At
<1>5. PICK phase : phase = stream[j].phase
  OBVIOUS
<1>6. PICK p : p = Line!Paint(from, to, phase)
  OBVIOUS
<1>7. PICK c : c = {d \in StartsOf(stream) \ {0} : d <= from \/ d >= to}
  OBVIOUS
<1>8. Makes(p, c)
  <2>1. p = Line!Paint(from, to, iv.phase)
    BY <1>5, <1>6
  <2>2. MadeOne(a, b, from, to, iv)
    BY <1>1, <1>2, <1>3 DEF MadeOne
  <2>3. QED BY <2>1, <2>2, <1>7, PaintBecomes
<1>9. c = (StartsOf(stream) \ {0}) \ {mid}
  <2>1. \A d \in StartsOf(stream) : d <= from \/ d >= to <=> d # mid
    BY <1>4
  <2>2. QED BY <2>1, <1>7
<1>10. p = Line!Paint(stream[i].start, stream[i].end, LineOf(stream)[stream[j].start])
  <2>1. LineOf(stream)[stream[j].start] = phase
    BY <1>5 DEF At
  <2>2. \A s \in Second : s \in Nat
    BY EditConstants DEF Second
  <2>3. \A s \in Second : Holds(stream[j], s) => LineOf(stream)[s] = phase
    BY <2>2, <1>5 DEF At
  <2>4. \A s \in Second : from <= s /\ s < to <=>
            Holds(stream[j], s) \/ Holds(stream[i], s)
    <3>1. CASE i = a /\ j = b
      BY <3>1, <2>2, <1>3, <1>4 DEF Holds
    <3>2. CASE i = b /\ j = a
      BY <3>2, <2>2, <1>3, <1>4 DEF Holds
    <3>3. QED BY <3>1, <3>2
  <2>5. \A s \in Second : (IF from <= s /\ s < to THEN phase ELSE LineOf(stream)[s]) =
            (IF stream[i].start <= s /\ s < stream[i].end THEN phase ELSE LineOf(stream)[s])
    BY <2>3, <2>4 DEF Holds
  <2>6. QED BY <2>1, <2>5, <1>6 DEF Line!Paint, Line!Second, Second
<1>11. QED BY <1>3, <1>8, <1>9, <1>10

LEMMA DeleteEdits ==
    ASSUME Tiling(stream), NEW r \in Request, r.op = "delete", Answers(ApplyDelete(stream, r))
    PROVE  Line!Delete(r) /\ Tiling(stream')
<1>1. r.ref \in Ref /\ r.other \in Ref
  BY RequestIs
<1>2. PICK i, j : i = FindByRef(stream, r.ref) /\ j = FindByRef(stream, r.other)
  OBVIOUS
<1>3. r.other = NoRef <=> r.other.end = 0
  <2>1. ASSUME r.other.end = 0 PROVE r.other = NoRef
    <3>1. r.other \in [start : 0 .. Eligible - 1, end : {-1} \cup 0 .. Eligible]
      BY <1>1 DEF Ref
    <3>2. r.other.start = 0
      BY <1>1, <2>1, <3>1, EditConstants DEF Ref
    <3>3. QED BY <2>1, <3>1, <3>2 DEF NoRef
  <2>2. QED BY <2>1 DEF NoRef
<1>4. CASE r.other.end = 0
  <2>1. ~Line!Named(r.other)
    <3>1. SUFFICES ASSUME Line!Named(r.other) PROVE FALSE
      OBVIOUS
    <3>2. At(j) /\ stream[j].start = r.other.start
      BY <1>1, <1>2, <3>1, NamedIs
    <3>3. Line!Stop(r.other.start) > 0
      BY <3>2 DEF At
    <3>4. Line!Stop(r.other.start) = 0
      BY <3>1, <1>4 DEF Line!Named
    <3>5. QED BY <3>3, <3>4
  <2>2. j = 0 /\ r.other = NoRef
    BY <1>1, <1>2, <1>3, <1>4, <2>1, NotNamed
  <2>3. ApplyDelete(stream, r) = Wrong
    BY <1>2, <2>2 DEF ApplyDelete
  <2>4. Says("invalid")
    BY <2>3, RefusesWrong
  <2>5. QED BY <1>4, <2>4 DEF Says, Makes, Line!Delete
<1>5. CASE r.other.end # 0 /\ ~(Line!Named(r.ref) /\ Line!Named(r.other))
  <2>1. i = 0 \/ j = 0
    BY <1>1, <1>2, <1>5, NotNamed
  <2>2. ApplyDelete(stream, r) = Stale
    BY <1>2, <1>3, <1>5, <2>1 DEF ApplyDelete
  <2>3. QED BY <1>5, <2>2, RefusesStale DEF Says, Makes, Line!Delete
<1>6. CASE r.other.end # 0 /\ Line!Named(r.ref) /\ Line!Named(r.other)
  <2>1. /\ At(i) /\ i # 0 /\ i \in Nat /\ stream[i].start = r.ref.start
        /\ At(j) /\ j # 0 /\ j \in Nat /\ stream[j].start = r.other.start
    BY <1>1, <1>2, <1>6, NamedIs
  <2>2. PICK s, t, o, u : /\ s = stream[i].start /\ t = stream[i].end
                          /\ o = stream[j].start /\ u = stream[j].end
    OBVIOUS
  <2>3. /\ s = r.ref.start /\ t = Line!Stop(r.ref.start)
        /\ o = r.other.start /\ u = Line!Stop(r.other.start)
        /\ s \in Nat /\ t \in Nat /\ o \in Nat /\ u \in Nat /\ s < t /\ o < u
        /\ s \in 0 .. Eligible /\ t \in 0 .. Eligible
    <3>1. /\ s = r.ref.start /\ t = Line!Stop(r.ref.start)
          /\ o = r.other.start /\ u = Line!Stop(r.other.start)
          /\ s \in Nat /\ t \in Nat /\ o \in Nat /\ u \in Nat /\ s < t /\ o < u
      BY <2>1, <2>2 DEF At
    <3>2. stream[i] \in Interval
      BY <2>1 DEF At
    <3>3. QED BY <2>2, <3>1, <3>2 DEF Interval
  <2>4. CASE u = s
    <3>1. o # t /\ o < s /\ s # o
      BY <2>3, <2>4
    <3>2. PICK iv : iv = [stream[j] EXCEPT !.end = t]
      OBVIOUS
    <3>3. /\ iv \in Interval /\ iv.start = stream[j].start /\ iv.end = stream[i].end
          /\ iv.phase = stream[j].phase
      <4>1. stream[j] \in Interval
        BY <2>1 DEF At
      <4>2. QED BY <4>1, <2>2, <2>3, <3>2, Changed
    <3>4. ApplyDelete(stream, r) = Result(Splice([stream EXCEPT ![j] = iv], i, i, <<>>))
      BY <1>2, <1>3, <1>6, <2>1, <2>2, <2>4, <3>1, <3>2 DEF ApplyDelete
    <3>5. Makes(Line!Paint(s, t, LineOf(stream)[o]), (StartsOf(stream) \ {0}) \ {s})
      <4>1. i # j /\ stream[j].end = stream[i].start
        BY <2>2, <2>4, <3>1
      <4>2. Answers(Result(Splice(stream, j, i, <<iv>>)))
        <5>1. stream \in Seq(Interval) /\ i \in DOMAIN stream /\ j \in DOMAIN stream
          BY <2>1 DEF At, Tiling, Tiles
        <5>2. i = j + 1
          BY <5>1, <4>1, Adjacent
        <5>3. Splice([stream EXCEPT ![j] = iv], i, i, <<>>) = Splice(stream, j, i, <<iv>>)
          BY <5>1, <5>2, <4>1, <3>3, RemovedOne
        <5>4. QED BY <5>3, <3>4
      <4>3. QED BY <4>1, <4>2, <2>1, <2>2, <3>3, GivenTo
    <3>6. QED BY <1>6, <2>3, <2>4, <3>1, <3>5 DEF Says, Makes, Line!Delete
  <2>5. CASE u # s /\ o = t
    <3>1. ~(o < s) /\ s # o
      BY <2>3, <2>5
    <3>2. PICK iv : iv = [stream[j] EXCEPT !.start = s]
      OBVIOUS
    <3>3. /\ iv \in Interval /\ iv.start = stream[i].start /\ iv.end = stream[j].end
          /\ iv.phase = stream[j].phase
      <4>1. stream[j] \in Interval
        BY <2>1 DEF At
      <4>2. QED BY <4>1, <2>2, <2>3, <3>2, Changed
    <3>4. ApplyDelete(stream, r) = Result(Splice([stream EXCEPT ![j] = iv], i, i, <<>>))
      BY <1>2, <1>3, <1>6, <2>1, <2>2, <2>5, <3>1, <3>2 DEF ApplyDelete
    <3>5. Makes(Line!Paint(s, t, LineOf(stream)[o]), (StartsOf(stream) \ {0}) \ {o})
      <4>1. i # j /\ stream[i].end = stream[j].start
        BY <2>2, <2>5, <3>1
      <4>2. Answers(Result(Splice(stream, i, j, <<iv>>)))
        <5>1. stream \in Seq(Interval) /\ i \in DOMAIN stream /\ j \in DOMAIN stream
          BY <2>1 DEF At, Tiling, Tiles
        <5>2. j = i + 1
          BY <5>1, <4>1, Adjacent
        <5>3. Splice([stream EXCEPT ![j] = iv], i, i, <<>>) = Splice(stream, i, j, <<iv>>)
          BY <5>1, <5>2, <4>1, <3>3, RemovedOne
        <5>4. QED BY <5>3, <3>4
      <4>3. QED BY <4>1, <4>2, <2>1, <2>2, <3>3, GivenTo
    <3>6. QED BY <1>6, <2>3, <2>5, <3>1, <3>5 DEF Says, Makes, Line!Delete
  <2>6. CASE u # s /\ o # t
    <3>1. ApplyDelete(stream, r) = Wrong
      BY <1>2, <1>3, <1>6, <2>1, <2>2, <2>6 DEF ApplyDelete
    <3>2. Says("invalid")
      BY <3>1, RefusesWrong
    <3>3. QED BY <1>6, <2>3, <2>6, <3>2 DEF Says, Makes, Line!Delete
  <2>7. QED BY <2>4, <2>5, <2>6
<1>7. QED BY <1>4, <1>5, <1>6

\* u is the stream with the cut between the neighbours a and b moved to x.
MovedCut(u, a, b, x) ==
    Rewritten(u, stream, a, b, [stream[a] EXCEPT !.end = x], [stream[b] EXCEPT !.start = x])

\* The seconds the cut moved over take the phase of the other side.
LEMMA CutMoved ==
    ASSUME Tiling(stream), NEW a, NEW b, At(a), At(b), stream[a].end = stream[b].start,
           NEW x \in Nat, stream[a].start < x, x < stream[b].end,
           NEW u, MovedCut(u, a, b, x), Answers(Result(u)),
           NEW mid, mid = stream[b].start
    PROVE  Makes(IF x < mid THEN Line!Paint(x, mid, stream[b].phase)
                        ELSE Line!Paint(mid, x, stream[a].phase),
                        ((StartsOf(stream) \ {0}) \ {mid}) \cup {x})
<1>1. stream \in Seq(Interval) /\ a \in DOMAIN stream /\ b \in DOMAIN stream
  BY DEF Tiling, Tiles, At
<1>2. b = a + 1 /\ a <= b
  <2>1. b = a + 1
    BY <1>1, Adjacent
  <2>2. DOMAIN stream = 1 .. Len(stream)
    BY <1>1
  <2>3. QED BY <1>1, <2>1, <2>2
<1>3. PICK from, to : from = stream[a].start /\ to = stream[b].end
  OBVIOUS
<1>4. /\ from \in Nat /\ mid \in Nat /\ to \in Nat /\ from < mid /\ mid < to /\ to <= Eligible
      /\ from < x /\ x < to /\ stream[a].end = mid
      /\ \A d \in StartsOf(stream) : d \in Nat /\ (d <= from \/ d >= mid) /\ (d <= mid \/ d >= to)
  BY <1>3 DEF At
<1>5. PICK left, right : left = stream[a].phase /\ right = stream[b].phase
  OBVIOUS
<1>6. PICK p, q : p = [stream[a] EXCEPT !.end = x] /\ q = [stream[b] EXCEPT !.start = x]
  OBVIOUS
<1>7. /\ p \in Interval /\ p.start = from /\ p.end = x /\ p.phase = left
      /\ q \in Interval /\ q.start = x /\ q.end = to /\ q.phase = right
  <2>1. stream[a] \in Interval /\ stream[b] \in Interval /\ x \in 0 .. Eligible
    BY <1>4, EditConstants DEF At
  <2>2. QED BY <2>1, <1>3, <1>5, <1>6, Changed
<1>8. PICK parts : parts = <<p, q>>
  OBVIOUS
<1>9. /\ Tiles(parts, from, to) /\ StartsOf(parts) = {from, x}
      /\ \A s \in Nat : Holds(p, s) => PhaseAt(parts, s) = left
      /\ \A s \in Nat : Holds(q, s) => PhaseAt(parts, s) = right
  BY <1>4, <1>7, <1>8, TwoParts
<1>10. u = Splice(stream, a, b, parts)
  <2>1. Rewritten(u, stream, a, b, p, q)
    BY <1>6 DEF MovedCut
  <2>2. QED BY <2>1, <1>1, <1>2, <1>7, <1>8, ChangedTwo
<1>11. PICK line : line = [s \in Second |-> IF from <= s /\ s < to THEN PhaseAt(parts, s)
                                            ELSE LineOf(stream)[s]]
  OBVIOUS
<1>12. PICK c : c = ({d \in StartsOf(stream) : d < from \/ d >= to} \cup StartsOf(parts)) \ {0}
  OBVIOUS
<1>13. Makes(line, c)
  <2>1. Answers(Result(Splice(stream, a, b, parts)))
    BY <1>10
  <2>2. QED BY <2>1, <1>1, <1>2, <1>3, <1>9, <1>11, <1>12, SpliceBecomes
<1>14. \A s \in Second : /\ line[s] = (IF from <= s /\ s < x THEN left
                                       ELSE IF x <= s /\ s < to THEN right
                                       ELSE LineOf(stream)[s])
                         /\ from <= s /\ s < mid => LineOf(stream)[s] = left
                         /\ mid <= s /\ s < to => LineOf(stream)[s] = right
                         /\ s \in Nat
  <2>1. ASSUME NEW s \in Second
        PROVE  /\ line[s] = (IF from <= s /\ s < x THEN left
                             ELSE IF x <= s /\ s < to THEN right
                             ELSE LineOf(stream)[s])
               /\ from <= s /\ s < mid => LineOf(stream)[s] = left
               /\ mid <= s /\ s < to => LineOf(stream)[s] = right
               /\ s \in Nat
    <3>1. s \in Nat
      BY EditConstants DEF Second
    <3>2. line[s] = IF from <= s /\ s < to THEN PhaseAt(parts, s) ELSE LineOf(stream)[s]
      BY <1>11
    <3>3. from <= s /\ s < x => PhaseAt(parts, s) = left
      BY <3>1, <1>7, <1>9 DEF Holds
    <3>4. x <= s /\ s < to => PhaseAt(parts, s) = right
      BY <3>1, <1>7, <1>9 DEF Holds
    <3>5. from <= s /\ s < mid => LineOf(stream)[s] = left
      BY <3>1, <1>3, <1>4, <1>5 DEF Holds, At
    <3>6. mid <= s /\ s < to => LineOf(stream)[s] = right
      BY <3>1, <1>3, <1>4, <1>5 DEF Holds, At
    <3>7. /\ from <= s /\ s < to <=> (from <= s /\ s < x) \/ (x <= s /\ s < to)
          /\ ~((from <= s /\ s < x) /\ (x <= s /\ s < to))
      BY <3>1, <1>4
    <3>8. QED BY <3>1, <3>2, <3>3, <3>4, <3>5, <3>6, <3>7
  <2>2. QED BY <2>1
<1>15. line = [s \in Second |-> line[s]]
  BY <1>11
<1>16. c = ((StartsOf(stream) \ {0}) \ {mid}) \cup {x}
  <2>1. from \in StartsOf(stream) /\ x # 0
    BY <1>3, <1>4 DEF At
  <2>2. \A d \in StartsOf(stream) : (d < from \/ d >= to) \/ d = from <=> d # mid
    BY <1>4
  <2>3. QED BY <2>1, <2>2, <1>9, <1>12
<1>17. CASE x < mid
  <2>1. \A s \in Second : line[s] = IF x <= s /\ s < mid THEN right ELSE LineOf(stream)[s]
    <3>1. ASSUME NEW s \in Second
          PROVE  line[s] = IF x <= s /\ s < mid THEN right ELSE LineOf(stream)[s]
      <4>1. s \in Nat
        BY <1>14
      <4>2. s < from \/ (from <= s /\ s < x) \/ (x <= s /\ s < mid) \/ (mid <= s /\ s < to) \/ to <= s
        BY <4>1, <1>4
      <4>3. QED BY <4>1, <4>2, <1>4, <1>14, <1>17
    <3>2. QED BY <3>1
  <2>2. line = Line!Paint(x, mid, right)
    BY <2>1, <1>15 DEF Line!Paint, Line!Second, Second
  <2>3. QED BY <2>2, <1>5, <1>13, <1>16, <1>17
<1>18. CASE ~(x < mid)
  <2>1. \A s \in Second : line[s] = IF mid <= s /\ s < x THEN left ELSE LineOf(stream)[s]
    <3>1. ASSUME NEW s \in Second
          PROVE  line[s] = IF mid <= s /\ s < x THEN left ELSE LineOf(stream)[s]
      <4>1. s \in Nat
        BY <1>14
      <4>2. s < from \/ (from <= s /\ s < mid) \/ (mid <= s /\ s < x) \/ (x <= s /\ s < to) \/ to <= s
        BY <4>1, <1>4
      <4>3. QED BY <4>1, <4>2, <1>4, <1>14, <1>18
    <3>2. QED BY <3>1
  <2>2. line = Line!Paint(mid, x, left)
    BY <2>1, <1>15 DEF Line!Paint, Line!Second, Second
  <2>3. QED BY <2>2, <1>5, <1>13, <1>16, <1>18
<1>19. QED BY <1>17, <1>18

\* What two writes leave.
LEMMA TwoWrites ==
    ASSUME NEW w \in Seq(Interval), NEW i \in DOMAIN w, NEW j \in DOMAIN w, i # j,
           NEW p \in Interval, NEW q \in Interval
    PROVE  Rewritten([w EXCEPT ![i] = p, ![j] = q], w, i, j, p, q)
<1>1. DOMAIN w = 1 .. Len(w)
  OBVIOUS
<1>2. PICK v : v = [w EXCEPT ![i] = p]
  OBVIOUS
<1>3. /\ v \in Seq(Interval) /\ Len(v) = Len(w)
      /\ \A k \in 1 .. Len(w) : v[k] = IF k = i THEN p ELSE w[k]
  BY <1>1, <1>2, ExceptSeq
<1>4. PICK u : u = [v EXCEPT ![j] = q]
  OBVIOUS
<1>5. /\ u \in Seq(Interval) /\ Len(u) = Len(v)
      /\ \A k \in 1 .. Len(v) : u[k] = IF k = j THEN q ELSE v[k]
  <2>1. j \in 1 .. Len(v)
    BY <1>1, <1>3
  <2>2. QED BY <1>3, <1>4, <2>1, ExceptSeq
<1>6. u = [w EXCEPT ![i] = p, ![j] = q]
  BY <1>2, <1>4
<1>7. QED BY <1>1, <1>3, <1>5, <1>6 DEF Rewritten

LEMMA MoveEdits ==
    ASSUME Tiling(stream), NEW r \in Request, r.op = "move", Answers(ApplyMove(stream, r))
    PROVE  Line!Move(r) /\ Tiling(stream')
<1>1. r.ref \in Ref /\ r.value.start \in Nat /\ r.value.end \in Nat
  BY RequestIs
<1>2. PICK i : i = FindByRef(stream, r.ref)
  OBVIOUS
<1>3. PICK v : v = r.value
  OBVIOUS
<1>4. CASE ~Line!Named(r.ref)
  <2>1. i = 0
    BY <1>1, <1>2, <1>4, NotNamed
  <2>2. ApplyMove(stream, r) = Stale
    BY <1>2, <2>1 DEF ApplyMove
  <2>3. QED BY <1>4, <2>2, RefusesStale DEF Says, Makes, Line!Move
<1>5. CASE Line!Named(r.ref)
  <2>1. At(i) /\ i # 0 /\ i \in Nat /\ stream[i].start = r.ref.start
    BY <1>1, <1>2, <1>5, NamedIs
  <2>2. PICK s, t : s = stream[i].start /\ t = stream[i].end
    OBVIOUS
  <2>3. /\ s = r.ref.start /\ t = Line!Stop(r.ref.start)
        /\ LineOf(stream)[s] = stream[i].phase
        /\ s \in Nat /\ t \in Nat /\ s < t /\ t <= Eligible
    BY <2>1, <2>2 DEF At
  <2>4. /\ stream \in Seq(Interval) /\ i \in DOMAIN stream /\ DOMAIN stream = 1 .. Len(stream)
        /\ Len(stream) \in Nat
        /\ s = 0 <=> i = 1
        /\ t = Eligible <=> i = Len(stream)
    <3>1. stream \in Seq(Interval) /\ i \in DOMAIN stream
      BY <2>1 DEF At, Tiling, Tiles
    <3>2. QED BY <3>1, <2>2, StartsAre
  <2>5. CASE v.phase \notin {"", stream[i].phase} \/ (v.start # s /\ v.end # t)
             \/ (v.start = s /\ v.end = t)
    <3>1. ApplyMove(stream, r) = Wrong
      BY <1>2, <1>3, <2>1, <2>2, <2>5 DEF ApplyMove
    <3>2. Says("invalid")
      BY <3>1, RefusesWrong
    <3>3. QED BY <1>3, <1>5, <2>3, <2>5, <3>2 DEF Says, Makes, Line!Move
  <2>6. CASE v.phase \in {"", stream[i].phase} /\ v.start # s /\ v.end = t
    <3>1. PICK x : x = v.start
      OBVIOUS
    <3>2. ApplyMove(stream, r) =
              IF i = 1 \/ x <= stream[i - 1].start \/ x >= t THEN Wrong
              ELSE Result(MoveCut(stream, i - 1, i, x))
      BY <1>2, <1>3, <2>1, <2>2, <2>6, <3>1 DEF ApplyMove
    <3>3. CASE i = 1
      <4>1. Says("invalid")
        BY <3>2, <3>3, RefusesWrong
      <4>2. QED BY <1>3, <1>5, <2>3, <2>4, <2>6, <3>3, <4>1 DEF Says, Makes, Line!Move
    <3>4. CASE i # 1
      <4>1. i - 1 \in DOMAIN stream /\ i - 1 # i /\ At(i - 1)
        <5>1. i - 1 \in DOMAIN stream /\ i - 1 # i
          BY <2>4, <3>4
        <5>2. QED BY <5>1, AtIs
      <4>2. PICK h, left : h = i - 1 /\ left = stream[h].start
        OBVIOUS
      <4>3. /\ left = Line!Holder(s - 1) /\ left \in Nat
            /\ LineOf(stream)[left] = stream[h].phase
            /\ stream[h].end = s
        <5>1. left = Line!Holder(s - 1)
          BY <2>2, <2>4, <3>4, <4>2, HolderIs
        <5>2. left \in Nat /\ LineOf(stream)[left] = stream[h].phase
          BY <4>1, <4>2 DEF At
        <5>3. stream[h].end = s
          BY <2>2, <2>4, <3>4, <4>2 DEF Tiling, Tiles
        <5>4. QED BY <5>1, <5>2, <5>3
      <4>4. CASE x <= left \/ x >= t
        <5>1. Says("invalid")
          BY <3>2, <4>2, <4>4, RefusesWrong
        <5>2. QED BY <1>3, <1>5, <2>3, <2>6, <3>1, <4>3, <4>4, <5>1 DEF Says, Makes, Line!Move
      <4>5. CASE ~(x <= left \/ x >= t)
        <5>1. x \in Nat /\ left < x /\ x < t
          BY <1>1, <1>3, <2>3, <3>1, <4>3, <4>5
        <5>2. PICK u : u = MoveCut(stream, h, i, x)
          OBVIOUS
        <5>3. Answers(Result(u))
          BY <3>2, <3>4, <4>2, <4>5, <5>2
        <5>4. MovedCut(u, h, i, x)
          <6>1. PICK p, q : p = [stream[h] EXCEPT !.end = x] /\ q = [stream[i] EXCEPT !.start = x]
            OBVIOUS
          <6>2. p \in Interval /\ q \in Interval
            <7>1. stream[h] \in Interval /\ stream[i] \in Interval /\ x \in 0 .. Eligible
              BY <2>1, <2>3, <4>1, <4>2, <5>1, EditConstants DEF At
            <7>2. QED BY <6>1, <7>1, Changed
          <6>3. u = [stream EXCEPT ![h] = p, ![i] = q]
            BY <2>4, <4>1, <4>2, <5>2, <6>1 DEF MoveCut
          <6>4. Rewritten(u, stream, h, i, p, q)
            BY <2>4, <4>1, <4>2, <6>2, <6>3, TwoWrites
          <6>5. QED BY <6>1, <6>4 DEF MovedCut
        <5>5. Makes(IF x < s THEN Line!Paint(x, s, stream[i].phase)
                           ELSE Line!Paint(s, x, stream[h].phase),
                           ((StartsOf(stream) \ {0}) \ {s}) \cup {x})
          <6>1. At(h) /\ stream[h].end = stream[i].start /\ stream[h].start < x /\ x < stream[i].end
            BY <2>2, <4>1, <4>2, <4>3, <5>1
          <6>2. QED BY <2>1, <2>2, <5>1, <5>3, <5>4, <6>1, CutMoved
        <5>6. Makes(IF x < s THEN Line!Paint(x, s, LineOf(stream)[s])
                           ELSE Line!Paint(s, x, LineOf(stream)[left]),
                           ((StartsOf(stream) \ {0}) \ {s}) \cup {x})
          BY <2>3, <4>3, <5>5
        <5>7. s # 0
          BY <2>4, <3>4
        <5>8. QED BY <1>3, <1>5, <2>3, <2>6, <3>1, <4>3, <5>1, <5>6, <5>7 DEF Says, Makes, Line!Move
      <4>6. QED BY <4>4, <4>5
    <3>5. QED BY <3>3, <3>4
  <2>7. CASE v.phase \in {"", stream[i].phase} /\ v.start = s /\ v.end # t
    <3>1. PICK x : x = v.end
      OBVIOUS
    <3>2. ApplyMove(stream, r) =
              IF i = Len(stream) \/ x <= s \/ x >= stream[i + 1].end THEN Wrong
              ELSE Result(MoveCut(stream, i, i + 1, x))
      BY <1>2, <1>3, <2>1, <2>2, <2>7, <3>1 DEF ApplyMove
    <3>3. CASE i = Len(stream)
      <4>1. Says("invalid")
        BY <3>2, <3>3, RefusesWrong
      <4>2. QED BY <1>3, <1>5, <2>3, <2>4, <2>7, <3>3, <4>1 DEF Says, Makes, Line!Move
    <3>4. CASE i # Len(stream)
      <4>1. i + 1 \in DOMAIN stream /\ i + 1 # i /\ At(i + 1)
        <5>1. i + 1 \in DOMAIN stream /\ i + 1 # i
          BY <2>4, <3>4
        <5>2. QED BY <5>1, AtIs
      <4>2. PICK h, stop : h = i + 1 /\ stop = stream[h].end
        OBVIOUS
      <4>3. /\ stream[h].start = t /\ stop = Line!Stop(t) /\ stop \in Nat
            /\ LineOf(stream)[t] = stream[h].phase
        <5>1. h \in DOMAIN stream \ {1} /\ h - 1 = i
          BY <2>4, <4>1, <4>2
        <5>2. stream[h].start = t
          BY <5>1, <2>2 DEF Tiling, Tiles
        <5>3. QED BY <4>1, <4>2, <5>2 DEF At
      <4>4. CASE x <= s \/ x >= stop
        <5>1. Says("invalid")
          BY <3>2, <4>2, <4>4, RefusesWrong
        <5>2. QED BY <1>3, <1>5, <2>3, <2>7, <3>1, <4>3, <4>4, <5>1 DEF Says, Makes, Line!Move
      <4>5. CASE ~(x <= s \/ x >= stop)
        <5>1. x \in Nat /\ s < x /\ x < stop
          BY <1>1, <1>3, <2>3, <3>1, <4>3, <4>5
        <5>2. PICK u : u = MoveCut(stream, i, h, x)
          OBVIOUS
        <5>3. Answers(Result(u))
          BY <3>2, <3>4, <4>2, <4>5, <5>2
        <5>4. MovedCut(u, i, h, x)
          <6>1. PICK p, q : p = [stream[i] EXCEPT !.end = x] /\ q = [stream[h] EXCEPT !.start = x]
            OBVIOUS
          <6>2. p \in Interval /\ q \in Interval
            <7>1. stream[h] \in Interval /\ stream[i] \in Interval /\ x \in 0 .. Eligible
              BY <2>1, <4>1, <4>2, <5>1, EditConstants DEF At
            <7>2. QED BY <6>1, <7>1, Changed
          <6>3. u = [stream EXCEPT ![i] = p, ![h] = q]
            BY <2>4, <4>1, <4>2, <5>2, <6>1 DEF MoveCut
          <6>4. Rewritten(u, stream, i, h, p, q)
            BY <2>4, <4>1, <4>2, <6>2, <6>3, TwoWrites
          <6>5. QED BY <6>1, <6>4 DEF MovedCut
        <5>5. Makes(IF x < t THEN Line!Paint(x, t, stream[h].phase)
                           ELSE Line!Paint(t, x, stream[i].phase),
                           ((StartsOf(stream) \ {0}) \ {t}) \cup {x})
          <6>1. /\ At(h) /\ stream[i].end = stream[h].start /\ stream[i].start < x
                /\ x < stream[h].end /\ t = stream[h].start
            BY <2>2, <4>1, <4>2, <4>3, <5>1
          <6>2. QED BY <2>1, <5>1, <5>3, <5>4, <6>1, CutMoved
        <5>6. Makes(IF x < t THEN Line!Paint(x, t, LineOf(stream)[t])
                           ELSE Line!Paint(t, x, LineOf(stream)[s]),
                           ((StartsOf(stream) \ {0}) \ {t}) \cup {x})
          BY <2>3, <4>3, <5>5
        <5>7. t # Eligible
          BY <2>4, <3>4
        <5>8. QED BY <1>3, <1>5, <2>3, <2>7, <3>1, <4>3, <5>1, <5>6, <5>7 DEF Says, Makes, Line!Move
      <4>6. QED BY <4>4, <4>5
    <3>5. QED BY <3>3, <3>4
  <2>8. QED BY <2>5, <2>6, <2>7
<1>6. QED BY <1>4, <1>5

\* Lists of one, two and three intervals, put together.
LEMMA PutTogether ==
    ASSUME NEW p \in Interval, NEW q \in Interval, NEW t \in Interval
    PROVE  /\ <<>> \o <<p>> = <<p>> /\ <<p>> \o <<>> = <<p>> /\ <<p, q>> \o <<>> = <<p, q>>
           /\ <<p>> \o <<q>> = <<p, q>>
           /\ <<p, q>> \o <<t>> = <<p, q, t>>
<1>1. PICK one, two, three, other : /\ one = <<p>> /\ two = <<p, q>> /\ three = <<p, q, t>>
                                    /\ other = <<q>>
  OBVIOUS
<1>2. /\ one \in Seq(Interval) /\ Len(one) = 1 /\ one[1] = p
      /\ other \in Seq(Interval) /\ Len(other) = 1 /\ other[1] = q
      /\ two \in Seq(Interval) /\ Len(two) = 2 /\ two[1] = p /\ two[2] = q
      /\ three \in Seq(Interval) /\ Len(three) = 3
      /\ three[1] = p /\ three[2] = q /\ three[3] = t
  BY <1>1
<1>3. PICK last : last = <<t>> /\ last \in Seq(Interval) /\ Len(last) = 1 /\ last[1] = t
  <2>1. PICK x : x = <<t>>
    OBVIOUS
  <2>2. x \in Seq(Interval) /\ Len(x) = 1 /\ x[1] = t
    BY <2>1
  <2>3. QED BY <2>1, <2>2
<1>4. PICK none : none = <<>>
  OBVIOUS
<1>5. none \o one = one /\ one \o none = one /\ two \o none = two
  BY <1>2, <1>4, ConcatEmptySeq
<1>6. one \o other = two
  <2>1. PICK u : u = one \o other
    OBVIOUS
  <2>2. /\ u \in Seq(Interval) /\ Len(u) = Len(one) + Len(other)
        /\ \A k \in 1 .. Len(one) + Len(other) :
               u[k] = IF k <= Len(one) THEN one[k] ELSE other[k - Len(one)]
    BY <2>1, <1>2, ConcatProperties
  <2>3. u[1] = p /\ u[2] = q
    BY <2>2, <1>2
  <2>4. \A k \in 1 .. 2 : k = 1 \/ k = 2
    OBVIOUS
  <2>5. \A k \in 1 .. 2 : u[k] = two[k]
    BY <2>3, <2>4, <1>2
  <2>6. u = two
    BY <2>2, <2>5, <1>2, SeqEqual
  <2>7. QED BY <2>1, <2>6
<1>7. two \o last = three
  <2>1. PICK u : u = two \o last
    OBVIOUS
  <2>2. /\ u \in Seq(Interval) /\ Len(u) = Len(two) + Len(last)
        /\ \A k \in 1 .. Len(two) + Len(last) :
               u[k] = IF k <= Len(two) THEN two[k] ELSE last[k - Len(two)]
    <3>1. two \in Seq(Interval) /\ last \in Seq(Interval)
      BY <1>2, <1>3
    <3>2. QED BY <2>1, <3>1, ConcatProperties
  <2>3. u[1] = p /\ u[2] = q /\ u[3] = t
    BY <2>2, <1>2, <1>3
  <2>4. \A k \in 1 .. 3 : k = 1 \/ k = 2 \/ k = 3
    OBVIOUS
  <2>5. \A k \in 1 .. 3 : u[k] = three[k]
    BY <2>3, <2>4, <1>2
  <2>6. u = three
    BY <2>2, <2>5, <1>2, <1>3, SeqEqual
  <2>7. QED BY <2>1, <2>6
<1>8. QED BY <1>1, <1>3, <1>4, <1>5, <1>6, <1>7

\* v is within the interval iv.
Within(v, iv) == /\ iv \in Interval /\ v \in Interval
                 /\ iv.start <= v.start /\ v.start < v.end /\ v.end <= iv.end

\* What is before it, v itself, and what is after it, where there is any.
Parted(iv, v) == Kept([iv EXCEPT !.end = v.start]) \o Kept(v) \o Kept([iv EXCEPT !.start = v.end])

LEMMA PartsOf ==
    ASSUME NEW iv, NEW v, Within(v, iv), NEW parts, parts = Parted(iv, v)
    PROVE  /\ Tiles(parts, iv.start, iv.end)
           /\ StartsOf(parts) = {iv.start, v.start} \cup {s \in {v.end} : s < iv.end}
           /\ \A s \in Nat : iv.start <= s /\ s < iv.end =>
                  PhaseAt(parts, s) = IF Holds(v, s) THEN v.phase ELSE iv.phase
<1>1. /\ iv \in Interval /\ v \in Interval
      /\ iv.start <= v.start /\ v.start < v.end /\ v.end <= iv.end
  BY DEF Within
<1>2. PICK l, q : l = [iv EXCEPT !.end = v.start] /\ q = [iv EXCEPT !.start = v.end]
  OBVIOUS
<1>3. /\ iv.start \in Nat /\ iv.end \in Nat /\ v.start \in Nat /\ v.end \in Nat
      /\ v.start \in 0 .. Eligible /\ v.end \in 0 .. Eligible
  BY <1>1, EditConstants DEF Interval
<1>4. /\ l \in Interval /\ l.start = iv.start /\ l.end = v.start /\ l.phase = iv.phase
      /\ q \in Interval /\ q.start = v.end /\ q.end = iv.end /\ q.phase = iv.phase
  BY <1>1, <1>2, <1>3, Changed
<1>5. parts = Kept(l) \o Kept(v) \o Kept(q)
  BY <1>2 DEF Parted
<1>6. Kept(v) = <<v>>
  BY <1>1 DEF Kept
<1>7. \A s \in Nat : iv.start <= s /\ s < iv.end =>
          \/ Holds(l, s) /\ ~Holds(v, s) /\ l.start < l.end
          \/ Holds(v, s)
          \/ Holds(q, s) /\ ~Holds(v, s) /\ q.start < q.end
  BY <1>1, <1>3, <1>4 DEF Holds
<1>8. CASE l.start < l.end /\ q.start < q.end
  <2>1. Kept(l) = <<l>> /\ Kept(q) = <<q>>
    BY <1>8 DEF Kept
  <2>2. parts = <<l, v, q>>
    <3>1. <<l>> \o <<v>> = <<l, v>>
      BY <1>1, <1>4, PutTogether
    <3>2. <<l, v>> \o <<q>> = <<l, v, q>>
      BY <1>1, <1>4, PutTogether
    <3>3. QED BY <1>5, <1>6, <2>1, <3>1, <3>2
  <2>3. /\ Tiles(parts, iv.start, iv.end)
        /\ StartsOf(parts) = {iv.start, v.start, v.end}
        /\ \A s \in Nat : Holds(l, s) => PhaseAt(parts, s) = iv.phase
        /\ \A s \in Nat : Holds(v, s) => PhaseAt(parts, s) = v.phase
        /\ \A s \in Nat : Holds(q, s) => PhaseAt(parts, s) = iv.phase
    BY <2>2, <1>1, <1>4, <1>8, ThreeParts DEF Follow
  <2>4. v.end < iv.end
    BY <1>4, <1>8
  <2>5. QED BY <1>7, <2>3, <2>4
<1>9. CASE l.start < l.end /\ ~(q.start < q.end)
  <2>1. Kept(l) = <<l>> /\ Kept(q) = <<>>
    BY <1>9 DEF Kept
  <2>2. parts = <<l, v>>
    BY <1>1, <1>4, <1>5, <1>6, <2>1, PutTogether
  <2>3. v.end = iv.end
    BY <1>1, <1>3, <1>4, <1>9
  <2>4. /\ Tiles(parts, iv.start, iv.end)
        /\ StartsOf(parts) = {iv.start, v.start}
        /\ \A s \in Nat : Holds(l, s) => PhaseAt(parts, s) = iv.phase
        /\ \A s \in Nat : Holds(v, s) => PhaseAt(parts, s) = v.phase
    BY <2>2, <2>3, <1>1, <1>4, <1>9, TwoParts
  <2>5. {s \in {v.end} : s < iv.end} = {}
    BY <2>3, <1>3
  <2>6. QED BY <1>7, <1>9, <2>4, <2>5
<1>10. CASE ~(l.start < l.end) /\ q.start < q.end
  <2>1. Kept(l) = <<>> /\ Kept(q) = <<q>>
    BY <1>10 DEF Kept
  <2>2. parts = <<v, q>>
    BY <1>1, <1>4, <1>5, <1>6, <2>1, PutTogether
  <2>3. v.start = iv.start /\ v.end < iv.end
    BY <1>1, <1>3, <1>4, <1>10
  <2>4. /\ Tiles(parts, iv.start, iv.end)
        /\ StartsOf(parts) = {v.start, v.end}
        /\ \A s \in Nat : Holds(v, s) => PhaseAt(parts, s) = v.phase
        /\ \A s \in Nat : Holds(q, s) => PhaseAt(parts, s) = iv.phase
    BY <2>2, <2>3, <1>1, <1>4, <1>10, TwoParts
  <2>5. StartsOf(parts) = {iv.start, v.start} \cup {s \in {v.end} : s < iv.end}
    BY <2>3, <2>4
  <2>6. QED BY <1>7, <1>10, <2>4, <2>5
<1>11. CASE ~(l.start < l.end) /\ ~(q.start < q.end)
  <2>1. Kept(l) = <<>> /\ Kept(q) = <<>>
    BY <1>11 DEF Kept
  <2>2. parts = <<v>>
    BY <1>1, <1>4, <1>5, <1>6, <2>1, PutTogether
  <2>3. v.start = iv.start /\ v.end = iv.end
    BY <1>1, <1>3, <1>4, <1>11
  <2>4. /\ Tiles(parts, iv.start, iv.end)
        /\ StartsOf(parts) = {v.start}
        /\ \A s \in Nat : Holds(v, s) => PhaseAt(parts, s) = v.phase
    BY <2>2, <2>3, <1>1, OnePart
  <2>5. {s \in {v.end} : s < iv.end} = {}
    BY <2>3, <1>3
  <2>6. QED BY <1>7, <1>11, <2>3, <2>4, <2>5
<1>12. QED BY <1>8, <1>9, <1>10, <1>11

LEMMA AddEdits ==
    ASSUME Tiling(stream), NEW r \in Request, r.op = "add", Answers(ApplyAdd(stream, r))
    PROVE  Line!Add(r) /\ Tiling(stream')
<1>1. PICK v : v = r.value
  OBVIOUS
<1>2. PICK around : around = {i \in DOMAIN stream : stream[i].start <= v.start /\ v.end <= stream[i].end}
  OBVIOUS
<1>3. ValidShape(v) <=> v.phase \in Phase /\ 0 <= v.start /\ v.start < v.end /\ v.end <= Eligible
  BY DEF ValidShape
<1>4. CASE ~ValidShape(v)
  <2>1. ApplyAdd(stream, r) = Wrong
    BY <1>1, <1>4 DEF ApplyAdd
  <2>2. Says("invalid")
    BY <2>1, RefusesWrong
  <2>3. QED BY <1>1, <1>3, <1>4, <2>2 DEF Says, Makes, Line!Add, Line!Phase, Phase
<1>5. CASE ValidShape(v)
  <2>1. v \in Interval /\ v.start \in Nat /\ v.end \in Nat /\ v.start < v.end /\ v.end <= Eligible
    <3>1. r.value \in Value
      BY RequestIs
    <3>2. /\ v \in [start : 0 .. Eligible, end : 0 .. Eligible + 1, phase : Labels]
          /\ v.start \in 0 .. Eligible /\ v.end \in 0 .. Eligible + 1
      BY <1>1, <3>1 DEF Value
    <3>3. v.end \in 0 .. Eligible /\ v.phase \in Phase /\ v.start < v.end
      BY <1>3, <1>5, <3>2, EditConstants
    <3>4. QED BY <1>3, <1>5, <3>2, <3>3, EditConstants DEF Interval
  <2>2. DOMAIN stream = 1 .. Len(stream) /\ Len(stream) \in Nat \ {0}
    BY Places DEF Tiling
  <2>3. \A i \in around : At(i) /\ stream[i].start <= v.start /\ v.end <= stream[i].end
    BY <1>2, AtIs
  <2>4. CASE around = {}
    <3>1. \E d \in StartsOf(stream) \ {0} : v.start < d /\ d < v.end
      <4>1. v.start \in Second
        BY <2>1, EditConstants DEF Second
      <4>2. PICK i \in DOMAIN stream : Holds(stream[i], v.start)
        BY <4>1, LineIs
      <4>3. At(i) /\ stream[i].start <= v.start /\ v.start < stream[i].end
        BY <4>2, AtIs DEF Holds
      <4>4. i \notin around
        BY <2>4
      <4>5. stream[i].end < v.end
        BY <1>2, <2>1, <4>2, <4>3, <4>4 DEF At
      <4>6. i # Len(stream)
        <5>1. stream[i].end # Eligible
          BY <2>1, <4>3, <4>5, EditConstants DEF At
        <5>2. QED BY <5>1, <4>2, StartsAre
      <4>7. i + 1 \in DOMAIN stream \ {1} /\ (i + 1) - 1 = i
        BY <2>2, <4>2, <4>6
      <4>8. stream[i + 1].start = stream[i].end
        BY <4>7 DEF Tiling, Tiles
      <4>9. stream[i].end \in StartsOf(stream)
        BY <4>7, <4>8, StartsAre
      <4>10. stream[i].end # 0
        BY <4>3 DEF At
      <4>11. QED BY <4>3, <4>5, <4>9, <4>10
    <3>2. ApplyAdd(stream, r) = Stale
      BY <1>1, <1>2, <1>5, <2>4 DEF ApplyAdd
    <3>3. Says("stale")
      BY <3>2, RefusesStale
    <3>4. QED BY <1>1, <1>3, <1>5, <3>1, <3>3 DEF Says, Makes, Line!Add, Line!Phase, Phase
  <2>5. CASE around # {}
    <3>1. PICK i : i = CHOOSE k \in around : \A j \in around : k <= j
      OBVIOUS
    <3>2. i \in around
      <4>1. around \in SUBSET Nat
        BY <1>2, <2>2
      <4>2. \E k \in around : \A j \in around : k <= j
        BY <2>5, <4>1, LeastOf
      <4>3. QED BY <3>1, <4>2
    <3>3. PICK iv, from, to : iv = stream[i] /\ from = iv.start /\ to = iv.end
      OBVIOUS
    <3>4. /\ At(i) /\ i \in DOMAIN stream /\ iv \in Interval /\ from \in Nat /\ to \in Nat
          /\ from < to /\ to <= Eligible /\ from <= v.start /\ v.end <= to
          /\ from \in StartsOf(stream)
          /\ \A d \in StartsOf(stream) : d \in Nat /\ (d <= from \/ d >= to)
      BY <2>3, <3>2, <3>3 DEF At
    <3>5. PICK parts : parts = Parted(iv, v)
      OBVIOUS
    <3>6. /\ Tiles(parts, from, to)
          /\ StartsOf(parts) = {from, v.start} \cup {s \in {v.end} : s < to}
          /\ \A s \in Nat : from <= s /\ s < to =>
                 PhaseAt(parts, s) = IF Holds(v, s) THEN v.phase ELSE iv.phase
      BY <2>1, <3>3, <3>4, <3>5, PartsOf DEF Within
    <3>7. ApplyAdd(stream, r) = Result(Splice(stream, i, i, parts))
      BY <1>1, <1>2, <1>5, <2>5, <3>1, <3>3, <3>5 DEF ApplyAdd, Parted
    <3>8. PICK p : p = [s \in Second |-> IF from <= s /\ s < to THEN PhaseAt(parts, s)
                                         ELSE LineOf(stream)[s]]
      OBVIOUS
    <3>9. PICK c : c = ({d \in StartsOf(stream) : d < from \/ d >= to} \cup StartsOf(parts)) \ {0}
      OBVIOUS
    <3>10. Makes(p, c)
      <4>1. Answers(Result(Splice(stream, i, i, parts))) /\ i <= i
        BY <2>2, <3>4, <3>7
      <4>2. QED BY <4>1, <3>3, <3>4, <3>6, <3>8, <3>9, SpliceBecomes
    <3>11. p = Line!Paint(v.start, v.end, v.phase)
      <4>1. \A s \in Second : s \in Nat
        BY EditConstants DEF Second
      <4>2. \A s \in Second : from <= s /\ s < to => LineOf(stream)[s] = iv.phase
        BY <4>1, <3>3, <3>4 DEF At, Holds
      <4>3. \A s \in Second : Holds(v, s) => from <= s /\ s < to
        BY <4>1, <2>1, <3>4 DEF Holds
      <4>4. \A s \in Second : (IF from <= s /\ s < to THEN PhaseAt(parts, s)
                               ELSE LineOf(stream)[s])
                              = IF Holds(v, s) THEN v.phase ELSE LineOf(stream)[s]
        BY <4>1, <4>2, <4>3, <3>6
      <4>5. QED BY <4>4, <3>8 DEF Line!Paint, Line!Second, Second, Holds
    <3>12. c = (StartsOf(stream) \ {0}) \cup ({v.start, v.end} \ {0, Eligible})
      <4>1. to = Eligible \/ to \in StartsOf(stream)
        <5>1. CASE i = Len(stream)
          BY <3>3, <3>4, <5>1, StartsAre
        <5>2. CASE i # Len(stream)
          <6>1. i + 1 \in DOMAIN stream \ {1} /\ (i + 1) - 1 = i
            BY <2>2, <3>4, <5>2
          <6>2. stream[i + 1].start = to
            BY <6>1, <3>3 DEF Tiling, Tiles
          <6>3. QED BY <6>1, <6>2, StartsAre
        <5>3. QED BY <5>1, <5>2
      <4>2. v.start # Eligible /\ v.end # 0 /\ (v.end < to => v.end # Eligible)
        BY <2>1, <3>4, EditConstants
      <4>3. v.end < to \/ v.end = to
        BY <2>1, <3>4
      <4>4. \A d \in StartsOf(stream) : (d < from \/ d >= to) \/ d = from
        BY <3>4
      <4>5. to >= to
        BY <3>4
      <4>6. CASE v.end < to
        <5>1. StartsOf(parts) = {from, v.start, v.end}
          BY <3>6, <4>6
        <5>2. QED BY <5>1, <3>4, <3>9, <4>2, <4>4, <4>6
      <4>7. CASE v.end = to
        <5>1. StartsOf(parts) = {from, v.start}
          BY <3>4, <3>6, <4>7
        <5>2. QED BY <5>1, <3>4, <3>9, <4>1, <4>2, <4>4, <4>5, <4>7
      <4>8. QED BY <4>3, <4>6, <4>7
    <3>13. ~ \E d \in StartsOf(stream) \ {0} : v.start < d /\ d < v.end
      BY <2>1, <3>4
    <3>14. Makes(Line!Paint(v.start, v.end, v.phase),
                        (StartsOf(stream) \ {0}) \cup ({v.start, v.end} \ {0, Eligible}))
      BY <3>10, <3>11, <3>12
    <3>15. QED BY <1>1, <1>3, <1>5, <3>13, <3>14 DEF Says, Makes, Line!Add, Line!Phase, Phase
  <2>6. QED BY <2>4, <2>5
<1>6. QED BY <1>4, <1>5

-----------------------------------------------------------------------------
(* The specification.                                                      *)

\* The stream is one that validateStream accepts, and what is asked is a request.
Inv ==
    /\ stream \in Seq(Interval) /\ ValidStream(stream, Eligible)
    /\ asked \in Request \cup {Idle}

\* The streams the machine emits stand for lines the editor may start from.
LEMMA InitImplements ==
    ASSUME EditInit
    PROVE  Inv /\ Line!Init
<1>1. Inv
  BY EditConstants DEF EditInit, Inv
<1>2. Tiling(stream) /\ ~Retaken(stream)
  BY <1>1, ValidIs DEF Inv
<1>3. LineOf(stream) \in [Second -> Phase] /\ ~Line!LaningReturns(LineOf(stream))
  BY <1>2, LineIs, LaningIs
<1>4. StartsOf(stream) \ {0} \in SUBSET (Second \ {0})
  BY <1>2, StartsAre
<1>5. ASSUME NEW s \in Second \ {0}, LineOf(stream)[s] # LineOf(stream)[s - 1],
             s \notin StartsOf(stream)
      PROVE  FALSE
  <2>1. s \in Nat /\ s - 1 \in Second /\ s - 1 \in Nat
    BY EditConstants DEF Second
  <2>2. PICK i \in DOMAIN stream : Holds(stream[i], s)
    BY <1>2, LineIs
  <2>3. At(i)
    BY <1>2, AtIs
  <2>4. stream[i].start # s
    BY <1>5, <2>3 DEF At
  <2>5. Holds(stream[i], s - 1)
    BY <2>1, <2>2, <2>3, <2>4 DEF Holds, At
  <2>6. LineOf(stream)[s] = stream[i].phase /\ LineOf(stream)[s - 1] = stream[i].phase
    BY <2>1, <2>2, <2>3, <2>5 DEF At
  <2>7. QED BY <1>5, <2>6
<1>6. \A s \in Second \ {0} :
          LineOf(stream)[s] # LineOf(stream)[s - 1] => s \in StartsOf(stream) \ {0}
  BY <1>5
<1>7. asked = Idle /\ answer = "none"
  BY DEF EditInit
<1>8. QED BY <1>1, <1>3, <1>4, <1>6, <1>7 DEF Line!Init, Line!Second, Line!Phase, Second, Phase

\* Every edit is the edit of the line it stands for.
LEMMA EditImplements ==
    ASSUME Inv, Edit
    PROVE  Inv' /\ Line!Next
<1>1. Tiling(stream) /\ stream # <<>> /\ asked \in Request /\ asked # Idle /\ asked' = Idle
  <2>1. Tiling(stream)
    BY ValidIs DEF Inv
  <2>2. QED BY <2>1 DEF Inv, Edit, Tiling, Tiles
<1>2. PICK r : r = asked
  OBVIOUS
<1>3. r \in Request
  BY <1>1, <1>2
<1>4. Answers(ApplyOp(stream, r))
  <2>1. Sorted(stream) = stream
    BY <1>1, SortedIs
  <2>2. Apply(stream, r) = Checked(ApplyOp(stream, r))
    BY <1>1, <2>1 DEF Apply, Checked
  <2>3. QED BY <1>2, <2>2 DEF Edit, Answers
<1>5. Line!Edit(r) /\ Tiling(stream')
  <2>1. r.op \in {"accept", "relabel", "split", "merge", "move", "add", "delete"}
    BY <1>3, RequestIs
  <2>2. CASE r.op = "accept"
    BY <1>1, <1>3, <1>4, <2>2, AcceptEdits DEF ApplyOp, Line!Edit
  <2>3. CASE r.op = "relabel"
    BY <1>1, <1>3, <1>4, <2>3, RelabelEdits DEF ApplyOp, Line!Edit
  <2>4. CASE r.op = "split"
    BY <1>1, <1>3, <1>4, <2>4, SplitEdits DEF ApplyOp, Line!Edit
  <2>5. CASE r.op = "merge"
    BY <1>1, <1>3, <1>4, <2>5, MergeEdits DEF ApplyOp, Line!Edit
  <2>6. CASE r.op = "move"
    BY <1>1, <1>3, <1>4, <2>6, MoveEdits DEF ApplyOp, Line!Edit
  <2>7. CASE r.op = "add"
    BY <1>1, <1>3, <1>4, <2>7, AddEdits DEF ApplyOp, Line!Edit
  <2>8. CASE r.op = "delete"
    BY <1>1, <1>3, <1>4, <2>8, DeleteEdits DEF ApplyOp, Line!Edit
  <2>9. QED BY <2>1, <2>2, <2>3, <2>4, <2>5, <2>6, <2>7, <2>8
<1>6. ValidStream(stream', Eligible)
  <2>1. PICK out : out = Checked(ApplyOp(stream, r))
    OBVIOUS
  <2>2. out.answer = "ok" => ValidStream(out.stream, Eligible)
    BY <2>1 DEF Checked, Wrong
  <2>3. stream' = IF out.answer = "ok" THEN out.stream ELSE stream
    BY <1>4, <2>1 DEF Answers
  <2>4. QED BY <2>2, <2>3 DEF Inv
<1>7. Inv'
  <2>1. stream' \in Seq(Interval)
    BY <1>5 DEF Tiling, Tiles
  <2>2. QED BY <1>1, <1>6, <2>1 DEF Inv
<1>8. Line!Next
  BY <1>1, <1>2, <1>5 DEF Line!Next
<1>9. QED BY <1>7, <1>8

\* The reviewer asks.
LEMMA AskImplements ==
    ASSUME Inv, NEW r \in Request, Ask(r)
    PROVE  Inv' /\ Line!Next
<1>1. asked = Idle /\ asked' = r /\ answer' = "none" /\ stream' = stream /\ r # Idle
  BY RequestIs DEF Ask
<1>2. UNCHANGED <<LineOf(stream), StartsOf(stream) \ {0}>>
  BY <1>1 DEF LineOf, PhaseAt, StartsOf
<1>3. Inv'
  BY <1>1 DEF Inv
<1>4. QED BY <1>1, <1>2, <1>3 DEF Line!Next

LEMMA StepImplements == Inv /\ [EditNext]_editVars => Inv' /\ [Line!Next]_Line!line
<1>1. SUFFICES ASSUME Inv, [EditNext]_editVars PROVE Inv' /\ [Line!Next]_Line!line
  OBVIOUS
<1>2. CASE Edit
  BY <1>1, <1>2, EditImplements
<1>3. CASE \E r \in Request : Ask(r)
  BY <1>1, <1>3, AskImplements
<1>4. CASE UNCHANGED editVars
  <2>1. stream' = stream /\ asked' = asked /\ answer' = answer
    BY <1>4 DEF editVars
  <2>2. UNCHANGED Line!line
    BY <2>1 DEF Line!line, LineOf, PhaseAt, StartsOf
  <2>3. Inv'
    BY <1>1, <2>1 DEF Inv
  <2>4. QED BY <2>2, <2>3
<1>5. QED BY <1>1, <1>2, <1>3, <1>4 DEF EditNext

\* The list of intervals never stops being one that validateStream accepts
\* (PhaseOverlay.Apply), whatever edits are asked for and in whatever order.
THEOREM StaysValid == EditSpec => []Inv
<1>1. EditInit => Inv
  BY InitImplements
<1>2. Inv /\ [EditNext]_editVars => Inv'
  BY StepImplements
<1>3. QED BY <1>1, <1>2, PTL DEF EditSpec

\* Every behaviour of the edits on lists is one of the edits on the line of
\* seconds: what each of the seven operations of phase_ops.go returns, and when
\* it refuses, is what the editor promises.
THEOREM Refines == EditSpec => EditsTheLine
<1>1. EditInit => Inv /\ Line!Init
  BY InitImplements
<1>2. Inv /\ [EditNext]_editVars => Inv' /\ [Line!Next]_Line!line
  BY StepImplements
<1>3. QED BY <1>1, <1>2, PTL DEF EditSpec, EditsTheLine, Line!Spec
=============================================================================
