------------------------ MODULE LiveAnalytics_proofs ------------------------
(***************************************************************************)
(* That the live API and both summaries are true of the session whatever   *)
(* is cut off (CutIsHonest), and that the events tell what happened in the *)
(* game, no more and, when all is shown, no less (EventsReconcile): for    *)
(* any game, any limits and sessions of any length.                        *)
(*                                                                         *)
(* Each pass over a list is a recursive function; what it does with one    *)
(* element more is a lemma, and the invariants are about whole lists: Inv  *)
(* of the engine and the files, Told of the last tick and the counts.      *)
(***************************************************************************)
EXTENDS LiveAnalytics, SequenceTheorems, FiniteSetTheorems,
        WellFoundedInduction, TLAPS


-----------------------------------------------------------------------------
(* Passes over a list.                                                     *)

\* A set of natural numbers has a least one.
LEMMA LeastOf ==
    ASSUME NEW S \in SUBSET Nat, S # {}
    PROVE  \E m \in S : \A n \in S : m <= n
<1>1. OpToRel(<, Nat) = {ss \in Nat \X Nat : ss[1] < ss[2]}
  BY DEF OpToRel
<1>2. PICK R : R = {ss \in Nat \X Nat : ss[1] < ss[2]} /\ IsWellFoundedOn(R, Nat)
  BY <1>1, NatLessThanWellFounded
<1>3. PICK m \in S : \A n \in S : ~ (<<n, m>> \in R)
  BY <1>2, WFMin
<1>4. ASSUME NEW n \in S PROVE m <= n
  <2>1. n < m => <<n, m>> \in R
    BY <1>2
  <2>2. QED BY <1>3, <2>1
<1>5. QED BY <1>4

\* A set with 0 and with the successors of its elements is all of them.
LEMMA Climb ==
    ASSUME NEW S \in SUBSET Nat, 0 \in S, \A n \in S : n + 1 \in S
    PROVE  \A n \in Nat : n \in S
<1>1. SUFFICES ASSUME Nat \ S # {} PROVE FALSE
  OBVIOUS
<1>2. PICK m \in Nat \ S : \A n \in Nat \ S : m <= n
  BY <1>1, LeastOf
<1>3. m # 0 /\ m - 1 \in Nat /\ ~(m <= m - 1) /\ (m - 1) + 1 = m
  BY <1>2
<1>4. m - 1 \in S
  BY <1>2, <1>3
<1>5. QED BY <1>2, <1>3, <1>4

\* Each pass is a recursive function on 0 .. n; that there is one takes a climb:
\* a function for n is extended by one place.
LEMMA SelectIs ==
    ASSUME NEW S, NEW list \in Seq(S), NEW types
    PROVE  \E f : /\ f[0] = <<>>
                  /\ \A n \in 1 .. Len(list) :
                        f[n] = IF list[n].type \in types THEN Append(f[n - 1], list[n])
                               ELSE f[n - 1]
                  /\ Select(list, types) = f[Len(list)]
<1>. DEFINE Body(f, n) == IF n = 0 THEN <<>>
                          ELSE IF list[n].type \in types THEN Append(f[n - 1], list[n])
                          ELSE f[n - 1]
            Pass(f, N) == f = [n \in 0 .. N |-> Body(f, n)]
            Passed == {N \in Nat : \E f : Pass(f, N)}
<1>1. 0 \in Passed
  <2>1. Pass([n \in 0 .. 0 |-> <<>>], 0)
    OBVIOUS
  <2>2. QED BY <2>1
<1>2. ASSUME NEW N \in Passed PROVE N + 1 \in Passed
  <2>1. N \in Nat /\ N + 1 \in Nat
    OBVIOUS
  <2>2. PICK f : Pass(f, N)
    OBVIOUS
  <2>3. PICK g : g = [n \in 0 .. N + 1 |-> IF n <= N THEN f[n] ELSE Body(f, n)]
    OBVIOUS
  <2>4. ASSUME NEW n \in 0 .. N + 1 PROVE g[n] = Body(g, n)
    <3>1. n # 0 => n - 1 \in 0 .. N + 1 /\ n - 1 <= N
      BY <2>1
    <3>2. n # 0 => g[n - 1] = f[n - 1]
      BY <2>3, <3>1
    <3>3. Body(g, n) = Body(f, n)
      BY <3>2
    <3>4. CASE n <= N
      <4>1. n \in 0 .. N
        BY <2>1, <3>4
      <4>2. f[n] = Body(f, n)
        BY <2>2, <4>1
      <4>3. QED BY <2>3, <3>3, <3>4, <4>2
    <3>5. CASE ~(n <= N)
      BY <2>3, <3>3, <3>5
    <3>6. QED BY <3>4, <3>5
  <2>5. Pass(g, N + 1)
    <3>. HIDE DEF Body
    <3>1. QED BY <2>3, <2>4
  <2>6. QED
    <3>. HIDE DEF Pass
    <3>1. QED BY <2>1, <2>5
<1>3. Len(list) \in Passed
  <2>1. Len(list) \in Nat
    OBVIOUS
  <2>. HIDE DEF Passed
  <2>2. Passed \in SUBSET Nat
    BY DEF Passed
  <2>3. QED BY <1>1, <1>2, <2>1, <2>2, Climb
<1>4. PICK f : f = CHOOSE g : Pass(g, Len(list))
  OBVIOUS
<1>5. Pass(f, Len(list))
  <2>1. \E g : Pass(g, Len(list))
    BY <1>3
  <2>2. QED BY <1>4, <2>1
<1>6. Select(list, types) = f[Len(list)]
  BY <1>4 DEF Select
<1>7. \A n \in 0 .. Len(list) : f[n] = Body(f, n)
  <2>. HIDE DEF Body
  <2>1. QED BY <1>5
<1>8. 0 \in 0 .. Len(list) /\ 1 .. Len(list) \subseteq 0 .. Len(list)
  OBVIOUS
<1>9. QED BY <1>6, <1>7, <1>8

LEMMA SelectTyped ==
    ASSUME NEW S, NEW list \in Seq(S), NEW types
    PROVE  Select(list, types) \in Seq(S)
<1>1. PICK f : /\ f[0] = <<>>
               /\ \A n \in 1 .. Len(list) :
                     f[n] = IF list[n].type \in types THEN Append(f[n - 1], list[n])
                            ELSE f[n - 1]
               /\ Select(list, types) = f[Len(list)]
  BY SelectIs
<1>. DEFINE Good == {n \in Nat : n <= Len(list) => f[n] \in Seq(S)}
<1>2. 0 \in Good
  <2>1. f[0] \in Seq(S)
    BY <1>1
  <2>2. QED BY <2>1
<1>3. ASSUME NEW n \in Good PROVE n + 1 \in Good
  <2>1. SUFFICES ASSUME n + 1 <= Len(list) PROVE f[n + 1] \in Seq(S)
    OBVIOUS
  <2>2. n + 1 \in 1 .. Len(list) /\ n + 1 \in 0 .. Len(list) /\ (n + 1) - 1 = n /\ f[n] \in Seq(S)
    BY <2>1
  <2>3. list[n + 1] \in S
    BY <2>2
  <2>4. f[n + 1] = IF list[n + 1].type \in types THEN Append(f[n], list[n + 1]) ELSE f[n]
    BY <1>1, <2>2
  <2>5. QED BY <2>2, <2>3, <2>4
<1>4. Len(list) \in Good
  <2>1. Len(list) \in Nat
    OBVIOUS
  <2>. HIDE DEF Good
  <2>2. Good \in SUBSET Nat
    BY DEF Good
  <2>3. QED BY <1>2, <1>3, <2>1, <2>2, Climb
<1>5. QED BY <1>1, <1>4

LEMMA SelectNone == \A types : Select(<<>>, types) = <<>>
<1>1. SUFFICES ASSUME NEW types, NEW list, list = <<>> PROVE Select(list, types) = <<>>
  OBVIOUS
<1>. list \in Seq({})
  BY <1>1
<1>2. PICK f : /\ f[0] = <<>>
               /\ \A n \in 1 .. Len(list) :
                     f[n] = IF list[n].type \in types THEN Append(f[n - 1], list[n])
                            ELSE f[n - 1]
               /\ Select(list, types) = f[Len(list)]
  BY SelectIs
<1>3. Len(list) = 0
  BY <1>1
<1>4. QED BY <1>2, <1>3

\* One element more is taken or left.
LEMMA SelectMore ==
    ASSUME NEW S, NEW list \in Seq(S), NEW ev \in S, NEW types
    PROVE  Select(Append(list, ev), types) =
              IF ev.type \in types THEN Append(Select(list, types), ev)
              ELSE Select(list, types)
<1>. DEFINE more == Append(list, ev)
            N == Len(list)
<1>1. more \in Seq(S) /\ N \in Nat /\ Len(more) = N + 1 /\ more[N + 1] = ev
      /\ \A n \in 1 .. N : more[n] = list[n]
  BY AppendProperties
<1>2. PICK f : /\ f[0] = <<>>
               /\ \A n \in 1 .. N :
                     f[n] = IF list[n].type \in types THEN Append(f[n - 1], list[n])
                            ELSE f[n - 1]
               /\ Select(list, types) = f[N]
  BY SelectIs
<1>. HIDE DEF more
<1>3. PICK g : /\ g[0] = <<>>
               /\ \A n \in 1 .. Len(more) :
                     g[n] = IF more[n].type \in types THEN Append(g[n - 1], more[n])
                            ELSE g[n - 1]
               /\ Select(more, types) = g[Len(more)]
  BY <1>1, SelectIs
<1>. DEFINE Same == {n \in Nat : n <= N => g[n] = f[n]}
<1>. HIDE DEF N
<1>4. 0 \in Same
  BY <1>1, <1>2, <1>3
<1>5. ASSUME NEW n \in Same PROVE n + 1 \in Same
  <2>1. SUFFICES ASSUME n + 1 <= N PROVE g[n + 1] = f[n + 1]
    OBVIOUS
  <2>2. n + 1 \in 1 .. N /\ n + 1 \in 0 .. N /\ n + 1 \in 0 .. Len(more)
        /\ (n + 1) - 1 = n /\ g[n] = f[n]
    BY <1>1, <2>1
  <2>3. more[n + 1] = list[n + 1]
    BY <1>1, <2>2
  <2>4. f[n + 1] = IF list[n + 1].type \in types THEN Append(f[n], list[n + 1]) ELSE f[n]
    BY <1>2, <2>2
  <2>5. g[n + 1] = IF more[n + 1].type \in types THEN Append(g[n], more[n + 1]) ELSE g[n]
    BY <1>3, <2>2
  <2>6. QED BY <2>2, <2>3, <2>4, <2>5
<1>6. N \in Same
  <2>. HIDE DEF Same
  <2>1. Same \in SUBSET Nat
    BY DEF Same
  <2>2. QED BY <1>1, <1>4, <1>5, <2>1, Climb
<1>7. g[N] = f[N]
  BY <1>1, <1>6
<1>8. N + 1 \in 0 .. Len(more) /\ N + 1 # 0 /\ (N + 1) - 1 = N
  BY <1>1
<1>9. g[N + 1] = IF more[N + 1].type \in types THEN Append(g[N], more[N + 1]) ELSE g[N]
  BY <1>3, <1>8
<1>10. QED BY <1>1, <1>2, <1>3, <1>7, <1>9 DEF more

\* The other passes over a list: recording, replaying, counting, flattening.
LEMMA RecordedIs ==
    ASSUME NEW e, NEW list, Len(list) \in Nat
    PROVE  \E f : /\ f[0] = e
                  /\ \A n \in 1 .. Len(list) : f[n] = RecordEvent(f[n - 1], list[n])
                  /\ Recorded(e, list) = f[Len(list)]
<1>. DEFINE Body(f, n) == IF n = 0 THEN e ELSE RecordEvent(f[n - 1], list[n])
            Pass(f, N) == f = [n \in 0 .. N |-> Body(f, n)]
            Passed == {N \in Nat : \E f : Pass(f, N)}
<1>1. 0 \in Passed
  <2>1. Pass([n \in 0 .. 0 |-> e], 0)
    OBVIOUS
  <2>2. QED BY <2>1
<1>2. ASSUME NEW N \in Passed PROVE N + 1 \in Passed
  <2>1. N \in Nat /\ N + 1 \in Nat
    OBVIOUS
  <2>2. PICK f : Pass(f, N)
    OBVIOUS
  <2>3. PICK g : g = [n \in 0 .. N + 1 |-> IF n <= N THEN f[n] ELSE Body(f, n)]
    OBVIOUS
  <2>4. ASSUME NEW n \in 0 .. N + 1 PROVE g[n] = Body(g, n)
    <3>1. n # 0 => n - 1 \in 0 .. N + 1 /\ n - 1 <= N
      BY <2>1
    <3>2. n # 0 => g[n - 1] = f[n - 1]
      BY <2>3, <3>1
    <3>3. Body(g, n) = Body(f, n)
      BY <3>2
    <3>4. CASE n <= N
      <4>1. n \in 0 .. N
        BY <2>1, <3>4
      <4>2. f[n] = Body(f, n)
        BY <2>2, <4>1
      <4>3. QED BY <2>3, <3>3, <3>4, <4>2
    <3>5. CASE ~(n <= N)
      BY <2>3, <3>3, <3>5
    <3>6. QED BY <3>4, <3>5
  <2>5. Pass(g, N + 1)
    <3>. HIDE DEF Body
    <3>1. QED BY <2>3, <2>4
  <2>6. QED
    <3>. HIDE DEF Pass
    <3>1. QED BY <2>1, <2>5
<1>3. Len(list) \in Passed
  <2>. HIDE DEF Passed
  <2>1. Passed \in SUBSET Nat
    BY DEF Passed
  <2>2. QED BY <1>1, <1>2, <2>1, Climb
<1>4. PICK f : f = CHOOSE g : Pass(g, Len(list))
  OBVIOUS
<1>5. Pass(f, Len(list))
  <2>1. \E g : Pass(g, Len(list))
    BY <1>3
  <2>2. QED BY <1>4, <2>1
<1>6. Recorded(e, list) = f[Len(list)]
  BY <1>4 DEF Recorded
<1>7. \A n \in 0 .. Len(list) : f[n] = Body(f, n)
  <2>. HIDE DEF Body
  <2>1. QED BY <1>5
<1>8. 0 \in 0 .. Len(list) /\ 1 .. Len(list) \subseteq 0 .. Len(list)
  OBVIOUS
<1>9. QED BY <1>6, <1>7, <1>8

LEMMA ReplayedIs ==
    ASSUME NEW ticks, Len(ticks) \in Nat
    PROVE  \E f : /\ f[0] = [engine |-> NewEngine, events |-> <<>>]
                  /\ \A n \in 1 .. Len(ticks) : f[n] = ObservedToo(f[n - 1], ticks[n])
                  /\ Replayed(ticks) = f[Len(ticks)]
<1>. DEFINE Body(f, n) == IF n = 0 THEN [engine |-> NewEngine, events |-> <<>>]
                          ELSE ObservedToo(f[n - 1], ticks[n])
            Pass(f, N) == f = [n \in 0 .. N |-> Body(f, n)]
            Passed == {N \in Nat : \E f : Pass(f, N)}
<1>1. 0 \in Passed
  <2>1. Pass([n \in 0 .. 0 |-> [engine |-> NewEngine, events |-> <<>>]], 0)
    OBVIOUS
  <2>2. QED BY <2>1
<1>2. ASSUME NEW N \in Passed PROVE N + 1 \in Passed
  <2>1. N \in Nat /\ N + 1 \in Nat
    OBVIOUS
  <2>2. PICK f : Pass(f, N)
    OBVIOUS
  <2>3. PICK g : g = [n \in 0 .. N + 1 |-> IF n <= N THEN f[n] ELSE Body(f, n)]
    OBVIOUS
  <2>4. ASSUME NEW n \in 0 .. N + 1 PROVE g[n] = Body(g, n)
    <3>1. n # 0 => n - 1 \in 0 .. N + 1 /\ n - 1 <= N
      BY <2>1
    <3>2. n # 0 => g[n - 1] = f[n - 1]
      BY <2>3, <3>1
    <3>3. Body(g, n) = Body(f, n)
      BY <3>2
    <3>4. CASE n <= N
      <4>1. n \in 0 .. N
        BY <2>1, <3>4
      <4>2. f[n] = Body(f, n)
        BY <2>2, <4>1
      <4>3. QED BY <2>3, <3>3, <3>4, <4>2
    <3>5. CASE ~(n <= N)
      BY <2>3, <3>3, <3>5
    <3>6. QED BY <3>4, <3>5
  <2>5. Pass(g, N + 1)
    <3>. HIDE DEF Body
    <3>1. QED BY <2>3, <2>4
  <2>6. QED
    <3>. HIDE DEF Pass
    <3>1. QED BY <2>1, <2>5
<1>3. Len(ticks) \in Passed
  <2>. HIDE DEF Passed
  <2>1. Passed \in SUBSET Nat
    BY DEF Passed
  <2>2. QED BY <1>1, <1>2, <2>1, Climb
<1>4. PICK f : f = CHOOSE g : Pass(g, Len(ticks))
  OBVIOUS
<1>5. Pass(f, Len(ticks))
  <2>1. \E g : Pass(g, Len(ticks))
    BY <1>3
  <2>2. QED BY <1>4, <2>1
<1>6. Replayed(ticks) = f[Len(ticks)]
  BY <1>4 DEF Replayed
<1>7. \A n \in 0 .. Len(ticks) : f[n] = Body(f, n)
  <2>. HIDE DEF Body
  <2>1. QED BY <1>5
<1>8. 0 \in 0 .. Len(ticks) /\ 1 .. Len(ticks) \subseteq 0 .. Len(ticks)
  OBVIOUS
<1>9. QED BY <1>6, <1>7, <1>8

LEMMA CountingIs ==
    ASSUME NEW counts, NEW course, Len(course) - 1 \in Nat
    PROVE  \E f : /\ f[0] = counts
                  /\ \A n \in 1 .. Len(course) - 1 :
                        f[n] = Plus(f[n - 1], Happened(course[n], course[n + 1]))
                  /\ Counting(counts, course) = f[Len(course) - 1]
<1>. DEFINE Body(f, n) == IF n = 0 THEN counts
                          ELSE Plus(f[n - 1], Happened(course[n], course[n + 1]))
            Pass(f, N) == f = [n \in 0 .. N |-> Body(f, n)]
            Passed == {N \in Nat : \E f : Pass(f, N)}
<1>1. 0 \in Passed
  <2>1. Pass([n \in 0 .. 0 |-> counts], 0)
    OBVIOUS
  <2>2. QED BY <2>1
<1>2. ASSUME NEW N \in Passed PROVE N + 1 \in Passed
  <2>1. N \in Nat /\ N + 1 \in Nat
    OBVIOUS
  <2>2. PICK f : Pass(f, N)
    OBVIOUS
  <2>3. PICK g : g = [n \in 0 .. N + 1 |-> IF n <= N THEN f[n] ELSE Body(f, n)]
    OBVIOUS
  <2>4. ASSUME NEW n \in 0 .. N + 1 PROVE g[n] = Body(g, n)
    <3>1. n # 0 => n - 1 \in 0 .. N + 1 /\ n - 1 <= N
      BY <2>1
    <3>2. n # 0 => g[n - 1] = f[n - 1]
      BY <2>3, <3>1
    <3>3. Body(g, n) = Body(f, n)
      BY <3>2
    <3>4. CASE n <= N
      <4>1. n \in 0 .. N
        BY <2>1, <3>4
      <4>2. f[n] = Body(f, n)
        BY <2>2, <4>1
      <4>3. QED BY <2>3, <3>3, <3>4, <4>2
    <3>5. CASE ~(n <= N)
      BY <2>3, <3>3, <3>5
    <3>6. QED BY <3>4, <3>5
  <2>5. Pass(g, N + 1)
    <3>. HIDE DEF Body
    <3>1. QED BY <2>3, <2>4
  <2>6. QED
    <3>. HIDE DEF Pass
    <3>1. QED BY <2>1, <2>5
<1>3. Len(course) - 1 \in Passed
  <2>. HIDE DEF Passed
  <2>1. Passed \in SUBSET Nat
    BY DEF Passed
  <2>2. QED BY <1>1, <1>2, <2>1, Climb
<1>4. PICK f : f = CHOOSE g : Pass(g, Len(course) - 1)
  OBVIOUS
<1>5. Pass(f, Len(course) - 1)
  <2>1. \E g : Pass(g, Len(course) - 1)
    BY <1>3
  <2>2. QED BY <1>4, <2>1
<1>6. Counting(counts, course) = f[Len(course) - 1]
  BY <1>4 DEF Counting
<1>7. \A n \in 0 .. Len(course) - 1 : f[n] = Body(f, n)
  <2>. HIDE DEF Body
  <2>1. QED BY <1>5
<1>8. 0 \in 0 .. Len(course) - 1 /\ 1 .. Len(course) - 1 \subseteq 0 .. Len(course) - 1
  OBVIOUS
<1>9. QED BY <1>6, <1>7, <1>8

LEMMA FlattenIs ==
    ASSUME NEW lists, Len(lists) \in Nat \ {0}
    PROVE  \E f : /\ f[1] = lists[1]
                  /\ \A n \in 2 .. Len(lists) : f[n] = f[n - 1] \o lists[n]
                  /\ FlattenSeq(lists) = f[Len(lists)]
<1>. DEFINE Body(f, n) == IF n = 1 THEN lists[n] ELSE f[n - 1] \o lists[n]
            Pass(f, N) == f = [n \in 1 .. N |-> Body(f, n)]
            Passed == {N \in Nat : \E f : Pass(f, N)}
<1>1. 0 \in Passed
  <2>1. Pass([n \in 1 .. 0 |-> lists[n]], 0)
    OBVIOUS
  <2>2. QED BY <2>1
<1>2. ASSUME NEW N \in Passed PROVE N + 1 \in Passed
  <2>1. N \in Nat /\ N + 1 \in Nat
    OBVIOUS
  <2>2. PICK f : Pass(f, N)
    OBVIOUS
  <2>3. PICK g : g = [n \in 1 .. N + 1 |-> IF n <= N THEN f[n] ELSE Body(f, n)]
    OBVIOUS
  <2>4. ASSUME NEW n \in 1 .. N + 1 PROVE g[n] = Body(g, n)
    <3>1. n # 1 => n - 1 \in 1 .. N + 1 /\ n - 1 <= N
      BY <2>1
    <3>2. n # 1 => g[n - 1] = f[n - 1]
      BY <2>3, <3>1
    <3>3. Body(g, n) = Body(f, n)
      BY <3>2
    <3>4. CASE n <= N
      <4>1. n \in 1 .. N
        BY <2>1, <3>4
      <4>2. f[n] = Body(f, n)
        BY <2>2, <4>1
      <4>3. QED BY <2>3, <3>3, <3>4, <4>2
    <3>5. CASE ~(n <= N)
      BY <2>3, <3>3, <3>5
    <3>6. QED BY <3>4, <3>5
  <2>5. Pass(g, N + 1)
    <3>. HIDE DEF Body
    <3>1. QED BY <2>3, <2>4
  <2>6. QED
    <3>. HIDE DEF Pass
    <3>1. QED BY <2>1, <2>5
<1>3. Len(lists) \in Passed
  <2>. HIDE DEF Passed
  <2>1. Passed \in SUBSET Nat
    BY DEF Passed
  <2>2. QED BY <1>1, <1>2, <2>1, Climb
<1>4. PICK f : f = CHOOSE g : Pass(g, Len(lists))
  OBVIOUS
<1>5. Pass(f, Len(lists))
  <2>1. \E g : Pass(g, Len(lists))
    BY <1>3
  <2>2. QED BY <1>4, <2>1
<1>6. FlattenSeq(lists) = f[Len(lists)]
  BY <1>4 DEF FlattenSeq
<1>7. \A n \in 1 .. Len(lists) : f[n] = Body(f, n)
  <2>. HIDE DEF Body
  <2>1. QED BY <1>5
<1>8. 1 \in 1 .. Len(lists) /\ 2 .. Len(lists) \subseteq 1 .. Len(lists)
      /\ \A n \in 2 .. Len(lists) : n # 1
  OBVIOUS
<1>9. QED BY <1>6, <1>7, <1>8

LEMMA FlattenTyped ==
    ASSUME NEW S, NEW lists \in Seq(Seq(S))
    PROVE  FlattenSeq(lists) \in Seq(S)
<1>1. CASE Len(lists) = 0
  <2>1. FlattenSeq(lists) = lists /\ lists = <<>>
    BY <1>1 DEF FlattenSeq
  <2>2. QED BY <2>1
<1>2. CASE Len(lists) # 0
  <2>1. Len(lists) \in Nat \ {0}
    BY <1>2
  <2>2. PICK f : /\ f[1] = lists[1]
                 /\ \A n \in 2 .. Len(lists) : f[n] = f[n - 1] \o lists[n]
                 /\ FlattenSeq(lists) = f[Len(lists)]
    BY <2>1, FlattenIs
  <2>. DEFINE Good == {n \in Nat : n + 1 <= Len(lists) => f[n + 1] \in Seq(S)}
  <2>3. 0 \in Good
    <3>1. lists[1] \in Seq(S)
      BY <2>1
    <3>2. f[0 + 1] \in Seq(S)
      BY <2>2, <3>1
    <3>3. QED BY <3>2
  <2>4. ASSUME NEW n \in Good PROVE n + 1 \in Good
    <3>1. SUFFICES ASSUME (n + 1) + 1 <= Len(lists) PROVE f[(n + 1) + 1] \in Seq(S)
      OBVIOUS
    <3>2. (n + 1) + 1 \in 2 .. Len(lists) /\ ((n + 1) + 1) - 1 = n + 1 /\ f[n + 1] \in Seq(S)
      BY <3>1
    <3>3. lists[(n + 1) + 1] \in Seq(S)
      BY <3>2
    <3>4. f[(n + 1) + 1] = f[n + 1] \o lists[(n + 1) + 1]
      BY <2>2, <3>2
    <3>5. QED BY <3>2, <3>3, <3>4
  <2>5. Len(lists) - 1 \in Good
    <3>1. Len(lists) - 1 \in Nat
      BY <2>1
    <3>. HIDE DEF Good
    <3>2. Good \in SUBSET Nat
      BY DEF Good
    <3>3. QED BY <2>3, <2>4, <3>1, <3>2, Climb
  <2>6. f[Len(lists)] \in Seq(S)
    <3>1. (Len(lists) - 1) + 1 = Len(lists) /\ Len(lists) <= Len(lists)
      BY <2>1
    <3>2. QED BY <2>5, <3>1
  <2>7. QED BY <2>2, <2>6
<1>3. QED BY <1>1, <1>2

LEMMA FlattenNone == FlattenSeq(<<>>) = <<>>
  BY DEF FlattenSeq

\* One list more goes to the end.
LEMMA FlattenMore ==
    ASSUME NEW S, NEW lists \in Seq(Seq(S)), NEW list \in Seq(S)
    PROVE  FlattenSeq(Append(lists, list)) = FlattenSeq(lists) \o list
<1>. DEFINE more == Append(lists, list)
            N == Len(lists)
<1>1. N \in Nat /\ Len(more) = N + 1 /\ more[N + 1] = list
      /\ \A n \in 1 .. N : more[n] = lists[n]
  BY AppendProperties
<1>2. Len(more) \in Nat \ {0}
  BY <1>1
<1>. HIDE DEF more
<1>3. PICK g : /\ g[1] = more[1]
               /\ \A n \in 2 .. Len(more) : g[n] = g[n - 1] \o more[n]
               /\ FlattenSeq(more) = g[Len(more)]
  BY <1>2, FlattenIs
<1>4. CASE N = 0
  <2>1. lists = <<>> /\ FlattenSeq(lists) = <<>>
    BY <1>4, FlattenNone
  <2>2. FlattenSeq(more) = list
    BY <1>1, <1>3, <1>4
  <2>3. QED BY <2>1, <2>2 DEF more
<1>5. CASE N # 0
  <2>1. N \in Nat \ {0}
    BY <1>1, <1>5
  <2>2. PICK f : /\ f[1] = lists[1]
                 /\ \A n \in 2 .. N : f[n] = f[n - 1] \o lists[n]
                 /\ FlattenSeq(lists) = f[N]
    BY <2>1, FlattenIs
  <2>. DEFINE Same == {n \in Nat : n + 1 <= N => g[n + 1] = f[n + 1]}
  <2>. HIDE DEF N
  <2>3. 0 \in Same
    <3>1. g[0 + 1] = f[0 + 1]
      BY <1>1, <1>3, <2>1, <2>2
    <3>2. QED BY <3>1
  <2>4. ASSUME NEW n \in Same PROVE n + 1 \in Same
    <3>1. SUFFICES ASSUME (n + 1) + 1 <= N PROVE g[(n + 1) + 1] = f[(n + 1) + 1]
      OBVIOUS
    <3>2. (n + 1) + 1 \in 1 .. N /\ (n + 1) + 1 \in 2 .. N /\ (n + 1) + 1 \in 2 .. Len(more)
          /\ ((n + 1) + 1) - 1 = n + 1 /\ g[n + 1] = f[n + 1]
      BY <1>1, <3>1
    <3>3. more[(n + 1) + 1] = lists[(n + 1) + 1]
      BY <1>1, <3>2
    <3>4. f[(n + 1) + 1] = f[n + 1] \o lists[(n + 1) + 1]
      BY <2>2, <3>2
    <3>5. g[(n + 1) + 1] = g[n + 1] \o more[(n + 1) + 1]
      BY <1>3, <3>2
    <3>6. QED BY <3>2, <3>3, <3>4, <3>5
  <2>5. N - 1 \in Same
    <3>1. N - 1 \in Nat
      BY <2>1
    <3>. HIDE DEF Same
    <3>2. Same \in SUBSET Nat
      BY DEF Same
    <3>3. QED BY <2>3, <2>4, <3>1, <3>2, Climb
  <2>6. g[N] = f[N]
    <3>1. (N - 1) + 1 = N /\ N <= N
      BY <2>1
    <3>2. QED BY <2>5, <3>1
  <2>7. N + 1 \in 2 .. Len(more) /\ (N + 1) - 1 = N
    BY <1>1, <2>1
  <2>8. g[N + 1] = g[N] \o more[N + 1]
    BY <1>3, <2>7
  <2>9. QED BY <1>1, <1>3, <2>2, <2>6, <2>8 DEF more
<1>6. QED BY <1>4, <1>5

\* A replay of one tick more is one observation more.
LEMMA ReplayedMore ==
    ASSUME NEW S, NEW ticks \in Seq(S), NEW tick \in S
    PROVE  Replayed(Append(ticks, tick)) = ObservedToo(Replayed(ticks), tick)
<1>. DEFINE more == Append(ticks, tick)
            N == Len(ticks)
<1>1. N \in Nat /\ Len(more) = N + 1 /\ Len(more) \in Nat /\ more[N + 1] = tick
      /\ \A n \in 1 .. N : more[n] = ticks[n]
  BY AppendProperties
<1>. HIDE DEF more
<1>2. PICK f : /\ f[0] = [engine |-> NewEngine, events |-> <<>>]
               /\ \A n \in 1 .. N : f[n] = ObservedToo(f[n - 1], ticks[n])
               /\ Replayed(ticks) = f[N]
  BY <1>1, ReplayedIs
<1>3. PICK g : /\ g[0] = [engine |-> NewEngine, events |-> <<>>]
               /\ \A n \in 1 .. Len(more) : g[n] = ObservedToo(g[n - 1], more[n])
               /\ Replayed(more) = g[Len(more)]
  BY <1>1, ReplayedIs
<1>. DEFINE Same == {n \in Nat : n <= N => g[n] = f[n]}
<1>. HIDE DEF N
<1>4. 0 \in Same
  BY <1>2, <1>3
<1>5. ASSUME NEW n \in Same PROVE n + 1 \in Same
  <2>1. SUFFICES ASSUME n + 1 <= N PROVE g[n + 1] = f[n + 1]
    OBVIOUS
  <2>2. n + 1 \in 1 .. N /\ n + 1 \in 1 .. Len(more) /\ (n + 1) - 1 = n /\ g[n] = f[n]
    BY <1>1, <2>1
  <2>3. more[n + 1] = ticks[n + 1]
    BY <1>1, <2>2
  <2>4. f[n + 1] = ObservedToo(f[n], ticks[n + 1])
    BY <1>2, <2>2
  <2>5. g[n + 1] = ObservedToo(g[n], more[n + 1])
    BY <1>3, <2>2
  <2>6. QED BY <2>2, <2>3, <2>4, <2>5
<1>6. N \in Same
  <2>. HIDE DEF Same
  <2>1. Same \in SUBSET Nat
    BY DEF Same
  <2>2. QED BY <1>1, <1>4, <1>5, <2>1, Climb
<1>7. g[N] = f[N]
  BY <1>1, <1>6
<1>8. N + 1 \in 1 .. Len(more) /\ (N + 1) - 1 = N
  BY <1>1
<1>9. g[N + 1] = ObservedToo(g[N], more[N + 1])
  BY <1>3, <1>8
<1>10. QED BY <1>1, <1>2, <1>3, <1>7, <1>9 DEF more

LEMMA ReplayedNone == Replayed(<<>>) = [engine |-> NewEngine, events |-> <<>>]
<1>1. SUFFICES ASSUME NEW ticks, ticks = <<>>
               PROVE  Replayed(ticks) = [engine |-> NewEngine, events |-> <<>>]
  OBVIOUS
<1>2. Len(ticks) = 0 /\ Len(ticks) \in Nat
  BY <1>1
<1>3. PICK f : /\ f[0] = [engine |-> NewEngine, events |-> <<>>]
               /\ \A n \in 1 .. Len(ticks) : f[n] = ObservedToo(f[n - 1], ticks[n])
               /\ Replayed(ticks) = f[Len(ticks)]
  BY <1>2, ReplayedIs
<1>4. QED BY <1>2, <1>3

-----------------------------------------------------------------------------
(* Types.                                                                  *)

EventT == [type : EventTypes, key : Building \cup Slot \cup {Nothing},
           item : Item \cup {Nothing}, from : Slot \cup {Nothing}]

\* The slots a tick lists; none when it leaves the block out.
Carried == [Slot -> Item \cup {Empty}] \cup {<<>>}
PlayerT == [kills : SUBSET Nat, wards : SUBSET Nat, alive : SUBSET BOOLEAN,
            items : Carried]
TickT == [running : BOOLEAN, roshan : SUBSET {"alive", "respawning"},
          cooldown : SUBSET {0, 1},
          buildings : UNION {[D -> SUBSET (0 .. MaxHealth)] : D \in SUBSET Building},
          players : SUBSET PlayerT]

GameT == [match : Nat, running : BOOLEAN, roshan : {"alive", "respawning"}, cooldown : {0, 1},
          health : [Building -> 0 .. MaxHealth], kills : Nat, wards : Nat,
          alive : BOOLEAN, items : [Slot -> Item \cup {Empty}]]

EngineT == [prev : SUBSET TickT, playerTick : SUBSET TickT, events : Seq(EventT),
            ticks : Nat, counts : [EventTypes -> Nat],
            observed : [Observations -> Seq(EventT)], totals : [Observations -> Nat]]

LEMMA ConstantsAre ==
    /\ IsFiniteSet(Building) /\ IsFiniteSet(Slot) /\ IsFiniteSet(Item)
    /\ MaxChanges \in Nat /\ MaxTicks \in Nat /\ MaxHidings \in Nat /\ MaxFaults \in Nat
    /\ StartItems \in [Slot -> Item \cup {Empty}]
    /\ MaxHealth \in Nat \ {0} /\ MaxEvents \in Nat \ {0}
    /\ RecentEventsAPI \in Nat \ {0} /\ MaxObservationsAPI \in Nat \ {0}
    /\ RecentEventsAPI <= MaxEvents - MaxEvents \div 4
  BY ConstantsAssumption DEF ConstantsAssumption

\* A finite set has a list of its elements, so that ForEach goes over all.
LEMMA SetListed ==
    ASSUME NEW S, IsFiniteSet(S)
    PROVE  \E n \in Nat : SetToSeq(S) \in [1 .. n -> S]
<1>. DEFINE n == Cardinality(S)
<1>1. n \in Nat
  BY FS_CardinalityType
<1>2. PICK f : f \in Bijection(1 .. n, S)
  BY FS_CardinalityType DEF ExistsBijection
<1>3. f \in [1 .. n -> S]
  BY <1>2 DEF Bijection, Injection
<1>4. IsInjective(f)
  BY <1>2 DEF Bijection, Injection, IsInjective
<1>5. SetToSeq(S) \in [1 .. n -> S]
  BY <1>3, <1>4 DEF SetToSeq
<1>6. QED BY <1>1, <1>5

LEMMA IfTyped ==
    ASSUME NEW S, NEW c \in BOOLEAN, NEW e, c => e \in S
    PROVE  If(c, e) \in Seq(S)
  BY DEF If

LEMMA TypesNamed ==
    /\ {"hero_death", "hero_respawn", "kill_counter", "building_health_loss",
        "roshan_state_changed", "building_destroyed", "ward_counter_changed",
        "ward_purchase_started", "ward_purchase_cooldown_changed",
        "item_acquired", "item_removed", "item_replaced", "item_slot_changed"}
       \subseteq EventTypes
  BY DEF EventTypes, Counted, ObservationOf, ItemTypes

LEMMA PlainTyped ==
    ASSUME NEW type \in EventTypes PROVE Plain(type) \in EventT
  BY DEF Plain, Event, EventT

LEMMA BuildingTyped ==
    ASSUME NEW b \in Building, NEW cur, NEW prev
    PROVE  BuildingEvents(b, cur, prev) \in Seq(EventT)
<1>. DEFINE loss == Event("building_health_loss", b, Nothing, Nothing)
<1>1. loss \in EventT /\ Destroyed(b) \in EventT
  BY TypesNamed DEF Event, EventT, Destroyed
<1>2. PICK c \in BOOLEAN, d \in BOOLEAN :
         BuildingEvents(b, cur, prev) = If(c, loss) \o If(d, Destroyed(b))
  BY DEF BuildingEvents, If
<1>3. If(c, loss) \in Seq(EventT) /\ If(d, Destroyed(b)) \in Seq(EventT)
  BY <1>1, IfTyped
<1>4. QED BY <1>2, <1>3, ConcatProperties

LEMMA ListTyped ==
    ASSUME NEW S, NEW n \in Nat, NEW f \in [1 .. n -> Seq(S)]
    PROVE  FlattenSeq(f) \in Seq(S)
<1>1. f \in Seq(Seq(S))
  OBVIOUS
<1>2. QED BY <1>1, FlattenTyped

LEMMA BuildingsTyped ==
    ASSUME NEW cur, NEW prev, NEW running \in BOOLEAN
    PROVE  DeriveBuildings(cur, prev, running) \in Seq(EventT)
<1>1. PICK n \in Nat : \E q \in [1 .. n -> Building] : q = SetToSeq(Building)
  BY SetListed, ConstantsAre
<1>. PICK q \in [1 .. n -> Building] : q = SetToSeq(Building)
  BY <1>1
<1>. DEFINE f == [i \in 1 .. n |-> BuildingEvents(q[i], cur, prev)]
            g == [i \in 1 .. n |-> If(running /\ Vanished(q[i], cur, prev), Destroyed(q[i]))]
<1>2. DeriveBuildings(cur, prev, running) = FlattenSeq(f) \o FlattenSeq(g)
  BY DEF DeriveBuildings, ForEach
<1>3. f \in [1 .. n -> Seq(EventT)]
  BY BuildingTyped
<1>4. g \in [1 .. n -> Seq(EventT)]
  <2>1. ASSUME NEW b \in Building
        PROVE  If(running /\ Vanished(b, cur, prev), Destroyed(b)) \in Seq(EventT)
    <3>1. Destroyed(b) \in EventT
      BY TypesNamed DEF Event, EventT, Destroyed
    <3>2. (running /\ Vanished(b, cur, prev)) \in BOOLEAN
      BY DEF Vanished
    <3>3. QED BY <3>1, <3>2, IfTyped
  <2>2. QED BY <2>1
<1>. HIDE DEF f, g
<1>5. FlattenSeq(f) \in Seq(EventT) /\ FlattenSeq(g) \in Seq(EventT)
  BY <1>3, <1>4, ListTyped
<1>6. QED BY <1>2, <1>5, ConcatProperties

LEMMA NameTyped ==
    ASSUME NEW items \in Carried, NEW s \in Slot
    PROVE  \/ RealName(items, s) = {}
           \/ \E x \in Item : RealName(items, s) = {x}
  BY DEF RealName, Carried

LEMMA SlotTyped ==
    ASSUME NEW s \in Slot, NEW cur \in Carried, NEW prev \in Carried
    PROVE  SlotEvent(s, cur, prev) \in Seq(EventT)
<1>. DEFINE was == RealName(prev, s)
            is == RealName(cur, s)
            brought == CHOOSE x \in is : TRUE
            acquired == Event("item_acquired", s, brought, Nothing)
            removed == Event("item_removed", s, Nothing, Nothing)
            replaced == Event("item_replaced", s, brought, Nothing)
<1>1. is # {} => brought \in Item
  <2>1. is = {} \/ \E x \in Item : is = {x}
    BY NameTyped
  <2>2. QED BY <2>1
<1>2. PICK a \in BOOLEAN, b \in BOOLEAN, c \in BOOLEAN :
         /\ SlotEvent(s, cur, prev) = If(a, acquired) \o If(b, removed) \o If(c, replaced)
         /\ a \/ c => is # {}
  BY DEF SlotEvent, If
<1>3. /\ a => acquired \in EventT
      /\ removed \in EventT
      /\ c => replaced \in EventT
  BY <1>1, <1>2, TypesNamed DEF Event, EventT
<1>. HIDE DEF acquired, removed, replaced
<1>4. /\ If(a, acquired) \in Seq(EventT) /\ If(b, removed) \in Seq(EventT)
      /\ If(c, replaced) \in Seq(EventT)
  BY <1>3, IfTyped
<1>5. If(a, acquired) \o If(b, removed) \in Seq(EventT)
  BY <1>4, ConcatProperties
<1>6. QED BY <1>2, <1>4, <1>5, ConcatProperties

LEMMA RelocationTyped ==
    ASSUME NEW x \in Item, NEW cur, NEW prev
    PROVE  Relocation(x, cur, prev) \in Seq(EventT)
<1>. DEFINE was == {s \in Slot : RealName(prev, s) = {x}}
            is == {s \in Slot : RealName(cur, s) = {x}}
            to == CHOOSE s \in is \ was : TRUE
            from == CHOOSE s \in was \ is : TRUE
            moved == Event("item_slot_changed", to, x, from)
            both == was \ is # {} /\ is \ was # {}
<1>1. both => to \in Slot /\ from \in Slot
  OBVIOUS
<1>2. both => moved \in EventT
  BY <1>1, TypesNamed DEF Event, EventT
<1>3. both \in BOOLEAN
  OBVIOUS
<1>4. Relocation(x, cur, prev) = If(both, moved)
  BY DEF Relocation
<1>. HIDE DEF both, moved
<1>5. QED BY <1>2, <1>3, <1>4, IfTyped

LEMMA ItemsTyped ==
    ASSUME NEW cur \in Carried, NEW prev \in Carried
    PROVE  DeriveItems(cur, prev) \in Seq(EventT)
<1>1. PICK n \in Nat : \E q \in [1 .. n -> Slot] : q = SetToSeq(Slot)
  BY SetListed, ConstantsAre
<1>. PICK q \in [1 .. n -> Slot] : q = SetToSeq(Slot)
  BY <1>1
<1>2. PICK m \in Nat : \E r \in [1 .. m -> Item] : r = SetToSeq(Item)
  BY SetListed, ConstantsAre
<1>. PICK r \in [1 .. m -> Item] : r = SetToSeq(Item)
  BY <1>2
<1>. DEFINE f == [i \in 1 .. n |-> SlotEvent(q[i], cur, prev)]
            g == [i \in 1 .. m |-> Relocation(r[i], cur, prev)]
<1>3. DeriveItems(cur, prev) = FlattenSeq(f) \o FlattenSeq(g)
  BY DEF DeriveItems, ForEach
<1>4. f \in [1 .. n -> Seq(EventT)] /\ g \in [1 .. m -> Seq(EventT)]
  BY SlotTyped, RelocationTyped
<1>. HIDE DEF f, g
<1>5. FlattenSeq(f) \in Seq(EventT) /\ FlattenSeq(g) \in Seq(EventT)
  BY <1>4, ListTyped
<1>6. QED BY <1>3, <1>5, ConcatProperties

LEMMA PlayerTyped ==
    ASSUME NEW cur \in PlayerT, NEW prev \in PlayerT
    PROVE  DerivePlayer(cur, prev) \in Seq(EventT)
<1>1. cur.items \in Carried /\ prev.items \in Carried
  BY DEF PlayerT
<1>2. DeriveItems(cur.items, prev.items) \in Seq(EventT)
  BY <1>1, ItemsTyped
<1>3. PICK a \in BOOLEAN, b \in BOOLEAN :
         DeriveAlive(cur.alive, prev.alive) =
            If(a, Plain("hero_death")) \o If(b, Plain("hero_respawn"))
  BY DEF DeriveAlive, If
<1>4. /\ If(a, Plain("hero_death")) \in Seq(EventT)
      /\ If(b, Plain("hero_respawn")) \in Seq(EventT)
  BY PlainTyped, TypesNamed, IfTyped
<1>5. DeriveAlive(cur.alive, prev.alive) \in Seq(EventT)
  BY <1>3, <1>4, ConcatProperties
<1>6. \A p, c : Rises(p, c) \in BOOLEAN
  BY DEF Rises
<1>7. /\ If(Rises(prev.kills, cur.kills), Plain("kill_counter")) \in Seq(EventT)
      /\ If(Rises(prev.wards, cur.wards), Plain("ward_counter_changed")) \in Seq(EventT)
  BY <1>6, PlainTyped, TypesNamed, IfTyped
<1>8. QED BY <1>2, <1>5, <1>7, ConcatProperties DEF DerivePlayer

LEMMA DeriveTyped ==
    ASSUME NEW cur \in TickT, NEW prev \in TickT
    PROVE  Derive(cur, prev) \in Seq(EventT)
<1>. DEFINE hero == IF cur.players # {} /\ prev.players # {}
                    THEN DerivePlayer(CHOOSE p \in cur.players : TRUE,
                                      CHOOSE p \in prev.players : TRUE)
                    ELSE <<>>
<1>1. hero \in Seq(EventT)
  <2>1. cur.players \subseteq PlayerT /\ prev.players \subseteq PlayerT
    BY DEF TickT
  <2>2. CASE cur.players # {} /\ prev.players # {}
    <3>1. /\ (CHOOSE p \in cur.players : TRUE) \in PlayerT
          /\ (CHOOSE p \in prev.players : TRUE) \in PlayerT
      BY <2>1, <2>2
    <3>2. QED BY <2>2, <3>1, PlayerTyped
  <2>3. CASE ~(cur.players # {} /\ prev.players # {})
    BY <2>3
  <2>4. QED BY <2>2, <2>3
<1>2. DeriveBuildings(cur.buildings, prev.buildings, cur.running) \in Seq(EventT)
  <2>1. cur.running \in BOOLEAN
    BY DEF TickT
  <2>2. QED BY <2>1, BuildingsTyped
<1>3. PICK a \in BOOLEAN :
         DeriveRoshan(cur.roshan, prev.roshan) = If(a, Plain("roshan_state_changed"))
  BY DEF DeriveRoshan, If
<1>4. PICK b \in BOOLEAN, c \in BOOLEAN :
         WardCooldownEvent(cur.cooldown, prev.cooldown) =
            If(b, Plain("ward_purchase_started"))
            \o If(c, Plain("ward_purchase_cooldown_changed"))
  BY DEF WardCooldownEvent, If
<1>5. /\ If(a, Plain("roshan_state_changed")) \in Seq(EventT)
      /\ If(b, Plain("ward_purchase_started")) \in Seq(EventT)
      /\ If(c, Plain("ward_purchase_cooldown_changed")) \in Seq(EventT)
  BY PlainTyped, TypesNamed, IfTyped
<1>6. DeriveRoshan(cur.roshan, prev.roshan) \in Seq(EventT)
      /\ WardCooldownEvent(cur.cooldown, prev.cooldown) \in Seq(EventT)
  BY <1>3, <1>4, <1>5, ConcatProperties
<1>. HIDE DEF hero
<1>7. QED
  <2>. Derive(cur, prev) = DeriveRoshan(cur.roshan, prev.roshan)
          \o DeriveBuildings(cur.buildings, prev.buildings, cur.running)
          \o WardCooldownEvent(cur.cooldown, prev.cooldown) \o hero
    BY DEF Derive, hero
  <2>1. QED BY <1>1, <1>2, <1>6, ConcatProperties

\* What a tick derives is a list of events, whatever is hidden in it.
LEMMA DerivedTyped ==
    ASSUME NEW e \in EngineT, NEW tick \in TickT
    PROVE  DerivedBy(e, tick) \in Seq(EventT)
<1>1. CASE e.prev = {}
  BY <1>1 DEF DerivedBy
<1>2. CASE e.prev # {}
  <2>1. (CHOOSE p \in e.prev : TRUE) \in TickT
    BY <1>2 DEF EngineT
  <2>2. QED BY <1>2, <2>1, DeriveTyped DEF DerivedBy
<1>3. QED BY <1>1, <1>2

LEMMA NewGameTyped == \A m \in Nat : NewGame(m) \in GameT
  BY ConstantsAre DEF NewGame, GameT

LEMMA ChangedTyped ==
    ASSUME NEW g \in GameT, NEW h \in Changed(g)
    PROVE  h \in GameT
<1>1. ASSUME \/ h = [g EXCEPT !.kills = @ + 1]
             \/ h = [g EXCEPT !.wards = @ + 1]
             \/ h = [g EXCEPT !.alive = ~@]
             \/ h = [g EXCEPT !.cooldown = 1 - @]
             \/ h = [g EXCEPT !.roshan = IF @ = "alive" THEN "respawning" ELSE "alive"]
      PROVE  h \in GameT
  <2>1. h = [g EXCEPT !.kills = @ + 1] => h \in GameT
    BY DEF GameT
  <2>2. h = [g EXCEPT !.wards = @ + 1] => h \in GameT
    BY DEF GameT
  <2>3. h = [g EXCEPT !.alive = ~@] => h \in GameT
    <3>1. \A v \in BOOLEAN : [g EXCEPT !.alive = v] \in GameT
      BY DEF GameT
    <3>2. QED BY <3>1
  <2>4. h = [g EXCEPT !.cooldown = 1 - @] => h \in GameT
    BY DEF GameT
  <2>5. h = [g EXCEPT !.roshan = IF @ = "alive" THEN "respawning" ELSE "alive"]
           => h \in GameT
    BY DEF GameT
  <2>6. QED BY <1>1, <2>1, <2>2, <2>3, <2>4, <2>5
<1>2. ASSUME NEW b \in Building, g.health[b] > 0, h = [g EXCEPT !.health[b] = @ - 1]
      PROVE  h \in GameT
  <2>1. g.health \in [Building -> 0 .. MaxHealth]
    BY DEF GameT
  <2>2. g.health[b] - 1 \in 0 .. MaxHealth
    BY <1>2, <2>1, ConstantsAre
  <2>3. [g.health EXCEPT ![b] = @ - 1] \in [Building -> 0 .. MaxHealth]
    BY <2>1, <2>2
  <2>4. h = [g EXCEPT !.health = [g.health EXCEPT ![b] = @ - 1]]
    BY <1>2
  <2>5. QED BY <2>3, <2>4 DEF GameT
<1>3. ASSUME NEW s \in Slot, NEW x \in Item,
             h = [g EXCEPT !.items[s] = IF @ = Empty THEN x ELSE Empty]
      PROVE  h \in GameT
  <2>1. g.items \in [Slot -> Item \cup {Empty}]
    BY DEF GameT
  <2>2. [g.items EXCEPT ![s] = IF @ = Empty THEN x ELSE Empty] \in [Slot -> Item \cup {Empty}]
    BY <2>1
  <2>3. h = [g EXCEPT !.items = [g.items EXCEPT ![s] = IF @ = Empty THEN x ELSE Empty]]
    BY <1>3
  <2>4. QED BY <2>2, <2>3 DEF GameT
<1>4. ASSUME NEW s \in Slot, NEW t \in Slot, h = [g EXCEPT !.items = Swapped(g.items, s, t)]
      PROVE  h \in GameT
  <2>1. g.items \in [Slot -> Item \cup {Empty}]
    BY DEF GameT
  <2>2. Swapped(g.items, s, t) \in [Slot -> Item \cup {Empty}]
    BY <2>1 DEF Swapped
  <2>3. QED BY <1>4, <2>2 DEF GameT
<1>. DEFINE one == {[g EXCEPT !.kills = @ + 1], [g EXCEPT !.wards = @ + 1],
                    [g EXCEPT !.alive = ~@], [g EXCEPT !.cooldown = 1 - @],
                    [g EXCEPT !.roshan = IF @ = "alive" THEN "respawning" ELSE "alive"]}
            hits == {[g EXCEPT !.health[b] = @ - 1] : b \in {x \in Building : g.health[x] > 0}}
            takes == {[g EXCEPT !.items[s] = IF @ = Empty THEN x ELSE Empty] :
                         s \in Slot, x \in Item}
            swaps == {[g EXCEPT !.items = Swapped(g.items, s, t)] :
                         s \in Slot, t \in Slot}
<1>5. h \in one => h \in GameT
  BY <1>1
<1>6. h \in hits => h \in GameT
  BY <1>2
<1>7. h \in takes => h \in GameT
  BY <1>3
<1>8. h \in swaps => h \in GameT
  BY <1>4
<1>9. h \in (one \cup hits) \cup takes \cup swaps
  <2>. HIDE DEF one, hits, takes, swaps
  <2>1. Changed(g) = one \cup hits \cup takes \cup swaps
    BY DEF Changed, one, hits, takes, swaps
  <2>2. QED BY <2>1
<1>10. QED
  <2>. HIDE DEF one, hits, takes, swaps
  <2>1. QED BY <1>5, <1>6, <1>7, <1>8, <1>9

LEMMA FollowingTyped ==
    ASSUME NEW g \in GameT, NEW h \in Following(g)
    PROVE  h \in GameT
<1>1. CASE h = [g EXCEPT !.running = FALSE]
  BY <1>1 DEF GameT
<1>2. h = NewGame(g.match + 1) \/ h \in Changed(g) \/ h = [g EXCEPT !.running = FALSE]
  BY DEF Following
<1>3. g.match + 1 \in Nat
  BY DEF GameT
<1>4. QED BY <1>1, <1>2, <1>3, NewGameTyped, ChangedTyped

\* The game does nothing, one thing or two.
LEMMA CourseTyped ==
    ASSUME NEW g \in GameT, NEW course \in Courses(g) \cup {<<g>>}
    PROVE  /\ course \in Seq(GameT) /\ course # <<>>
           /\ Len(course) \in 1 .. 3 /\ Last(course) \in GameT
<1>1. CASE course = <<g>>
  BY <1>1 DEF Last
<1>2. ASSUME NEW h \in Following(g), course = <<g, h>>
      PROVE  /\ course \in Seq(GameT) /\ course # <<>>
             /\ Len(course) \in 1 .. 3 /\ Last(course) \in GameT
  <2>1. h \in GameT
    BY FollowingTyped
  <2>2. QED BY <1>2, <2>1 DEF Last
<1>3. ASSUME NEW h \in Following(g), NEW i \in Following(h), course = <<g, h, i>>
      PROVE  /\ course \in Seq(GameT) /\ course # <<>>
             /\ Len(course) \in 1 .. 3 /\ Last(course) \in GameT
  <2>1. h \in GameT
    BY FollowingTyped
  <2>2. i \in GameT
    BY <2>1, FollowingTyped
  <2>3. QED BY <1>3, <2>1, <2>2 DEF Last
<1>4. QED BY <1>1, <1>2, <1>3 DEF Courses

LEMMA ViewTyped ==
    ASSUME NEW g \in GameT, NEW hidden, NEW gone
    PROVE  View(g, hidden, gone) \in TickT
<1>1. PlayersView(g, hidden) \in SUBSET PlayerT
  BY DEF PlayersView, Seen, GameT, PlayerT, Carried
<1>2. /\ (g.running /\ "map" \notin hidden) \in BOOLEAN
      /\ Seen(hidden, "map", g.roshan) \in SUBSET {"alive", "respawning"}
      /\ Seen(hidden, "map", g.cooldown) \in SUBSET {0, 1}
  BY DEF Seen, GameT
<1>3. PICK D \in SUBSET Building : D = IF "buildings" \in hidden THEN {} ELSE Building \ gone
  OBVIOUS
<1>4. [b \in D |-> Seen(hidden, "health", g.health[b])] \in [D -> SUBSET (0 .. MaxHealth)]
  BY DEF Seen, GameT
<1>5. [b \in D |-> Seen(hidden, "health", g.health[b])]
         \in UNION {[E -> SUBSET (0 .. MaxHealth)] : E \in SUBSET Building}
  BY <1>4
<1>6. View(g, hidden, gone) =
        [running |-> g.running /\ "map" \notin hidden,
         roshan |-> Seen(hidden, "map", g.roshan),
         cooldown |-> Seen(hidden, "map", g.cooldown),
         buildings |-> [b \in D |-> Seen(hidden, "health", g.health[b])],
         players |-> PlayersView(g, hidden)]
  BY <1>3 DEF View
<1>7. QED BY <1>1, <1>2, <1>5, <1>6 DEF TickT

LEMMA HappenedTyped ==
    ASSUME NEW g, NEW h PROVE Happened(g, h) \in [Counted -> Nat]
<1>. DEFINE hit == {b \in Building : g.match = h.match /\ h.health[b] < g.health[b]}
            down == {b \in hit : h.health[b] = 0}
<1>1. Cardinality(hit) \in Nat /\ Cardinality(down) \in Nat
  <2>1. IsFiniteSet(hit) /\ IsFiniteSet(down)
    BY ConstantsAre, FS_Subset
  <2>2. QED BY <2>1, FS_CardinalityType
<1>2. \A c \in BOOLEAN : (IF c THEN 1 ELSE 0) \in Nat
  OBVIOUS
<1>3. QED BY <1>1, <1>2 DEF Happened

LEMMA CountingTyped ==
    ASSUME NEW counts \in [Counted -> Nat], NEW course, Len(course) - 1 \in Nat
    PROVE  Counting(counts, course) \in [Counted -> Nat]
<1>. DEFINE N == Len(course) - 1
<1>1. PICK f : /\ f[0] = counts
               /\ \A n \in 1 .. N :
                     f[n] = Plus(f[n - 1], Happened(course[n], course[n + 1]))
               /\ Counting(counts, course) = f[N]
  BY CountingIs
<1>. HIDE DEF N
<1>. DEFINE Good == {n \in Nat : n <= N => f[n] \in [Counted -> Nat]}
<1>2. 0 \in Good
  BY <1>1
<1>3. ASSUME NEW n \in Good PROVE n + 1 \in Good
  <2>1. SUFFICES ASSUME n + 1 <= N PROVE f[n + 1] \in [Counted -> Nat]
    OBVIOUS
  <2>2. n + 1 \in 1 .. N /\ (n + 1) - 1 = n /\ f[n] \in [Counted -> Nat]
    BY <2>1 DEF N
  <2>3. PICK more \in [Counted -> Nat] : f[n + 1] = Plus(f[n], more)
    BY <1>1, <2>2, HappenedTyped
  <2>4. QED BY <2>2, <2>3 DEF Plus
<1>4. N \in Good
  <2>1. N \in Nat
    BY DEF N
  <2>. HIDE DEF Good
  <2>2. Good \in SUBSET Nat
    BY DEF Good
  <2>3. QED BY <1>2, <1>3, <2>1, <2>2, Climb
<1>5. N <= N
  BY DEF N
<1>6. QED BY <1>1, <1>4, <1>5

-----------------------------------------------------------------------------
(* The ends of lists.                                                      *)

\* part is how all ends.
Ends(part, all) ==
    /\ Len(part) <= Len(all)
    /\ \A i \in 1 .. Len(part) : part[i] = all[Len(all) - Len(part) + i]

LEMMA EndsEqual ==
    ASSUME NEW S, NEW p \in Seq(S), NEW q \in Seq(S), NEW all \in Seq(S),
           Ends(p, all), Ends(q, all), Len(p) = Len(q)
    PROVE  p = q
<1>1. \A i \in 1 .. Len(p) : p[i] = q[i]
  BY DEF Ends
<1>2. QED BY <1>1, SeqEqual

LEMMA EndsMore ==
    ASSUME NEW S, NEW p \in Seq(S), NEW all \in Seq(S), NEW x \in S, Ends(p, all)
    PROVE  Ends(Append(p, x), Append(all, x))
<1>. DEFINE q == Append(p, x)
            more == Append(all, x)
<1>1. /\ Len(p) \in Nat /\ Len(all) \in Nat
      /\ Len(q) = Len(p) + 1 /\ Len(more) = Len(all) + 1
      /\ q[Len(p) + 1] = x /\ more[Len(all) + 1] = x
      /\ \A i \in 1 .. Len(p) : q[i] = p[i]
      /\ \A i \in 1 .. Len(all) : more[i] = all[i]
  BY AppendProperties
<1>2. /\ Len(p) <= Len(all)
      /\ \A i \in 1 .. Len(p) : p[i] = all[Len(all) - Len(p) + i]
  BY DEF Ends
<1>. HIDE DEF q, more
<1>3. ASSUME NEW i \in 1 .. Len(q) PROVE q[i] = more[Len(more) - Len(q) + i]
  <2>1. CASE i = Len(p) + 1
    <3>1. Len(more) - Len(q) + i = Len(all) + 1
      BY <1>1, <2>1
    <3>2. QED BY <1>1, <2>1, <3>1
  <2>2. CASE i # Len(p) + 1
    <3>1. i \in 1 .. Len(p)
      BY <1>1, <2>2
    <3>2. /\ Len(more) - Len(q) + i = Len(all) - Len(p) + i
          /\ Len(all) - Len(p) + i \in 1 .. Len(all)
      BY <1>1, <1>2, <3>1
    <3>3. QED BY <1>1, <1>2, <3>1, <3>2
  <2>3. QED BY <2>1, <2>2
<1>4. Len(q) <= Len(more)
  BY <1>1, <1>2
<1>5. Ends(q, more)
  BY <1>3, <1>4 DEF Ends
<1>6. QED BY <1>5 DEF q, more

\* The end of an end is an end.
LEMMA EndsOfEnd ==
    ASSUME NEW S, NEW p \in Seq(S), NEW q \in Seq(S), NEW all \in Seq(S),
           Ends(p, q), Ends(q, all)
    PROVE  Ends(p, all)
<1>1. Len(p) \in Nat /\ Len(q) \in Nat /\ Len(all) \in Nat
  OBVIOUS
<1>2. /\ Len(p) <= Len(q) /\ Len(q) <= Len(all)
      /\ \A i \in 1 .. Len(p) : p[i] = q[Len(q) - Len(p) + i]
      /\ \A i \in 1 .. Len(q) : q[i] = all[Len(all) - Len(q) + i]
  BY DEF Ends
<1>3. ASSUME NEW i \in 1 .. Len(p) PROVE p[i] = all[Len(all) - Len(p) + i]
  <2>1. Len(q) - Len(p) + i \in 1 .. Len(q)
    BY <1>1, <1>2
  <2>2. Len(all) - Len(q) + (Len(q) - Len(p) + i) = Len(all) - Len(p) + i
    BY <1>1
  <2>3. QED BY <1>2, <2>1, <2>2
<1>4. QED BY <1>1, <1>2, <1>3 DEF Ends

LEMMA EndIs ==
    ASSUME NEW S, NEW list \in Seq(S), NEW n \in 1 .. Len(list) + 1
    PROVE  /\ SubSeq(list, n, Len(list)) \in Seq(S)
           /\ Len(SubSeq(list, n, Len(list))) = Len(list) - n + 1
           /\ Ends(SubSeq(list, n, Len(list)), list)
<1>1. Len(list) \in Nat /\ n \in Int /\ n <= Len(list) + 1
  OBVIOUS
<1>2. \A i \in n .. Len(list) : list[i] \in S
  OBVIOUS
<1>3. /\ SubSeq(list, n, Len(list)) \in Seq(S)
      /\ Len(SubSeq(list, n, Len(list))) = IF n <= Len(list) THEN Len(list) - n + 1 ELSE 0
      /\ \A i \in 1 .. Len(list) - n + 1 : SubSeq(list, n, Len(list))[i] = list[n + i - 1]
  BY <1>1, <1>2, SubSeqProperties
<1>. DEFINE end == SubSeq(list, n, Len(list))
<1>. HIDE DEF end
<1>4. Len(end) = Len(list) - n + 1
  BY <1>1, <1>3 DEF end
<1>5. ASSUME NEW i \in 1 .. Len(end) PROVE end[i] = list[Len(list) - Len(end) + i]
  <2>1. Len(list) - Len(end) + i = n + i - 1
    BY <1>1, <1>4
  <2>2. QED BY <1>3, <1>4, <2>1 DEF end
<1>6. Len(end) <= Len(list)
  BY <1>1, <1>4
<1>7. QED BY <1>3, <1>4, <1>5, <1>6 DEF Ends, end

LEMMA LastIs ==
    ASSUME NEW S, NEW list \in Seq(S), NEW n \in Nat
    PROVE  /\ LastOf(list, n) \in Seq(S)
           /\ Len(LastOf(list, n)) = IF Len(list) <= n THEN Len(list) ELSE n
           /\ Ends(LastOf(list, n), list)
<1>1. Len(list) \in Nat
  OBVIOUS
<1>2. CASE Len(list) <= n
  BY <1>1, <1>2 DEF LastOf, Ends
<1>3. CASE ~(Len(list) <= n)
  <2>1. Len(list) - n + 1 \in 1 .. Len(list) + 1
    BY <1>1, <1>3
  <2>2. Len(list) - (Len(list) - n + 1) + 1 = n
    BY <1>1
  <2>3. LastOf(list, n) = SubSeq(list, Len(list) - n + 1, Len(list))
    BY <1>3 DEF LastOf
  <2>4. QED BY <1>3, <2>1, <2>2, <2>3, EndIs
<1>4. QED BY <1>2, <1>3

\* A bounded array that grows at its end is the end of the whole list.
LEMMA LastMore ==
    ASSUME NEW S, NEW list \in Seq(S), NEW x \in S, NEW n \in Nat
    PROVE  LastOf(Append(LastOf(list, n), x), n) = LastOf(Append(list, x), n)
<1>. DEFINE kept == Append(LastOf(list, n), x)
            all == Append(list, x)
            p == LastOf(kept, n)
            q == LastOf(all, n)
<1>1. /\ LastOf(list, n) \in Seq(S) /\ Ends(LastOf(list, n), list)
      /\ Len(LastOf(list, n)) = IF Len(list) <= n THEN Len(list) ELSE n
  BY LastIs
<1>2. kept \in Seq(S) /\ all \in Seq(S) /\ Ends(kept, all)
  BY <1>1, EndsMore
<1>3. Len(kept) = Len(LastOf(list, n)) + 1 /\ Len(all) = Len(list) + 1 /\ Len(list) \in Nat
  BY <1>1
<1>. HIDE DEF kept, all
<1>4. /\ p \in Seq(S) /\ Ends(p, kept) /\ Len(p) = IF Len(kept) <= n THEN Len(kept) ELSE n
      /\ q \in Seq(S) /\ Ends(q, all) /\ Len(q) = IF Len(all) <= n THEN Len(all) ELSE n
  BY <1>2, LastIs
<1>. HIDE DEF p, q
<1>5. Len(p) = Len(q)
  BY <1>1, <1>3, <1>4
<1>6. Ends(p, all)
  BY <1>2, <1>4, EndsOfEnd
<1>7. p = q
  BY <1>2, <1>4, <1>5, <1>6, EndsEqual
<1>8. QED BY <1>7 DEF p, q, kept, all

\* The ring cut down to three quarters still has what the API shows.
LEMMA RingIs ==
    ASSUME NEW S, NEW list \in Seq(S)
    PROVE  /\ Ring(list) \in Seq(S) /\ Ends(Ring(list), list)
           /\ Len(Ring(list)) <= MaxEvents
           /\ Len(Ring(list)) = Len(list) \/ Len(Ring(list)) >= RecentEventsAPI
<1>1. Len(list) \in Nat /\ MaxEvents \in Nat /\ RecentEventsAPI \in Nat
  BY ConstantsAre
<1>2. CASE Len(list) <= MaxEvents
  BY <1>1, <1>2 DEF Ring, Ends
<1>3. CASE ~(Len(list) <= MaxEvents)
  <2>. DEFINE quarter == MaxEvents \div 4
              n == Len(list) - MaxEvents + quarter + 1
  <2>1. quarter \in Nat /\ quarter <= MaxEvents
    BY <1>1
  <2>2. RecentEventsAPI <= MaxEvents - quarter
    BY ConstantsAre
  <2>. HIDE DEF quarter
  <2>3. n \in 1 .. Len(list) + 1 /\ Len(list) - n + 1 = MaxEvents - quarter
    BY <1>1, <1>3, <2>1
  <2>4. Ring(list) = SubSeq(list, n, Len(list))
    BY <1>3 DEF Ring, quarter
  <2>. HIDE DEF n
  <2>5. /\ Ring(list) \in Seq(S) /\ Ends(Ring(list), list)
        /\ Len(Ring(list)) = MaxEvents - quarter
    BY <2>3, <2>4, EndIs
  <2>6. QED BY <1>1, <2>1, <2>2, <2>5
<1>4. QED BY <1>2, <1>3

-----------------------------------------------------------------------------
(* The engine's bounded views of all that was derived.                     *)

Windows(e, all) ==
    /\ \A o \in Observations :
          /\ e.observed[o] = LastOf(Select(all, TypesOf(o)), MaxObservationsAPI)
          /\ e.totals[o] = Len(Select(all, TypesOf(o)))
    /\ \A t \in EventTypes : e.counts[t] = Len(Select(all, {t}))

Recent(e, all) ==
    /\ Ends(e.events, all) /\ Len(e.events) <= MaxEvents
    /\ Len(e.events) = Len(all) \/ Len(e.events) >= RecentEventsAPI

Shows(e, all) == e \in EngineT /\ Windows(e, all) /\ Recent(e, all)

SameTicks(d, e) == d.ticks = e.ticks /\ d.prev = e.prev /\ d.playerTick = e.playerTick

\* One event more: ring, arrays, totals and counts are those of the longer list.
LEMMA RecordEventShows ==
    ASSUME NEW e, NEW all \in Seq(EventT), NEW ev \in EventT, Shows(e, all)
    PROVE  /\ Shows(RecordEvent(e, ev), Append(all, ev))
           /\ SameTicks(RecordEvent(e, ev), e)
<1>. DEFINE r == RecordEvent(e, ev)
            more == Append(all, ev)
            about(x) == ev.type \in TypesOf(x)
<1>1. e \in EngineT /\ ev.type \in EventTypes
  BY DEF Shows, EventT
<1>2. \A x \in Observations :
         about(x) <=> x \in IF ev.type \in DOMAIN ObservationOf
                            THEN {ObservationOf[ev.type]} ELSE {}
  BY DEF TypesOf
<1>3. r = [e EXCEPT
             !.events = Ring(Append(e.events, ev)),
             !.counts = [e.counts EXCEPT ![ev.type] = @ + 1],
             !.observed = [x \in Observations |->
                             IF about(x) THEN LastOf(Append(e.observed[x], ev), MaxObservationsAPI)
                             ELSE e.observed[x]],
             !.totals = [x \in Observations |-> IF about(x) THEN e.totals[x] + 1
                                                ELSE e.totals[x]]]
  BY <1>2 DEF RecordEvent
<1>4. /\ r.events = Ring(Append(e.events, ev))
      /\ r.counts = [e.counts EXCEPT ![ev.type] = @ + 1]
      /\ r.observed = [x \in Observations |->
                         IF about(x) THEN LastOf(Append(e.observed[x], ev), MaxObservationsAPI)
                         ELSE e.observed[x]]
      /\ r.totals = [x \in Observations |-> IF about(x) THEN e.totals[x] + 1
                                            ELSE e.totals[x]]
      /\ SameTicks(r, e)
  <2>. HIDE DEF r, about
  <2>1. QED BY <1>1, <1>3 DEF EngineT, SameTicks
<1>5. more \in Seq(EventT) /\ Len(more) = Len(all) + 1 /\ Len(all) \in Nat
  BY AppendProperties
<1>6. /\ e.events \in Seq(EventT) /\ e.counts \in [EventTypes -> Nat]
      /\ e.observed \in [Observations -> Seq(EventT)]
      /\ e.totals \in [Observations -> Nat]
  BY <1>1 DEF EngineT
<1>7. r.events \in Seq(EventT) /\ Recent(r, more)
  <2>. DEFINE grown == Append(e.events, ev)
  <2>1. Ends(e.events, all) /\ (Len(e.events) = Len(all) \/ Len(e.events) >= RecentEventsAPI)
    BY DEF Shows, Recent
  <2>2. grown \in Seq(EventT) /\ Ends(grown, more) /\ Len(grown) = Len(e.events) + 1
    BY <1>6, <2>1, EndsMore, AppendProperties
  <2>. HIDE DEF grown, more
  <2>3. /\ Ring(grown) \in Seq(EventT) /\ Ends(Ring(grown), grown)
        /\ Len(Ring(grown)) <= MaxEvents
        /\ Len(Ring(grown)) = Len(grown) \/ Len(Ring(grown)) >= RecentEventsAPI
    BY <2>2, RingIs
  <2>4. Ends(Ring(grown), more)
    BY <1>5, <2>2, <2>3, EndsOfEnd
  <2>5. r.events = Ring(grown)
    BY <1>4 DEF grown
  <2>6. Len(e.events) \in Nat /\ Len(Ring(grown)) \in Nat /\ RecentEventsAPI \in Nat
    BY <1>6, <2>3, ConstantsAre
  <2>7. Len(Ring(grown)) = Len(more) \/ Len(Ring(grown)) >= RecentEventsAPI
    BY <1>5, <2>1, <2>2, <2>3, <2>6
  <2>. HIDE DEF r
  <2>8. QED BY <2>3, <2>4, <2>5, <2>7 DEF Recent
<1>8. \A x \in Observations :
         /\ Select(all, TypesOf(x)) \in Seq(EventT)
         /\ Select(more, TypesOf(x)) = IF about(x) THEN Append(Select(all, TypesOf(x)), ev)
                                       ELSE Select(all, TypesOf(x))
  BY SelectTyped, SelectMore
<1>9. \A t \in EventTypes :
         /\ Select(all, {t}) \in Seq(EventT)
         /\ Select(more, {t}) = IF ev.type = t THEN Append(Select(all, {t}), ev)
                                ELSE Select(all, {t})
  <2>1. ASSUME NEW t \in EventTypes
        PROVE  /\ Select(all, {t}) \in Seq(EventT)
               /\ Select(more, {t}) = IF ev.type \in {t} THEN Append(Select(all, {t}), ev)
                                      ELSE Select(all, {t})
    BY SelectTyped, SelectMore
  <2>2. QED BY <2>1
<1>. HIDE DEF r, more, about
<1>10. ASSUME NEW x \in Observations
       PROVE  /\ r.observed[x] = LastOf(Select(more, TypesOf(x)), MaxObservationsAPI)
              /\ r.totals[x] = Len(Select(more, TypesOf(x)))
              /\ r.observed[x] \in Seq(EventT) /\ r.totals[x] \in Nat
  <2>. DEFINE list == Select(all, TypesOf(x))
  <2>1. /\ e.observed[x] = LastOf(list, MaxObservationsAPI) /\ e.totals[x] = Len(list)
        /\ list \in Seq(EventT) /\ MaxObservationsAPI \in Nat
    BY <1>8, ConstantsAre DEF Shows, Windows
  <2>2. CASE about(x)
    <3>. HIDE DEF list
    <3>1. Select(more, TypesOf(x)) = Append(list, ev)
      BY <1>8, <2>2 DEF list
    <3>2. r.observed[x] = LastOf(Append(list, ev), MaxObservationsAPI)
      BY <1>4, <2>1, <2>2, LastMore
    <3>3. r.totals[x] = Len(list) + 1 /\ Len(Append(list, ev)) = Len(list) + 1
          /\ Append(list, ev) \in Seq(EventT) /\ Len(list) \in Nat
      BY <1>4, <2>1, <2>2, AppendProperties
    <3>4. LastOf(Append(list, ev), MaxObservationsAPI) \in Seq(EventT)
      BY <2>1, <3>3, LastIs
    <3>5. QED BY <3>1, <3>2, <3>3, <3>4
  <2>3. CASE ~about(x)
    <3>1. Select(more, TypesOf(x)) = list
      BY <1>8, <2>3
    <3>2. r.observed[x] = e.observed[x] /\ r.totals[x] = e.totals[x]
      BY <1>4, <2>3
    <3>3. QED BY <1>6, <2>1, <3>1, <3>2
  <2>4. QED BY <2>2, <2>3
<1>11. ASSUME NEW t \in EventTypes
       PROVE  r.counts[t] = Len(Select(more, {t}))
  <2>1. e.counts[t] = Len(Select(all, {t}))
    BY DEF Shows, Windows
  <2>2. r.counts[t] = IF ev.type = t THEN e.counts[t] + 1 ELSE e.counts[t]
    BY <1>1, <1>4, <1>6
  <2>3. QED BY <1>9, <2>1, <2>2
<1>12. r.counts \in [EventTypes -> Nat]
  BY <1>1, <1>4, <1>6
<1>13. /\ r.observed \in [Observations -> Seq(EventT)] /\ r.totals \in [Observations -> Nat]
  BY <1>4, <1>10
<1>14. r \in EngineT
  <2>1. r = [prev |-> r.prev, playerTick |-> r.playerTick, events |-> r.events,
             ticks |-> r.ticks, counts |-> r.counts, observed |-> r.observed,
             totals |-> r.totals]
    BY <1>1, <1>3 DEF EngineT
  <2>2. r.prev \in SUBSET TickT /\ r.playerTick \in SUBSET TickT /\ r.ticks \in Nat
    BY <1>1, <1>4 DEF EngineT, SameTicks
  <2>3. QED BY <1>7, <1>12, <1>13, <2>1, <2>2 DEF EngineT
<1>15. Windows(r, more)
  BY <1>10, <1>11 DEF Windows
<1>16. QED BY <1>4, <1>7, <1>14, <1>15 DEF Shows, r, more

LEMMA PrefixMore ==
    ASSUME NEW S, NEW all \in Seq(S), NEW list \in Seq(S), NEW n \in Nat, n + 1 <= Len(list)
    PROVE  all \o SubSeq(list, 1, n + 1) = Append(all \o SubSeq(list, 1, n), list[n + 1])
<1>1. n + 1 \in 1 .. Len(list) /\ 1 \in 1 .. Len(list) /\ (n + 1) - 1 = n
      /\ n + 1 \in 1 .. Len(list)
  OBVIOUS
<1>2. \A i \in 1 .. n : list[i] \in S
  BY <1>1
<1>3. SubSeq(list, 1, n) \in Seq(S) /\ list[n + 1] \in S
  BY <1>1, <1>2, SubSeqProperties
<1>4. SubSeq(list, 1, n + 1) = SubSeq(list, 1, n) \o <<list[n + 1]>>
  <2>1. SubSeq(list, 1, n + 1) = SubSeq(list, 1, (n + 1) - 1) \o <<list[n + 1]>>
    BY <1>1, SubSeqRecursiveSecond
  <2>2. QED BY <1>1, <2>1
<1>. DEFINE p == SubSeq(list, 1, n)
            x == list[n + 1]
<1>5. p \in Seq(S) /\ x \in S /\ <<x>> \in Seq(S)
  BY <1>3
<1>. HIDE DEF p, x
<1>6. all \o (p \o <<x>>) = (all \o p) \o <<x>>
  BY <1>5, ConcatAssociative
<1>7. all \o p \in Seq(S)
  BY <1>5, ConcatProperties
<1>8. Append(all \o p, x) = (all \o p) \o <<x>>
  BY <1>5, <1>7, AppendIsConcat
<1>9. QED BY <1>4, <1>6, <1>8 DEF p, x

LEMMA RecordedShows ==
    ASSUME NEW e, NEW all \in Seq(EventT), NEW list \in Seq(EventT), Shows(e, all)
    PROVE  /\ Shows(Recorded(e, list), all \o list)
           /\ SameTicks(Recorded(e, list), e)
<1>1. Len(list) \in Nat
  OBVIOUS
<1>2. PICK f : /\ f[0] = e
               /\ \A n \in 1 .. Len(list) : f[n] = RecordEvent(f[n - 1], list[n])
               /\ Recorded(e, list) = f[Len(list)]
  BY <1>1, RecordedIs
<1>. DEFINE upTo(n) == all \o SubSeq(list, 1, n)
            Good == {n \in Nat : n <= Len(list) =>
                        Shows(f[n], upTo(n)) /\ SameTicks(f[n], e)}
<1>3. 0 \in Good
  <2>1. upTo(0) = all
    BY SubSeqEmpty, ConcatEmptySeq
  <2>2. Shows(f[0], upTo(0)) /\ SameTicks(f[0], e)
    BY <1>2, <2>1 DEF SameTicks
  <2>3. QED BY <2>2
<1>4. ASSUME NEW n \in Good PROVE n + 1 \in Good
  <2>1. SUFFICES ASSUME n + 1 <= Len(list)
                 PROVE  Shows(f[n + 1], upTo(n + 1)) /\ SameTicks(f[n + 1], e)
    OBVIOUS
  <2>2. n \in Nat /\ n + 1 \in 1 .. Len(list) /\ (n + 1) - 1 = n
        /\ Shows(f[n], upTo(n)) /\ SameTicks(f[n], e)
    BY <2>1
  <2>3. list[n + 1] \in EventT
    BY <2>2
  <2>4. upTo(n + 1) = Append(upTo(n), list[n + 1])
    BY <2>1, <2>2, PrefixMore
  <2>5. upTo(n) \in Seq(EventT)
    <3>1. \A i \in 1 .. n : list[i] \in EventT
      BY <2>2
    <3>2. SubSeq(list, 1, n) \in Seq(EventT)
      BY <2>2, <3>1, SubSeqProperties
    <3>3. QED BY <3>2, ConcatProperties
  <2>6. f[n + 1] = RecordEvent(f[n], list[n + 1])
    BY <1>2, <2>2
  <2>. HIDE DEF upTo
  <2>7. /\ Shows(RecordEvent(f[n], list[n + 1]), Append(upTo(n), list[n + 1]))
        /\ SameTicks(RecordEvent(f[n], list[n + 1]), f[n])
    BY <2>2, <2>3, <2>5, RecordEventShows
  <2>8. QED BY <2>2, <2>4, <2>6, <2>7 DEF SameTicks
<1>5. Len(list) \in Good
  <2>. HIDE DEF Good
  <2>1. Good \in SUBSET Nat
    BY DEF Good
  <2>2. QED BY <1>1, <1>3, <1>4, <2>1, Climb
<1>6. Shows(f[Len(list)], upTo(Len(list))) /\ SameTicks(f[Len(list)], e)
  BY <1>1, <1>5
<1>7. upTo(Len(list)) = all \o list
  BY SubSeqFull
<1>8. QED
  <2>. HIDE DEF upTo
  <2>1. QED BY <1>2, <1>6, <1>7

NextTick(d, e, tick) ==
    /\ d.ticks = e.ticks + 1 /\ d.prev = {tick}
    /\ d.playerTick = IF tick.players # {} THEN {tick} ELSE e.playerTick

\* One tick more.
LEMMA ObserveShows ==
    ASSUME NEW e, NEW all \in Seq(EventT), NEW tick \in TickT, Shows(e, all)
    PROVE  /\ Shows(Observe(e, tick), all \o DerivedBy(e, tick))
           /\ all \o DerivedBy(e, tick) \in Seq(EventT)
           /\ NextTick(Observe(e, tick), e, tick)
<1>. DEFINE list == DerivedBy(e, tick)
            r == Recorded(e, list)
            o == Observe(e, tick)
<1>1. list \in Seq(EventT)
  BY DerivedTyped DEF Shows
<1>2. Shows(r, all \o list) /\ SameTicks(r, e)
  <2>. HIDE DEF list
  <2>1. QED BY <1>1, RecordedShows
<1>3. o = [r EXCEPT !.ticks = @ + 1, !.prev = {tick},
                    !.playerTick = IF tick.players # {} THEN {tick} ELSE @]
  BY DEF Observe
<1>. HIDE DEF list, r, o
<1>4. r \in EngineT
  BY <1>2 DEF Shows
<1>5. /\ o \in EngineT /\ o.ticks = r.ticks + 1 /\ o.prev = {tick}
      /\ o.playerTick = (IF tick.players # {} THEN {tick} ELSE r.playerTick)
      /\ o.events = r.events /\ o.counts = r.counts
      /\ o.observed = r.observed /\ o.totals = r.totals
  <2>. DEFINE latest == IF tick.players # {} THEN {tick} ELSE r.playerTick
  <2>1. latest \in SUBSET TickT /\ {tick} \in SUBSET TickT /\ r.ticks + 1 \in Nat
    BY <1>4 DEF EngineT
  <2>2. o = [r EXCEPT !.ticks = r.ticks + 1, !.prev = {tick}, !.playerTick = latest]
    BY <1>3
  <2>. HIDE DEF latest
  <2>3. /\ o \in EngineT /\ o.ticks = r.ticks + 1 /\ o.prev = {tick}
        /\ o.playerTick = latest
        /\ o.events = r.events /\ o.counts = r.counts
        /\ o.observed = r.observed /\ o.totals = r.totals
    BY <1>4, <2>1, <2>2 DEF EngineT
  <2>4. QED BY <2>3 DEF latest
<1>6. Shows(o, all \o list)
  BY <1>2, <1>5 DEF Shows, Windows, Recent
<1>7. all \o list \in Seq(EventT)
  BY <1>1, ConcatProperties
<1>8. NextTick(o, e, tick)
  BY <1>2, <1>5 DEF SameTicks, NextTick
<1>9. QED BY <1>6, <1>7, <1>8 DEF list, o

LEMMA NewEngineShows ==
    /\ Shows(NewEngine, <<>>) /\ NewEngine.ticks = 0 /\ NewEngine.prev = {}
    /\ NewEngine.playerTick = {}
<1>1. NewEngine \in EngineT
  BY DEF NewEngine, EngineT
<1>2. /\ NewEngine.ticks = 0 /\ NewEngine.prev = {} /\ NewEngine.playerTick = {}
      /\ NewEngine.events = <<>>
      /\ \A t \in EventTypes : NewEngine.counts[t] = 0
      /\ \A x \in Observations : NewEngine.observed[x] = <<>> /\ NewEngine.totals[x] = 0
  BY DEF NewEngine
<1>3. \A n \in Nat : LastOf(<<>>, n) = <<>>
  BY DEF LastOf
<1>4. Windows(NewEngine, <<>>)
  BY <1>2, <1>3, SelectNone, ConstantsAre DEF Windows
<1>5. Recent(NewEngine, <<>>)
  BY <1>2, ConstantsAre DEF Recent, Ends
<1>6. QED BY <1>1, <1>2, <1>4, <1>5 DEF Shows

-----------------------------------------------------------------------------
(* The invariant.                                                          *)

Types ==
    /\ game \in GameT /\ raw \in Seq(TickT)
    /\ derived \in Seq(Seq(EventT)) /\ Len(derived) = Len(raw)
    /\ truth \in [Counted -> Nat]
    /\ shown \in Seq(Nat) /\ Len(shown) = Len(raw)
    /\ bounds \in [changes : 0 .. MaxChanges, hidings : 0 .. MaxHidings,
                   faults : 0 .. MaxFaults]
    /\ analysis.at \in {"idle", "write", "done"}
    /\ analysis = [at |-> analysis.at, of |-> analysis.of]
    /\ summary = {} \/ \E s : summary = {s}
    /\ events = {} \/ \E f : events = {f}

Latest == {n \in DOMAIN raw : /\ raw[n].players # {}
                              /\ \A m \in DOMAIN raw : raw[m].players # {} => m <= n}

\* The live engine is where a replay of the same ticks would be.
Live ==
    /\ Shows(engine, Reported(Len(raw)))
    /\ engine.ticks = Len(raw)
    /\ engine.prev = IF raw = <<>> THEN {} ELSE {raw[Len(raw)]}
    /\ engine.playerTick = {raw[n] : n \in Latest}
    /\ Replayed(raw) = [engine |-> engine, events |-> Reported(Len(raw))]

Tells(s, all) ==
    /\ \A t \in EventTypes : s.counts[t] = Len(Select(all, {t}))
    /\ \A o \in Observations :
          /\ s.totals[o] = Len(Select(all, TypesOf(o)))
          /\ ~s.truncated => s.observed[o] = Select(all, TypesOf(o))

Honest(s) == s.ticks \in 0 .. Len(raw) /\ Tells(s, Reported(s.ticks))

\* What was written, and what is about to be.
Files ==
    /\ \A s \in summary : Honest(s)
    /\ \A f \in events : f.ticks \in 0 .. Len(raw) /\ f.list = Reported(f.ticks)
    /\ Honest(analysis.of.summary)
    /\ analysis.of.events = Reported(analysis.of.summary.ticks)

Inv == Types /\ Live /\ Files

\* The live summary is true of what was derived, and complete unless it says not.
LEMMA SnapshotTells ==
    ASSUME NEW e, NEW all \in Seq(EventT), Shows(e, all)
    PROVE  Tells(Snapshot(e), all) /\ Snapshot(e).ticks = e.ticks
<1>1. /\ Snapshot(e).ticks = e.ticks /\ Snapshot(e).counts = e.counts
      /\ Snapshot(e).totals = e.totals /\ Snapshot(e).observed = e.observed
      /\ Snapshot(e).truncated = Truncated(e)
  BY DEF Snapshot
<1>2. ASSUME NEW o \in Observations, ~Truncated(e)
      PROVE  e.observed[o] = Select(all, TypesOf(o))
  <2>. DEFINE list == Select(all, TypesOf(o))
  <2>1. /\ list \in Seq(EventT) /\ MaxObservationsAPI \in Nat
        /\ e.observed[o] = LastOf(list, MaxObservationsAPI) /\ e.totals[o] = Len(list)
    BY SelectTyped, ConstantsAre DEF Shows, Windows
  <2>2. ~(e.totals[o] > Len(e.observed[o]))
    BY <1>2 DEF Truncated
  <2>. HIDE DEF list
  <2>3. Len(LastOf(list, MaxObservationsAPI)) =
           IF Len(list) <= MaxObservationsAPI THEN Len(list) ELSE MaxObservationsAPI
    BY <2>1, LastIs
  <2>4. Len(list) <= MaxObservationsAPI
    BY <2>1, <2>2, <2>3
  <2>5. e.observed[o] = list
    BY <2>1, <2>4 DEF LastOf
  <2>6. QED BY <2>5 DEF list
<1>3. QED BY <1>1, <1>2 DEF Tells, Shows, Windows

\* So is the offline one, which gives the complete arrays.
LEMMA OfflineTells ==
    ASSUME NEW e, NEW all \in Seq(EventT), Shows(e, all)
    PROVE  Tells(OfflineSummary(e, all), all) /\ OfflineSummary(e, all).ticks = e.ticks
<1>. DEFINE s == OfflineSummary(e, all)
<1>1. /\ s.ticks = e.ticks /\ s.counts = e.counts
      /\ s.totals = [o \in Observations |-> Len(Partition(all)[o])]
      /\ s.observed = Partition(all)
  BY DEF OfflineSummary, Snapshot
<1>2. \A o \in Observations : Partition(all)[o] = Select(all, TypesOf(o))
  BY DEF Partition
<1>. HIDE DEF s
<1>3. QED BY <1>1, <1>2 DEF Tells, Shows, Windows, s

\* What was derived up to a tick stays what it is.
LEMMA ReportedStays ==
    ASSUME derived \in Seq(Seq(EventT)), NEW list \in Seq(EventT),
           derived' = Append(derived, list), NEW n \in 0 .. Len(derived)
    PROVE  Reported(n)' = Reported(n)
<1>1. SubSeq(Append(derived, list), 1, n) = SubSeq(derived, 1, n)
  <2>. DEFINE more == Append(derived, list)
  <2>1. more \in Seq(Seq(EventT)) /\ Len(more) = Len(derived) + 1
        /\ \A i \in 1 .. Len(derived) : more[i] = derived[i]
    BY AppendProperties
  <2>. HIDE DEF more
  <2>2. n \in Nat /\ n <= Len(derived) /\ 1 .. n \subseteq 1 .. Len(derived)
        /\ n <= Len(more) /\ Len(derived) \in Nat /\ 1 .. n \subseteq 1 .. Len(more)
    BY <2>1
  <2>3. \A i \in 1 .. n : more[i] \in Seq(EventT) /\ derived[i] \in Seq(EventT)
    BY <2>1, <2>2
  <2>4. /\ SubSeq(more, 1, n) \in Seq(Seq(EventT)) /\ SubSeq(derived, 1, n) \in Seq(Seq(EventT))
        /\ Len(SubSeq(more, 1, n)) = (IF 1 <= n THEN n - 1 + 1 ELSE 0)
        /\ Len(SubSeq(derived, 1, n)) = (IF 1 <= n THEN n - 1 + 1 ELSE 0)
        /\ \A i \in 1 .. n - 1 + 1 : SubSeq(more, 1, n)[i] = more[1 + i - 1]
        /\ \A i \in 1 .. n - 1 + 1 : SubSeq(derived, 1, n)[i] = derived[1 + i - 1]
    BY <2>2, <2>3, SubSeqProperties
  <2>5. \A i \in 1 .. Len(SubSeq(more, 1, n)) :
           SubSeq(more, 1, n)[i] = SubSeq(derived, 1, n)[i]
    BY <2>1, <2>2, <2>4
  <2>6. Len(SubSeq(more, 1, n)) = Len(SubSeq(derived, 1, n))
    BY <2>4
  <2>7. SubSeq(more, 1, n) = SubSeq(derived, 1, n)
    BY <2>4, <2>5, <2>6, SeqEqual
  <2>8. QED BY <2>7 DEF more
<1>2. QED BY <1>1 DEF Reported

\* The new tick's events come last.
LEMMA ReportedMore ==
    ASSUME derived \in Seq(Seq(EventT)), NEW list \in Seq(EventT),
           derived' = Append(derived, list), NEW n, n = Len(derived)
    PROVE  Reported(n + 1)' = Reported(n) \o list
<1>1. derived' \in Seq(Seq(EventT)) /\ Len(derived') = n + 1
  BY AppendProperties
<1>2. SubSeq(derived', 1, n + 1) = derived'
  BY <1>1, SubSeqFull
<1>3. SubSeq(derived, 1, n) = derived
  BY SubSeqFull
<1>4. FlattenSeq(derived') = FlattenSeq(derived) \o list
  BY FlattenMore
<1>5. QED BY <1>2, <1>3, <1>4 DEF Reported

LEMMA ReportedTyped ==
    ASSUME derived \in Seq(Seq(EventT))
    PROVE  Reported(Len(derived)) \in Seq(EventT)
<1>1. SubSeq(derived, 1, Len(derived)) = derived
  BY SubSeqFull
<1>2. QED BY <1>1, FlattenTyped DEF Reported

LEMMA ReportedNone == Reported(0) = <<>>
<1>1. SubSeq(derived, 1, 0) = <<>>
  BY SubSeqEmpty
<1>2. QED BY <1>1, FlattenNone DEF Reported

LEMMA InitInv == Init => Inv
<1>1. SUFFICES ASSUME Init PROVE Inv
  OBVIOUS
<1>2. /\ game = NewGame(0) /\ raw = <<>> /\ derived = <<>> /\ engine = NewEngine
      /\ analysis = [at |-> "idle", of |-> Analyzed(<<>>)]
      /\ summary = {} /\ events = {}
      /\ truth = [t \in Counted |-> 0] /\ shown = <<>>
      /\ bounds = [changes |-> 0, hidings |-> 0, faults |-> 0]
  BY <1>1 DEF Init
<1>3. Len(raw) = 0 /\ Reported(0) = <<>>
  BY <1>2, ReportedNone
<1>4. Types
  BY <1>2, NewGameTyped, ConstantsAre DEF Types
<1>5. Live
  <2>1. Latest = {}
    BY <1>2 DEF Latest
  <2>2. QED BY <1>2, <1>3, <2>1, NewEngineShows, ReplayedNone DEF Live
<1>6. Honest(analysis.of.summary) /\ analysis.of.events = Reported(analysis.of.summary.ticks)
  <2>1. Analyzed(<<>>).events = <<>> /\ Analyzed(<<>>).summary = OfflineSummary(NewEngine, <<>>)
    BY ReplayedNone DEF Analyzed
  <2>2. /\ Tells(OfflineSummary(NewEngine, <<>>), <<>>)
        /\ OfflineSummary(NewEngine, <<>>).ticks = 0
    <3>1. <<>> \in Seq(EventT)
      OBVIOUS
    <3>2. QED BY <3>1, NewEngineShows, OfflineTells
  <2>3. analysis.of.events = <<>> /\ analysis.of.summary = OfflineSummary(NewEngine, <<>>)
    BY <1>2, <2>1
  <2>4. QED BY <1>3, <2>2, <2>3 DEF Honest
<1>7. QED BY <1>2, <1>4, <1>5, <1>6 DEF Inv, Files

LEMMA WrittenIs ==
    ASSUME NEW content, NEW fails \in BOOLEAN
    PROVE  Written(content, fails) = {} \/ Written(content, fails) = {content}
  BY DEF Written

LEMMA MayFailIs ==
    ASSUME NEW fails \in MayFail
    PROVE  fails \in BOOLEAN /\ (fails => bounds.faults < MaxFaults)
  BY DEF MayFail

\* What the engine shows after one more tick, and what a replay of the
\* ticks and the lists derived before would have.
LEMMA TickLive ==
    ASSUME Inv, NEW tick \in TickT,
           raw' = Append(raw, tick),
           derived' = Append(derived, DerivedBy(engine, tick)),
           engine' = Observe(engine, tick)
    PROVE  /\ Live'
           /\ raw' \in Seq(TickT) /\ Len(raw') = Len(raw) + 1
           /\ derived' \in Seq(Seq(EventT)) /\ Len(derived') = Len(derived) + 1
           /\ \A n \in 0 .. Len(raw) : Reported(n)' = Reported(n)
<1>. PICK N : N = Len(raw)
  OBVIOUS
<1>. DEFINE list == DerivedBy(engine, tick)
            all == Reported(N)
<1>1. /\ raw \in Seq(TickT) /\ derived \in Seq(Seq(EventT)) /\ Len(derived) = N /\ N \in Nat
  BY DEF Inv, Types
<1>2. /\ Shows(engine, all) /\ engine \in EngineT
      /\ engine.ticks = N
      /\ engine.playerTick = {raw[n] : n \in Latest}
      /\ Replayed(raw) = [engine |-> engine, events |-> all]
  BY DEF Inv, Live, Shows
<1>3. list \in Seq(EventT)
  BY <1>2, DerivedTyped
<1>4. /\ raw' \in Seq(TickT) /\ Len(raw') = N + 1 /\ raw'[N + 1] = tick /\ raw' # <<>>
      /\ \A n \in 1 .. N : raw'[n] = raw[n]
      /\ DOMAIN raw' = 1 .. N + 1 /\ DOMAIN raw = 1 .. N
  BY <1>1, AppendProperties
<1>5. derived' \in Seq(Seq(EventT)) /\ Len(derived') = Len(derived) + 1
  BY <1>1, <1>3, AppendProperties
<1>6. \A n \in 0 .. N : Reported(n)' = Reported(n)
  BY <1>1, <1>3, ReportedStays
<1>7. all \in Seq(EventT)
  BY <1>1, ReportedTyped
<1>8. Reported(N + 1)' = all \o list
  BY <1>1, <1>3, ReportedMore
<1>. HIDE DEF list, all
<1>9. /\ Shows(engine', all \o list) /\ engine'.ticks = N + 1
      /\ engine'.prev = {tick}
      /\ engine'.playerTick = IF tick.players # {} THEN {tick} ELSE engine.playerTick
  <2>. DEFINE e == Observe(engine, tick)
  <2>1. Shows(engine, all)
    BY <1>2
  <2>2. Shows(e, all \o DerivedBy(engine, tick)) /\ NextTick(e, engine, tick)
    BY <1>7, <2>1, ObserveShows
  <2>. HIDE DEF e
  <2>3. engine' = e
    BY DEF e
  <2>4. QED BY <1>2, <2>2, <2>3 DEF list, NextTick
<1>10. Replayed(raw') = [engine |-> engine', events |-> all \o list]
  <2>1. Replayed(raw') = ObservedToo(Replayed(raw), tick)
    BY <1>1, ReplayedMore
  <2>2. QED BY <1>2, <2>1 DEF ObservedToo, list
<1>11. engine'.playerTick = {raw'[n] : n \in Latest'}
  <2>1. CASE tick.players # {}
    <3>1. Latest' = {N + 1}
      <4>1. N + 1 \in Latest'
        BY <1>1, <1>4, <2>1 DEF Latest
      <4>2. ASSUME NEW n \in Latest' PROVE n = N + 1
        <5>1. n \in 1 .. N + 1 /\ \A m \in 1 .. N + 1 : raw'[m].players # {} => m <= n
          BY <1>4 DEF Latest
        <5>2. N + 1 \in 1 .. N + 1
          BY <1>1
        <5>3. N + 1 <= n
          BY <1>4, <2>1, <5>1, <5>2
        <5>4. QED BY <1>1, <5>1, <5>3
      <4>3. QED BY <4>1, <4>2
    <3>2. {raw'[n] : n \in {N + 1}} = {raw'[N + 1]}
      OBVIOUS
    <3>3. engine'.playerTick = {tick} /\ raw'[N + 1] = tick
      BY <1>4, <1>9, <2>1
    <3>4. QED BY <3>1, <3>2, <3>3, Zenon
  <2>2. CASE tick.players = {}
    <3>1. Latest' = Latest
      <4>1. ASSUME NEW n PROVE n \in Latest' <=> n \in Latest
        <5>1. \A m \in 1 .. N + 1 : raw'[m].players # {} => m \in 1 .. N
          BY <1>1, <1>4, <2>2
        <5>2. 1 .. N \subseteq 1 .. N + 1
          BY <1>1
        <5>3. QED BY <1>4, <5>1, <5>2 DEF Latest
      <4>2. QED BY <4>1
    <3>2. Latest \subseteq 1 .. N
      BY <1>4 DEF Latest
    <3>3. {raw'[n] : n \in Latest} = {raw[n] : n \in Latest}
      BY <1>4, <3>2
    <3>4. QED BY <1>2, <1>9, <2>2, <3>1, <3>3
  <2>3. QED BY <2>1, <2>2
<1>12. Live'
  <2>1. Reported(Len(raw))' = all \o list
    BY <1>4, <1>8 DEF Reported
  <2>2. QED BY <1>4, <1>9, <1>10, <1>11, <2>1 DEF Live
<1>13. QED BY <1>4, <1>5, <1>6, <1>12

\* What is true of the ticks it counts stays true.
LEMMA HonestStays ==
    ASSUME NEW s, Honest(s), Len(raw) \in Nat, Len(raw') \in Nat, Len(raw) <= Len(raw'),
           \A n \in 0 .. Len(raw) : Reported(n)' = Reported(n)
    PROVE  Honest(s)'
<1>1. s.ticks \in 0 .. Len(raw) /\ s.ticks \in 0 .. Len(raw') /\ Tells(s, Reported(s.ticks))
  BY DEF Honest
<1>2. Reported(s.ticks)' = Reported(s.ticks)
  BY <1>1
<1>3. Tells(s, Reported(s.ticks)')
  BY <1>1, <1>2
<1>4. Tells(s, Reported(s.ticks))'
  BY <1>3 DEF Tells
<1>5. QED BY <1>1, <1>4 DEF Honest

LEMMA CaptureInv == Inv /\ Capture => Inv'
<1>1. SUFFICES ASSUME Inv, Capture PROVE Inv'
  OBVIOUS
<1>2. Types /\ Live /\ Files
  BY <1>1 DEF Inv
<1>3. PICK course \in IF raw = <<>> THEN {<<game>>} ELSE Courses(game),
           fails \in MayFail,
           hidden \in IF bounds.hidings < MaxHidings THEN Hidings ELSE {{}} :
         /\ bounds.changes + Len(course) - 1 <= MaxChanges
         /\ \E gone \in SUBSET {b \in Building : Last(course).health[b] = 0} :
               Tick(course, hidden, gone, fails)
  BY <1>1 DEF Capture
<1>4. PICK gone : Tick(course, hidden, gone, fails)
  BY <1>3
<1>. DEFINE tick == View(Last(course), hidden, gone)
<1>5. /\ game' = Last(course)
      /\ truth' = Counting(truth, course)
      /\ shown' = Append(shown, Last(course).match)
      /\ raw' = Append(raw, tick)
      /\ derived' = Append(derived, DerivedBy(engine, tick))
      /\ engine' = Observe(engine, tick)
      /\ summary' = Written(Snapshot(engine'), fails)
      /\ bounds' = CountFault([bounds EXCEPT
                                 !.hidings = @ + IF hidden = {} THEN 0 ELSE 1,
                                 !.changes = @ + (Len(course) - 1)], fails)
      /\ UNCHANGED <<analysis, events>>
  BY <1>4 DEF Tick
<1>6. /\ course \in Seq(GameT) /\ course # <<>>
      /\ Len(course) \in 1 .. 3 /\ Last(course) \in GameT
  <2>1. game \in GameT /\ course \in Courses(game) \cup {<<game>>}
    BY <1>2, <1>3 DEF Types
  <2>2. QED BY <2>1, CourseTyped
<1>7. tick \in TickT
  BY <1>6, ViewTyped
<1>8. fails \in BOOLEAN /\ (fails => bounds.faults < MaxFaults)
  BY MayFailIs
<1>. HIDE DEF tick
<1>9. /\ Live'
      /\ raw' \in Seq(TickT) /\ Len(raw') = Len(raw) + 1
      /\ derived' \in Seq(Seq(EventT)) /\ Len(derived') = Len(derived) + 1
      /\ \A n \in 0 .. Len(raw) : Reported(n)' = Reported(n)
  BY <1>1, <1>5, <1>7, TickLive
<1>10. Len(raw) \in Nat /\ Len(raw') \in Nat /\ Len(raw) <= Len(raw') /\ Len(derived) = Len(raw)
  <2>1. Len(raw) \in Nat /\ Len(derived) = Len(raw)
    BY <1>2 DEF Types
  <2>2. QED BY <1>9, <2>1
<1>11. bounds' \in [changes : 0 .. MaxChanges, hidings : 0 .. MaxHidings,
                    faults : 0 .. MaxFaults]
  <2>. DEFINE changes == bounds.changes + (Len(course) - 1)
              hidings == bounds.hidings + IF hidden = {} THEN 0 ELSE 1
              faults == bounds.faults + IF fails THEN 1 ELSE 0
  <2>1. bounds \in [changes : 0 .. MaxChanges, hidings : 0 .. MaxHidings,
                    faults : 0 .. MaxFaults]
    BY <1>2 DEF Types
  <2>2. changes \in 0 .. MaxChanges
    BY <1>3, <1>6, <2>1, ConstantsAre
  <2>3. hidings \in 0 .. MaxHidings
    <3>1. hidden # {} => bounds.hidings < MaxHidings
      BY <1>3
    <3>2. QED BY <2>1, <3>1, ConstantsAre
  <2>4. faults \in 0 .. MaxFaults
    BY <1>8, <2>1, ConstantsAre
  <2>5. bounds' = [changes |-> changes, hidings |-> hidings, faults |-> faults]
    BY <1>5, <2>1 DEF CountFault
  <2>. HIDE DEF changes, hidings, faults
  <2>6. QED BY <2>2, <2>3, <2>4, <2>5
<1>12. truth' \in [Counted -> Nat]
  BY <1>2, <1>5, <1>6, CountingTyped DEF Types
<1>13. summary' = {} \/ summary' = {Snapshot(engine')}
  BY <1>5, <1>8, WrittenIs
<1>14. Types'
  <2>1. shown \in Seq(Nat) /\ Len(shown) = Len(raw) /\ Last(course).match \in Nat
    BY <1>2, <1>6 DEF Types, GameT
  <2>2. shown' \in Seq(Nat) /\ Len(shown') = Len(raw')
    <3>1. shown' \in Seq(Nat) /\ Len(shown') = Len(shown) + 1
      BY <1>5, <2>1
    <3>2. QED BY <1>9, <2>1, <3>1
  <2>3. QED BY <1>2, <1>5, <1>6, <1>9, <1>10, <1>11, <1>12, <1>13, <2>2 DEF Types
<1>15. Files'
  <2>1. PICK n : n = Len(raw')
    OBVIOUS
  <2>2. /\ Shows(engine', Reported(n)') /\ engine'.ticks = n
    BY <1>9, <2>1 DEF Live, Shows, Windows, Recent, Reported
  <2>3. Reported(n)' \in Seq(EventT)
    <3>1. SubSeq(derived', 1, n) = derived'
      BY <1>9, <1>10, <2>1, SubSeqFull
    <3>2. QED BY <1>9, <3>1, FlattenTyped DEF Reported
  <2>4. Tells(Snapshot(engine'), Reported(n)') /\ Snapshot(engine').ticks = n
    BY <2>2, <2>3, SnapshotTells
  <2>5. ASSUME NEW s, s \in summary' PROVE Honest(s)'
    <3>1. s = Snapshot(engine')
      BY <1>13, <2>5
    <3>2. s.ticks = n /\ Tells(s, Reported(s.ticks)')
      BY <2>4, <3>1
    <3>3. Tells(s, Reported(s.ticks))'
      BY <3>2 DEF Tells
    <3>4. s.ticks \in 0 .. Len(raw')
      BY <1>10, <2>1, <3>2
    <3>5. QED BY <3>3, <3>4 DEF Honest
  <2>6. ASSUME NEW f \in events
        PROVE  f.ticks \in 0 .. Len(raw') /\ f.list = Reported(f.ticks)'
    <3>1. f.ticks \in 0 .. Len(raw) /\ f.list = Reported(f.ticks)
      BY <1>2 DEF Files
    <3>2. QED BY <1>9, <1>10, <3>1
  <2>7. PICK w : w = analysis.of.summary
    OBVIOUS
  <2>8. Honest(w) /\ analysis.of.events = Reported(w.ticks) /\ w.ticks \in 0 .. Len(raw)
    BY <1>2, <2>7 DEF Files, Honest
  <2>9. Honest(w)' /\ Reported(w.ticks)' = Reported(w.ticks)
    BY <1>9, <1>10, <2>8, HonestStays
  <2>10. Honest(analysis.of.summary)' /\ (analysis.of.events = Reported(analysis.of.summary.ticks))'
    <3>1. analysis' = analysis
      BY <1>5
    <3>2. QED BY <2>7, <2>8, <2>9, <3>1 DEF Honest, Tells, Reported
  <2>11. events' = events
    BY <1>5
  <2>12. QED BY <2>5, <2>6, <2>10, <2>11 DEF Files
<1>16. QED BY <1>9, <1>14, <1>15 DEF Inv

\* Nothing that the invariant says of ticks, lists and engine changes.
LEMMA LiveStays ==
    ASSUME Live, raw' = raw, derived' = derived, engine' = engine
    PROVE  /\ Live'
           /\ \A n : Reported(n)' = Reported(n)
           /\ \A s : Honest(s)' <=> Honest(s)
<1>1. \A n : Reported(n)' = Reported(n)
  BY DEF Reported
<1>2. Live'
  BY DEF Live, Reported, Latest, Shows, Windows, Recent
<1>3. \A s : Honest(s)' <=> Honest(s)
  BY DEF Honest, Tells, Reported
<1>4. QED BY <1>1, <1>2, <1>3

LEMMA ReadRawInv == Inv /\ ReadRaw => Inv'
<1>1. SUFFICES ASSUME Inv, ReadRaw PROVE Inv'
  OBVIOUS
<1>2. Types /\ Live /\ Files
  BY <1>1 DEF Inv
<1>3. /\ analysis' = [at |-> "write", of |-> Analyzed(raw)]
      /\ UNCHANGED <<source, raw, engine, derived, files, bounds>>
  BY <1>1 DEF ReadRaw
<1>4. UNCHANGED <<game, truth, shown, raw, engine, derived, summary, events, bounds>>
  BY <1>3 DEF source, files
<1>5. /\ Live'
      /\ \A n : Reported(n)' = Reported(n)
      /\ \A s : Honest(s)' <=> Honest(s)
  BY <1>2, <1>4, LiveStays
<1>6. Types'
  BY <1>2, <1>3, <1>4 DEF Types
<1>. DEFINE all == Reported(Len(raw))
<1>7. /\ Analyzed(raw).events = all
      /\ Analyzed(raw).summary = OfflineSummary(engine, all)
  BY <1>2 DEF Live, Analyzed
<1>8. all \in Seq(EventT)
  BY <1>2, ReportedTyped DEF Types
<1>9. Tells(OfflineSummary(engine, all), all) /\ OfflineSummary(engine, all).ticks = Len(raw)
  BY <1>2, <1>8, OfflineTells DEF Live
<1>10. PICK w : w = Analyzed(raw)
  OBVIOUS
<1>11. Honest(w.summary) /\ w.events = Reported(w.summary.ticks)
  <2>1. Len(raw) \in Nat
    BY <1>2 DEF Types
  <2>2. w.summary.ticks = Len(raw) /\ Tells(w.summary, Reported(w.summary.ticks))
        /\ w.events = Reported(w.summary.ticks)
    BY <1>7, <1>9, <1>10
  <2>3. QED BY <2>1, <2>2 DEF Honest
<1>12. analysis.of' = w
  BY <1>3, <1>10
<1>13. Honest(analysis.of.summary)' /\ (analysis.of.events = Reported(analysis.of.summary.ticks))'
  BY <1>5, <1>11, <1>12 DEF Honest, Tells, Reported
<1>14. (\A s \in summary : Honest(s))'
  BY <1>2, <1>4, <1>5 DEF Files
<1>15. (\A f \in events : f.ticks \in 0 .. Len(raw) /\ f.list = Reported(f.ticks))'
  BY <1>2, <1>4, <1>5 DEF Files
<1>16. QED BY <1>5, <1>6, <1>13, <1>14, <1>15 DEF Inv, Files

LEMMA WriteInv ==
    ASSUME Inv, NEW eventsFail \in MayFail, NEW summaryFails \in MayFail,
           WriteArtifacts(eventsFail, summaryFails)
    PROVE  Inv'
<1>1. Types /\ Live /\ Files
  BY DEF Inv
<1>2. /\ analysis' = [analysis EXCEPT !.at = "done"]
      /\ events' = Written([ticks |-> analysis.of.summary.ticks, list |-> analysis.of.events],
                           eventsFail)
      /\ summary' = IF eventsFail THEN summary ELSE Written(analysis.of.summary, summaryFails)
      /\ bounds' = CountFault(bounds, eventsFail \/ summaryFails)
      /\ UNCHANGED <<game, truth, shown, raw, engine, derived>>
  BY DEF WriteArtifacts, source
<1>3. /\ Live'
      /\ \A n : Reported(n)' = Reported(n)
      /\ \A s : Honest(s)' <=> Honest(s)
  BY <1>1, <1>2, LiveStays
<1>4. /\ eventsFail \in BOOLEAN /\ summaryFails \in BOOLEAN
      /\ (eventsFail \/ summaryFails) => bounds.faults < MaxFaults
  BY MayFailIs
<1>5. PICK w : w = analysis.of
  OBVIOUS
<1>6. analysis.at' = "done" /\ analysis.of' = w /\ analysis' = [at |-> "done", of |-> w]
  BY <1>1, <1>2, <1>5 DEF Types
<1>7. /\ Honest(w.summary) /\ w.events = Reported(w.summary.ticks)
      /\ w.summary.ticks \in 0 .. Len(raw)
  BY <1>1, <1>5 DEF Files, Honest
<1>8. events' = {} \/ events' = {[ticks |-> w.summary.ticks, list |-> w.events]}
  BY <1>2, <1>4, <1>5, WrittenIs
<1>9. summary' = summary \/ summary' = {} \/ summary' = {w.summary}
  BY <1>2, <1>4, <1>5, WrittenIs
<1>10. bounds' \in [changes : 0 .. MaxChanges, hidings : 0 .. MaxHidings,
                    faults : 0 .. MaxFaults]
  <2>. DEFINE faults == bounds.faults + IF eventsFail \/ summaryFails THEN 1 ELSE 0
  <2>1. bounds \in [changes : 0 .. MaxChanges, hidings : 0 .. MaxHidings,
                    faults : 0 .. MaxFaults]
    BY <1>1 DEF Types
  <2>2. faults \in 0 .. MaxFaults
    BY <1>4, <2>1, ConstantsAre
  <2>3. bounds' = [bounds EXCEPT !.faults = faults]
    BY <1>2 DEF CountFault
  <2>. HIDE DEF faults
  <2>4. QED BY <2>1, <2>2, <2>3
<1>11. Types'
  <2>1. summary' = {} \/ \E s : summary' = {s}
    BY <1>1, <1>9 DEF Types
  <2>2. events' = {} \/ \E f : events' = {f}
    BY <1>8
  <2>3. QED BY <1>1, <1>2, <1>6, <1>10, <2>1, <2>2 DEF Types
<1>12. (\A s \in summary : Honest(s))'
  <2>1. ASSUME NEW s \in summary' PROVE Honest(s)
    BY <1>1, <1>7, <1>9 DEF Files
  <2>2. QED BY <1>3, <2>1
<1>13. (\A f \in events : f.ticks \in 0 .. Len(raw) /\ f.list = Reported(f.ticks))'
  <2>1. ASSUME NEW f \in events' PROVE f.ticks \in 0 .. Len(raw) /\ f.list = Reported(f.ticks)
    BY <1>7, <1>8
  <2>2. QED BY <1>2, <1>3, <2>1
<1>14. Honest(analysis.of.summary)' /\ (analysis.of.events = Reported(analysis.of.summary.ticks))'
  BY <1>3, <1>6, <1>7 DEF Honest, Tells, Reported
<1>15. QED BY <1>3, <1>11, <1>12, <1>13, <1>14 DEF Inv, Files

LEMMA StepInv == Inv /\ [Next]_vars => Inv'
<1>1. SUFFICES ASSUME Inv, [Next]_vars PROVE Inv'
  OBVIOUS
<1>2. CASE Capture
  BY <1>1, <1>2, CaptureInv
<1>3. CASE ReadRaw
  BY <1>1, <1>3, ReadRawInv
<1>4. CASE \E eventsFail, summaryFails \in MayFail : WriteArtifacts(eventsFail, summaryFails)
  BY <1>1, <1>4, WriteInv
<1>5. CASE UNCHANGED vars
  <2>1. UNCHANGED <<game, truth, shown, raw, engine, derived, summary, events, bounds, analysis>>
    BY <1>5 DEF vars
  <2>2. Live' /\ (\A n : Reported(n)' = Reported(n)) /\ \A s : Honest(s)' <=> Honest(s)
    BY <1>1, <2>1, LiveStays DEF Inv
  <2>3. Types'
    BY <1>1, <2>1 DEF Inv, Types
  <2>4. Files'
    BY <1>1, <2>1 DEF Inv, Files, Honest, Tells, Reported
  <2>5. QED BY <2>2, <2>3, <2>4 DEF Inv
<1>6. QED BY <1>1, <1>2, <1>3, <1>4, <1>5 DEF Next

LEMMA Always == Spec => []Inv
  BY InitInv, StepInv, PTL DEF Spec

LEMMA InvTypeOK == Inv => TypeOK
<1>1. SUFFICES ASSUME Inv PROVE TypeOK
  OBVIOUS
<1>2. Types /\ Live
  BY <1>1 DEF Inv
<1>3. game.health \in [Building -> 0 .. MaxHealth] /\ game.items \in [Slot -> Item \cup {Empty}]
  BY <1>2 DEF Types, GameT
<1>4. engine.counts \in [EventTypes -> Nat]
  BY <1>2 DEF Live, Shows, EngineT
<1>5. Cardinality(summary) <= 1 /\ Cardinality(events) <= 1
  <2>1. ASSUME NEW S, S = {} \/ \E x : S = {x} PROVE Cardinality(S) <= 1
    <3>1. CASE S = {}
      BY <3>1, FS_EmptySet
    <3>2. ASSUME NEW x, S = {x} PROVE Cardinality(S) <= 1
      <4>1. Cardinality({x}) = 1
        BY FS_Singleton
      <4>2. QED BY <3>2, <4>1
    <3>3. QED BY <2>1, <3>1, <3>2
  <2>2. (summary = {} \/ \E x : summary = {x}) /\ (events = {} \/ \E x : events = {x})
    BY <1>2 DEF Types
  <2>3. QED BY <2>1, <2>2
<1>6. bounds.changes <= MaxChanges /\ bounds.hidings <= MaxHidings /\ bounds.faults <= MaxFaults
  BY <1>2 DEF Types
<1>7. QED BY <1>2, <1>3, <1>4, <1>5, <1>6 DEF Types, Live, TypeOK

\* The tail the API shows is that of the whole list, not only of the ring.
LEMMA RecentIs ==
    ASSUME NEW e, NEW all \in Seq(EventT), Shows(e, all)
    PROVE  RecentEvents(e) = LastOf(all, RecentEventsAPI)
<1>. DEFINE p == LastOf(e.events, RecentEventsAPI)
            q == LastOf(all, RecentEventsAPI)
<1>1. /\ e.events \in Seq(EventT) /\ Ends(e.events, all)
      /\ Len(e.events) = Len(all) \/ Len(e.events) >= RecentEventsAPI
      /\ Len(e.events) <= Len(all) /\ Len(e.events) \in Nat /\ Len(all) \in Nat
  BY DEF Shows, EngineT, Recent, Ends
<1>2. RecentEventsAPI \in Nat
  BY ConstantsAre
<1>3. /\ p \in Seq(EventT) /\ Ends(p, e.events)
      /\ Len(p) = IF Len(e.events) <= RecentEventsAPI THEN Len(e.events) ELSE RecentEventsAPI
  BY <1>1, <1>2, LastIs
<1>4. /\ q \in Seq(EventT) /\ Ends(q, all)
      /\ Len(q) = IF Len(all) <= RecentEventsAPI THEN Len(all) ELSE RecentEventsAPI
  BY <1>2, LastIs
<1>. HIDE DEF p, q
<1>5. Len(p) = Len(q)
  BY <1>1, <1>2, <1>3, <1>4
<1>6. Ends(p, all)
  BY <1>1, <1>3, EndsOfEnd
<1>7. p = q
  BY <1>3, <1>4, <1>5, <1>6, EndsEqual
<1>8. QED BY <1>7 DEF RecentEvents, p, q

LEMMA InvHonest == Inv => CutIsHonest
<1>1. SUFFICES ASSUME Inv PROVE CutIsHonest
  OBVIOUS
<1>2. Types /\ Live /\ Files
  BY <1>1 DEF Inv
<1>3. Len(derived) = Len(raw) /\ Reported(Len(derived)) \in Seq(EventT)
  BY <1>2, ReportedTyped DEF Types
<1>4. Shows(engine, Reported(Len(derived)))
  BY <1>2, <1>3 DEF Live
<1>5. BoundedViews
  <2>. DEFINE withPlayers == {n \in DOMAIN raw : raw[n].players # {}}
              latest == {n \in withPlayers : \A m \in withPlayers : m <= n}
  <2>1. latest = Latest
    BY DEF Latest
  <2>2. Economy(engine) = {p.kills : p \in UNION {raw[n].players : n \in latest}}
    <3>1. engine.playerTick = {raw[n] : n \in latest}
      BY <1>2, <2>1 DEF Live
    <3>2. UNION {t.players : t \in engine.playerTick} = UNION {raw[n].players : n \in latest}
      <4>. HIDE DEF latest
      <4>1. {t.players : t \in engine.playerTick} = {raw[n].players : n \in latest}
        BY <3>1
      <4>2. QED BY <4>1
    <3>3. QED BY <3>2 DEF Economy
  <2>3. RecentEvents(engine) = LastOf(Reported(Len(derived)), RecentEventsAPI)
    BY <1>3, <1>4, RecentIs
  <2>4. Len(engine.events) <= MaxEvents
    BY <1>4 DEF Shows, Recent
  <2>5. Windows(engine, Reported(Len(derived)))
    BY <1>4 DEF Shows
  <2>. HIDE DEF latest
  <2>6. QED BY <2>2, <2>3, <2>4, <2>5 DEF BoundedViews, Windows, OfType, latest
<1>6. SummaryHonest
  <2>1. ASSUME NEW s \in summary
        PROVE  /\ s.ticks <= Len(raw)
               /\ \A t \in EventTypes : s.counts[t] = Len(OfType(Reported(s.ticks), t))
               /\ \A o \in Observations :
                     /\ s.totals[o] = Len(Select(Reported(s.ticks), TypesOf(o)))
                     /\ ~s.truncated => s.observed[o] = Select(Reported(s.ticks), TypesOf(o))
    <3>1. Honest(s)
      BY <1>2 DEF Files
    <3>2. QED BY <3>1 DEF Honest, Tells, OfType
  <2>2. \A f \in events : f.list = Reported(f.ticks)
    BY <1>2 DEF Files
  <2>3. QED BY <2>1, <2>2 DEF SummaryHonest
<1>7. QED BY <1>5, <1>6 DEF CutIsHonest

-----------------------------------------------------------------------------
(* How many events of a type a list has.                                   *)

Count(list, type) == Len(Select(list, {type}))

LEMMA CountMore ==
    ASSUME NEW S, NEW list \in Seq(S), NEW ev \in S, NEW t
    PROVE  /\ Count(list, t) \in Nat
           /\ Count(Append(list, ev), t) = Count(list, t) + IF ev.type = t THEN 1 ELSE 0
<1>. DEFINE taken == Select(list, {t})
<1>1. taken \in Seq(S)
  BY SelectTyped
<1>2. Select(Append(list, ev), {t}) = IF ev.type = t THEN Append(taken, ev) ELSE taken
  BY SelectMore
<1>. HIDE DEF taken
<1>3. Len(Append(taken, ev)) = Len(taken) + 1 /\ Len(taken) \in Nat
  BY <1>1
<1>4. QED BY <1>2, <1>3 DEF Count, taken

LEMMA CountTyped ==
    ASSUME NEW S, NEW list \in Seq(S), NEW t PROVE Count(list, t) \in Nat
  BY SelectTyped DEF Count

LEMMA CountNone == \A t : Count(<<>>, t) = 0
  BY SelectNone DEF Count

LEMMA CountIf ==
    ASSUME NEW c \in BOOLEAN, NEW ev, NEW t
    PROVE  Count(If(c, ev), t) = IF c /\ ev.type = t THEN 1 ELSE 0
<1>1. CASE ~c
  BY <1>1, CountNone DEF If
<1>2. CASE c
  <2>1. <<>> \in Seq({ev}) /\ ev \in {ev}
    OBVIOUS
  <2>2. Count(Append(<<>>, ev), t) = Count(<<>>, t) + IF ev.type = t THEN 1 ELSE 0
    BY <2>1, CountMore
  <2>3. Append(<<>>, ev) = If(c, ev)
    BY <1>2 DEF If
  <2>4. Count(<<>>, t) = 0
    BY CountNone
  <2>5. Count(Append(<<>>, ev), t) = IF ev.type = t THEN 1 ELSE 0
    BY <2>2, <2>4
  <2>6. Count(If(c, ev), t) = IF ev.type = t THEN 1 ELSE 0
    BY <2>3, <2>5, Zenon
  <2>7. QED BY <1>2, <2>6, Zenon
<1>3. QED BY <1>1, <1>2

LEMMA CountConcat ==
    ASSUME NEW S, NEW list \in Seq(S), NEW more \in Seq(S), NEW t
    PROVE  Count(list \o more, t) = Count(list, t) + Count(more, t)
<1>. DEFINE upTo(n) == SubSeq(more, 1, n)
            Good == {n \in Nat : n <= Len(more) =>
                        /\ upTo(n) \in Seq(S) /\ list \o upTo(n) \in Seq(S)
                        /\ Count(list \o upTo(n), t) = Count(list, t) + Count(upTo(n), t)}
<1>1. 0 \in Good
  <2>1. upTo(0) = <<>>
    BY SubSeqEmpty
  <2>2. list \o <<>> = list /\ <<>> \in Seq(S)
    BY ConcatEmptySeq
  <2>3. Count(list, t) = Count(list, t) + Count(<<>>, t)
    BY CountTyped, CountNone
  <2>. HIDE DEF upTo
  <2>4. QED BY <2>1, <2>2, <2>3
<1>2. ASSUME NEW n \in Good PROVE n + 1 \in Good
  <2>1. SUFFICES ASSUME n + 1 <= Len(more)
                 PROVE  /\ upTo(n + 1) \in Seq(S) /\ list \o upTo(n + 1) \in Seq(S)
                        /\ Count(list \o upTo(n + 1), t) = Count(list, t) + Count(upTo(n + 1), t)
    OBVIOUS
  <2>2. n \in Nat /\ n <= Len(more) /\ n + 1 \in 1 .. Len(more)
    BY <2>1
  <2>3. /\ upTo(n) \in Seq(S) /\ list \o upTo(n) \in Seq(S)
        /\ Count(list \o upTo(n), t) = Count(list, t) + Count(upTo(n), t)
    BY <2>2
  <2>4. more[n + 1] \in S
    BY <2>2
  <2>5. list \o upTo(n + 1) = Append(list \o upTo(n), more[n + 1])
    BY <2>1, <2>2, PrefixMore
  <2>6. upTo(n + 1) = Append(upTo(n), more[n + 1])
    <3>1. <<>> \o upTo(n + 1) = Append(<<>> \o upTo(n), more[n + 1])
      BY <2>1, <2>2, PrefixMore
    <3>2. \A i \in 1 .. n + 1 : more[i] \in S
      BY <2>2
    <3>3. upTo(n + 1) \in Seq(S)
      BY <2>2, <3>2, SubSeqProperties
    <3>. HIDE DEF upTo
    <3>4. QED BY <2>3, <3>1, <3>3, ConcatEmptySeq
  <2>. DEFINE p == upTo(n)
              q == list \o upTo(n)
              x == more[n + 1]
              one == IF more[n + 1].type = t THEN 1 ELSE 0
  <2>. HIDE DEF upTo, p, q, x, one
  <2>7. /\ p \in Seq(S) /\ q \in Seq(S) /\ x \in S
        /\ list \o upTo(n + 1) = Append(q, x) /\ upTo(n + 1) = Append(p, x)
    BY <2>3, <2>4, <2>5, <2>6 DEF p, q, x
  <2>8. one = IF x.type = t THEN 1 ELSE 0
    BY DEF one, x
  <2>9. Count(Append(q, x), t) = Count(q, t) + one /\ Count(Append(p, x), t) = Count(p, t) + one
    BY <2>7, <2>8, CountMore
  <2>10. Append(q, x) \in Seq(S) /\ Append(p, x) \in Seq(S)
    BY <2>7, AppendProperties
  <2>11. Count(q, t) = Count(list, t) + Count(p, t)
    BY <2>3 DEF p, q
  <2>12. one \in Nat /\ Count(list, t) \in Nat /\ Count(p, t) \in Nat
    BY <2>7, <2>8, CountTyped
  <2>13. Count(Append(q, x), t) = Count(list, t) + Count(Append(p, x), t)
    BY <2>9, <2>11, <2>12
  <2>14. QED BY <2>7, <2>10, <2>13, Zenon
<1>3. Len(more) \in Good
  <2>1. Len(more) \in Nat
    OBVIOUS
  <2>. HIDE DEF Good
  <2>2. Good \in SUBSET Nat
    BY DEF Good
  <2>3. QED BY <1>1, <1>2, <2>1, <2>2, Climb
<1>4. upTo(Len(more)) = more
  BY SubSeqFull
<1>. HIDE DEF upTo
<1>5. Len(more) <= Len(more)
  OBVIOUS
<1>6. QED BY <1>3, <1>4, <1>5

\* None of a type that none of them has.
LEMMA CountAbsent ==
    ASSUME NEW S, NEW list \in Seq(S), NEW t, \A ev \in S : ev.type # t
    PROVE  Count(list, t) = 0
<1>1. PICK f : /\ f[0] = <<>>
               /\ \A n \in 1 .. Len(list) :
                     f[n] = IF list[n].type \in {t} THEN Append(f[n - 1], list[n])
                            ELSE f[n - 1]
               /\ Select(list, {t}) = f[Len(list)]
  BY SelectIs
<1>. DEFINE Good == {n \in Nat : n <= Len(list) => f[n] = <<>>}
<1>2. 0 \in Good
  BY <1>1
<1>3. ASSUME NEW n \in Good PROVE n + 1 \in Good
  <2>1. SUFFICES ASSUME n + 1 <= Len(list) PROVE f[n + 1] = <<>>
    OBVIOUS
  <2>2. n + 1 \in 1 .. Len(list) /\ (n + 1) - 1 = n /\ f[n] = <<>>
    BY <2>1
  <2>3. list[n + 1].type \notin {t}
    BY <2>2
  <2>4. QED BY <1>1, <2>2, <2>3
<1>4. Len(list) \in Good
  <2>1. Len(list) \in Nat
    OBVIOUS
  <2>. HIDE DEF Good
  <2>2. Good \in SUBSET Nat
    BY DEF Good
  <2>3. QED BY <1>2, <1>3, <2>1, <2>2, Climb
<1>5. Select(list, {t}) = <<>>
  BY <1>1, <1>4
<1>6. QED BY <1>5 DEF Count

\* Of lists with one or none each, as many as there are lists with one.
LEMMA CountFlatten ==
    ASSUME NEW S, NEW lists \in Seq(Seq(S)), NEW t,
           \A k \in 1 .. Len(lists) : Count(lists[k], t) \in {0, 1},
           NEW places, places = {k \in 1 .. Len(lists) : Count(lists[k], t) = 1}
    PROVE  Count(FlattenSeq(lists), t) = Cardinality(places)
<1>. DEFINE N == Len(lists)
            with(n) == {k \in 1 .. n : Count(lists[k], t) = 1}
<1>0. N \in Nat
  OBVIOUS
<1>1. CASE N = 0
  <2>1. lists = <<>> /\ with(N) = {}
    BY <1>1
  <2>2. QED BY <2>1, FlattenNone, CountNone, FS_EmptySet
<1>2. CASE N # 0
  <2>1. N \in Nat \ {0}
    BY <1>0, <1>2
  <2>2. PICK f : /\ f[1] = lists[1]
                 /\ \A n \in 2 .. N : f[n] = f[n - 1] \o lists[n]
                 /\ FlattenSeq(lists) = f[N]
    BY <2>1, FlattenIs
  <2>3. \A n \in 1 .. N : lists[n] \in Seq(S)
    OBVIOUS
  <2>. DEFINE Fine(n) == /\ f[n] \in Seq(S) /\ IsFiniteSet(with(n))
                         /\ Count(f[n], t) = Cardinality(with(n))
              Good == {n \in Nat : n + 1 <= N => Fine(n + 1)}
  <2>. HIDE DEF N
  <2>4. 0 \in Good
    <3>1. 1 \in 1 .. N
      BY <2>1
    <3>2. f[1] \in Seq(S) /\ Count(f[1], t) \in {0, 1} /\ f[1] = lists[1]
      BY <2>2, <2>3, <3>1 DEF N
    <3>3. with(1) = IF Count(lists[1], t) = 1 THEN {1} ELSE {}
      OBVIOUS
    <3>4. IsFiniteSet(with(1)) /\ Count(f[1], t) = Cardinality(with(1))
      <4>1. CASE Count(lists[1], t) = 1
        BY <3>2, <3>3, <4>1, FS_Singleton, Zenon
      <4>2. CASE Count(lists[1], t) = 0
        <5>1. with(1) = {}
          BY <3>3, <4>2
        <5>2. QED BY <3>2, <4>2, <5>1, FS_EmptySet, Zenon
      <4>3. QED BY <3>2, <4>1, <4>2
    <3>5. Fine(1) /\ 0 + 1 = 1
      BY <3>2, <3>4
    <3>6. QED BY <3>5
  <2>5. ASSUME NEW n \in Good PROVE n + 1 \in Good
    <3>. DEFINE m == n + 1
    <3>1. SUFFICES ASSUME m + 1 <= N PROVE Fine(m + 1)
      OBVIOUS
    <3>2. m \in Nat /\ m + 1 \in 2 .. N /\ m + 1 \in 1 .. N /\ (m + 1) - 1 = m /\ m \in 1 .. N
      BY <2>1, <3>1
    <3>3. Fine(m)
      BY <3>1, <3>2
    <3>. HIDE DEF m
    <3>4. f[m + 1] = f[m] \o lists[m + 1] /\ lists[m + 1] \in Seq(S)
      BY <2>2, <2>3, <3>2
    <3>5. Count(f[m + 1], t) = Count(f[m], t) + Count(lists[m + 1], t) /\ f[m + 1] \in Seq(S)
      BY <3>3, <3>4, CountConcat, ConcatProperties
    <3>6. Count(lists[m + 1], t) \in {0, 1}
      BY <3>2 DEF N
    <3>7. m + 1 \notin with(m) /\ IsFiniteSet(with(m)) /\ Cardinality(with(m)) \in Nat
      BY <3>2, <3>3, FS_CardinalityType
    <3>8. CASE Count(lists[m + 1], t) = 1
      <4>1. with(m + 1) = with(m) \cup {m + 1}
        BY <3>2, <3>8
      <4>2. /\ IsFiniteSet(with(m) \cup {m + 1})
            /\ Cardinality(with(m) \cup {m + 1}) = Cardinality(with(m)) + 1
        BY <3>7, FS_AddElement
      <4>3. QED BY <3>3, <3>5, <3>8, <4>1, <4>2
    <3>9. CASE Count(lists[m + 1], t) = 0
      <4>1. with(m + 1) = with(m)
        BY <3>2, <3>9
      <4>. HIDE DEF with
      <4>2. QED BY <3>3, <3>5, <3>7, <3>9, <4>1
    <3>10. QED BY <3>6, <3>8, <3>9
  <2>6. N - 1 \in Good
    <3>1. N - 1 \in Nat
      BY <2>1
    <3>. HIDE DEF Good
    <3>2. Good \in SUBSET Nat
      BY DEF Good
    <3>3. QED BY <2>4, <2>5, <3>1, <3>2, Climb
  <2>7. Fine(N)
    <3>1. (N - 1) + 1 = N /\ N <= N
      BY <2>1
    <3>. HIDE DEF Fine
    <3>2. QED BY <2>6, <3>1
  <2>8. QED BY <2>2, <2>7 DEF N
<1>3. QED BY <1>1, <1>2

\* The list of a finite set has each of its elements once.
LEMMA SetListedOnce ==
    ASSUME NEW S, IsFiniteSet(S)
    PROVE  \E n \in Nat : SetToSeq(S) \in Bijection(1 .. n, S)
<1>. DEFINE n == Cardinality(S)
            q == SetToSeq(S)
<1>1. n \in Nat
  BY FS_CardinalityType
<1>2. PICK f : f \in Bijection(1 .. n, S)
  BY FS_CardinalityType DEF ExistsBijection
<1>3. f \in [1 .. n -> S] /\ IsInjective(f)
  BY <1>2 DEF Bijection, Injection, IsInjective
<1>4. q \in [1 .. n -> S] /\ IsInjective(q)
  BY <1>3 DEF SetToSeq
<1>. HIDE DEF q
<1>5. q \in Injection(1 .. n, S)
  BY <1>4 DEF Injection, IsInjective
<1>6. Cardinality(1 .. n) = n
  BY <1>1, FS_Interval
<1>7. q \in Surjection(1 .. n, S)
  <2>. HIDE DEF n
  <2>1. Cardinality(1 .. n) = Cardinality(S)
    BY <1>6 DEF n
  <2>2. QED BY <1>5, <2>1, FS_Injection
<1>8. q \in Bijection(1 .. n, S)
  BY <1>5, <1>7 DEF Bijection
<1>9. QED BY <1>1, <1>8 DEF q

\* The lists that going over T gives.
EachOf(lists, T, F) ==
    \E q : q = SetToSeq(T) /\ lists = [i \in DOMAIN q |-> F[q[i]]]

\* Going over a set, each element of which gives one or none, gives as many
\* as there are elements that give one.
LEMMA CountEach ==
    ASSUME NEW S, NEW T, IsFiniteSet(T), NEW F \in [T -> Seq(S)], NEW t,
           \A x \in T : Count(F[x], t) \in {0, 1},
           NEW lists, EachOf(lists, T, F)
    PROVE  Count(FlattenSeq(lists), t) = Cardinality({x \in T : Count(F[x], t) = 1})
<1>1. PICK q : q = SetToSeq(T) /\ lists = [i \in DOMAIN q |-> F[q[i]]]
  BY DEF EachOf
<1>2. PICK n \in Nat : q \in Bijection(1 .. n, T)
  BY <1>1, SetListedOnce
<1>3. /\ q \in [1 .. n -> T] /\ \A i, j \in 1 .. n : q[i] = q[j] => i = j
      /\ \A x \in T : \E i \in 1 .. n : q[i] = x
  BY <1>2 DEF Bijection, Injection, Surjection, IsInjective
<1>. DEFINE places == {k \in 1 .. n : Count(lists[k], t) = 1}
            with == {x \in T : Count(F[x], t) = 1}
            f == [k \in places |-> q[k]]
<1>4. lists \in Seq(Seq(S)) /\ Len(lists) = n
  BY <1>1, <1>3
<1>5. \A k \in 1 .. n : lists[k] = F[q[k]] /\ q[k] \in T
  BY <1>1, <1>3
<1>6. f \in Bijection(places, with)
  <2>1. \A k \in places : k \in 1 .. n /\ q[k] \in with
    BY <1>5
  <2>2. f \in [places -> with]
    BY <2>1
  <2>3. \A a, b \in places : f[a] = f[b] => a = b
    BY <1>3, <2>1
  <2>4. \A x \in with : \E k \in places : f[k] = x
    <3>1. ASSUME NEW x \in with PROVE \E k \in places : f[k] = x
      <4>1. PICK k \in 1 .. n : q[k] = x
        BY <1>3
      <4>2. k \in places
        BY <1>5, <4>1
      <4>3. QED BY <4>1, <4>2
    <3>2. QED BY <3>1
  <2>. HIDE DEF places, with
  <2>5. DOMAIN f = places
    OBVIOUS
  <2>. HIDE DEF f
  <2>6. QED BY <2>2, <2>3, <2>4, <2>5 DEF Bijection, Injection, Surjection, IsInjective
<1>. HIDE DEF f
<1>7. Cardinality(places) = Cardinality(with)
  <2>1. IsFiniteSet(with)
    BY FS_Subset
  <2>2. IsFiniteSet(places)
    <3>1. IsFiniteSet(1 .. n)
      BY FS_Interval
    <3>2. QED BY <3>1, FS_Subset
  <2>. HIDE DEF places, with
  <2>3. ExistsBijection(places, with)
    BY <1>6 DEF ExistsBijection
  <2>4. QED BY <2>2, <2>3, FS_Bijection
<1>8. \A k \in 1 .. Len(lists) : Count(lists[k], t) \in {0, 1}
  BY <1>4, <1>5
<1>9. Count(FlattenSeq(lists), t) = Cardinality(places)
  <2>1. PICK l, p : l = lists /\ p = places
    OBVIOUS
  <2>2. /\ l \in Seq(Seq(S)) /\ \A k \in 1 .. Len(l) : Count(l[k], t) \in {0, 1}
        /\ p = {k \in 1 .. Len(l) : Count(l[k], t) = 1}
    BY <1>4, <1>8, <2>1
  <2>. HIDE DEF places
  <2>3. Count(FlattenSeq(l), t) = Cardinality(p)
    BY <2>2, CountFlatten
  <2>4. QED BY <2>1, <2>3
<1>10. Count(FlattenSeq(lists), t) = Cardinality(with)
  BY <1>7, <1>9
<1>11. QED BY <1>10

-----------------------------------------------------------------------------
(* How many events of a type one tick brings.                              *)

One(c) == IF c THEN 1 ELSE 0

LEMMA IfCounts ==
    ASSUME NEW c \in BOOLEAN, NEW type \in EventTypes, NEW t
    PROVE  /\ If(c, Plain(type)) \in Seq(EventT)
           /\ Count(If(c, Plain(type)), t) = One(c /\ type = t)
<1>1. Plain(type).type = type
  BY DEF Plain, Event
<1>2. Count(If(c, Plain(type)), t) = IF c /\ Plain(type).type = t THEN 1 ELSE 0
  BY CountIf
<1>3. If(c, Plain(type)) \in Seq(EventT)
  BY PlainTyped, IfTyped
<1>4. QED BY <1>1, <1>2, <1>3 DEF One

LEMMA RoshanCounts ==
    ASSUME NEW cur, NEW prev, NEW t
    PROVE  /\ DeriveRoshan(cur, prev) \in Seq(EventT)
           /\ Count(DeriveRoshan(cur, prev), t) =
                 One((\E p \in prev, c \in cur : p # c) /\ "roshan_state_changed" = t)
<1>1. (\E p \in prev, c \in cur : p # c) \in BOOLEAN /\ "roshan_state_changed" \in EventTypes
  BY TypesNamed
<1>2. QED BY <1>1, IfCounts DEF DeriveRoshan

LEMMA TwoCounts ==
    ASSUME NEW c \in BOOLEAN, NEW d \in BOOLEAN, NEW x \in EventTypes, NEW y \in EventTypes, NEW t
    PROVE  /\ If(c, Plain(x)) \o If(d, Plain(y)) \in Seq(EventT)
           /\ Count(If(c, Plain(x)) \o If(d, Plain(y)), t) = One(c /\ x = t) + One(d /\ y = t)
<1>. DEFINE a == If(c, Plain(x))
            b == If(d, Plain(y))
<1>1. a \in Seq(EventT) /\ Count(a, t) = One(c /\ x = t)
  BY IfCounts
<1>2. b \in Seq(EventT) /\ Count(b, t) = One(d /\ y = t)
  BY IfCounts
<1>. HIDE DEF a, b
<1>3. Count(a \o b, t) = Count(a, t) + Count(b, t) /\ a \o b \in Seq(EventT)
  BY <1>1, <1>2, CountConcat, ConcatProperties
<1>4. QED BY <1>1, <1>2, <1>3 DEF a, b

LEMMA CooldownCounts ==
    ASSUME NEW cur, NEW prev, NEW t
    PROVE  /\ WardCooldownEvent(cur, prev) \in Seq(EventT)
           /\ Count(WardCooldownEvent(cur, prev), t) =
                 One((\E p \in prev, c \in cur : p = 0 /\ c > 0) /\ "ward_purchase_started" = t)
                 + One((\E p \in prev, c \in cur : p > 0 /\ c = 0)
                       /\ "ward_purchase_cooldown_changed" = t)
<1>. DEFINE a == \E p \in prev, c \in cur : p = 0 /\ c > 0
            b == \E p \in prev, c \in cur : p > 0 /\ c = 0
<1>1. WardCooldownEvent(cur, prev) =
         If(a, Plain("ward_purchase_started")) \o If(b, Plain("ward_purchase_cooldown_changed"))
  BY DEF WardCooldownEvent
<1>2. a \in BOOLEAN /\ b \in BOOLEAN
  OBVIOUS
<1>3. "ward_purchase_started" \in EventTypes /\ "ward_purchase_cooldown_changed" \in EventTypes
  BY TypesNamed
<1>. HIDE DEF a, b
<1>4. /\ WardCooldownEvent(cur, prev) \in Seq(EventT)
      /\ Count(WardCooldownEvent(cur, prev), t) =
            One(a /\ "ward_purchase_started" = t) + One(b /\ "ward_purchase_cooldown_changed" = t)
  BY <1>1, <1>2, <1>3, TwoCounts
<1>5. QED BY <1>4 DEF a, b

LEMMA AliveCounts ==
    ASSUME NEW cur, NEW prev, NEW t
    PROVE  /\ DeriveAlive(cur, prev) \in Seq(EventT)
           /\ Count(DeriveAlive(cur, prev), t) =
                 One((\E p \in prev, c \in cur : p /\ ~c) /\ "hero_death" = t)
                 + One((\E p \in prev, c \in cur : ~p /\ c) /\ "hero_respawn" = t)
<1>. DEFINE a == \E p \in prev, c \in cur : p /\ ~c
            b == \E p \in prev, c \in cur : ~p /\ c
<1>1. DeriveAlive(cur, prev) =
         If(a, Plain("hero_death")) \o If(b, Plain("hero_respawn"))
  BY DEF DeriveAlive
<1>2. a \in BOOLEAN /\ b \in BOOLEAN
  OBVIOUS
<1>3. "hero_death" \in EventTypes /\ "hero_respawn" \in EventTypes
  BY TypesNamed
<1>. HIDE DEF a, b
<1>4. /\ DeriveAlive(cur, prev) \in Seq(EventT)
      /\ Count(DeriveAlive(cur, prev), t) =
            One(a /\ "hero_death" = t) + One(b /\ "hero_respawn" = t)
  BY <1>1, <1>2, <1>3, TwoCounts
<1>5. QED BY <1>4 DEF a, b

\* An event about a building, of a type.
LEMMA BuildingCounts ==
    ASSUME NEW b \in Building, NEW cur, NEW prev, NEW t
    PROVE  /\ BuildingEvents(b, cur, prev) \in Seq(EventT)
           /\ Count(BuildingEvents(b, cur, prev), t) =
                 One((/\ b \in DOMAIN prev \cap DOMAIN cur
                      /\ \E p \in prev[b], c \in cur[b] : p > c)
                     /\ "building_health_loss" = t)
                 + One((/\ b \in DOMAIN prev \cap DOMAIN cur
                        /\ \E p \in prev[b], c \in cur[b] : p > 0 /\ c = 0)
                       /\ "building_destroyed" = t)
<1>. DEFINE loss == Event("building_health_loss", b, Nothing, Nothing)
            lost == /\ b \in DOMAIN prev \cap DOMAIN cur
                    /\ \E p \in prev[b], c \in cur[b] : p > c
            fell == /\ b \in DOMAIN prev \cap DOMAIN cur
                    /\ \E p \in prev[b], c \in cur[b] : p > 0 /\ c = 0
<1>1. BuildingEvents(b, cur, prev) = If(lost, loss) \o If(fell, Destroyed(b))
  BY DEF BuildingEvents
<1>2. lost \in BOOLEAN /\ fell \in BOOLEAN
  OBVIOUS
<1>3. /\ loss \in EventT /\ loss.type = "building_health_loss"
      /\ Destroyed(b) \in EventT /\ Destroyed(b).type = "building_destroyed"
  BY TypesNamed DEF Event, EventT, Destroyed
<1>. HIDE DEF lost, fell, loss
<1>4. If(lost, loss) \in Seq(EventT) /\ If(fell, Destroyed(b)) \in Seq(EventT)
  BY <1>2, <1>3, IfTyped
<1>5. /\ Count(If(lost, loss), t) = One(lost /\ "building_health_loss" = t)
      /\ Count(If(fell, Destroyed(b)), t) = One(fell /\ "building_destroyed" = t)
  BY <1>2, <1>3, CountIf DEF One
<1>. DEFINE x == If(lost, loss)
            y == If(fell, Destroyed(b))
<1>. HIDE DEF x, y
<1>6. Count(x \o y, t) = Count(x, t) + Count(y, t) /\ x \o y \in Seq(EventT)
  BY <1>4, CountConcat, ConcatProperties DEF x, y
<1>7. QED BY <1>1, <1>5, <1>6 DEF x, y, lost, fell

Both(b, cur, prev) == b \in DOMAIN prev \cap DOMAIN cur
Lost(b, cur, prev) == Both(b, cur, prev) /\ \E p \in prev[b], c \in cur[b] : p > c
Fell(b, cur, prev) == Both(b, cur, prev) /\ \E p \in prev[b], c \in cur[b] : p > 0 /\ c = 0

LostOf(cur, prev) == {b \in Building : Lost(b, cur, prev)}
FellOf(cur, prev) == {b \in Building : Fell(b, cur, prev)}
GoneOf(cur, prev, running) == {b \in Building : running /\ Vanished(b, cur, prev)}

\* One for each building that lost health, one for each that fell before our
\* eyes or, while the game runs, vanished.
LEMMA BuildingsCount ==
    ASSUME NEW cur, NEW prev, NEW running \in BOOLEAN, NEW t
    PROVE  /\ DeriveBuildings(cur, prev, running) \in Seq(EventT)
           /\ t = "building_health_loss" =>
                 Count(DeriveBuildings(cur, prev, running), t) =
                    Cardinality(LostOf(cur, prev))
           /\ t = "building_destroyed" =>
                 Count(DeriveBuildings(cur, prev, running), t) =
                    Cardinality(FellOf(cur, prev))
                    + Cardinality(GoneOf(cur, prev, running))
           /\ t \notin {"building_health_loss", "building_destroyed"} =>
                 Count(DeriveBuildings(cur, prev, running), t) = 0
<1>. DEFINE q == SetToSeq(Building)
            F == [b \in Building |-> BuildingEvents(b, cur, prev)]
            G == [b \in Building |-> If(running /\ Vanished(b, cur, prev), Destroyed(b))]
            each == [i \in DOMAIN q |-> F[q[i]]]
            gone == [i \in DOMAIN q |-> G[q[i]]]
            f == FlattenSeq(each)
            g == FlattenSeq(gone)
<1>1. PICK n \in Nat : q \in [1 .. n -> Building]
  BY SetListed, ConstantsAre
<1>2. DeriveBuildings(cur, prev, running) = f \o g
  <2>1. \A i \in DOMAIN q : F[q[i]] = BuildingEvents(q[i], cur, prev)
    BY <1>1
  <2>2. \A i \in DOMAIN q : G[q[i]] = If(running /\ Vanished(q[i], cur, prev), Destroyed(q[i]))
    BY <1>1
  <2>3. [i \in DOMAIN q |-> F[q[i]]] = [i \in DOMAIN q |-> BuildingEvents(q[i], cur, prev)]
    <3>. HIDE DEF q, F
    <3>1. QED BY <2>1
  <2>4. [i \in DOMAIN q |-> G[q[i]]] =
           [i \in DOMAIN q |-> If(running /\ Vanished(q[i], cur, prev), Destroyed(q[i]))]
    <3>. HIDE DEF q, G
    <3>1. QED BY <2>2
  <2>. HIDE DEF F, G
  <2>5. QED BY <2>3, <2>4 DEF DeriveBuildings, ForEach
<1>3. F \in [Building -> Seq(EventT)]
  BY BuildingCounts
<1>4. \A b \in Building :
         Count(F[b], t) = One(Lost(b, cur, prev) /\ "building_health_loss" = t)
                          + One(Fell(b, cur, prev) /\ "building_destroyed" = t)
  BY BuildingCounts DEF Lost, Fell, Both
<1>5. ASSUME NEW b \in Building
      PROVE  /\ G[b] \in Seq(EventT)
             /\ Count(G[b], t) = One((running /\ Vanished(b, cur, prev)) /\ "building_destroyed" = t)
  <2>1. Destroyed(b) \in EventT /\ Destroyed(b).type = "building_destroyed"
    BY TypesNamed DEF Event, EventT, Destroyed
  <2>2. (running /\ Vanished(b, cur, prev)) \in BOOLEAN
    BY DEF Vanished
  <2>3. G[b] = If(running /\ Vanished(b, cur, prev), Destroyed(b))
    OBVIOUS
  <2>. DEFINE away == running /\ Vanished(b, cur, prev)
  <2>. HIDE DEF G, away
  <2>4. If(away, Destroyed(b)) \in Seq(EventT)
        /\ Count(If(away, Destroyed(b)), t) = One(away /\ "building_destroyed" = t)
    BY <2>1, <2>2, IfTyped, CountIf DEF One, away
  <2>5. QED BY <2>3, <2>4 DEF away
<1>6. G \in [Building -> Seq(EventT)]
  BY <1>5
<1>. HIDE DEF q, F, G
<1>7. \A b \in Building : Count(F[b], t) \in {0, 1} /\ Count(G[b], t) \in {0, 1}
  <2>1. ASSUME NEW b \in Building PROVE Count(F[b], t) \in {0, 1}
    <3>1. Count(F[b], t) = One(Lost(b, cur, prev) /\ "building_health_loss" = t)
                          + One(Fell(b, cur, prev) /\ "building_destroyed" = t)
      BY <1>4
    <3>2. CASE "building_destroyed" = t
      BY <3>1, <3>2 DEF One
    <3>3. CASE "building_destroyed" # t
      BY <3>1, <3>3 DEF One
    <3>4. QED BY <3>2, <3>3
  <2>2. QED BY <1>5, <2>1 DEF One
<1>8. /\ Count(f, t) = Cardinality({b \in Building : Count(F[b], t) = 1})
      /\ Count(g, t) = Cardinality({b \in Building : Count(G[b], t) = 1})
  <2>1. IsFiniteSet(Building)
    BY ConstantsAre
  <2>2. Count(f, t) = Cardinality({b \in Building : Count(F[b], t) = 1})
    <3>1. \A b \in Building : Count(F[b], t) \in {0, 1}
      BY <1>7
    <3>2. EachOf(each, Building, F)
      BY DEF q, EachOf
    <3>. HIDE DEF each
    <3>3. QED BY <1>3, <2>1, <3>1, <3>2, CountEach
  <2>3. Count(g, t) = Cardinality({b \in Building : Count(G[b], t) = 1})
    <3>1. \A b \in Building : Count(G[b], t) \in {0, 1}
      BY <1>7
    <3>2. EachOf(gone, Building, G)
      BY DEF q, EachOf
    <3>. HIDE DEF gone
    <3>3. QED BY <1>6, <2>1, <3>1, <3>2, CountEach
  <2>4. QED BY <2>2, <2>3
<1>9. f \in Seq(EventT) /\ g \in Seq(EventT)
  <2>1. /\ [i \in 1 .. n |-> F[q[i]]] \in [1 .. n -> Seq(EventT)]
        /\ [i \in 1 .. n |-> G[q[i]]] \in [1 .. n -> Seq(EventT)]
        /\ DOMAIN q = 1 .. n
    BY <1>1, <1>3, <1>6
  <2>2. QED BY <2>1, ListTyped
<1>. HIDE DEF f, g
<1>10. f \o g \in Seq(EventT) /\ Count(f \o g, t) = Count(f, t) + Count(g, t)
  BY <1>9, ConcatProperties, CountConcat
<1>11. ASSUME t = "building_health_loss"
       PROVE  Count(f \o g, t) = Cardinality({b \in Building : Lost(b, cur, prev)})
  <2>1. \A b \in Building : Count(F[b], t) = 1 <=> Lost(b, cur, prev)
    BY <1>4, <1>11 DEF One
  <2>2. \A b \in Building : Count(G[b], t) = 0
    BY <1>5, <1>11 DEF One
  <2>3. {b \in Building : Count(F[b], t) = 1} = {b \in Building : Lost(b, cur, prev)}
    BY <2>1
  <2>4. {b \in Building : Count(G[b], t) = 1} = {}
    BY <2>2
  <2>5. Count(g, t) = 0 /\ Count(f, t) \in Nat
    BY <1>8, <1>9, <2>4, FS_EmptySet, CountTyped
  <2>6. Count(f \o g, t) = Count(f, t)
    BY <1>10, <2>5
  <2>7. Count(f, t) = Cardinality({b \in Building : Lost(b, cur, prev)})
    BY <1>8, <2>3, Zenon
  <2>8. QED BY <2>6, <2>7
<1>12. ASSUME t = "building_destroyed"
       PROVE  Count(f \o g, t) = Cardinality({b \in Building : Fell(b, cur, prev)})
                    + Cardinality({b \in Building : running /\ Vanished(b, cur, prev)})
  <2>1. \A b \in Building : Count(F[b], t) = 1 <=> Fell(b, cur, prev)
    BY <1>4, <1>12 DEF One
  <2>2. \A b \in Building : Count(G[b], t) = 1 <=> (running /\ Vanished(b, cur, prev))
    BY <1>5, <1>12 DEF One
  <2>3. {b \in Building : Count(F[b], t) = 1} = {b \in Building : Fell(b, cur, prev)}
    BY <2>1
  <2>4. {b \in Building : Count(G[b], t) = 1} =
           {b \in Building : running /\ Vanished(b, cur, prev)}
    BY <2>2
  <2>5. QED BY <1>8, <1>10, <2>3, <2>4
<1>13. ASSUME t \notin {"building_health_loss", "building_destroyed"}
       PROVE  Count(f \o g, t) = 0
  <2>1. \A b \in Building : Count(F[b], t) = 0 /\ Count(G[b], t) = 0
    BY <1>4, <1>5, <1>13 DEF One
  <2>2. /\ {b \in Building : Count(F[b], t) = 1} = {}
        /\ {b \in Building : Count(G[b], t) = 1} = {}
    BY <2>1
  <2>3. Count(f, t) = 0 /\ Count(g, t) = 0
    BY <1>8, <2>2, FS_EmptySet
  <2>4. QED BY <1>10, <2>3
<1>14. QED BY <1>2, <1>10, <1>11, <1>12, <1>13 DEF LostOf, FellOf, GoneOf

\* What is not counted is not there.
LEMMA CountZero ==
    ASSUME NEW S, NEW list \in Seq(S), NEW t, Count(list, t) = 0
    PROVE  \A i \in 1 .. Len(list) : list[i].type # t
<1>1. PICK f : /\ f[0] = <<>>
               /\ \A n \in 1 .. Len(list) :
                     f[n] = IF list[n].type \in {t} THEN Append(f[n - 1], list[n])
                            ELSE f[n - 1]
               /\ Select(list, {t}) = f[Len(list)]
  BY SelectIs
<1>. DEFINE Fine(n) == /\ f[n] \in Seq(S)
                       /\ f[n] = <<>> => \A i \in 1 .. n : list[i].type # t
            Good == {n \in Nat : n <= Len(list) => Fine(n)}
<1>2. 0 \in Good
  <2>1. f[0] \in Seq(S) /\ \A i \in 1 .. 0 : list[i].type # t
    BY <1>1
  <2>2. QED BY <2>1
<1>3. ASSUME NEW n \in Good PROVE n + 1 \in Good
  <2>1. SUFFICES ASSUME n + 1 <= Len(list) PROVE Fine(n + 1)
    OBVIOUS
  <2>2. n \in Nat /\ n + 1 \in 1 .. Len(list) /\ (n + 1) - 1 = n /\ Fine(n)
    BY <2>1
  <2>3. f[n + 1] = IF list[n + 1].type \in {t} THEN Append(f[n], list[n + 1]) ELSE f[n]
    BY <1>1, <2>2
  <2>4. list[n + 1] \in S
    BY <2>2
  <2>5. CASE list[n + 1].type = t
    <3>1. f[n + 1] = Append(f[n], list[n + 1])
      BY <2>3, <2>5
    <3>2. f[n + 1] \in Seq(S) /\ f[n + 1] # <<>>
      BY <2>2, <2>4, <3>1, AppendProperties
    <3>3. QED BY <3>2
  <2>6. CASE list[n + 1].type # t
    <3>1. f[n + 1] = f[n]
      BY <2>3, <2>6
    <3>2. \A i \in 1 .. n + 1 : i \in 1 .. n \/ i = n + 1
      BY <2>2
    <3>3. QED BY <2>2, <2>6, <3>1, <3>2
  <2>7. QED BY <2>5, <2>6
<1>4. Len(list) \in Good
  <2>1. Len(list) \in Nat
    OBVIOUS
  <2>. HIDE DEF Good
  <2>2. Good \in SUBSET Nat
    BY DEF Good
  <2>3. QED BY <1>2, <1>3, <2>1, <2>2, Climb
<1>5. Fine(Len(list))
  BY <1>4
<1>6. f[Len(list)] = <<>>
  <2>1. Len(f[Len(list)]) = 0
    BY <1>1 DEF Count
  <2>2. QED BY <1>5, <2>1
<1>7. QED BY <1>5, <1>6

\* Events that are not about items.
QuietT == {ev \in EventT : ev.type \notin ItemTypes}

LEMMA Quiet ==
    ASSUME NEW list \in Seq(EventT), \A t \in ItemTypes : Count(list, t) = 0
    PROVE  list \in Seq(QuietT)
<1>1. ASSUME NEW i \in 1 .. Len(list) PROVE list[i] \in QuietT
  <2>1. list[i] \in EventT
    OBVIOUS
  <2>2. \A t \in ItemTypes : list[i].type # t
    BY CountZero
  <2>3. QED BY <2>1, <2>2 DEF QuietT
<1>2. list \in [1 .. Len(list) -> QuietT] /\ Len(list) \in Nat
  BY <1>1
<1>3. QED BY <1>2

-----------------------------------------------------------------------------
(* What happens once in a list.                                            *)

\* ev is the only one of E.
Once(list, E, ev) ==
    \E a, b \in Seq(EventT \ E) : list = (a \o <<ev>>) \o b

LEMMA OnceAlone ==
    ASSUME NEW E, NEW ev \in EventT PROVE Once(<<ev>>, E, ev)
<1>1. <<>> \in Seq(EventT \ E) /\ <<ev>> \in Seq(EventT)
  OBVIOUS
<1>2. <<>> \o <<ev>> = <<ev>> /\ <<ev>> \o <<>> = <<ev>>
  BY <1>1, ConcatEmptySeq
<1>3. QED BY <1>1, <1>2 DEF Once

\* The name keeps the provers from trying it on every pair.
Associate(a, b, c) == (a \o b) \o c = a \o (b \o c)

LEMMA Together ==
    ASSUME NEW a, NEW b, NEW c, a \in Seq(EventT), b \in Seq(EventT), c \in Seq(EventT)
    PROVE  Associate(a, b, c)
  BY ConcatAssociative DEF Associate

LEMMA OnceConcat ==
    ASSUME NEW E, NEW ev \in EventT, NEW list, Once(list, E, ev),
           NEW other \in Seq(EventT \ E)
    PROVE  Once(list \o other, E, ev) /\ Once(other \o list, E, ev) /\ list \in Seq(EventT)
<1>1. PICK a \in Seq(EventT \ E), b \in Seq(EventT \ E) : list = (a \o <<ev>>) \o b
  BY DEF Once
<1>2. PICK x : x = <<ev>>
  OBVIOUS
<1>3. /\ a \in Seq(EventT) /\ b \in Seq(EventT) /\ x \in Seq(EventT) /\ other \in Seq(EventT)
  BY <1>2, SeqMonotonic
<1>4. a \o x \in Seq(EventT) /\ b \o other \in Seq(EventT \ E) /\ other \o a \in Seq(EventT \ E)
  BY <1>3, ConcatProperties
<1>5. list \o other = (a \o x) \o (b \o other)
  <2>1. Associate(a \o x, b, other)
    BY <1>3, <1>4, Together
  <2>2. QED BY <1>1, <1>2, <2>1 DEF Associate
<1>6. other \o list = ((other \o a) \o x) \o b
  <2>1. Associate(other, a \o x, b) /\ Associate(other, a, x)
    BY <1>3, <1>4, Together
  <2>2. QED BY <1>1, <1>2, <2>1 DEF Associate
<1>7. list \in Seq(EventT)
  BY <1>1, <1>2, <1>3, <1>4, ConcatProperties
<1>8. Once(list \o other, E, ev)
  BY <1>2, <1>4, <1>5 DEF Once
<1>9. Once(other \o list, E, ev)
  BY <1>2, <1>4, <1>6 DEF Once
<1>10. QED BY <1>7, <1>8, <1>9

LEMMA OnceIs ==
    ASSUME NEW E, NEW ev \in E \cap EventT, NEW list, Once(list, E, ev)
    PROVE  \E i \in DOMAIN list :
              list[i] = ev /\ \A j \in DOMAIN list : list[j] \in E => j = i
<1>1. PICK a \in Seq(EventT \ E), b \in Seq(EventT \ E) : list = (a \o <<ev>>) \o b
  BY DEF Once
<1>2. PICK x : x = <<ev>>
  OBVIOUS
<1>3. /\ a \in Seq(EventT) /\ b \in Seq(EventT) /\ x \in Seq(EventT)
      /\ Len(x) = 1 /\ x[1] = ev
  BY <1>2, SeqMonotonic
<1>4. PICK p : p = a \o x
  OBVIOUS
<1>5. /\ p \in Seq(EventT) /\ Len(p) = Len(a) + 1
      /\ \A i \in 1 .. Len(a) + 1 : p[i] = IF i <= Len(a) THEN a[i] ELSE x[i - Len(a)]
  <2>1. /\ p \in Seq(EventT) /\ Len(p) = Len(a) + Len(x)
        /\ \A i \in 1 .. Len(a) + Len(x) : p[i] = IF i <= Len(a) THEN a[i] ELSE x[i - Len(a)]
    BY <1>3, <1>4, ConcatProperties
  <2>2. Len(x) = 1
    BY <1>3
  <2>3. QED BY <2>1, <2>2
<1>6. /\ list \in Seq(EventT) /\ Len(list) = Len(p) + Len(b)
      /\ \A i \in 1 .. Len(p) + Len(b) :
            list[i] = IF i <= Len(p) THEN p[i] ELSE b[i - Len(p)]
  BY <1>1, <1>2, <1>3, <1>4, <1>5, ConcatProperties
<1>7. Len(a) \in Nat /\ Len(b) \in Nat /\ DOMAIN list = 1 .. Len(list)
  BY <1>6
<1>. DEFINE k == Len(a) + 1
<1>8. k \in 1 .. Len(list) /\ k <= Len(p) /\ k - Len(a) = 1 /\ ~(k <= Len(a))
  BY <1>5, <1>6, <1>7
<1>9. list[k] = ev
  <2>1. list[k] = p[k]
    BY <1>6, <1>8
  <2>2. p[k] = x[1]
    BY <1>5, <1>7, <1>8
  <2>3. QED BY <1>3, <2>1, <2>2
<1>10. ASSUME NEW j \in 1 .. Len(list), j # k PROVE list[j] \notin E
  <2>1. CASE j < k
    <3>1. j \in 1 .. Len(a) /\ j \in 1 .. Len(a) + 1 /\ j <= Len(p) /\ j <= Len(a)
      BY <1>5, <1>7, <2>1
    <3>2. list[j] = p[j]
      BY <1>6, <3>1
    <3>3. p[j] = a[j]
      BY <1>5, <3>1
    <3>4. a[j] \in EventT \ E
      BY <3>1, ElementOfSeq
    <3>5. QED BY <3>2, <3>3, <3>4
  <2>2. CASE j > k
    <3>1. ~(j <= Len(p)) /\ j - Len(p) \in 1 .. Len(b)
      BY <1>5, <1>6, <1>7, <2>2
    <3>2. list[j] = b[j - Len(p)]
      BY <1>6, <3>1
    <3>3. b[j - Len(p)] \in EventT \ E
      BY <3>1, ElementOfSeq
    <3>4. QED BY <3>2, <3>3
  <2>3. QED BY <1>7, <1>10, <2>1, <2>2
<1>11. QED BY <1>7, <1>8, <1>9, <1>10

\* One list has it, the others have nothing of E: so has all of them together.
LEMMA OnceFlatten ==
    ASSUME NEW E, NEW ev \in EventT, NEW lists, Len(lists) \in Nat,
           NEW k \in 1 .. Len(lists), Once(lists[k], E, ev),
           \A i \in 1 .. Len(lists) : i # k => lists[i] \in Seq(EventT \ E)
    PROVE  Once(FlattenSeq(lists), E, ev)
<1>1. Len(lists) \in Nat \ {0}
  OBVIOUS
<1>2. PICK f : /\ f[1] = lists[1]
               /\ \A n \in 2 .. Len(lists) : f[n] = f[n - 1] \o lists[n]
               /\ FlattenSeq(lists) = f[Len(lists)]
  BY <1>1, FlattenIs
<1>. DEFINE Fine(n) == IF n < k THEN f[n] \in Seq(EventT \ E) ELSE Once(f[n], E, ev)
            Good == {n \in Nat : n + 1 <= Len(lists) => Fine(n + 1)}
<1>3. 0 \in Good
  <2>1. 1 \in 1 .. Len(lists) /\ (~(1 < k) => k = 1) /\ 0 + 1 = 1
    BY <1>1
  <2>2. Fine(1)
    BY <1>2, <2>1
  <2>. HIDE DEF Fine
  <2>3. QED BY <2>1, <2>2
<1>4. ASSUME NEW n \in Good PROVE n + 1 \in Good
  <2>. DEFINE m == n + 1
  <2>1. SUFFICES ASSUME m + 1 <= Len(lists) PROVE Fine(m + 1)
    OBVIOUS
  <2>2. m \in Nat /\ m + 1 \in 2 .. Len(lists) /\ m + 1 \in 1 .. Len(lists) /\ (m + 1) - 1 = m
        /\ m <= Len(lists)
    BY <1>1, <2>1
  <2>3. Fine(m)
    BY <2>1, <2>2
  <2>. HIDE DEF m
  <2>4. f[m + 1] = f[m] \o lists[m + 1]
    BY <1>2, <2>2
  <2>5. CASE m + 1 < k
    <3>1. f[m] \in Seq(EventT \ E) /\ lists[m + 1] \in Seq(EventT \ E)
      BY <2>2, <2>3, <2>5
    <3>2. f[m + 1] \in Seq(EventT \ E)
      BY <2>4, <3>1, ConcatProperties
    <3>3. QED BY <2>5, <3>2
  <2>6. CASE m + 1 = k
    <3>1. f[m] \in Seq(EventT \ E) /\ Once(lists[m + 1], E, ev)
      BY <2>2, <2>3, <2>6
    <3>2. Once(f[m + 1], E, ev)
      BY <2>4, <3>1, OnceConcat
    <3>3. QED BY <2>6, <3>2
  <2>7. CASE m + 1 > k
    <3>1. Once(f[m], E, ev) /\ lists[m + 1] \in Seq(EventT \ E)
      BY <2>2, <2>3, <2>7
    <3>2. Once(f[m + 1], E, ev)
      BY <2>4, <3>1, OnceConcat
    <3>3. QED BY <2>2, <2>7, <3>2
  <2>8. QED BY <2>2, <2>5, <2>6, <2>7
<1>5. Len(lists) - 1 \in Good
  <2>1. Len(lists) - 1 \in Nat
    BY <1>1
  <2>. HIDE DEF Good
  <2>2. Good \in SUBSET Nat
    BY DEF Good
  <2>3. QED BY <1>3, <1>4, <2>1, <2>2, Climb
<1>6. Fine(Len(lists))
  <2>1. (Len(lists) - 1) + 1 = Len(lists) /\ Len(lists) <= Len(lists)
    BY <1>1
  <2>. HIDE DEF Fine
  <2>2. QED BY <1>5, <2>1
<1>7. QED BY <1>2, <1>6


-----------------------------------------------------------------------------
(* What the item events of a tick say.                                     *)

\* Events that say what a slot has now.
Brings(s) == {ev \in EventT : ev.key = s /\ ev.type \in ItemTypes \ {"item_slot_changed"}}

\* Item events, those about moves true.
TrueMoves(cur, prev) ==
    {ev \in EventT : ev.type = "item_slot_changed" =>
                        /\ RealName(prev, ev.from) = {ev.item}
                        /\ RealName(cur, ev.key) = {ev.item}}
TrueItems(cur, prev) == {ev \in TrueMoves(cur, prev) : ev.type \in ItemTypes}

LEMMA SlotSays ==
    ASSUME NEW s \in Slot, NEW cur \in Carried, NEW prev \in Carried
    PROVE  \/ SlotEvent(s, cur, prev) = <<>> /\ RealName(cur, s) = RealName(prev, s)
           \/ \E ev \in Brings(s) \cap TrueItems(cur, prev) :
                 /\ SlotEvent(s, cur, prev) = <<ev>>
                 /\ RealName(cur, s) = {ev.item} \ {Nothing}
<1>. DEFINE was == RealName(prev, s)
            is == RealName(cur, s)
            brought == CHOOSE x \in is : TRUE
            acquired == Event("item_acquired", s, brought, Nothing)
            removed == Event("item_removed", s, Nothing, Nothing)
            replaced == Event("item_replaced", s, brought, Nothing)
            a == was = {} /\ is # {}
            b == was # {} /\ is = {}
            c == was # {} /\ is # {} /\ was # is
            list == SlotEvent(s, cur, prev)
<1>1. list = If(a, acquired) \o If(b, removed) \o If(c, replaced)
  BY DEF SlotEvent
<1>2. (was = {} \/ \E x \in Item : was = {x}) /\ (is = {} \/ \E x \in Item : is = {x})
  BY NameTyped
<1>3. is # {} => brought \in Item /\ is = {brought} \ {Nothing}
  <2>1. SUFFICES ASSUME NEW x \in Item, is = {x} PROVE brought = x /\ {x} = {x} \ {Nothing}
    BY <1>2
  <2>2. brought = x
    BY <2>1
  <2>3. x # Nothing
    BY ConstantsAssumption DEF ConstantsAssumption
  <2>4. QED BY <2>2, <2>3
<1>4. \A ev : <<>> \o <<>> = <<>> /\ <<ev>> \o <<>> = <<ev>> /\ <<>> \o <<ev>> = <<ev>>
  OBVIOUS
<1>5. ASSUME NEW ev, ev.item \in Item \cup {Nothing},
             NEW type \in {"item_acquired", "item_removed", "item_replaced"},
             ev = Event(type, s, ev.item, Nothing)
      PROVE  ev \in Brings(s) \cap TrueItems(cur, prev)
  <2>1. ev.type = type /\ ev.key = s
    BY <1>5 DEF Event
  <2>2. ev \in EventT
    BY <1>5, TypesNamed DEF Event, EventT
  <2>3. type \in ItemTypes \ {"item_slot_changed"}
    BY DEF ItemTypes
  <2>4. QED BY <2>1, <2>2, <2>3 DEF Brings, TrueItems, TrueMoves
<1>6. /\ acquired.item = brought /\ removed.item = Nothing /\ replaced.item = brought
      /\ acquired = Event("item_acquired", s, acquired.item, Nothing)
      /\ removed = Event("item_removed", s, removed.item, Nothing)
      /\ replaced = Event("item_replaced", s, replaced.item, Nothing)
  BY DEF Event
<1>. HIDE DEF acquired, removed, replaced, brought, was, is, list
<1>7. CASE a
  <2>1. list = <<acquired>>
    BY <1>1, <1>4, <1>7 DEF If
  <2>2. acquired \in Brings(s) \cap TrueItems(cur, prev)
    BY <1>3, <1>5, <1>6, <1>7
  <2>3. QED BY <1>3, <1>6, <1>7, <2>1, <2>2 DEF is, list
<1>8. CASE b
  <2>1. list = <<removed>>
    BY <1>1, <1>4, <1>8 DEF If
  <2>2. removed \in Brings(s) \cap TrueItems(cur, prev)
    BY <1>5, <1>6
  <2>3. QED BY <1>6, <1>8, <2>1, <2>2 DEF is, list
<1>9. CASE c
  <2>1. list = <<replaced>>
    BY <1>1, <1>4, <1>9 DEF If
  <2>2. replaced \in Brings(s) \cap TrueItems(cur, prev)
    BY <1>3, <1>5, <1>6, <1>9
  <2>3. QED BY <1>3, <1>6, <1>9, <2>1, <2>2 DEF is, list
<1>10. CASE ~a /\ ~b /\ ~c
  <2>1. list = <<>>
    BY <1>1, <1>4, <1>10 DEF If
  <2>2. was = is
    BY <1>10
  <2>3. QED BY <2>1, <2>2 DEF was, is, list
<1>11. QED BY <1>7, <1>8, <1>9, <1>10

\* A move is told only of an item that left one slot and is in another.
LEMMA RelocationSays ==
    ASSUME NEW x \in Item, NEW cur, NEW prev
    PROVE  Relocation(x, cur, prev)
              \in Seq({ev \in TrueItems(cur, prev) : ev.type = "item_slot_changed"})
<1>. DEFINE was == {s \in Slot : RealName(prev, s) = {x}}
            is == {s \in Slot : RealName(cur, s) = {x}}
            to == CHOOSE s \in is \ was : TRUE
            from == CHOOSE s \in was \ is : TRUE
            moved == Event("item_slot_changed", to, x, from)
            both == was \ is # {} /\ is \ was # {}
<1>1. both => to \in is /\ from \in was
  OBVIOUS
<1>2. both => moved \in {ev \in TrueItems(cur, prev) : ev.type = "item_slot_changed"}
  <2>1. SUFFICES ASSUME both PROVE moved \in TrueItems(cur, prev) /\ moved.type = "item_slot_changed"
    OBVIOUS
  <2>2. to \in Slot /\ from \in Slot /\ RealName(cur, to) = {x} /\ RealName(prev, from) = {x}
    BY <1>1, <2>1
  <2>. HIDE DEF to, from
  <2>3. /\ moved \in EventT /\ moved.type = "item_slot_changed" /\ moved.key = to
        /\ moved.item = x /\ moved.from = from
    BY <2>2, TypesNamed DEF Event, EventT
  <2>4. "item_slot_changed" \in ItemTypes
    BY DEF ItemTypes
  <2>5. QED BY <2>2, <2>3, <2>4 DEF TrueItems, TrueMoves
<1>3. both \in BOOLEAN
  OBVIOUS
<1>4. Relocation(x, cur, prev) = If(both, moved)
  BY DEF Relocation
<1>. HIDE DEF both, moved
<1>5. QED BY <1>2, <1>3, <1>4, IfTyped

\* Of each slot nothing if it has what it had, else one event with what it has.
LEMMA ItemsSay ==
    ASSUME NEW cur \in Carried, NEW prev \in Carried
    PROVE  /\ DeriveItems(cur, prev) \in Seq(TrueItems(cur, prev))
           /\ \A s \in Slot :
                \/ /\ RealName(cur, s) = RealName(prev, s)
                   /\ DeriveItems(cur, prev) \in Seq(EventT \ Brings(s))
                \/ \E ev \in Brings(s) :
                      /\ RealName(cur, s) = {ev.item} \ {Nothing}
                      /\ Once(DeriveItems(cur, prev), Brings(s), ev)
<1>1. PICK n \in Nat : SetToSeq(Slot) \in Bijection(1 .. n, Slot)
  BY SetListedOnce, ConstantsAre
<1>2. PICK m \in Nat : SetToSeq(Item) \in [1 .. m -> Item]
  BY SetListed, ConstantsAre
<1>. PICK q : q = SetToSeq(Slot)
  OBVIOUS
<1>. PICK r : r = SetToSeq(Item)
  OBVIOUS
<1>3. /\ q \in [1 .. n -> Slot] /\ \A i, j \in 1 .. n : q[i] = q[j] => i = j
      /\ \A s \in Slot : \E i \in 1 .. n : q[i] = s
  BY <1>1 DEF Bijection, Injection, Surjection, IsInjective
<1>4. r \in [1 .. m -> Item]
  BY <1>2
<1>. DEFINE f == [i \in 1 .. n |-> SlotEvent(q[i], cur, prev)]
            g == [i \in 1 .. m |-> Relocation(r[i], cur, prev)]
            Sure == TrueItems(cur, prev)
            Moves == {ev \in Sure : ev.type = "item_slot_changed"}
            moved == FlattenSeq(g)
<1>5. DeriveItems(cur, prev) = FlattenSeq(f) \o moved
  BY <1>3, <1>4 DEF DeriveItems, ForEach
<1>6. g \in [1 .. m -> Seq(Moves)]
  BY <1>4, RelocationSays
<1>7. moved \in Seq(Moves)
  <2>. HIDE DEF g, Moves
  <2>1. QED BY <1>6, ListTyped
<1>8. \A i \in 1 .. n : f[i] = SlotEvent(q[i], cur, prev) /\ q[i] \in Slot
  BY <1>3
<1>9. Moves \subseteq Sure /\ Sure \subseteq EventT
  BY DEF TrueItems, TrueMoves
<1>10. f \in [1 .. n -> Seq(Sure)]
  <2>1. ASSUME NEW s \in Slot PROVE SlotEvent(s, cur, prev) \in Seq(Sure)
    <3>1. \/ SlotEvent(s, cur, prev) = <<>>
          \/ \E ev \in Sure : SlotEvent(s, cur, prev) = <<ev>>
      BY SlotSays
    <3>. HIDE DEF Sure
    <3>2. \A ev \in Sure : <<ev>> \in Seq(Sure)
      OBVIOUS
    <3>3. CASE SlotEvent(s, cur, prev) = <<>>
      BY <3>3
    <3>4. QED BY <3>1, <3>2, <3>3
  <2>2. QED BY <1>3, <2>1
<1>. HIDE DEF f, g, moved
<1>11. FlattenSeq(f) \in Seq(Sure)
  <2>. HIDE DEF Sure
  <2>1. QED BY <1>10, ListTyped
<1>12. DeriveItems(cur, prev) \in Seq(Sure)
  <2>. HIDE DEF Sure, Moves
  <2>1. moved \in Seq(Sure)
    BY <1>7, <1>9, SeqMonotonic
  <2>2. QED BY <1>5, <1>11, <2>1, ConcatProperties
<1>13. ASSUME NEW s \in Slot
       PROVE  \/ /\ RealName(cur, s) = RealName(prev, s)
                 /\ DeriveItems(cur, prev) \in Seq(EventT \ Brings(s))
              \/ \E ev \in Brings(s) :
                    /\ RealName(cur, s) = {ev.item} \ {Nothing}
                    /\ Once(DeriveItems(cur, prev), Brings(s), ev)
  <2>1. moved \in Seq(EventT \ Brings(s))
    <3>1. Moves \subseteq EventT \ Brings(s)
      BY <1>9 DEF Brings
    <3>. HIDE DEF Moves
    <3>2. QED BY <1>7, <3>1, SeqMonotonic
  <2>2. PICK k \in 1 .. n : q[k] = s
    BY <1>3
  <2>3. ASSUME NEW i \in 1 .. n, i # k PROVE f[i] \in Seq(EventT \ Brings(s))
    <3>1. q[i] \in Slot /\ q[i] # s
      BY <1>3, <2>2, <2>3
    <3>2. f[i] = <<>> \/ \E ev \in Brings(q[i]) : f[i] = <<ev>>
      BY <1>8, <3>1, SlotSays
    <3>3. \A ev \in Brings(q[i]) : ev \in EventT \ Brings(s)
      BY <3>1 DEF Brings
    <3>4. CASE f[i] = <<>>
      BY <3>4
    <3>5. ASSUME NEW ev \in Brings(q[i]), f[i] = <<ev>> PROVE f[i] \in Seq(EventT \ Brings(s))
      <4>1. ev \in EventT \ Brings(s)
        BY <3>3
      <4>2. QED BY <3>5, <4>1
    <3>6. QED BY <3>2, <3>4, <3>5
  <2>4. DOMAIN f = 1 .. n /\ Len(f) = n
    BY <1>10
  <2>5. CASE SlotEvent(s, cur, prev) = <<>> /\ RealName(cur, s) = RealName(prev, s)
    <3>1. f[k] \in Seq(EventT \ Brings(s))
      <4>1. f[k] = <<>>
        BY <1>8, <2>2, <2>5
      <4>2. QED BY <4>1
    <3>2. f \in [1 .. n -> Seq(EventT \ Brings(s))]
      BY <1>10, <2>3, <3>1
    <3>3. FlattenSeq(f) \in Seq(EventT \ Brings(s))
      BY <3>2, ListTyped
    <3>4. DeriveItems(cur, prev) \in Seq(EventT \ Brings(s))
      BY <1>5, <2>1, <3>3, ConcatProperties
    <3>5. QED BY <2>5, <3>4
  <2>6. ASSUME NEW ev \in Brings(s), SlotEvent(s, cur, prev) = <<ev>>,
               RealName(cur, s) = {ev.item} \ {Nothing}
        PROVE  Once(DeriveItems(cur, prev), Brings(s), ev)
    <3>1. ev \in EventT
      BY DEF Brings
    <3>2. f[k] = <<ev>>
      BY <1>8, <2>2, <2>6
    <3>3. Once(f[k], Brings(s), ev)
      BY <3>1, <3>2, OnceAlone
    <3>4. Once(FlattenSeq(f), Brings(s), ev)
      BY <2>3, <2>4, <3>1, <3>3, OnceFlatten
    <3>5. QED BY <1>5, <2>1, <3>1, <3>4, OnceConcat
  <2>7. QED BY <2>5, <2>6, SlotSays
<1>14. QED BY <1>12, <1>13

\* What a list of events says of the slots that showed prev and show cur.
Says(list, cur, prev) ==
    /\ list \in Seq(TrueMoves(cur, prev))
    /\ \A s \in Slot :
          \/ RealName(cur, s) = RealName(prev, s) /\ list \in Seq(EventT \ Brings(s))
          \/ \E ev \in Brings(s) :
                RealName(cur, s) = {ev.item} \ {Nothing} /\ Once(list, Brings(s), ev)

\* Events about other things change nothing in that.
LEMMA SaysAround ==
    ASSUME NEW list, NEW cur, NEW prev, Says(list, cur, prev),
           NEW x \in Seq(QuietT), NEW y \in Seq(QuietT)
    PROVE  Says((x \o list) \o y, cur, prev)
<1>1. QuietT \subseteq TrueMoves(cur, prev)
  BY DEF QuietT, TrueMoves, ItemTypes
<1>2. (x \o list) \o y \in Seq(TrueMoves(cur, prev))
  <2>1. x \in Seq(TrueMoves(cur, prev)) /\ y \in Seq(TrueMoves(cur, prev))
    BY <1>1, SeqMonotonic
  <2>2. list \in Seq(TrueMoves(cur, prev))
    BY DEF Says
  <2>3. QED BY <2>1, <2>2, ConcatProperties
<1>3. ASSUME NEW s \in Slot
      PROVE  /\ list \in Seq(EventT \ Brings(s)) => (x \o list) \o y \in Seq(EventT \ Brings(s))
             /\ \A ev \in Brings(s) :
                   Once(list, Brings(s), ev) => Once((x \o list) \o y, Brings(s), ev)
  <2>1. QuietT \subseteq EventT \ Brings(s) /\ Brings(s) \subseteq EventT
    BY DEF QuietT, Brings
  <2>2. x \in Seq(EventT \ Brings(s)) /\ y \in Seq(EventT \ Brings(s))
    BY <2>1, SeqMonotonic
  <2>3. list \in Seq(EventT \ Brings(s)) => (x \o list) \o y \in Seq(EventT \ Brings(s))
    BY <2>2, ConcatProperties
  <2>4. ASSUME NEW ev \in Brings(s), Once(list, Brings(s), ev)
        PROVE  Once((x \o list) \o y, Brings(s), ev)
    <3>1. ev \in EventT
      BY <2>1
    <3>2. Once(x \o list, Brings(s), ev)
      BY <2>2, <2>4, <3>1, OnceConcat
    <3>3. QED BY <2>2, <3>1, <3>2, OnceConcat
  <2>5. QED BY <2>3, <2>4
<1>4. QED BY <1>2, <1>3 DEF Says

LEMMA ItemTypesAre ==
    ASSUME NEW t \in ItemTypes
    PROVE  /\ t \notin Counted
           /\ t \notin {"hero_death", "hero_respawn", "kill_counter", "building_health_loss",
                        "roshan_state_changed", "building_destroyed", "ward_counter_changed",
                        "ward_purchase_started", "ward_purchase_cooldown_changed"}
  BY DEF ItemTypes, Counted, ObservationOf

LEMMA PlayerCounts ==
    ASSUME NEW cur \in PlayerT, NEW prev \in PlayerT
    PROVE  /\ Says(DerivePlayer(cur, prev), cur.items, prev.items)
           /\ \A t \in Counted :
                 Count(DerivePlayer(cur, prev), t) =
                    One((\E p \in prev.alive, c \in cur.alive : p /\ ~c) /\ "hero_death" = t)
                    + One((\E p \in prev.alive, c \in cur.alive : ~p /\ c) /\ "hero_respawn" = t)
                    + One(Rises(prev.kills, cur.kills) /\ "kill_counter" = t)
                    + One(Rises(prev.wards, cur.wards) /\ "ward_counter_changed" = t)
<1>. DEFINE alive == DeriveAlive(cur.alive, prev.alive)
            kills == If(Rises(prev.kills, cur.kills), Plain("kill_counter"))
            items == DeriveItems(cur.items, prev.items)
            wards == If(Rises(prev.wards, cur.wards), Plain("ward_counter_changed"))
            Dies == \E p \in prev.alive, c \in cur.alive : p /\ ~c
            Lives == \E p \in prev.alive, c \in cur.alive : ~p /\ c
<1>1. DerivePlayer(cur, prev) = ((alive \o kills) \o items) \o wards
  BY DEF DerivePlayer
<1>2. \A t : alive \in Seq(EventT)
             /\ Count(alive, t) = One(Dies /\ "hero_death" = t) + One(Lives /\ "hero_respawn" = t)
  BY AliveCounts
<1>3. \A p, c : Rises(p, c) \in BOOLEAN
  BY DEF Rises
<1>4. \A t : /\ kills \in Seq(EventT) /\ wards \in Seq(EventT)
             /\ Count(kills, t) = One(Rises(prev.kills, cur.kills) /\ "kill_counter" = t)
             /\ Count(wards, t) = One(Rises(prev.wards, cur.wards) /\ "ward_counter_changed" = t)
  BY <1>3, IfCounts, TypesNamed
<1>5. cur.items \in Carried /\ prev.items \in Carried
  BY DEF PlayerT
<1>6. Says(items, cur.items, prev.items) /\ items \in Seq(TrueItems(cur.items, prev.items))
  <2>1. TrueItems(cur.items, prev.items) \subseteq TrueMoves(cur.items, prev.items)
    BY DEF TrueItems
  <2>2. /\ items \in Seq(TrueItems(cur.items, prev.items))
        /\ \A s \in Slot :
             \/ /\ RealName(cur.items, s) = RealName(prev.items, s)
                /\ items \in Seq(EventT \ Brings(s))
             \/ \E ev \in Brings(s) :
                   /\ RealName(cur.items, s) = {ev.item} \ {Nothing}
                   /\ Once(items, Brings(s), ev)
    BY <1>5, ItemsSay
  <2>3. items \in Seq(TrueMoves(cur.items, prev.items))
    BY <2>1, <2>2, SeqMonotonic
  <2>. HIDE DEF items
  <2>4. QED BY <2>2, <2>3 DEF Says
<1>. HIDE DEF alive, kills, items, wards, Dies, Lives
<1>7. alive \in Seq(QuietT) /\ kills \in Seq(QuietT) /\ wards \in Seq(QuietT)
  <2>1. ASSUME NEW t \in ItemTypes
        PROVE  Count(alive, t) = 0 /\ Count(kills, t) = 0 /\ Count(wards, t) = 0
    BY <1>2, <1>4, ItemTypesAre DEF One
  <2>2. QED BY <1>2, <1>4, <2>1, Quiet
<1>8. alive \o kills \in Seq(QuietT)
  BY <1>7, ConcatProperties
<1>9. Says(DerivePlayer(cur, prev), cur.items, prev.items)
  BY <1>1, <1>6, <1>7, <1>8, SaysAround
<1>10. ASSUME NEW t \in Counted
       PROVE  Count(DerivePlayer(cur, prev), t) =
                    One(Dies /\ "hero_death" = t) + One(Lives /\ "hero_respawn" = t)
                    + One(Rises(prev.kills, cur.kills) /\ "kill_counter" = t)
                    + One(Rises(prev.wards, cur.wards) /\ "ward_counter_changed" = t)
  <2>1. Count(items, t) = 0
    <3>1. \A ev \in TrueItems(cur.items, prev.items) : ev.type # t
      BY ItemTypesAre DEF TrueItems
    <3>2. QED BY <1>6, <3>1, CountAbsent
  <2>2. items \in Seq(EventT)
    <3>1. TrueItems(cur.items, prev.items) \subseteq EventT
      BY DEF TrueItems, TrueMoves
    <3>2. QED BY <1>6, <3>1, SeqMonotonic
  <2>3. /\ alive \o kills \in Seq(EventT)
        /\ Count(alive \o kills, t) = Count(alive, t) + Count(kills, t)
    BY <1>2, <1>4, CountConcat, ConcatProperties
  <2>. DEFINE x == alive \o kills
  <2>. HIDE DEF x
  <2>4. x \o items \in Seq(EventT) /\ Count(x \o items, t) = Count(x, t) + Count(items, t)
    <3>1. x \in Seq(EventT)
      BY <2>3 DEF x
    <3>. HIDE DEF x
    <3>2. x \o items \in Seq(EventT)
      BY <2>2, <3>1, ConcatProperties
    <3>3. Count(x \o items, t) = Count(x, t) + Count(items, t)
      BY <2>2, <3>1, CountConcat
    <3>4. QED BY <3>2, <3>3
  <2>. DEFINE y == x \o items
  <2>. HIDE DEF y
  <2>5. Count(y \o wards, t) = Count(y, t) + Count(wards, t)
    <3>1. y \in Seq(EventT) /\ wards \in Seq(EventT)
      BY <1>4, <2>4 DEF y
    <3>2. QED BY <3>1, CountConcat
  <2>. DEFINE ca == Count(alive, t)
              ck == Count(kills, t)
              cw == Count(wards, t)
  <2>6. ca \in Nat /\ ck \in Nat /\ cw \in Nat
    BY <1>2, <1>4, CountTyped
  <2>7. Count(DerivePlayer(cur, prev), t) = Count(y \o wards, t)
    BY <1>1 DEF x, y
  <2>8. Count(x, t) = ca + ck /\ Count(y, t) = Count(x, t) + Count(items, t)
    BY <2>3, <2>4 DEF x, y
  <2>9. Count(DerivePlayer(cur, prev), t) = (ca + ck) + cw
    <3>. HIDE DEF ca, ck
    <3>1. QED BY <2>1, <2>5, <2>6, <2>7, <2>8
  <2>10. /\ ca = One(Dies /\ "hero_death" = t) + One(Lives /\ "hero_respawn" = t)
         /\ ck = One(Rises(prev.kills, cur.kills) /\ "kill_counter" = t)
         /\ cw = One(Rises(prev.wards, cur.wards) /\ "ward_counter_changed" = t)
    BY <1>2, <1>4
  <2>. HIDE DEF ca, ck, cw
  <2>11. QED BY <2>9, <2>10
<1>11. QED BY <1>9, <1>10 DEF Dies, Lives

\* The events of the hero are there when both ticks show one.
HeroOf(hero, cur, prev) ==
    \/ cur.players = {} /\ hero = <<>>
    \/ prev.players = {} /\ hero = <<>>
    \/ \E c \in PlayerT, p \in PlayerT :
          cur.players = {c} /\ prev.players = {p} /\ hero = DerivePlayer(c, p)

\* The events of a tick are those of its parts.
LEMMA DeriveCounts ==
    ASSUME NEW cur \in TickT, NEW prev \in TickT, NEW hero, HeroOf(hero, cur, prev)
    PROVE  /\ \A t \in Counted :
                 Count(Derive(cur, prev), t) =
                    One((\E p \in prev.roshan, c \in cur.roshan : p # c)
                        /\ "roshan_state_changed" = t)
                    + Count(DeriveBuildings(cur.buildings, prev.buildings, cur.running), t)
                    + One((\E p \in prev.cooldown, c \in cur.cooldown : p = 0 /\ c > 0)
                          /\ "ward_purchase_started" = t)
                    + One((\E p \in prev.cooldown, c \in cur.cooldown : p > 0 /\ c = 0)
                          /\ "ward_purchase_cooldown_changed" = t)
                    + Count(hero, t)
           /\ \A c \in PlayerT, p \in PlayerT :
                 cur.players = {c} /\ prev.players = {p}
                    => Says(Derive(cur, prev), c.items, p.items)
<1>. DEFINE roshan == DeriveRoshan(cur.roshan, prev.roshan)
            buildings == DeriveBuildings(cur.buildings, prev.buildings, cur.running)
            wards == WardCooldownEvent(cur.cooldown, prev.cooldown)
            Changes == \E p \in prev.roshan, c \in cur.roshan : p # c
            Begins == \E p \in prev.cooldown, c \in cur.cooldown : p = 0 /\ c > 0
            Done == \E p \in prev.cooldown, c \in cur.cooldown : p > 0 /\ c = 0
<1>1. Derive(cur, prev) = ((roshan \o buildings) \o wards) \o hero
  <2>1. hero = IF cur.players # {} /\ prev.players # {}
               THEN DerivePlayer(CHOOSE p \in cur.players : TRUE, CHOOSE p \in prev.players : TRUE)
               ELSE <<>>
    <3>1. \A c : (CHOOSE x \in {c} : TRUE) = c
      OBVIOUS
    <3>2. ASSUME NEW c \in PlayerT, NEW p \in PlayerT, cur.players = {c}, prev.players = {p},
                 hero = DerivePlayer(c, p)
          PROVE  /\ cur.players # {} /\ prev.players # {}
                 /\ hero = DerivePlayer(CHOOSE x \in cur.players : TRUE,
                                        CHOOSE x \in prev.players : TRUE)
      BY <3>1, <3>2
    <3>3. QED BY <3>2 DEF HeroOf
  <2>2. QED BY <2>1 DEF Derive
<1>2. \A t : /\ roshan \in Seq(EventT)
             /\ Count(roshan, t) = One(Changes /\ "roshan_state_changed" = t)
  BY RoshanCounts
<1>3. \A t : /\ wards \in Seq(EventT)
             /\ Count(wards, t) = One(Begins /\ "ward_purchase_started" = t)
                                  + One(Done /\ "ward_purchase_cooldown_changed" = t)
  BY CooldownCounts
<1>4. /\ buildings \in Seq(EventT)
      /\ \A t : t \notin {"building_health_loss", "building_destroyed"} => Count(buildings, t) = 0
  <2>1. cur.running \in BOOLEAN
    BY DEF TickT
  <2>2. PICK run \in BOOLEAN : run = cur.running
    BY <2>1
  <2>. DEFINE c == cur.buildings
              p == prev.buildings
  <2>. HIDE DEF c, p
  <2>3. ASSUME NEW t
        PROVE  /\ DeriveBuildings(c, p, run) \in Seq(EventT)
               /\ t \notin {"building_health_loss", "building_destroyed"}
                     => Count(DeriveBuildings(c, p, run), t) = 0
    BY BuildingsCount
  <2>4. QED BY <2>2, <2>3 DEF c, p
<1>5. hero \in Seq(EventT)
  <2>1. <<>> \in Seq(EventT)
    OBVIOUS
  <2>2. QED BY <2>1, PlayerTyped DEF HeroOf
<1>. HIDE DEF roshan, buildings, wards, Changes, Begins, Done
<1>6. roshan \in Seq(QuietT) /\ buildings \in Seq(QuietT) /\ wards \in Seq(QuietT)
  <2>1. ASSUME NEW t \in ItemTypes
        PROVE  Count(roshan, t) = 0 /\ Count(buildings, t) = 0 /\ Count(wards, t) = 0
    <3>1. t \notin {"roshan_state_changed", "building_health_loss", "building_destroyed",
                    "ward_purchase_started", "ward_purchase_cooldown_changed"}
      BY ItemTypesAre
    <3>2. QED BY <1>2, <1>3, <1>4, <3>1 DEF One
  <2>2. QED BY <1>2, <1>3, <1>4, <2>1, Quiet
<1>. DEFINE x == roshan \o buildings
            y == x \o wards
<1>7. x \in Seq(QuietT) /\ x \in Seq(EventT)
  BY <1>2, <1>4, <1>6, ConcatProperties
<1>. HIDE DEF x
<1>8. y \in Seq(QuietT) /\ y \in Seq(EventT)
  BY <1>3, <1>6, <1>7, ConcatProperties
<1>. HIDE DEF y
<1>9. ASSUME NEW t \in Counted
      PROVE  Count(Derive(cur, prev), t) =
                One(Changes /\ "roshan_state_changed" = t) + Count(buildings, t)
                + One(Begins /\ "ward_purchase_started" = t)
                + One(Done /\ "ward_purchase_cooldown_changed" = t) + Count(hero, t)
  <2>. DEFINE cr == Count(roshan, t)
              cb == Count(buildings, t)
              cw == Count(wards, t)
              ch == Count(hero, t)
  <2>1. cr \in Nat /\ cb \in Nat /\ cw \in Nat /\ ch \in Nat
    BY <1>2, <1>3, <1>4, <1>5, CountTyped
  <2>2. Count(x, t) = cr + cb
    BY <1>2, <1>4, CountConcat DEF x
  <2>3. Count(y, t) = Count(x, t) + cw
    <3>1. wards \in Seq(EventT)
      BY <1>3
    <3>2. Count(x \o wards, t) = Count(x, t) + cw
      BY <1>7, <3>1, CountConcat
    <3>3. QED BY <3>2 DEF y
  <2>4. Count(Derive(cur, prev), t) = Count(y, t) + ch
    <3>1. Derive(cur, prev) = y \o hero
      BY <1>1 DEF x, y
    <3>2. Count(y \o hero, t) = Count(y, t) + ch
      BY <1>5, <1>8, CountConcat
    <3>3. QED BY <3>1, <3>2
  <2>5. cr = One(Changes /\ "roshan_state_changed" = t)
    BY <1>2
  <2>6. cw = One(Begins /\ "ward_purchase_started" = t)
             + One(Done /\ "ward_purchase_cooldown_changed" = t)
    BY <1>3
  <2>7. Count(Derive(cur, prev), t) = cr + cb + cw + ch
    <3>. HIDE DEF cr, cb, cw, ch
    <3>1. QED BY <2>2, <2>3, <2>4
  <2>. DEFINE begun == One(Begins /\ "ward_purchase_started" = t)
              ended == One(Done /\ "ward_purchase_cooldown_changed" = t)
  <2>8. begun \in Nat /\ ended \in Nat
    BY DEF One
  <2>9. Count(Derive(cur, prev), t) = cr + cb + begun + ended + ch
    <3>. HIDE DEF cr, cb, cw, ch, begun, ended
    <3>1. cw = begun + ended
      BY <2>6 DEF begun, ended
    <3>2. QED BY <2>1, <2>7, <2>8, <3>1
  <2>10. QED BY <2>5, <2>9
<1>10. ASSUME NEW c \in PlayerT, NEW p \in PlayerT, cur.players = {c}, prev.players = {p}
       PROVE  Says(Derive(cur, prev), c.items, p.items)
  <2>1. hero = DerivePlayer(c, p)
    BY <1>10 DEF HeroOf
  <2>2. Says(hero, c.items, p.items)
    BY <2>1, PlayerCounts
  <2>3. <<>> \in Seq(QuietT) /\ y \o hero \in Seq(EventT)
    BY <1>5, <1>8, ConcatProperties
  <2>4. (y \o hero) \o <<>> = y \o hero
    BY <2>3, ConcatEmptySeq
  <2>5. Says((y \o hero) \o <<>>, c.items, p.items)
    BY <1>8, <2>2, <2>3, SaysAround
  <2>6. Derive(cur, prev) = y \o hero
    BY <1>1 DEF x, y
  <2>7. QED BY <2>4, <2>5, <2>6
<1>11. QED BY <1>9, <1>10 DEF Changes, Begins, Done, buildings

-----------------------------------------------------------------------------
(* What ticks show of the game.                                            *)

\* A tick shows nothing that is not so.
Partial(tick, g) ==
    /\ tick \in TickT
    /\ tick.roshan \subseteq {g.roshan} /\ tick.cooldown \subseteq {g.cooldown}
    /\ \A b \in DOMAIN tick.buildings : tick.buildings[b] \subseteq {g.health[b]}
    /\ \/ tick.players = {}
       \/ \E p \in PlayerT : /\ tick.players = {p} /\ p.alive \subseteq {g.alive}
                             /\ p.kills \subseteq {g.kills} /\ p.wards \subseteq {g.wards}

\* What has no entry has fallen.
Standing(tick, g) == \A b \in Building \ DOMAIN tick.buildings : g.health[b] = 0

\* A tick shows all of it, but for entries of what has fallen.
Whole(tick, g) ==
    /\ tick \in TickT /\ tick.running = g.running
    /\ tick.roshan = {g.roshan} /\ tick.cooldown = {g.cooldown}
    /\ \A b \in DOMAIN tick.buildings : tick.buildings[b] = {g.health[b]}
    /\ Standing(tick, g)
    /\ \E p \in PlayerT : /\ tick.players = {p} /\ p.alive = {g.alive}
                          /\ p.kills = {g.kills} /\ p.wards = {g.wards}

LEMMA WholeIsPartial ==
    ASSUME NEW tick, NEW g, Whole(tick, g) PROVE Partial(tick, g)
  BY DEF Whole, Partial

LEMMA ViewIs ==
    ASSUME NEW g \in GameT, NEW hidden, NEW gone \in SUBSET {b \in Building : g.health[b] = 0}
    PROVE  /\ Partial(View(g, hidden, gone), g)
           /\ hidden = {} => Whole(View(g, hidden, gone), g)
           /\ "buildings" \notin hidden => Standing(View(g, hidden, gone), g)
<1>. DEFINE tick == View(g, hidden, gone)
            D == IF "buildings" \in hidden THEN {} ELSE Building \ gone
            p == [kills |-> Seen(hidden, "player", g.kills),
                  wards |-> Seen(hidden, "player", g.wards),
                  alive |-> Seen(hidden, "hero", g.alive),
                  items |-> IF "items" \in hidden THEN <<>> ELSE g.items]
<1>1. /\ tick.running = (g.running /\ "map" \notin hidden)
      /\ tick.roshan = Seen(hidden, "map", g.roshan)
      /\ tick.cooldown = Seen(hidden, "map", g.cooldown)
      /\ tick.buildings = [b \in D |-> Seen(hidden, "health", g.health[b])]
      /\ tick.players = PlayersView(g, hidden)
  BY DEF View
<1>2. tick \in TickT
  BY ViewTyped
<1>3. \A block, v : Seen(hidden, block, v) \subseteq {v} /\ (hidden = {} => Seen(hidden, block, v) = {v})
  BY DEF Seen
<1>4. p \in PlayerT
  BY DEF Seen, GameT, PlayerT, Carried
<1>5. /\ p.kills = Seen(hidden, "player", g.kills) /\ p.wards = Seen(hidden, "player", g.wards)
      /\ p.alive = Seen(hidden, "hero", g.alive)
  OBVIOUS
<1>6. PlayersView(g, hidden) = IF {"player", "hero", "items"} \subseteq hidden THEN {} ELSE {p}
  BY DEF PlayersView
<1>7. g.running \in BOOLEAN
  BY DEF GameT
<1>. HIDE DEF p, tick
<1>8. Partial(tick, g)
  <2>1. \A b \in DOMAIN tick.buildings : tick.buildings[b] \subseteq {g.health[b]}
    BY <1>1, <1>3
  <2>2. \/ tick.players = {}
        \/ \E x \in PlayerT : /\ tick.players = {x} /\ x.alive \subseteq {g.alive}
                              /\ x.kills \subseteq {g.kills} /\ x.wards \subseteq {g.wards}
    BY <1>1, <1>3, <1>4, <1>5, <1>6
  <2>3. QED BY <1>1, <1>2, <1>3, <2>1, <2>2 DEF Partial
<1>9. "buildings" \notin hidden => Standing(tick, g)
  <2>1. "buildings" \notin hidden => DOMAIN tick.buildings = Building \ gone
    BY <1>1
  <2>2. QED BY <2>1 DEF Standing
<1>10. ASSUME hidden = {} PROVE Whole(tick, g)
  <2>1. \A b \in DOMAIN tick.buildings : tick.buildings[b] = {g.health[b]}
    BY <1>1, <1>3, <1>10
  <2>2. tick.players = {p} /\ p.alive = {g.alive} /\ p.kills = {g.kills} /\ p.wards = {g.wards}
    BY <1>1, <1>3, <1>5, <1>6, <1>10
  <2>3. tick.running = g.running /\ tick.roshan = {g.roshan} /\ tick.cooldown = {g.cooldown}
    BY <1>1, <1>3, <1>7, <1>10
  <2>4. QED BY <1>2, <1>4, <1>9, <1>10, <2>1, <2>2, <2>3 DEF Whole
<1>11. QED BY <1>8, <1>9, <1>10 DEF tick

Hit(g, h) == {b \in Building : h.health[b] < g.health[b]}
Down(g, h) == {b \in Hit(g, h) : h.health[b] = 0}

LEMMA HitsFinite ==
    ASSUME NEW g, NEW h
    PROVE  /\ IsFiniteSet(Hit(g, h)) /\ IsFiniteSet(Down(g, h))
           /\ Cardinality(Hit(g, h)) \in Nat /\ Cardinality(Down(g, h)) \in Nat
<1>1. Hit(g, h) \subseteq Building /\ Down(g, h) \subseteq Building
  BY DEF Hit, Down
<1>2. IsFiniteSet(Hit(g, h)) /\ IsFiniteSet(Down(g, h))
  BY <1>1, ConstantsAre, FS_Subset
<1>3. QED BY <1>2, FS_CardinalityType

\* How often each thing would have to happen for g to become i, whichever
\* matches they are of: what a comparison by place can tell.
Differs(g, i) ==
    [t \in Counted |->
       CASE t = "hero_death" -> One(g.alive /\ ~i.alive)
         [] t = "hero_respawn" -> One(~g.alive /\ i.alive)
         [] t = "kill_counter" -> One(i.kills > g.kills)
         [] t = "ward_counter_changed" -> One(i.wards > g.wards)
         [] t = "roshan_state_changed" -> One(g.roshan # i.roshan)
         [] t = "ward_purchase_started" -> One(g.cooldown = 0 /\ i.cooldown > 0)
         [] t = "ward_purchase_cooldown_changed" -> One(g.cooldown > 0 /\ i.cooldown = 0)
         [] t = "building_health_loss" -> Cardinality(Hit(g, i))
         [] OTHER -> Cardinality(Down(g, i))]

LEMMA DiffersTyped ==
    ASSUME NEW g, NEW h PROVE Differs(g, h) \in [Counted -> Nat]
<1>. DEFINE H == Cardinality(Hit(g, h))
            D == Cardinality(Down(g, h))
<1>1. \A c : One(c) \in Nat
  BY DEF One
<1>2. H \in Nat /\ D \in Nat
  BY HitsFinite
<1>3. Differs(g, h) =
        [t \in Counted |->
           CASE t = "hero_death" -> One(g.alive /\ ~h.alive)
             [] t = "hero_respawn" -> One(~g.alive /\ h.alive)
             [] t = "kill_counter" -> One(h.kills > g.kills)
             [] t = "ward_counter_changed" -> One(h.wards > g.wards)
             [] t = "roshan_state_changed" -> One(g.roshan # h.roshan)
             [] t = "ward_purchase_started" -> One(g.cooldown = 0 /\ h.cooldown > 0)
             [] t = "ward_purchase_cooldown_changed" -> One(g.cooldown > 0 /\ h.cooldown = 0)
             [] t = "building_health_loss" -> H
             [] OTHER -> D]
  BY DEF Differs
<1>. HIDE DEF H, D, One
<1>4. QED BY <1>1, <1>2, <1>3

LEMMA DiffersIs ==
    ASSUME NEW g, NEW h, NEW t \in Counted
    PROVE  /\ t = "hero_death" => Differs(g, h)[t] = One(g.alive /\ ~h.alive)
           /\ t = "hero_respawn" => Differs(g, h)[t] = One(~g.alive /\ h.alive)
           /\ t = "kill_counter" => Differs(g, h)[t] = One(h.kills > g.kills)
           /\ t = "ward_counter_changed" => Differs(g, h)[t] = One(h.wards > g.wards)
           /\ t = "roshan_state_changed" => Differs(g, h)[t] = One(g.roshan # h.roshan)
           /\ t = "ward_purchase_started" =>
                 Differs(g, h)[t] = One(g.cooldown = 0 /\ h.cooldown > 0)
           /\ t = "ward_purchase_cooldown_changed" =>
                 Differs(g, h)[t] = One(g.cooldown > 0 /\ h.cooldown = 0)
           /\ t = "building_health_loss" => Differs(g, h)[t] = Cardinality(Hit(g, h))
           /\ t = "building_destroyed" => Differs(g, h)[t] = Cardinality(Down(g, h))
<1>. DEFINE H == Cardinality(Hit(g, h))
            D == Cardinality(Down(g, h))
<1>1. Differs(g, h)[t] =
          CASE t = "hero_death" -> One(g.alive /\ ~h.alive)
            [] t = "hero_respawn" -> One(~g.alive /\ h.alive)
            [] t = "kill_counter" -> One(h.kills > g.kills)
            [] t = "ward_counter_changed" -> One(h.wards > g.wards)
            [] t = "roshan_state_changed" -> One(g.roshan # h.roshan)
            [] t = "ward_purchase_started" -> One(g.cooldown = 0 /\ h.cooldown > 0)
            [] t = "ward_purchase_cooldown_changed" -> One(g.cooldown > 0 /\ h.cooldown = 0)
            [] t = "building_health_loss" -> H
            [] OTHER -> D
  BY DEF Differs
<1>. HIDE DEF H, D
<1>2. QED BY <1>1 DEF H, D

LEMMA CountedIs ==
    ASSUME NEW t \in Counted
    PROVE  \/ t = "hero_death" \/ t = "hero_respawn" \/ t = "kill_counter"
           \/ t = "ward_counter_changed" \/ t = "roshan_state_changed"
           \/ t = "ward_purchase_started" \/ t = "ward_purchase_cooldown_changed"
           \/ t = "building_health_loss" \/ t = "building_destroyed"
  BY DEF Counted, ObservationOf

\* From g by way of h to i, there are at least the differences that show when h
\* is passed over.
LEMMA Triangle ==
    ASSUME NEW g \in GameT, NEW h \in GameT, NEW i \in GameT, NEW t \in Counted
    PROVE  Differs(g, i)[t] <= Differs(g, h)[t] + Differs(h, i)[t]
<1>1. /\ g.alive \in BOOLEAN /\ h.alive \in BOOLEAN /\ i.alive \in BOOLEAN
      /\ g.kills \in Nat /\ h.kills \in Nat /\ i.kills \in Nat
      /\ g.wards \in Nat /\ h.wards \in Nat /\ i.wards \in Nat
      /\ g.cooldown \in {0, 1} /\ h.cooldown \in {0, 1} /\ i.cooldown \in {0, 1}
      /\ g.health \in [Building -> 0 .. MaxHealth] /\ h.health \in [Building -> 0 .. MaxHealth]
      /\ i.health \in [Building -> 0 .. MaxHealth]
  BY DEF GameT
<1>2. \A b \in Building : g.health[b] \in Nat /\ h.health[b] \in Nat /\ i.health[b] \in Nat
  <2>1. \A n \in 0 .. MaxHealth : n \in Nat
    OBVIOUS
  <2>2. QED BY <1>1, <2>1
<1>3. Hit(g, i) \subseteq Hit(g, h) \cup Hit(h, i)
  BY <1>2 DEF Hit
<1>4. Down(g, i) \subseteq Down(g, h) \cup Down(h, i)
  BY <1>2 DEF Hit, Down
<1>5. ASSUME NEW A, NEW B, NEW C, IsFiniteSet(A), IsFiniteSet(B), C \subseteq A \cup B
      PROVE  Cardinality(C) <= Cardinality(A) + Cardinality(B)
  <2>1. /\ IsFiniteSet(A \cup B)
        /\ Cardinality(A \cup B) = Cardinality(A) + Cardinality(B) - Cardinality(A \cap B)
    BY <1>5, FS_Union
  <2>2. Cardinality(C) <= Cardinality(A \cup B) /\ IsFiniteSet(C)
    BY <1>5, <2>1, FS_Subset
  <2>3. IsFiniteSet(A \cap B)
    BY <1>5, FS_Intersection
  <2>4. /\ Cardinality(A) \in Nat /\ Cardinality(B) \in Nat /\ Cardinality(A \cap B) \in Nat
        /\ Cardinality(C) \in Nat
    BY <1>5, <2>2, <2>3, FS_CardinalityType
  <2>5. QED BY <2>1, <2>2, <2>4
<1>6. t = "building_health_loss" => Differs(g, i)[t] <= Differs(g, h)[t] + Differs(h, i)[t]
  BY <1>3, <1>5, HitsFinite, DiffersIs
<1>7. t = "building_destroyed" => Differs(g, i)[t] <= Differs(g, h)[t] + Differs(h, i)[t]
  BY <1>4, <1>5, HitsFinite, DiffersIs
<1>8. ASSUME NEW c \in BOOLEAN, NEW d \in BOOLEAN, NEW e \in BOOLEAN, e => c \/ d
      PROVE  One(e) <= One(c) + One(d)
  BY <1>8 DEF One
<1>9. t = "hero_death" => Differs(g, i)[t] <= Differs(g, h)[t] + Differs(h, i)[t]
  <2>. DEFINE c == g.alive /\ ~h.alive
              d == h.alive /\ ~i.alive
              e == g.alive /\ ~i.alive
  <2>1. c \in BOOLEAN /\ d \in BOOLEAN /\ e \in BOOLEAN /\ (e => c \/ d)
    OBVIOUS
  <2>. HIDE DEF c, d, e
  <2>2. One(e) <= One(c) + One(d)
    BY <1>8, <2>1
  <2>3. QED BY <2>2, DiffersIs DEF c, d, e
<1>10. t = "hero_respawn" => Differs(g, i)[t] <= Differs(g, h)[t] + Differs(h, i)[t]
  <2>. DEFINE c == ~g.alive /\ h.alive
              d == ~h.alive /\ i.alive
              e == ~g.alive /\ i.alive
  <2>1. c \in BOOLEAN /\ d \in BOOLEAN /\ e \in BOOLEAN /\ (e => c \/ d)
    BY <1>1
  <2>. HIDE DEF c, d, e
  <2>2. One(e) <= One(c) + One(d)
    BY <1>8, <2>1
  <2>3. QED BY <2>2, DiffersIs DEF c, d, e
<1>11. t = "kill_counter" => Differs(g, i)[t] <= Differs(g, h)[t] + Differs(h, i)[t]
  BY <1>1, DiffersIs DEF One
<1>12. t = "ward_counter_changed" => Differs(g, i)[t] <= Differs(g, h)[t] + Differs(h, i)[t]
  BY <1>1, DiffersIs DEF One
<1>13. t = "roshan_state_changed" => Differs(g, i)[t] <= Differs(g, h)[t] + Differs(h, i)[t]
  BY DiffersIs DEF One
<1>14. t = "ward_purchase_started" => Differs(g, i)[t] <= Differs(g, h)[t] + Differs(h, i)[t]
  BY <1>1, DiffersIs DEF One
<1>15. t = "ward_purchase_cooldown_changed" =>
          Differs(g, i)[t] <= Differs(g, h)[t] + Differs(h, i)[t]
  BY <1>1, DiffersIs DEF One
<1>16. QED
  BY <1>6, <1>7, <1>9, <1>10, <1>11, <1>12, <1>13, <1>14, <1>15, CountedIs

LEMMA NothingDiffers ==
    ASSUME NEW g \in GameT, NEW t \in Counted PROVE Differs(g, g)[t] = 0
<1>1. \A b \in Building : g.health[b] \in Nat
  BY ConstantsAre DEF GameT
<1>2. g.kills \in Nat /\ g.wards \in Nat /\ g.cooldown \in {0, 1} /\ g.alive \in BOOLEAN
  BY DEF GameT
<1>3. Hit(g, g) = {} /\ Down(g, g) = {}
  BY <1>1 DEF Hit, Down
<1>4. Cardinality(Hit(g, g)) = 0 /\ Cardinality(Down(g, g)) = 0
  BY <1>3, FS_EmptySet
<1>5. QED BY <1>2, <1>4, DiffersIs, CountedIs DEF One

-----------------------------------------------------------------------------
(* What a tick tells of the game.                                          *)

\* Of the hero: no more than differs, and all of it if both ticks are whole.
HeroTells(hero, cur, prev, g, i, t) ==
    /\ Count(hero, t) \in Nat
    /\ IF t \in {"hero_death", "hero_respawn", "kill_counter", "ward_counter_changed"}
       THEN /\ Count(hero, t) <= Differs(g, i)[t]
            /\ Whole(prev, g) /\ Whole(cur, i) => Count(hero, t) = Differs(g, i)[t]
       ELSE Count(hero, t) = 0

LEMMA HeroCounts ==
    ASSUME NEW g \in GameT, NEW i \in GameT, NEW cur, NEW prev,
           Partial(prev, g), Partial(cur, i), NEW t \in Counted
    PROVE  \E hero : HeroOf(hero, cur, prev) /\ HeroTells(hero, cur, prev, g, i, t)
<1>1. Differs(g, i)[t] \in Nat
  BY DiffersTyped
<1>2. CASE cur.players = {} \/ prev.players = {}
  <2>1. Count(<<>>, t) = 0
    BY CountNone
  <2>2. ~(Whole(prev, g) /\ Whole(cur, i))
    BY <1>2 DEF Whole
  <2>3. QED BY <1>1, <1>2, <2>1, <2>2 DEF HeroOf, HeroTells
<1>3. CASE cur.players # {} /\ prev.players # {}
  <2>1. PICK p \in PlayerT : /\ prev.players = {p} /\ p.alive \subseteq {g.alive}
                             /\ p.kills \subseteq {g.kills} /\ p.wards \subseteq {g.wards}
    BY <1>3 DEF Partial
  <2>2. PICK c \in PlayerT : /\ cur.players = {c} /\ c.alive \subseteq {i.alive}
                             /\ c.kills \subseteq {i.kills} /\ c.wards \subseteq {i.wards}
    BY <1>3 DEF Partial
  <2>. DEFINE hero == DerivePlayer(c, p)
              dies == \E x \in p.alive, y \in c.alive : x /\ ~y
              lives == \E x \in p.alive, y \in c.alive : ~x /\ y
  <2>3. Count(hero, t) = One(dies /\ "hero_death" = t) + One(lives /\ "hero_respawn" = t)
                         + One(Rises(p.kills, c.kills) /\ "kill_counter" = t)
                         + One(Rises(p.wards, c.wards) /\ "ward_counter_changed" = t)
    BY PlayerCounts
  <2>4. hero \in Seq(EventT)
    BY PlayerTyped
  <2>5. Count(hero, t) \in Nat
    <3>. HIDE DEF hero
    <3>1. QED BY <2>4, CountTyped
  <2>6. /\ dies => g.alive /\ ~i.alive
        /\ lives => ~g.alive /\ i.alive
        /\ Rises(p.kills, c.kills) => i.kills > g.kills
        /\ Rises(p.wards, c.wards) => i.wards > g.wards
    BY <2>1, <2>2 DEF Rises
  <2>7. ASSUME Whole(prev, g), Whole(cur, i)
        PROVE  /\ dies <=> g.alive /\ ~i.alive
               /\ lives <=> ~g.alive /\ i.alive
               /\ Rises(p.kills, c.kills) <=> i.kills > g.kills
               /\ Rises(p.wards, c.wards) <=> i.wards > g.wards
    <3>1. /\ p.alive = {g.alive} /\ p.kills = {g.kills} /\ p.wards = {g.wards}
          /\ c.alive = {i.alive} /\ c.kills = {i.kills} /\ c.wards = {i.wards}
      BY <2>1, <2>2, <2>7 DEF Whole
    <3>2. QED BY <3>1 DEF Rises
  <2>. DEFINE more == Rises(p.kills, c.kills)
              placed == Rises(p.wards, c.wards)
              both == Whole(prev, g) /\ Whole(cur, i)
  <2>8. more \in BOOLEAN /\ placed \in BOOLEAN /\ dies \in BOOLEAN /\ lives \in BOOLEAN
        /\ both \in BOOLEAN
    BY DEF Rises, Whole
  <2>9. /\ both => (dies <=> g.alive /\ ~i.alive)
        /\ both => (lives <=> ~g.alive /\ i.alive)
        /\ both => (more <=> i.kills > g.kills)
        /\ both => (placed <=> i.wards > g.wards)
    BY <2>7
  <2>. HIDE DEF hero, dies, lives, more, placed, both
  <2>10. Count(hero, t) = One(dies /\ "hero_death" = t) + One(lives /\ "hero_respawn" = t)
                         + One(more /\ "kill_counter" = t)
                         + One(placed /\ "ward_counter_changed" = t)
    BY <2>3 DEF more, placed
  <2>11. IF t \in {"hero_death", "hero_respawn", "kill_counter", "ward_counter_changed"}
         THEN Count(hero, t) <= Differs(g, i)[t] /\ (both => Count(hero, t) = Differs(g, i)[t])
         ELSE Count(hero, t) = 0
    <3>1. g.alive \in BOOLEAN /\ i.alive \in BOOLEAN
      BY DEF GameT
    <3>2. CASE t = "hero_death"
      <4>1. Count(hero, t) = One(dies)
        BY <2>10, <3>2 DEF One
      <4>2. Differs(g, i)[t] = One(g.alive /\ ~i.alive)
        BY <3>2, DiffersIs
      <4>3. QED BY <2>6, <2>9, <3>2, <4>1, <4>2 DEF One
    <3>3. CASE t = "hero_respawn"
      <4>1. Count(hero, t) = One(lives)
        BY <2>10, <3>3 DEF One
      <4>2. Differs(g, i)[t] = One(~g.alive /\ i.alive)
        BY <3>3, DiffersIs
      <4>3. QED BY <2>6, <2>9, <3>3, <4>1, <4>2 DEF One
    <3>4. CASE t = "kill_counter"
      <4>1. Count(hero, t) = One(more)
        BY <2>10, <3>4 DEF One
      <4>2. Differs(g, i)[t] = One(i.kills > g.kills)
        BY <3>4, DiffersIs
      <4>3. QED BY <2>6, <2>9, <3>4, <4>1, <4>2 DEF One, more
    <3>5. CASE t = "ward_counter_changed"
      <4>1. Count(hero, t) = One(placed)
        BY <2>10, <3>5 DEF One
      <4>2. Differs(g, i)[t] = One(i.wards > g.wards)
        BY <3>5, DiffersIs
      <4>3. QED BY <2>6, <2>9, <3>5, <4>1, <4>2 DEF One, placed
    <3>6. CASE t \notin {"hero_death", "hero_respawn", "kill_counter", "ward_counter_changed"}
      BY <2>10, <3>6 DEF One
    <3>7. QED BY <3>2, <3>3, <3>4, <3>5, <3>6
  <2>12. \E x, y \in PlayerT : cur.players = {x} /\ prev.players = {y} /\ hero = DerivePlayer(x, y)
    BY <2>1, <2>2 DEF hero
  <2>13. QED BY <2>5, <2>11, <2>12 DEF both, HeroOf, HeroTells
<1>4. QED BY <1>2, <1>3

\* Of the buildings.
LEMMA BuildingsTell ==
    ASSUME NEW g \in GameT, NEW i \in GameT, NEW cur, NEW prev,
           Partial(prev, g), Partial(cur, i), NEW t \in Counted, NEW n,
           n = Count(DeriveBuildings(cur.buildings, prev.buildings, cur.running), t)
    PROVE  /\ n \in Nat
           /\ t = "building_health_loss" => n <= Differs(g, i)[t]
           /\ t = "building_destroyed" /\ (cur.running => Standing(cur, i))
                 => n <= Differs(g, i)[t]
           /\ t = "building_destroyed" /\ Whole(prev, g) /\ Whole(cur, i)
              /\ (i.running \/ i.health = g.health)
                 => n = Differs(g, i)[t]
           /\ t \notin {"building_health_loss", "building_destroyed"} => n = 0
<1>. DEFINE was == prev.buildings
            is == cur.buildings
            lost == LostOf(is, was)
            fell == FellOf(is, was)
            gone == GoneOf(is, was, cur.running)
<1>1. cur.running \in BOOLEAN /\ DOMAIN is \subseteq Building /\ DOMAIN was \subseteq Building
  <2>1. cur \in TickT /\ prev \in TickT
    BY DEF Partial
  <2>2. \A f \in UNION {[D -> SUBSET (0 .. MaxHealth)] : D \in SUBSET Building} :
           DOMAIN f \subseteq Building
    OBVIOUS
  <2>3. QED BY <2>1, <2>2 DEF TickT
<1>2. /\ DeriveBuildings(is, was, cur.running) \in Seq(EventT)
      /\ t = "building_health_loss" => n = Cardinality(lost)
      /\ t = "building_destroyed" => n = Cardinality(fell) + Cardinality(gone)
      /\ t \notin {"building_health_loss", "building_destroyed"} => n = 0
  <2>1. PICK run \in BOOLEAN : run = cur.running
    BY <1>1
  <2>2. PICK x, y : x = is /\ y = was
    OBVIOUS
  <2>3. /\ DeriveBuildings(x, y, run) \in Seq(EventT)
        /\ t = "building_health_loss" =>
              Count(DeriveBuildings(x, y, run), t) = Cardinality(LostOf(x, y))
        /\ t = "building_destroyed" =>
              Count(DeriveBuildings(x, y, run), t) =
                 Cardinality(FellOf(x, y))
                 + Cardinality(GoneOf(x, y, run))
        /\ t \notin {"building_health_loss", "building_destroyed"} =>
              Count(DeriveBuildings(x, y, run), t) = 0
    <3>1. DeriveBuildings(x, y, run) \in Seq(EventT)
      BY BuildingsCount
    <3>2. t = "building_health_loss" =>
             Count(DeriveBuildings(x, y, run), t) = Cardinality(LostOf(x, y))
      BY BuildingsCount
    <3>3. t = "building_destroyed" =>
             Count(DeriveBuildings(x, y, run), t) =
                Cardinality(FellOf(x, y))
                + Cardinality(GoneOf(x, y, run))
      BY BuildingsCount
    <3>4. t \notin {"building_health_loss", "building_destroyed"} =>
             Count(DeriveBuildings(x, y, run), t) = 0
      BY BuildingsCount
    <3>5. QED BY <3>1, <3>2, <3>3, <3>4
  <2>4. n = Count(DeriveBuildings(x, y, run), t)
    BY <2>1, <2>2
  <2>5. QED BY <2>1, <2>2, <2>3, <2>4
<1>3. n \in Nat
  BY <1>2, CountTyped
<1>4. /\ \A b \in DOMAIN was : was[b] \subseteq {g.health[b]}
      /\ \A b \in DOMAIN is : is[b] \subseteq {i.health[b]}
  BY DEF Partial
<1>5. \A b \in Building : g.health[b] \in Nat /\ i.health[b] \in Nat
  BY ConstantsAre DEF GameT
<1>6. IsFiniteSet(fell) /\ IsFiniteSet(gone) /\ IsFiniteSet(lost)
  BY ConstantsAre, FS_Subset DEF LostOf, FellOf, GoneOf
<1>7. lost \subseteq Hit(g, i)
  BY <1>4 DEF Lost, LostOf, Both, Hit
<1>8. fell \subseteq Down(g, i)
  BY <1>4 DEF Fell, FellOf, Both, Hit, Down
<1>9. ASSUME cur.running => Standing(cur, i) PROVE gone \subseteq Down(g, i)
  BY <1>4, <1>9 DEF Vanished, GoneOf, Hit, Down, Standing
<1>10. fell \cap gone = {}
  BY DEF Fell, FellOf, GoneOf, Both, Vanished
<1>. DEFINE away == fell \cup gone
<1>11. IsFiniteSet(away) /\ Cardinality(away) = Cardinality(fell) + Cardinality(gone)
  <2>1. /\ IsFiniteSet(fell \cup gone)
        /\ Cardinality(fell \cup gone) =
              Cardinality(fell) + Cardinality(gone) - Cardinality(fell \cap gone)
    BY <1>6, FS_Union
  <2>2. Cardinality(fell \cap gone) = 0
    BY <1>10, FS_EmptySet
  <2>3. Cardinality(fell) \in Nat /\ Cardinality(gone) \in Nat
    BY <1>6, FS_CardinalityType
  <2>4. QED BY <2>1, <2>2, <2>3
<1>12. ASSUME Whole(prev, g), Whole(cur, i), i.running \/ i.health = g.health
       PROVE  away = Down(g, i)
  <2>1. Standing(cur, i) /\ Standing(prev, g) /\ cur.running = i.running
        /\ (\A b \in DOMAIN was : was[b] = {g.health[b]})
        /\ (\A b \in DOMAIN is : is[b] = {i.health[b]})
    BY <1>12 DEF Whole
  <2>2. fell \subseteq Down(g, i) /\ gone \subseteq Down(g, i)
    BY <1>8, <1>9, <2>1
  <2>3. ASSUME NEW b \in Down(g, i) PROVE b \in away
    <3>1. b \in Building /\ i.health[b] < g.health[b] /\ i.health[b] = 0
      BY DEF Down, Hit
    <3>2. g.health[b] > 0 /\ i.health # g.health
      BY <1>5, <3>1
    <3>3. b \in DOMAIN was /\ was[b] = {g.health[b]}
      BY <2>1, <3>1, <3>2 DEF Standing
    <3>4. cur.running
      BY <1>12, <2>1, <3>2
    <3>5. CASE b \in DOMAIN is
      <4>1. is[b] = {0}
        BY <2>1, <3>1, <3>5
      <4>2. Fell(b, is, was)
        BY <3>2, <3>3, <3>5, <4>1 DEF Fell, Both
      <4>3. QED BY <3>1, <4>2 DEF FellOf
    <3>6. CASE b \notin DOMAIN is
      <4>1. Vanished(b, is, was)
        BY <3>2, <3>3, <3>6 DEF Vanished
      <4>2. QED BY <3>1, <3>4, <4>1 DEF GoneOf
    <3>7. QED BY <3>5, <3>6
  <2>. HIDE DEF fell, gone
  <2>4. QED BY <2>2, <2>3
<1>. HIDE DEF lost, fell, gone
<1>13. t = "building_health_loss" => n <= Differs(g, i)[t]
  <2>1. Cardinality(lost) <= Cardinality(Hit(g, i))
    BY <1>7, HitsFinite, FS_Subset
  <2>2. QED BY <1>2, <2>1, DiffersIs
<1>14. ASSUME t = "building_destroyed", cur.running => Standing(cur, i)
       PROVE  n <= Differs(g, i)[t]
  <2>1. away \subseteq Down(g, i)
    BY <1>8, <1>9, <1>14
  <2>. HIDE DEF away
  <2>2. Cardinality(away) <= Cardinality(Down(g, i))
    BY <2>1, HitsFinite, FS_Subset
  <2>3. Differs(g, i)[t] = Cardinality(Down(g, i)) /\ n = Cardinality(away)
    BY <1>2, <1>11, <1>14, DiffersIs
  <2>4. QED BY <2>2, <2>3
<1>15. ASSUME t = "building_destroyed", Whole(prev, g), Whole(cur, i),
              i.running \/ i.health = g.health
       PROVE  n = Differs(g, i)[t]
  <2>1. Differs(g, i)[t] = Cardinality(Down(g, i)) /\ n = Cardinality(away)
    <3>. HIDE DEF away
    <3>1. QED BY <1>2, <1>11, <1>15, DiffersIs
  <2>2. QED BY <1>12, <1>15, <2>1
<1>16. QED BY <1>2, <1>3, <1>13, <1>14, <1>15

\* What a tick tells is at most how the game differs, if no building is taken to
\* be lost that is only left out; and all of it, if all is shown.
LEMMA TickTells ==
    ASSUME NEW g \in GameT, NEW i \in GameT, NEW cur, NEW prev,
           Partial(prev, g), Partial(cur, i), NEW t \in Counted
    PROVE  /\ Count(Derive(cur, prev), t) \in Nat
           /\ (t = "building_destroyed" => (cur.running => Standing(cur, i)))
                 => Count(Derive(cur, prev), t) <= Differs(g, i)[t]
           /\ t # "building_health_loss" /\ Whole(prev, g) /\ Whole(cur, i)
              /\ (i.running \/ i.health = g.health)
                 => Count(Derive(cur, prev), t) = Differs(g, i)[t]
<1>. DEFINE n == Count(DeriveBuildings(cur.buildings, prev.buildings, cur.running), t)
            all == Count(Derive(cur, prev), t)
            Shown == Whole(prev, g) /\ Whole(cur, i)
            changes == \E p \in prev.roshan, c \in cur.roshan : p # c
            begins == \E p \in prev.cooldown, c \in cur.cooldown : p = 0 /\ c > 0
            done == \E p \in prev.cooldown, c \in cur.cooldown : p > 0 /\ c = 0
            HeroTypes == {"hero_death", "hero_respawn", "kill_counter", "ward_counter_changed"}
            BuildingTypes == {"building_health_loss", "building_destroyed"}
<1>1. cur \in TickT /\ prev \in TickT
  BY DEF Partial
<1>2. PICK hero : HeroOf(hero, cur, prev) /\ HeroTells(hero, cur, prev, g, i, t)
  BY HeroCounts
<1>3. all = One(changes /\ "roshan_state_changed" = t) + n
            + One(begins /\ "ward_purchase_started" = t)
            + One(done /\ "ward_purchase_cooldown_changed" = t) + Count(hero, t)
  BY <1>1, <1>2, DeriveCounts
<1>4. /\ n \in Nat
      /\ t = "building_health_loss" => n <= Differs(g, i)[t]
      /\ t = "building_destroyed" /\ (cur.running => Standing(cur, i)) => n <= Differs(g, i)[t]
      /\ t = "building_destroyed" /\ Shown /\ (i.running \/ i.health = g.health)
            => n = Differs(g, i)[t]
      /\ t \notin BuildingTypes => n = 0
  BY BuildingsTell
<1>5. PICK h \in Nat : h = Count(hero, t)
  BY <1>2 DEF HeroTells
<1>6. Differs(g, i)[t] \in Nat
  BY DiffersTyped
<1>7. /\ prev.roshan \subseteq {g.roshan} /\ cur.roshan \subseteq {i.roshan}
      /\ prev.cooldown \subseteq {g.cooldown} /\ cur.cooldown \subseteq {i.cooldown}
  BY DEF Partial
<1>8. Shown => /\ prev.roshan = {g.roshan} /\ cur.roshan = {i.roshan}
              /\ prev.cooldown = {g.cooldown} /\ cur.cooldown = {i.cooldown}
  BY DEF Whole
<1>9. /\ changes => g.roshan # i.roshan
      /\ begins => g.cooldown = 0 /\ i.cooldown > 0
      /\ done => g.cooldown > 0 /\ i.cooldown = 0
  BY <1>7
<1>10. Shown => /\ (changes <=> g.roshan # i.roshan)
               /\ (begins <=> g.cooldown = 0 /\ i.cooldown > 0)
               /\ (done <=> g.cooldown > 0 /\ i.cooldown = 0)
  BY <1>8
<1>11. changes \in BOOLEAN /\ begins \in BOOLEAN /\ done \in BOOLEAN
  OBVIOUS
<1>12. Shown \in BOOLEAN
  BY DEF Whole
<1>. HIDE DEF n, all, Shown, changes, begins, done
<1>13. all \in Nat
  BY <1>3, <1>4, <1>5 DEF One
<1>14. ASSUME t \in HeroTypes PROVE all = h
  BY <1>3, <1>4, <1>5, <1>14 DEF One
<1>15. ASSUME t \in BuildingTypes PROVE all = n
  BY <1>2, <1>3, <1>4, <1>5, <1>15 DEF One, HeroTells
<1>16. CASE t \in HeroTypes
  BY <1>2, <1>5, <1>13, <1>14, <1>16 DEF all, Shown, HeroTells
<1>17. CASE t \in BuildingTypes
  BY <1>4, <1>13, <1>15, <1>17 DEF all, Shown
<1>18. CASE t = "roshan_state_changed"
  <2>1. all = One(changes)
    BY <1>2, <1>3, <1>4, <1>18 DEF One, HeroTells
  <2>2. Differs(g, i)[t] = One(g.roshan # i.roshan)
    BY <1>18, DiffersIs
  <2>3. all <= Differs(g, i)[t] /\ (Shown => all = Differs(g, i)[t])
    BY <1>9, <1>10, <1>11, <2>1, <2>2 DEF One
  <2>4. QED BY <1>13, <2>3 DEF all, Shown
<1>19. CASE t = "ward_purchase_started"
  <2>1. all = One(begins)
    BY <1>2, <1>3, <1>4, <1>19 DEF One, HeroTells
  <2>2. Differs(g, i)[t] = One(g.cooldown = 0 /\ i.cooldown > 0)
    BY <1>19, DiffersIs
  <2>3. all <= Differs(g, i)[t] /\ (Shown => all = Differs(g, i)[t])
    BY <1>9, <1>10, <1>11, <2>1, <2>2 DEF One
  <2>4. QED BY <1>13, <2>3 DEF all, Shown
<1>20. CASE t = "ward_purchase_cooldown_changed"
  <2>1. all = One(done)
    BY <1>2, <1>3, <1>4, <1>20 DEF One, HeroTells
  <2>2. Differs(g, i)[t] = One(g.cooldown > 0 /\ i.cooldown = 0)
    BY <1>20, DiffersIs
  <2>3. all <= Differs(g, i)[t] /\ (Shown => all = Differs(g, i)[t])
    BY <1>9, <1>10, <1>11, <2>1, <2>2 DEF One
  <2>4. QED BY <1>13, <2>3 DEF all, Shown
<1>21. t \in HeroTypes \/ t \in BuildingTypes \/ t = "roshan_state_changed"
       \/ t = "ward_purchase_started" \/ t = "ward_purchase_cooldown_changed"
  BY CountedIs
<1>22. QED BY <1>16, <1>17, <1>18, <1>19, <1>20, <1>21

\* What the game does between two ticks, counted.
CountedBy(f, counts, course, N) ==
    /\ f[0] = counts
    /\ \A n \in 1 .. N : f[n] = Plus(f[n - 1], Happened(course[n], course[n + 1]))
    /\ Counting(counts, course) = f[N]

LEMMA CountingBy ==
    ASSUME NEW counts, NEW course, NEW N \in Nat, Len(course) - 1 = N
    PROVE  \E f : CountedBy(f, counts, course, N)
  BY CountingIs DEF CountedBy

LEMMA NoneCounted ==
    ASSUME NEW counts, NEW course, Len(course) = 1
    PROVE  Counting(counts, course) = counts
<1>1. Len(course) - 1 = 0 /\ 0 \in Nat
  OBVIOUS
<1>2. PICK f : CountedBy(f, counts, course, 0)
  BY <1>1, CountingBy
<1>3. QED BY <1>2 DEF CountedBy

LEMMA OneCounted ==
    ASSUME NEW counts, NEW g, NEW h, NEW course,
           Len(course) = 2, course[1] = g, course[2] = h
    PROVE  Counting(counts, course) = Plus(counts, Happened(g, h))
<1>1. Len(course) - 1 = 1 /\ 1 \in Nat
  OBVIOUS
<1>2. PICK f : CountedBy(f, counts, course, 1)
  BY <1>1, CountingBy
<1>3. 1 \in 1 .. 1 /\ 1 - 1 = 0 /\ 1 + 1 = 2
  OBVIOUS
<1>4. f[1] = Plus(f[1 - 1], Happened(course[1], course[1 + 1]))
  BY <1>2, <1>3 DEF CountedBy
<1>5. f[0] = counts /\ Counting(counts, course) = f[1]
  BY <1>2 DEF CountedBy
<1>6. QED BY <1>3, <1>4, <1>5

LEMMA TwoCounted ==
    ASSUME NEW counts, NEW g, NEW h, NEW i, NEW course,
           Len(course) = 3, course[1] = g, course[2] = h, course[3] = i
    PROVE  Counting(counts, course) = Plus(Plus(counts, Happened(g, h)), Happened(h, i))
<1>1. Len(course) - 1 = 2 /\ 2 \in Nat
  OBVIOUS
<1>2. PICK f : CountedBy(f, counts, course, 2)
  BY <1>1, CountingBy
<1>3. 1 \in 1 .. 2 /\ 2 \in 1 .. 2 /\ 1 - 1 = 0 /\ 1 + 1 = 2 /\ 2 - 1 = 1 /\ 2 + 1 = 3
  OBVIOUS
<1>4. /\ f[1] = Plus(f[1 - 1], Happened(course[1], course[1 + 1]))
      /\ f[2] = Plus(f[2 - 1], Happened(course[2], course[2 + 1]))
  BY <1>2, <1>3 DEF CountedBy
<1>5. f[0] = counts /\ Counting(counts, course) = f[2]
  BY <1>2 DEF CountedBy
<1>6. QED BY <1>3, <1>4, <1>5

LEMMA FollowingRuns ==
    ASSUME NEW g \in GameT, NEW h \in Following(g)
    PROVE  h.running \/ h.health = g.health
<1>1. h = NewGame(g.match + 1) => h.running
  BY DEF NewGame
<1>2. h = [g EXCEPT !.running = FALSE] => h.health = g.health
  BY DEF GameT
<1>3. ASSUME g.running, h \in Changed(g) PROVE h.running
  <2>. DEFINE one == {[g EXCEPT !.kills = @ + 1], [g EXCEPT !.wards = @ + 1],
                      [g EXCEPT !.alive = ~@], [g EXCEPT !.cooldown = 1 - @],
                      [g EXCEPT !.roshan = IF @ = "alive" THEN "respawning" ELSE "alive"]}
              hits == {[g EXCEPT !.health[b] = @ - 1] : b \in {x \in Building : g.health[x] > 0}}
              takes == {[g EXCEPT !.items[s] = IF @ = Empty THEN x ELSE Empty] :
                           s \in Slot, x \in Item}
              swaps == {[g EXCEPT !.items = Swapped(g.items, s, t)] :
                           s \in Slot, t \in Slot}
  <2>1. h \in one \cup hits \cup takes \cup swaps
    <3>1. Changed(g) = one \cup hits \cup takes \cup swaps
      BY DEF Changed
    <3>. HIDE DEF one, hits, takes, swaps
    <3>2. QED BY <1>3, <3>1
  <2>2. h \in one => h.running
    BY <1>3 DEF GameT
  <2>3. h \in hits => h.running
    BY <1>3 DEF GameT
  <2>4. h \in takes => h.running
    BY <1>3 DEF GameT
  <2>5. h \in swaps => h.running
    BY <1>3 DEF GameT
  <2>. HIDE DEF one, hits, takes, swaps
  <2>6. QED BY <2>1, <2>2, <2>3, <2>4, <2>5
<1>4. QED BY <1>1, <1>2, <1>3 DEF Following

\* How often another match makes a difference that is no event of either.
Over(t, g, h) == IF t \in ByPlace THEN h.match - g.match ELSE 0

LEMMA SameMatch ==
    ASSUME NEW g \in GameT, NEW h \in Changed(g) \cup {[g EXCEPT !.running = FALSE]}
    PROVE  h.match = g.match
<1>. DEFINE one == {[g EXCEPT !.kills = @ + 1], [g EXCEPT !.wards = @ + 1],
                    [g EXCEPT !.alive = ~@], [g EXCEPT !.cooldown = 1 - @],
                    [g EXCEPT !.roshan = IF @ = "alive" THEN "respawning" ELSE "alive"]}
            hits == {[g EXCEPT !.health[b] = @ - 1] : b \in {x \in Building : g.health[x] > 0}}
            takes == {[g EXCEPT !.items[s] = IF @ = Empty THEN x ELSE Empty] :
                         s \in Slot, x \in Item}
            swaps == {[g EXCEPT !.items = Swapped(g.items, s, t)] :
                         s \in Slot, t \in Slot}
            ended == {[g EXCEPT !.running = FALSE]}
<1>1. h \in one \cup hits \cup takes \cup swaps \cup ended
  <2>1. Changed(g) = one \cup hits \cup takes \cup swaps
    BY DEF Changed
  <2>. HIDE DEF one, hits, takes, swaps
  <2>2. QED BY <2>1
<1>2. h \in one => h.match = g.match
  BY DEF GameT
<1>3. h \in hits => h.match = g.match
  BY DEF GameT
<1>4. h \in takes => h.match = g.match
  BY DEF GameT
<1>5. h \in swaps => h.match = g.match
  BY DEF GameT
<1>6. h \in ended => h.match = g.match
  BY DEF GameT
<1>. HIDE DEF one, hits, takes, swaps, ended
<1>7. QED BY <1>1, <1>2, <1>3, <1>4, <1>5, <1>6

\* In one match, all that differs happened.
LEMMA DiffersWithin ==
    ASSUME NEW g, NEW h, g.match = h.match, NEW t \in Counted
    PROVE  Happened(g, h)[t] = Differs(g, h)[t]
<1>. DEFINE hit == {b \in Building : g.match = h.match /\ h.health[b] < g.health[b]}
            down == {b \in hit : h.health[b] = 0}
            Is(c) == IF c /\ g.match = h.match THEN 1 ELSE 0
            H == Cardinality(Hit(g, h))
            D == Cardinality(Down(g, h))
<1>1. hit = Hit(g, h) /\ down = Down(g, h)
  BY DEF Hit, Down
<1>2. Happened(g, h)[t] =
        CASE t = "hero_death" -> Is(g.alive /\ ~h.alive)
          [] t = "hero_respawn" -> Is(~g.alive /\ h.alive)
          [] t = "kill_counter" -> Is(h.kills > g.kills)
          [] t = "ward_counter_changed" -> Is(h.wards > g.wards)
          [] t = "roshan_state_changed" -> Is(g.roshan # h.roshan)
          [] t = "ward_purchase_started" -> Is(g.cooldown = 0 /\ h.cooldown > 0)
          [] t = "ward_purchase_cooldown_changed" -> Is(g.cooldown > 0 /\ h.cooldown = 0)
          [] t = "building_health_loss" -> Cardinality(hit)
          [] OTHER -> Cardinality(down)
  BY DEF Happened
<1>3. \A c : Is(c) = One(c)
  BY DEF One
<1>4. Cardinality(hit) = H /\ Cardinality(down) = D
  BY <1>1
<1>. HIDE DEF hit, down, Is, H, D
<1>5. Happened(g, h)[t] =
        CASE t = "hero_death" -> One(g.alive /\ ~h.alive)
          [] t = "hero_respawn" -> One(~g.alive /\ h.alive)
          [] t = "kill_counter" -> One(h.kills > g.kills)
          [] t = "ward_counter_changed" -> One(h.wards > g.wards)
          [] t = "roshan_state_changed" -> One(g.roshan # h.roshan)
          [] t = "ward_purchase_started" -> One(g.cooldown = 0 /\ h.cooldown > 0)
          [] t = "ward_purchase_cooldown_changed" -> One(g.cooldown > 0 /\ h.cooldown = 0)
          [] t = "building_health_loss" -> H
          [] OTHER -> D
  BY <1>2, <1>3, <1>4
<1>6. QED BY <1>5, DiffersIs, CountedIs DEF H, D

\* Another match begins with everything standing, alive and at nought, so that
\* only three things differ that happened in no match.
LEMMA DiffersAnew ==
    ASSUME NEW g \in GameT, NEW h, h = NewGame(g.match + 1), NEW t \in Counted
    PROVE  Happened(g, h)[t] = 0 /\ Differs(g, h)[t] <= (IF t \in ByPlace THEN 1 ELSE 0)
<1>1. /\ h.match = g.match + 1 /\ h.alive = TRUE /\ h.kills = 0 /\ h.wards = 0
      /\ h.cooldown = 0 /\ h.health = [b \in Building |-> MaxHealth]
  BY DEF NewGame
<1>2. /\ g.match \in Nat /\ g.kills \in Nat /\ g.wards \in Nat
      /\ g.health \in [Building -> 0 .. MaxHealth] /\ MaxHealth \in Nat
  BY ConstantsAre DEF GameT
<1>3. Hit(g, h) = {} /\ Down(g, h) = {}
  BY <1>1, <1>2 DEF Hit, Down
<1>4. Cardinality(Hit(g, h)) = 0 /\ Cardinality(Down(g, h)) = 0
  BY <1>3, FS_EmptySet
<1>5. Differs(g, h)[t] <= (IF t \in ByPlace THEN 1 ELSE 0)
  BY <1>1, <1>2, <1>4, DiffersIs, CountedIs DEF One, ByPlace
<1>6. Happened(g, h)[t] = 0
  <2>1. g.match # h.match
    BY <1>1, <1>2
  <2>. DEFINE hit == {b \in Building : g.match = h.match /\ h.health[b] < g.health[b]}
              down == {b \in hit : h.health[b] = 0}
  <2>2. hit = {} /\ down = {}
    BY <2>1
  <2>3. Cardinality(hit) = 0 /\ Cardinality(down) = 0
    BY <2>2, FS_EmptySet
  <2>4. Happened(g, h)[t] = 0 \/ Happened(g, h)[t] = Cardinality(hit)
        \/ Happened(g, h)[t] = Cardinality(down)
    BY <2>1 DEF Happened
  <2>. HIDE DEF hit, down
  <2>5. QED BY <2>3, <2>4
<1>7. QED BY <1>5, <1>6

LEMMA FollowingTells ==
    ASSUME NEW g \in GameT, NEW h \in Following(g), NEW t \in Counted
    PROVE  /\ h.match \in Nat /\ g.match <= h.match
           /\ Happened(g, h)[t] <= Differs(g, h)[t]
           /\ Differs(g, h)[t] <= Happened(g, h)[t] + Over(t, g, h)
<1>1. g.match \in Nat /\ Happened(g, h)[t] \in Nat /\ Differs(g, h)[t] \in Nat
  BY HappenedTyped, DiffersTyped DEF GameT
<1>2. CASE h = NewGame(g.match + 1)
  <2>1. h.match = g.match + 1
    BY <1>2 DEF NewGame
  <2>2. QED BY <1>1, <1>2, <2>1, DiffersAnew DEF Over
<1>3. CASE h \in Changed(g) \cup {[g EXCEPT !.running = FALSE]}
  <2>1. h.match = g.match
    BY <1>3, SameMatch
  <2>2. Happened(g, h)[t] = Differs(g, h)[t]
    BY <2>1, DiffersWithin
  <2>3. QED BY <1>1, <2>1, <2>2 DEF Over
<1>4. QED BY <1>2, <1>3 DEF Following

\* The courses of the game: what a tick tells is at most what was counted, but
\* for what another match makes differ; and no less than what was counted, if
\* one thing happened at most and all is shown.
LEMMA CourseTells ==
    ASSUME NEW counts \in [Counted -> Nat], NEW g \in GameT, NEW course \in Courses(g)
    PROVE  /\ Last(course) \in GameT
           /\ \A t \in Counted :
                counts[t] + Differs(g, Last(course))[t]
                   <= Counting(counts, course)[t] + Over(t, g, Last(course))
           /\ ~(Len(course) - 1 > 1) =>
                /\ \A t \in Counted :
                     Counting(counts, course)[t] <= counts[t] + Differs(g, Last(course))[t]
                /\ Last(course).running \/ Last(course).health = g.health
<1>. DEFINE AtMost(t) == counts[t] + Differs(g, Last(course))[t]
                         <= Counting(counts, course)[t] + Over(t, g, Last(course))
            AtLeast(t) == Counting(counts, course)[t] <= counts[t] + Differs(g, Last(course))[t]
<1>1. Last(course) \in GameT
  BY CourseTyped
<1>2. \A t \in Counted : counts[t] \in Nat
  OBVIOUS
<1>3. ASSUME course = <<g>>
      PROVE  /\ \A t \in Counted : AtMost(t) /\ AtLeast(t)
             /\ Last(course).running \/ Last(course).health = g.health
  <2>1. Last(course) = g /\ Counting(counts, course) = counts
    <3>1. Last(course) = g /\ Len(course) = 1
      BY <1>3 DEF Last
    <3>2. QED BY <3>1, NoneCounted
  <2>2. \A t \in Counted : Differs(g, g)[t] = 0
    BY NothingDiffers
  <2>3. \A t \in Counted : Over(t, g, g) = 0
    BY DEF Over, GameT
  <2>4. QED BY <1>1, <1>2, <2>1, <2>2, <2>3
<1>4. ASSUME NEW h \in Following(g), course = <<g, h>>
      PROVE  /\ \A t \in Counted : AtMost(t) /\ AtLeast(t)
             /\ Last(course).running \/ Last(course).health = g.health
  <2>1. Last(course) = h /\ Counting(counts, course) = Plus(counts, Happened(g, h))
    <3>1. Last(course) = h /\ Len(course) = 2 /\ course[1] = g /\ course[2] = h
      BY <1>4 DEF Last
    <3>2. QED BY <3>1, OneCounted
  <2>2. ASSUME NEW t \in Counted PROVE AtMost(t) /\ AtLeast(t)
    <3>1. /\ h.match \in Nat /\ Happened(g, h)[t] <= Differs(g, h)[t]
          /\ Differs(g, h)[t] <= Happened(g, h)[t] + Over(t, g, h)
      BY FollowingTells
    <3>2. Happened(g, h)[t] \in Nat /\ Differs(g, h)[t] \in Nat /\ Over(t, g, h) \in Int
      BY <3>1, HappenedTyped, DiffersTyped DEF Over, GameT
    <3>3. Counting(counts, course)[t] = counts[t] + Happened(g, h)[t]
      BY <2>1 DEF Plus
    <3>4. QED BY <1>2, <2>1, <3>1, <3>2, <3>3
  <2>3. QED BY <2>1, <2>2, FollowingRuns
<1>5. ASSUME NEW h \in Following(g), NEW i \in Following(h), course = <<g, h, i>>
      PROVE  Len(course) - 1 > 1 /\ \A t \in Counted : AtMost(t)
  <2>1. /\ Last(course) = i /\ Len(course) - 1 > 1
        /\ Counting(counts, course) = Plus(Plus(counts, Happened(g, h)), Happened(h, i))
    <3>1. /\ Last(course) = i /\ Len(course) - 1 > 1
          /\ Len(course) = 3 /\ course[1] = g /\ course[2] = h /\ course[3] = i
      BY <1>5 DEF Last
    <3>2. QED BY <3>1, TwoCounted
  <2>2. h \in GameT
    BY FollowingTyped
  <2>3. i \in GameT
    BY <2>2, FollowingTyped
  <2>4. ASSUME NEW t \in Counted PROVE AtMost(t)
    <3>1. Differs(g, i)[t] <= Differs(g, h)[t] + Differs(h, i)[t]
      BY <2>2, <2>3, Triangle
    <3>2. /\ Differs(g, h)[t] <= Happened(g, h)[t] + Over(t, g, h)
          /\ Differs(h, i)[t] <= Happened(h, i)[t] + Over(t, h, i)
      BY <2>2, FollowingTells
    <3>3. /\ Differs(g, i)[t] \in Nat /\ Differs(g, h)[t] \in Nat /\ Differs(h, i)[t] \in Nat
          /\ Happened(g, h)[t] \in Nat /\ Happened(h, i)[t] \in Nat
      BY HappenedTyped, DiffersTyped
    <3>4. /\ Over(t, g, h) \in Int /\ Over(t, h, i) \in Int
          /\ Over(t, g, i) = Over(t, g, h) + Over(t, h, i)
      <4>1. g.match \in Nat /\ h.match \in Nat /\ i.match \in Nat
        BY <2>2, <2>3 DEF GameT
      <4>2. QED BY <4>1 DEF Over
    <3>5. Counting(counts, course)[t] = counts[t] + Happened(g, h)[t] + Happened(h, i)[t]
      BY <2>1 DEF Plus
    <3>6. ASSUME NEW c \in Nat, NEW gi \in Nat, NEW gh \in Nat, NEW hi \in Nat,
                 NEW p \in Nat, NEW q \in Nat, NEW o \in Int, NEW r \in Int,
                 gi <= gh + hi, gh <= p + o, hi <= q + r
          PROVE  c + gi <= (c + p + q) + (o + r)
      BY <3>6
    <3>7. counts[t] + Differs(g, i)[t]
             <= (counts[t] + Happened(g, h)[t] + Happened(h, i)[t])
                + (Over(t, g, h) + Over(t, h, i))
      BY <1>2, <3>1, <3>2, <3>3, <3>4, <3>6
    <3>8. QED BY <2>1, <3>4, <3>5, <3>7
  <2>5. QED BY <2>1, <2>4
<1>6. QED
  <2>1. \/ course = <<g>>
        \/ \E h \in Following(g) : course = <<g, h>>
        \/ \E h \in Following(g) : \E i \in Following(h) : course = <<g, h, i>>
    BY DEF Courses
  <2>2. \A t \in Counted : AtMost(t)
    <3>. HIDE DEF AtMost, AtLeast
    <3>1. CASE course = <<g>>
      BY <1>3, <3>1
    <3>2. QED BY <1>4, <1>5, <2>1, <3>1
  <2>3. ~(Len(course) - 1 > 1) =>
           /\ \A t \in Counted : AtLeast(t)
           /\ Last(course).running \/ Last(course).health = g.health
    <3>. HIDE DEF AtMost, AtLeast
    <3>1. CASE course = <<g>>
      BY <1>3, <3>1
    <3>2. QED BY <1>4, <1>5, <2>1, <3>1
  <2>4. QED BY <1>1, <2>2, <2>3

-----------------------------------------------------------------------------
(* The invariant of the counts.                                            *)

\* Replaying the list turns the slots of prev into those of cur.
Replays(now, cur, prev) ==
    LET Brought(s) == {i \in DOMAIN now : /\ now[i].key = s
                                          /\ now[i].type \in ItemTypes \ {"item_slot_changed"}}
    IN /\ \A s \in Slot :
             IF Brought(s) = {} THEN RealName(cur, s) = RealName(prev, s)
             ELSE \E i \in Brought(s) : /\ Brought(s) = {i}
                                        /\ RealName(cur, s) = {now[i].item} \ {Nothing}
       /\ \A i \in DOMAIN now : now[i].type = "item_slot_changed" =>
             /\ RealName(prev, now[i].from) = {now[i].item}
             /\ RealName(cur, now[i].key) = {now[i].item}

\* The last list turns the last tick but one into the last.
LastReplays(ticks, lists) ==
    Len(ticks) < 2 \/
    \A p \in ticks[Len(ticks) - 1].players, c \in ticks[Len(ticks)].players :
       Replays(lists[Len(ticks)], c.items, p.items)

LEMMA LastReplaysIs == LastReplays(raw, derived) => ItemsReplayed
<1>1. SUFFICES ASSUME LastReplays(raw, derived), Len(raw) >= 2 PROVE ItemsReplayed
  BY DEF ItemsReplayed
<1>2. ASSUME NEW prev \in {p.items : p \in raw[Len(raw) - 1].players},
             NEW cur \in {p.items : p \in raw[Len(raw)].players}
      PROVE  Replays(derived[Len(raw)], cur, prev)
  BY <1>1 DEF LastReplays
<1>3. QED BY <1>2 DEF ItemsReplayed, Replays

\* The last tick is of the game as it is.
Sees ==
    /\ raw # <<>> => Partial(raw[Len(raw)], game)
    /\ raw # <<>> /\ blind = {} => Whole(raw[Len(raw)], game)

Told == Sees /\ ChangesReconcile /\ LastReplays(raw, derived)

LEMMA InitTold == Init => Told
<1>1. SUFFICES ASSUME Init PROVE Told
  OBVIOUS
<1>2. raw = <<>> /\ engine = NewEngine /\ truth = [t \in Counted |-> 0] /\ game.match = 0
  BY <1>1 DEF Init, NewGame
<1>3. Sees
  BY <1>2 DEF Sees
<1>4. \A t \in Counted : engine.counts[t] = 0 /\ truth[t] = 0
  BY <1>2 DEF NewEngine, EventTypes
<1>5. ChangesReconcile
  BY <1>2, <1>4 DEF ChangesReconcile, Misread
<1>6. LastReplays(raw, derived)
  BY <1>2 DEF LastReplays
<1>7. QED BY <1>3, <1>5, <1>6 DEF Told

\* The counts grow by what the tick tells.
LEMMA TickCounts ==
    ASSUME Inv, NEW tick \in TickT, engine' = Observe(engine, tick), NEW t \in Counted
    PROVE  /\ engine.counts[t] \in Nat /\ Count(DerivedBy(engine, tick), t) \in Nat
           /\ engine'.counts[t] = engine.counts[t] + Count(DerivedBy(engine, tick), t)
<1>. DEFINE all == Reported(Len(raw))
            list == DerivedBy(engine, tick)
            e == Observe(engine, tick)
<1>1. derived \in Seq(Seq(EventT)) /\ Len(derived) = Len(raw) /\ Shows(engine, all)
  BY DEF Inv, Types, Live
<1>2. all \in Seq(EventT)
  BY <1>1, ReportedTyped
<1>3. list \in Seq(EventT)
  BY <1>1, DerivedTyped DEF Shows
<1>4. t \in EventTypes
  BY DEF EventTypes
<1>. HIDE DEF all
<1>5. Shows(e, all \o list)
  BY <1>1, <1>2, ObserveShows
<1>. HIDE DEF list, e
<1>6. engine.counts[t] = Count(all, t) /\ e.counts[t] = Count(all \o list, t)
  BY <1>1, <1>4, <1>5 DEF Shows, Windows, Count
<1>7. Count(all \o list, t) = Count(all, t) + Count(list, t)
  BY <1>2, <1>3, CountConcat
<1>8. Count(all, t) \in Nat /\ Count(list, t) \in Nat
  BY <1>2, <1>3, CountTyped
<1>9. QED BY <1>6, <1>7, <1>8 DEF list, e

\* Where one event says what a slot has, one index is of an event about it.
LEMMA SaysReplays ==
    ASSUME NEW now, NEW cur, NEW prev, Says(now, cur, prev)
    PROVE  Replays(now, cur, prev)
<1>1. now \in Seq(TrueMoves(cur, prev))
  BY DEF Says
<1>2. \A i \in DOMAIN now : now[i] \in TrueMoves(cur, prev)
  <2>. HIDE DEF TrueMoves
  <2>1. QED BY <1>1
<1>3. \A i \in DOMAIN now : now[i] \in EventT
  BY <1>2 DEF TrueMoves
<1>4. \A i \in DOMAIN now : now[i].type = "item_slot_changed" =>
                 /\ RealName(prev, now[i].from) = {now[i].item}
                 /\ RealName(cur, now[i].key) = {now[i].item}
  BY <1>2 DEF TrueMoves
<1>. DEFINE Brought(s) == {i \in DOMAIN now : /\ now[i].key = s
                                              /\ now[i].type \in ItemTypes \ {"item_slot_changed"}}
<1>5. ASSUME NEW s \in Slot
      PROVE  IF Brought(s) = {} THEN RealName(cur, s) = RealName(prev, s)
             ELSE \E i \in Brought(s) : /\ Brought(s) = {i}
                                        /\ RealName(cur, s) = {now[i].item} \ {Nothing}
  <2>. DEFINE brought == Brought(s)
  <2>1. \A i : i \in brought <=> i \in DOMAIN now /\ now[i] \in Brings(s)
    BY <1>3 DEF Brings
  <2>. HIDE DEF Brought
  <2>2. CASE RealName(cur, s) = RealName(prev, s) /\ now \in Seq(EventT \ Brings(s))
    <3>1. \A i \in DOMAIN now : now[i] \notin Brings(s)
      BY <2>2
    <3>2. brought = {}
      <4>. HIDE DEF brought
      <4>1. QED BY <2>1, <3>1
    <3>3. QED BY <2>2, <3>2
  <2>3. ASSUME NEW ev \in Brings(s), RealName(cur, s) = {ev.item} \ {Nothing},
               Once(now, Brings(s), ev)
        PROVE  \E i \in brought : /\ brought = {i}
                                  /\ RealName(cur, s) = {now[i].item} \ {Nothing}
    <3>1. ev \in Brings(s) \cap EventT
      BY DEF Brings
    <3>2. PICK i \in DOMAIN now :
             now[i] = ev /\ \A j \in DOMAIN now : now[j] \in Brings(s) => j = i
      BY <2>3, <3>1, OnceIs
    <3>3. brought = {i}
      <4>. HIDE DEF brought
      <4>1. QED BY <2>1, <3>1, <3>2
    <3>4. QED BY <2>3, <3>2, <3>3
  <2>4. QED BY <2>2, <2>3 DEF Says
<1>6. QED BY <1>4, <1>5 DEF Replays

\* One more tick, of the game as it is now.
LEMMA TickTold ==
    ASSUME Inv, Told,
           NEW course \in IF raw = <<>> THEN {<<game>>} ELSE Courses(game),
           NEW hidden, NEW gone \in SUBSET {b \in Building : Last(course).health[b] = 0},
           NEW fails, Tick(course, hidden, gone, fails)
    PROVE  Told'
<1>. DEFINE i == Last(course)
            tick == View(i, hidden, gone)
            list == DerivedBy(engine, tick)
<1>1. /\ game' = i /\ truth' = Counting(truth, course)
      /\ blind \subseteq blind' /\ hidden \subseteq blind'
      /\ Len(course) - 1 > 1 => "rushed" \in blind'
      /\ tick.running /\ "buildings" \in hidden => "lost" \in blind'
      /\ raw' = Append(raw, tick) /\ derived' = Append(derived, list)
      /\ engine' = Observe(engine, tick)
  BY DEF Tick
<1>2. /\ game \in GameT /\ raw \in Seq(TickT) /\ derived \in Seq(Seq(EventT))
      /\ Len(derived) = Len(raw) /\ truth \in [Counted -> Nat]
      /\ engine.prev = IF raw = <<>> THEN {} ELSE {raw[Len(raw)]}
      /\ engine \in EngineT
  BY DEF Inv, Types, Live, Shows
<1>3. course \in Courses(game)
  BY DEF Courses
<1>4. /\ i \in GameT
      /\ \A t \in Counted :
           truth[t] + Differs(game, i)[t] <= Counting(truth, course)[t] + Over(t, game, i)
      /\ ~(Len(course) - 1 > 1) =>
           /\ \A t \in Counted :
                Counting(truth, course)[t] <= truth[t] + Differs(game, i)[t]
           /\ i.running \/ i.health = game.health
  BY <1>2, <1>3, CourseTells
<1>5. tick \in TickT
  BY <1>4, ViewTyped
<1>6. /\ Partial(tick, i) /\ (hidden = {} => Whole(tick, i))
      /\ "buildings" \notin hidden => Standing(tick, i)
  BY <1>4, ViewIs
<1>7. list \in Seq(EventT)
  BY <1>2, <1>5, DerivedTyped
<1>8. /\ raw' # <<>> /\ Len(raw') = Len(raw) + 1 /\ Len(raw) \in Nat
      /\ raw'[Len(raw) + 1] = tick /\ derived'[Len(raw) + 1] = list
      /\ raw # <<>> => raw'[Len(raw)] = raw[Len(raw)]
  <2>. HIDE DEF tick, list
  <2>1. QED BY <1>1, <1>2, <1>5, <1>7
<1>9. blind' = {} => blind = {} /\ hidden = {} /\ ~(Len(course) - 1 > 1)
  BY <1>1
<1>10. \A t \in Counted : /\ engine.counts[t] \in Nat /\ Count(list, t) \in Nat
                          /\ engine'.counts[t] = engine.counts[t] + Count(list, t)
  BY <1>1, <1>5, TickCounts
<1>11. /\ \A t \in Counted : truth[t] \in Nat /\ Differs(game, i)[t] \in Nat
       /\ \A t \in Counted : Counting(truth, course)[t] \in Nat
  <2>1. Len(course) - 1 \in Nat
    BY <1>2, <1>3, CourseTyped
  <2>2. QED BY <1>2, <2>1, DiffersTyped, CountingTyped
<1>. HIDE DEF i, tick, list
<1>12. Sees'
  <2>1. raw'[Len(raw')] = tick /\ game' = i
    BY <1>1, <1>8
  <2>2. Partial(raw'[Len(raw')], game') /\ (blind' = {} => Whole(raw'[Len(raw')], game'))
    BY <1>6, <1>9, <2>1
  <2>3. QED BY <2>2 DEF Sees
<1>13. /\ \A t \in Counted : (t = "building_destroyed" /\ "lost" \in blind')
                              \/ Count(list, t) <= Differs(game, i)[t]
       /\ blind' = {} => \A t \in Counted \ {"building_health_loss"} :
                              Count(list, t) = Differs(game, i)[t]
       /\ LastReplays(raw', derived')
  <2>1. CASE raw = <<>>
    <3>1. list = <<>> /\ course = <<game>>
      BY <1>2, <2>1 DEF list, DerivedBy
    <3>2. i = game
      BY <3>1 DEF i, Last
    <3>3. \A t \in Counted : Count(list, t) = 0 /\ Differs(game, i)[t] = 0
      BY <1>2, <3>1, <3>2, CountNone, NothingDiffers
    <3>4. Len(raw') = 1
      BY <1>8, <2>1
    <3>5. LastReplays(raw', derived')
      BY <3>4 DEF LastReplays
    <3>6. QED BY <3>3, <3>5
  <2>2. CASE raw # <<>>
    <3>. DEFINE prev == raw[Len(raw)]
    <3>1. list = Derive(tick, prev)
      <4>1. engine.prev = {prev} /\ (CHOOSE p \in {prev} : TRUE) = prev
        BY <1>2, <2>2
      <4>2. QED BY <4>1 DEF list, DerivedBy
    <3>2. Partial(prev, game) /\ (blind = {} => Whole(prev, game))
      BY <2>2 DEF Told, Sees
    <3>. HIDE DEF prev
    <3>3. ASSUME NEW t \in Counted
          PROVE  /\ (t = "building_destroyed" => (tick.running => Standing(tick, i)))
                       => Count(list, t) <= Differs(game, i)[t]
                 /\ t # "building_health_loss" /\ Whole(prev, game) /\ Whole(tick, i)
                    /\ (i.running \/ i.health = game.health)
                       => Count(list, t) = Differs(game, i)[t]
      BY <1>2, <1>4, <1>6, <3>1, <3>2, TickTells
    <3>4. "lost" \notin blind' => (tick.running => Standing(tick, i))
      BY <1>1, <1>6
    <3>5. ASSUME NEW t \in Counted
          PROVE  (t = "building_destroyed" /\ "lost" \in blind')
                 \/ Count(list, t) <= Differs(game, i)[t]
      BY <3>3, <3>4
    <3>6. ASSUME blind' = {}, NEW t \in Counted \ {"building_health_loss"}
          PROVE  Count(list, t) = Differs(game, i)[t]
      BY <1>4, <1>6, <1>9, <3>2, <3>3, <3>6
    <3>7. LastReplays(raw', derived')
      <4>1. raw'[Len(raw')] = tick /\ raw'[Len(raw') - 1] = prev /\ derived'[Len(raw')] = list
        BY <1>8, <2>2 DEF prev
      <4>2. ASSUME NEW c \in tick.players, NEW p \in prev.players
            PROVE  Says(list, c.items, p.items)
        <5>1. /\ \E x \in PlayerT : tick.players = {x}
              /\ \E x \in PlayerT : prev.players = {x}
          BY <1>6, <3>2, <4>2 DEF Partial
        <5>2. tick.players = {c} /\ prev.players = {p} /\ c \in PlayerT /\ p \in PlayerT
          BY <4>2, <5>1
        <5>3. prev \in TickT
          BY <3>2 DEF Partial
        <5>4. HeroOf(DerivePlayer(c, p), tick, prev)
          BY <5>2 DEF HeroOf
        <5>5. QED BY <1>5, <3>1, <5>2, <5>3, <5>4, DeriveCounts
      <4>3. ASSUME NEW p \in raw'[Len(raw') - 1].players, NEW c \in raw'[Len(raw')].players
            PROVE  Replays(derived'[Len(raw')], c.items, p.items)
        BY <4>1, <4>2, SaysReplays
      <4>4. QED BY <4>3 DEF LastReplays
    <3>8. QED BY <3>5, <3>6, <3>7
  <2>3. QED BY <2>1, <2>2
<1>14. ChangesReconcile'
  <2>1. /\ \A t \in Counted : (t = "building_destroyed" /\ "lost" \in blind)
                               \/ engine.counts[t] <= truth[t] + Misread(t)
        /\ blind = {} =>
             \A t \in Counted \ {"building_health_loss"} : engine.counts[t] >= truth[t]
    BY DEF Told, ChangesReconcile
  <2>2. ASSUME NEW t \in Counted
        PROVE  \/ t = "building_destroyed" /\ "lost" \in blind'
               \/ engine'.counts[t] <= truth'[t] + Misread(t)'
    <3>1. SUFFICES ASSUME ~(t = "building_destroyed" /\ "lost" \in blind')
                   PROVE  engine'.counts[t] <= truth'[t] + Misread(t)'
      OBVIOUS
    <3>2. engine.counts[t] <= truth[t] + Misread(t) /\ Count(list, t) <= Differs(game, i)[t]
      BY <1>1, <1>13, <2>1, <3>1
    <3>3. truth[t] + Differs(game, i)[t] <= truth'[t] + Over(t, game, i)
      BY <1>1, <1>4
    <3>4. truth'[t] \in Nat
      BY <1>1, <1>11
    <3>5. /\ Misread(t) \in Int /\ Over(t, game, i) \in Int
          /\ Misread(t)' = Misread(t) + Over(t, game, i)
      <4>1. game.match \in Nat /\ i.match \in Nat /\ game'.match = i.match
        BY <1>1, <1>2, <1>4 DEF GameT
      <4>2. QED BY <4>1 DEF Misread, Over
    <3>6. QED BY <1>10, <1>11, <3>2, <3>3, <3>4, <3>5
  <2>3. ASSUME blind' = {}, NEW t \in Counted \ {"building_health_loss"}
        PROVE  engine'.counts[t] >= truth'[t]
    <3>1. engine.counts[t] >= truth[t] /\ Count(list, t) = Differs(game, i)[t]
      BY <1>9, <1>13, <2>1, <2>3
    <3>2. truth'[t] <= truth[t] + Differs(game, i)[t] /\ truth'[t] \in Nat
      BY <1>1, <1>4, <1>9, <1>11, <2>3
    <3>3. QED BY <1>10, <1>11, <3>1, <3>2
  <2>4. QED BY <2>2, <2>3 DEF ChangesReconcile
<1>15. QED BY <1>12, <1>13, <1>14 DEF Told

LEMMA StepTold == Inv /\ Told /\ [Next]_vars => Told'
<1>1. SUFFICES ASSUME Inv, Told, [Next]_vars PROVE Told'
  OBVIOUS
<1>2. CASE Capture
  <2>1. PICK course \in IF raw = <<>> THEN {<<game>>} ELSE Courses(game), fails \in MayFail,
             hidden \in IF bounds.hidings < MaxHidings THEN Hidings ELSE {{}} :
           \E gone \in SUBSET {b \in Building : Last(course).health[b] = 0} :
              Tick(course, hidden, gone, fails)
    BY <1>2 DEF Capture
  <2>2. PICK gone \in SUBSET {b \in Building : Last(course).health[b] = 0} :
           Tick(course, hidden, gone, fails)
    BY <2>1
  <2>3. QED BY <1>1, <2>2, TickTold
<1>3. ASSUME UNCHANGED <<game, truth, blind, raw, engine, derived>> PROVE Told'
  <2>1. /\ game' = game /\ truth' = truth /\ blind' = blind /\ raw' = raw
        /\ engine' = engine /\ derived' = derived
    BY <1>3
  <2>2. Sees'
    BY <1>1, <2>1 DEF Told, Sees
  <2>3. ChangesReconcile'
    BY <1>1, <2>1 DEF Told, ChangesReconcile, Misread
  <2>4. LastReplays(raw, derived)'
    BY <1>1, <2>1 DEF Told
  <2>5. QED BY <2>2, <2>3, <2>4 DEF Told
<1>4. CASE ReadRaw
  BY <1>3, <1>4 DEF ReadRaw, source
<1>5. ASSUME NEW eventsFail \in MayFail, NEW summaryFails \in MayFail,
             WriteArtifacts(eventsFail, summaryFails)
      PROVE  Told'
  BY <1>3, <1>5 DEF WriteArtifacts, source
<1>6. CASE UNCHANGED vars
  BY <1>3, <1>6 DEF vars
<1>7. QED BY <1>1, <1>2, <1>4, <1>5, <1>6 DEF Next

-----------------------------------------------------------------------------
(* The theorems.                                                           *)

\* TypeOK: the game, the engine's counters and the histories stay of their
\* types, and the histories in step with the ticks (engine.go Observe).
THEOREM TypeCorrect == Spec => []TypeOK
  BY Always, InvTypeOK, PTL

\* CutIsHonest: whatever the ring and the arrays have dropped, the live API
\* shows the latest events, exact totals and the economy of the last tick with
\* players, and whichever program wrote the files last, they are true of the
\* ticks they count (engine.go recordEvent, summary.go, analyze.go).
THEOREM CutHonestly == Spec => []CutIsHonest
  BY Always, InvHonest, PTL

\* EventsReconcile: no event is counted more often than the thing happened
\* within a match, unless a block of buildings left out was taken for their
\* destruction, and but for one respawn, one change of Roshan and one end of the
\* cooldown for each further match; none is counted less often when all was
\* shown and one thing changed at a time, but for lost health; and between two
\* ticks of one match that show the items, the item events turn the slots shown
\* before into those shown now (engine.go derive, deriveItems,
\* deriveItemRelocations).
THEOREM Reconciles == Spec => []EventsReconcile
<1>1. Told => EventsReconcile
  BY LastReplaysIs DEF Told, EventsReconcile
<1>2. QED BY <1>1, InitInv, StepInv, InitTold, StepTold, PTL DEF Spec
=============================================================================
