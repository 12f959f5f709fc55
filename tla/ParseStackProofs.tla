-------------------------- MODULE ParseStackProofs --------------------------
(***************************************************************************)
(* What the operations of the parse stack preserve.  Sound says of a graph *)
(* what holds between any two operations and in the middle of them: nodes  *)
(* agree with the nodes below their links, and counts are exact for the    *)
(* heads and for what has been given up but not been released yet.  Every  *)
(* operation is proved to keep it.  The second half is about the walks     *)
(* down the stack, what popping makes of them, and the invariants of the   *)
(* parse stack that follow.                                                *)
(***************************************************************************)
EXTENDS ParseStack, Induction, SequenceTheorems, FiniteSetTheorems

(* How many elements of a sequence point to a node.                        *)
Pointers(s, n) == {i \in DOMAIN s : s[i].node = n}
Points(s, n) == Cardinality(Pointers(s, n))

(* There are so many of them: a finite set and a number.                   *)
LEMMA PointsType ==
  ASSUME NEW S, NEW s \in Seq(S), NEW n
  PROVE  IsFiniteSet(Pointers(s, n)) /\ Points(s, n) \in Nat
<1>1. IsFiniteSet(1 .. Len(s))
  BY FS_Interval
<1>2. Pointers(s, n) \in SUBSET (1 .. Len(s))
  BY DEF Pointers
<1> QED BY <1>1, <1>2, FS_Subset, FS_CardinalityType DEF Points

(* Nobody points from an empty sequence.                                   *)
LEMMA PointsNone ==
  ASSUME NEW n
  PROVE  Points(<< >>, n) = 0
<1>1. Pointers(<< >>, n) = {}
  BY DEF Pointers
<1> QED BY <1>1, FS_EmptySet DEF Points

(* Somebody who points is counted.                                         *)
LEMMA PointsSome ==
  ASSUME NEW S, NEW s \in Seq(S), NEW i \in DOMAIN s
  PROVE  Points(s, s[i].node) > 0
<1> DEFINE n == s[i].node
<1>1. IsFiniteSet(Pointers(s, n)) /\ Points(s, n) \in Nat
  BY PointsType
<1>2. i \in Pointers(s, n)
  BY DEF Pointers
<1>3. Points(s, n) # 0
  BY <1>1, <1>2, FS_EmptySet DEF Points
<1> HIDE DEF n
<1> QED BY <1>1, <1>3 DEF n

(* One more at the end.                                                    *)
LEMMA PointsAppend ==
  ASSUME NEW S, NEW s \in Seq(S), NEW x \in S, NEW n
  PROVE  Points(Append(s, x), n) = Points(s, n) + IF x.node = n THEN 1 ELSE 0
<1> DEFINE t == Append(s, x)
<1>1. /\ DOMAIN t = DOMAIN s \cup {Len(s) + 1} /\ Len(s) + 1 \notin DOMAIN s
      /\ t[Len(s) + 1] = x /\ \A i \in DOMAIN s : t[i] = s[i]
  BY AppendProperties
<1>2. IsFiniteSet(Pointers(s, n)) /\ Len(s) + 1 \notin Pointers(s, n)
  BY <1>1, PointsType DEF Pointers
<1> HIDE DEF t
<1>3. CASE x.node = n
  <2>1. Pointers(t, n) = Pointers(s, n) \cup {Len(s) + 1}
    BY <1>1, <1>3 DEF Pointers
  <2>2. Cardinality(Pointers(t, n)) = Cardinality(Pointers(s, n)) + 1
    BY <1>2, <2>1, FS_AddElement
  <2> QED BY <1>3, <2>2 DEF Points, t
<1>4. CASE x.node # n
  <2>1. Pointers(t, n) = Pointers(s, n)
    BY <1>1, <1>4 DEF Pointers
  <2> QED BY <1>4, <2>1, PointsType DEF Points, t
<1> QED BY <1>3, <1>4

(* Two sequences one after the other, by induction over the second.        *)
LEMMA PointsConcat ==
  ASSUME NEW S, NEW s \in Seq(S), NEW t \in Seq(S), NEW n
  PROVE  Points(s \o t, n) = Points(s, n) + Points(t, n)
<1> DEFINE Adds(r) == Points(s \o r, n) = Points(s, n) + Points(r, n)
           T == {k \in Nat : \A r \in Seq(S) : Len(r) = k => Adds(r)}
<1>0. Points(s, n) \in Nat
  BY PointsType
<1>a. ASSUME NEW q \in Seq(S), NEW x \in S
      PROVE  Points(Append(q, x), n) = Points(q, n) + IF x.node = n THEN 1 ELSE 0
  BY PointsAppend
<1>1. 0 \in T
  <2> SUFFICES ASSUME NEW r \in Seq(S), Len(r) = 0 PROVE Adds(r)
    OBVIOUS
  <2>1. r = << >> /\ s \o r = s
    BY ConcatEmptySeq
  <2> QED BY <1>0, <2>1, PointsNone
<1>2. ASSUME NEW k \in T PROVE k + 1 \in T
  <2> SUFFICES ASSUME NEW r \in Seq(S), Len(r) = k + 1 PROVE Adds(r)
    OBVIOUS
  <2>1. k \in Nat /\ r # << >>
    OBVIOUS
  <2>2. PICK q \in Seq(S), x \in S : r = Append(q, x)
    BY <2>1, SequenceEmptyOrAppend
  <2>3. Len(q) = k
    BY <2>1, <2>2
  <2>4. Adds(q)
    BY <2>3
  <2>5. s \o r = Append(s \o q, x) /\ s \o q \in Seq(S)
    BY <2>2
  <2>6. Points(Append(s \o q, x), n) = Points(s \o q, n) + IF x.node = n THEN 1 ELSE 0
    BY <1>a, <2>5, Zenon
  <2>7. Points(Append(q, x), n) = Points(q, n) + IF x.node = n THEN 1 ELSE 0
    BY <1>a, Zenon
  <2>8. Points(q, n) \in Nat
    BY PointsType
  <2>9. PICK d : d = IF x.node = n THEN 1 ELSE 0
    OBVIOUS
  <2>10. d \in Nat
    BY <2>9
  <2>11. Points(s \o r, n) = Points(s \o q, n) + d
    BY <2>5, <2>6, <2>9
  <2>12. Points(r, n) = Points(q, n) + d
    BY <2>2, <2>7, <2>9
  <2> QED BY <1>0, <2>4, <2>8, <2>10, <2>11, <2>12
<1> HIDE DEF T
<1>3. T = Nat
  <2>1. T \in SUBSET Nat BY DEF T
  <2> QED BY <1>1, <1>2, <2>1, Induct
<1>4. Len(t) \in T
  BY <1>3
<1> QED BY <1>4 DEF T

(* A single one.                                                           *)
LEMMA PointsOne ==
  ASSUME NEW S, NEW x \in S, NEW n
  PROVE  Points(<<x>>, n) = IF x.node = n THEN 1 ELSE 0
<1>1. PICK e : e = << >>
  OBVIOUS
<1>2. e \in Seq(S) /\ Append(e, x) = <<x>>
  BY <1>1
<1>3. Points(Append(e, x), n) = Points(e, n) + IF x.node = n THEN 1 ELSE 0
  BY <1>2, PointsAppend
<1>4. Points(e, n) = 0
  BY <1>1, PointsNone
<1> QED BY <1>2, <1>3, <1>4

(* All but the first.                                                      *)
LEMMA PointsTail ==
  ASSUME NEW S, NEW s \in Seq(S), s # << >>, NEW n
  PROVE  /\ Head(s) \in S /\ Tail(s) \in Seq(S) /\ Head(s) = s[1]
         /\ Points(s, n) = Points(Tail(s), n) + IF Head(s).node = n THEN 1 ELSE 0
<1>1. Head(s) \in S /\ Tail(s) \in Seq(S) /\ Head(s) = s[1] /\ s = <<Head(s)>> \o Tail(s)
  OBVIOUS
<1>2. <<Head(s)>> \in Seq(S)
  BY <1>1
<1>3. Points(<<Head(s)>> \o Tail(s), n) = Points(<<Head(s)>>, n) + Points(Tail(s), n)
  BY <1>1, <1>2, PointsConcat
<1>4. Points(<<Head(s)>>, n) = IF Head(s).node = n THEN 1 ELSE 0
  BY <1>1, PointsOne
<1>5. Points(Tail(s), n) \in Nat
  BY <1>1, PointsType
<1>6. Points(s, n) = Points(<<Head(s)>>, n) + Points(Tail(s), n)
  BY <1>1, <1>3, Zenon
<1>7. PICK d : d = IF Head(s).node = n THEN 1 ELSE 0
  OBVIOUS
<1>8. d \in Nat
  BY <1>7
<1>9. Points(s, n) = Points(Tail(s), n) + d
  BY <1>4, <1>5, <1>6, <1>7, <1>8
<1> QED BY <1>1, <1>7, <1>9

(* All but one in the middle, which also says what RemoveAt gives.         *)
LEMMA PointsRemoveAt ==
  ASSUME NEW S, NEW s \in Seq(S), NEW i \in DOMAIN s, NEW n
  PROVE  /\ RemoveAt(s, i) \in Seq(S) /\ Len(RemoveAt(s, i)) = Len(s) - 1
         /\ \A k \in 1 .. Len(s) - 1 : RemoveAt(s, i)[k] = IF k < i THEN s[k] ELSE s[k + 1]
         /\ Points(s, n) = Points(RemoveAt(s, i), n) + IF s[i].node = n THEN 1 ELSE 0
<1> DEFINE a == SubSeq(s, 1, i - 1)  b == SubSeq(s, i + 1, Len(s))
<1>0. i \in 1 .. Len(s) /\ Len(s) \in Nat /\ s[i] \in S
  OBVIOUS
<1>1. a \in Seq(S) /\ Len(a) = i - 1 /\ \A k \in 1 .. i - 1 : a[k] = s[k]
  BY <1>0
<1>2. b \in Seq(S) /\ Len(b) = Len(s) - i /\ \A k \in 1 .. Len(s) - i : b[k] = s[k + i]
  BY <1>0
<1> HIDE DEF a, b
<1>3. /\ a \o b \in Seq(S) /\ Len(a \o b) = Len(s) - 1
      /\ \A k \in 1 .. Len(s) - 1 : (a \o b)[k] = IF k < i THEN s[k] ELSE s[k + 1]
  <2>1. /\ a \o b \in Seq(S) /\ Len(a \o b) = Len(a) + Len(b)
        /\ \A k \in 1 .. Len(a) + Len(b) : (a \o b)[k] = IF k <= Len(a) THEN a[k] ELSE b[k - Len(a)]
    BY <1>1, <1>2, ConcatProperties
  <2>2. ASSUME NEW k \in 1 .. Len(s) - 1
        PROVE  (a \o b)[k] = IF k < i THEN s[k] ELSE s[k + 1]
    <3>1. k \in 1 .. Len(a) + Len(b) /\ (k <= Len(a) <=> k < i)
      BY <1>0, <1>1, <1>2
    <3>2. CASE k < i
      BY <1>1, <2>1, <3>1, <3>2
    <3>3. CASE ~ (k < i)
      <4>1. /\ k - Len(a) \in 1 .. Len(s) - i /\ (k - Len(a)) + i = k + 1
        BY <1>0, <1>1, <3>3
      <4> QED BY <1>2, <2>1, <3>1, <3>3, <4>1
    <3> QED BY <3>2, <3>3
  <2>3. Len(a \o b) = Len(s) - 1
    BY <1>0, <1>1, <1>2, <2>1
  <2> QED BY <2>1, <2>2, <2>3
<1>c. PICK c : c = Append(a, s[i])
  OBVIOUS
<1>4. c \in Seq(S) /\ s = c \o b
  <2>1. /\ c \in Seq(S) /\ Len(c) = i
        /\ \A k \in 1 .. i : c[k] = s[k]
    <3>1. c \in Seq(S) /\ Len(c) = Len(a) + 1
      BY <1>0, <1>1, <1>c
    <3>2. ASSUME NEW k \in 1 .. i PROVE c[k] = s[k]
      <4>1. CASE k = i
        BY <1>0, <1>1, <1>c, <4>1
      <4>2. CASE k # i
        <5>1. k \in 1 .. i - 1 /\ k \in 1 .. Len(a)
          BY <1>0, <1>1, <4>2
        <5> QED BY <1>0, <1>1, <1>c, <5>1
      <4> QED BY <4>1, <4>2
    <3> QED BY <1>0, <1>1, <3>1, <3>2
  <2>c. c \in Seq(S)
    BY <2>1
  <2>2. /\ c \o b \in Seq(S) /\ Len(c \o b) = Len(c) + Len(b)
        /\ \A k \in 1 .. Len(c) + Len(b) : (c \o b)[k] = IF k <= Len(c) THEN c[k] ELSE b[k - Len(c)]
    BY <1>2, <2>c, ConcatProperties
  <2>3. Len(c \o b) = Len(s)
    <3>1. Len(c) = i /\ Len(b) = Len(s) - i /\ i \in Nat /\ Len(s) \in Nat
      BY <1>0, <1>2, <2>1
    <3>2. i + (Len(s) - i) = Len(s)
      <4>1. PICK d \in Nat, j \in Nat : d = Len(s) /\ j = i
        BY <3>1
      <4>2. j + (d - j) = d
        OBVIOUS
      <4> QED BY <4>1, <4>2, Zenon
    <3>3. Len(c \o b) = i + (Len(s) - i)
      BY <2>2, <3>1, Zenon
    <3> QED BY <3>2, <3>3, Zenon
  <2>4. ASSUME NEW k \in 1 .. Len(s) PROVE (c \o b)[k] = s[k]
    <3>1. k \in 1 .. Len(c) + Len(b) /\ (k <= Len(c) <=> k <= i)
      BY <1>0, <1>2, <2>1
    <3>2. CASE k <= i
      BY <2>1, <2>2, <3>1, <3>2
    <3>3. CASE ~ (k <= i)
      <4>1. k - Len(c) \in 1 .. Len(s) - i /\ (k - Len(c)) + i = k
        BY <1>0, <2>1, <3>3
      <4> QED BY <1>2, <2>2, <3>1, <3>3, <4>1
    <3> QED BY <3>2, <3>3
  <2> DEFINE t == c \o b
  <2>5. t \in Seq(S) /\ Len(t) = Len(s) /\ \A k \in 1 .. Len(s) : t[k] = s[k]
    BY <2>2, <2>3, <2>4
  <2> HIDE DEF t
  <2>6. s = t
    BY <2>5, SeqEqual
  <2> QED BY <2>1, <2>6 DEF t
<1>5. /\ Points(s, n) = Points(c, n) + Points(b, n)
      /\ Points(a \o b, n) = Points(a, n) + Points(b, n)
  <2>1. Points(c \o b, n) = Points(c, n) + Points(b, n)
    BY <1>2, <1>4, PointsConcat
  <2>2. Points(a \o b, n) = Points(a, n) + Points(b, n)
    BY <1>1, <1>2, PointsConcat
  <2> QED BY <1>4, <2>1, <2>2
<1>6. Points(c, n) = Points(a, n) + IF s[i].node = n THEN 1 ELSE 0
  BY <1>0, <1>1, <1>c, PointsAppend
<1>7. Points(a, n) \in Nat /\ Points(b, n) \in Nat
  BY <1>1, <1>2, PointsType
<1>8. RemoveAt(s, i) = a \o b
  BY DEF RemoveAt, a, b
<1>9. Points(s, n) = Points(a \o b, n) + IF s[i].node = n THEN 1 ELSE 0
  BY <1>5, <1>6, <1>7
<1> QED BY <1>3, <1>8, <1>9

(* Two sequences that point to the same nodes but for one place.           *)
SameBut(s, t, i) == Len(s) = Len(t) /\ \A k \in DOMAIN s : k # i => t[k].node = s[k].node

(* The count changes by what the place that differs pointed to.            *)
LEMMA PointsExcept ==
  ASSUME NEW S, NEW s \in Seq(S), NEW t \in Seq(S), NEW i \in DOMAIN s, SameBut(s, t, i), NEW n
  PROVE  Points(t, n) + (IF s[i].node = n THEN 1 ELSE 0)
           = Points(s, n) + (IF t[i].node = n THEN 1 ELSE 0)
<1> DEFINE A == Pointers(s, n)  B == Pointers(t, n)
<1>1. DOMAIN s = DOMAIN t /\ \A k \in DOMAIN s : k # i => t[k].node = s[k].node
  BY DEF SameBut
<1>2. A \ {i} = B \ {i}
  BY <1>1 DEF Pointers
<1>3. (i \in A <=> s[i].node = n) /\ (i \in B <=> t[i].node = n)
  BY <1>1 DEF Pointers
<1>4. IsFiniteSet(A) /\ IsFiniteSet(B) /\ Cardinality(A) \in Nat /\ Cardinality(B) \in Nat
  BY PointsType DEF Points
<1> HIDE DEF A, B
<1>5. /\ Cardinality(A \ {i}) = Cardinality(A) - IF i \in A THEN 1 ELSE 0
      /\ Cardinality(B \ {i}) = Cardinality(B) - IF i \in B THEN 1 ELSE 0
  <2>1. Cardinality(A \ {i}) = IF i \in A THEN Cardinality(A) - 1 ELSE Cardinality(A)
    BY <1>4, FS_RemoveElement
  <2>2. Cardinality(B \ {i}) = IF i \in B THEN Cardinality(B) - 1 ELSE Cardinality(B)
    BY <1>4, FS_RemoveElement
  <2> QED BY <1>4, <2>1, <2>2
<1>6. Cardinality(A) - (IF i \in A THEN 1 ELSE 0) = Cardinality(B) - IF i \in B THEN 1 ELSE 0
  BY <1>2, <1>5
<1> QED BY <1>3, <1>4, <1>6 DEF A, B, Points

(* And at every place.                                                     *)
LEMMA PointsSame ==
  ASSUME NEW s, NEW t, DOMAIN s = DOMAIN t,
         \A k \in DOMAIN s : t[k].node = s[k].node, NEW n
  PROVE  Points(t, n) = Points(s, n)
<1>1. Pointers(s, n) = Pointers(t, n)
  BY DEF Pointers
<1> QED BY <1>1 DEF Points

-----------------------------------------------------------------------------
(* Repeating a step.                                                       *)

(* Whatever is applied again and again ends where the sets say, if it does *)
(* what the step does from within them.                                    *)
LEMMA RunEnds ==
  ASSUME NEW S, NEW f, NEW n \in Nat, f[0] \in S[0],
         \A k \in 1 .. n : f[k - 1] \in S[k - 1] => f[k] \in S[k]
  PROVE  f[n] \in S[n]
<1> DEFINE T == {k \in Nat : k <= n => f[k] \in S[k]}
<1>1. 0 \in T
  OBVIOUS
<1>2. ASSUME NEW k \in T PROVE k + 1 \in T
  <2>1. k \in Nat /\ (k + 1 <= n => k + 1 \in 1 .. n) /\ (k + 1) - 1 = k
    OBVIOUS
  <2> QED BY <2>1
<1>3. T \in SUBSET Nat
  OBVIOUS
<1> HIDE DEF T
<1>4. n \in T
  BY <1>1, <1>2, <1>3, Induct
<1> QED BY <1>4 DEF T

(* A run of a function that is applied again and again, within sets that   *)
(* may differ from step to step.                                           *)
IsRun(g, S, first, step, n) ==
  /\ g = [k \in 0 .. n |-> IF k = 0 THEN first ELSE step[g[k - 1]]]
  /\ \A k \in 0 .. n : g[k] \in S[k]

(* There is such a run for every first value and every step, by induction  *)
(* over its length.                                                        *)
LEMMA RunExists ==
  ASSUME NEW U, NEW S \in [Nat -> SUBSET U], NEW first \in S[0], NEW step,
         NEW n \in Nat, \A k \in 0 .. n - 1 : \A x \in S[k] : step[x] \in S[k + 1]
  PROVE  \E g : IsRun(g, S, first, step, n)
<1> DEFINE pick == [k \in Nat |-> [x \in U |-> IF k < n /\ x \in S[k] THEN step[x] ELSE first]]
<1>1. first \in U /\ \A k \in Nat : S[k] \subseteq U
  OBVIOUS
<1>2. pick \in [Nat -> [U -> U]]
  <2>1. ASSUME NEW k \in Nat, NEW x \in U
        PROVE  (IF k < n /\ x \in S[k] THEN step[x] ELSE first) \in U
    <3>1. k < n => k \in 0 .. n - 1 /\ k + 1 \in Nat
      OBVIOUS
    <3> QED BY <1>1, <3>1
  <2> QED BY <2>1
<1>3. \A k \in 0 .. n - 1 : \A x \in S[k] : pick[k][x] = step[x]
  BY <1>1
<1> HIDE DEF pick
<1>4. PICK f : IsIteration(f, U, first, pick)
  BY <1>1, <1>2, Iteration
<1>5. f \in [Nat -> U] /\ f[0] = first /\ \A k \in Nat : f[k + 1] = pick[k][f[k]]
  BY <1>4 DEF IsIteration
<1>6. \A k \in 0 .. n : f[k] \in S[k]
  <2> SUFFICES ASSUME NEW m \in 0 .. n PROVE f[m] \in S[m]
    OBVIOUS
  <2>1. ASSUME NEW k \in 1 .. m, f[k - 1] \in S[k - 1] PROVE f[k] \in S[k]
    <3>1. k - 1 \in Nat /\ k - 1 \in 0 .. n - 1 /\ (k - 1) + 1 = k
      OBVIOUS
    <3>2. f[k] = pick[k - 1][f[k - 1]]
      BY <1>5, <3>1
    <3>3. pick[k - 1][f[k - 1]] = step[f[k - 1]]
      BY <1>3, <2>1, <3>1
    <3> QED BY <2>1, <3>1, <3>2, <3>3
  <2>2. m \in Nat /\ f[0] \in S[0]
    BY <1>5
  <2> QED BY <2>1, <2>2, RunEnds
<1> DEFINE g == [k \in 0 .. n |-> f[k]]
<1>7. \A k \in 0 .. n : g[k] \in S[k]
  BY <1>6
<1>8. ASSUME NEW k \in 0 .. n PROVE g[k] = IF k = 0 THEN first ELSE step[g[k - 1]]
  <2>1. CASE k = 0
    BY <1>5, <2>1
  <2>2. CASE k # 0
    <3>1. k - 1 \in Nat /\ k - 1 \in 0 .. n - 1 /\ k - 1 \in 0 .. n /\ (k - 1) + 1 = k
      BY <2>2
    <3>2. f[k] = pick[k - 1][f[k - 1]]
      BY <1>5, <3>1
    <3>3. f[k - 1] \in S[k - 1]
      BY <1>6, <3>1
    <3>4. pick[k - 1][f[k - 1]] = step[f[k - 1]]
      BY <1>3, <3>1, <3>3
    <3> QED BY <2>2, <3>1, <3>2, <3>4
  <2> QED BY <2>1, <2>2
<1>9. g = [k \in 0 .. n |-> IF k = 0 THEN first ELSE step[g[k - 1]]]
  <2> DEFINE h == [k \in 0 .. n |-> IF k = 0 THEN first ELSE step[g[k - 1]]]
  <2>1. \A k \in 0 .. n : g[k] = h[k]
    BY <1>8
  <2>2. g = [k \in 0 .. n |-> g[k]] /\ h = [k \in 0 .. n |-> h[k]]
    OBVIOUS
  <2> HIDE DEF g, h
  <2>3. g = h
    BY <2>1, <2>2, Zenon
  <2> QED BY <2>3 DEF h
<1> HIDE DEF g
<1> QED BY <1>7, <1>9 DEF IsRun

(* The four loops of the graph.  A lemma cannot take the step as a         *)
(* parameter, so that there is one for each.                               *)
LEMMA RepeatRelease ==
  ASSUME NEW U, NEW S \in [Nat -> SUBSET U], NEW first \in S[0], NEW n \in Nat,
         \A k \in 0 .. n - 1 : \A x \in S[k] : ReleaseStep(x) \in S[k + 1]
  PROVE  Repeat(ReleaseStep, first, n) \in S[n]
<1> DEFINE step == [x \in U |-> ReleaseStep(x)]
           B(f) == [k \in 0 .. n |-> IF k = 0 THEN first ELSE ReleaseStep(f[k - 1])]
           f == CHOOSE f : f = B(f)
<1>1. \A k \in Nat : \A x \in S[k] : step[x] = ReleaseStep(x)
  OBVIOUS
<1> HIDE DEF step
<1>2. PICK g : IsRun(g, S, first, step, n)
  <2>1. \A k \in 0 .. n - 1 : \A x \in S[k] : step[x] \in S[k + 1]
    BY <1>1
  <2> QED BY <2>1, RunExists
<1>3. g = B(g)
  <2> DEFINE h == [k \in 0 .. n |-> IF k = 0 THEN first ELSE step[g[k - 1]]]
  <2>1. g = h /\ \A k \in 0 .. n : g[k] \in S[k]
    BY <1>2 DEF IsRun
  <2>2. ASSUME NEW k \in 0 .. n
        PROVE  (IF k = 0 THEN first ELSE step[g[k - 1]]) = (IF k = 0 THEN first ELSE ReleaseStep(g[k - 1]))
    <3>1. CASE k = 0
      BY <3>1
    <3>2. CASE k # 0
      <4>1. k - 1 \in Nat /\ k - 1 \in 0 .. n
        BY <3>2
      <4> QED BY <1>1, <2>1, <3>2, <4>1
    <3> QED BY <3>1, <3>2
  <2>3. h = B(g)
    BY <2>2, Zenon
  <2> QED BY <2>1, <2>3, Zenon
<1>4. Repeat(ReleaseStep, first, n) = f[n]
  BY Zenon DEF Repeat
<1> HIDE DEF B
<1>5. f = B(f)
  BY <1>3, Zenon
<1> HIDE DEF f
<1>6. f[0] = first /\ \A k \in 1 .. n : f[k] = ReleaseStep(f[k - 1])
  BY <1>5 DEF B
<1>7. \A k \in 1 .. n : k - 1 \in 0 .. n - 1 /\ (k - 1) + 1 = k
  OBVIOUS
<1>8. f[0] \in S[0] /\ \A k \in 1 .. n : f[k - 1] \in S[k - 1] => f[k] \in S[k]
  BY <1>6, <1>7
<1>9. f[n] \in S[n]
  BY <1>8, RunEnds
<1> QED BY <1>4, <1>9

(* The same of the steps that add links.                                   *)
LEMMA RepeatAdd ==
  ASSUME NEW U, NEW S \in [Nat -> SUBSET U], NEW first \in S[0], NEW n \in Nat,
         \A k \in 0 .. n - 1 : \A x \in S[k] : AddStep(x) \in S[k + 1]
  PROVE  Repeat(AddStep, first, n) \in S[n]
<1> DEFINE step == [x \in U |-> AddStep(x)]
           B(f) == [k \in 0 .. n |-> IF k = 0 THEN first ELSE AddStep(f[k - 1])]
           f == CHOOSE f : f = B(f)
<1>1. \A k \in Nat : \A x \in S[k] : step[x] = AddStep(x)
  OBVIOUS
<1> HIDE DEF step
<1>2. PICK g : IsRun(g, S, first, step, n)
  <2>1. \A k \in 0 .. n - 1 : \A x \in S[k] : step[x] \in S[k + 1]
    BY <1>1
  <2> QED BY <2>1, RunExists
<1>3. g = B(g)
  <2> DEFINE h == [k \in 0 .. n |-> IF k = 0 THEN first ELSE step[g[k - 1]]]
  <2>1. g = h /\ \A k \in 0 .. n : g[k] \in S[k]
    BY <1>2 DEF IsRun
  <2>2. ASSUME NEW k \in 0 .. n
        PROVE  (IF k = 0 THEN first ELSE step[g[k - 1]]) = (IF k = 0 THEN first ELSE AddStep(g[k - 1]))
    <3>1. CASE k = 0
      BY <3>1
    <3>2. CASE k # 0
      <4>1. k - 1 \in Nat /\ k - 1 \in 0 .. n
        BY <3>2
      <4> QED BY <1>1, <2>1, <3>2, <4>1
    <3> QED BY <3>1, <3>2
  <2>3. h = B(g)
    BY <2>2, Zenon
  <2> QED BY <2>1, <2>3, Zenon
<1>4. Repeat(AddStep, first, n) = f[n]
  BY Zenon DEF Repeat
<1> HIDE DEF B
<1>5. f = B(f)
  BY <1>3, Zenon
<1> HIDE DEF f
<1>6. f[0] = first /\ \A k \in 1 .. n : f[k] = AddStep(f[k - 1])
  BY <1>5 DEF B
<1>7. \A k \in 1 .. n : k - 1 \in 0 .. n - 1 /\ (k - 1) + 1 = k
  OBVIOUS
<1>8. f[0] \in S[0] /\ \A k \in 1 .. n : f[k - 1] \in S[k - 1] => f[k] \in S[k]
  BY <1>6, <1>7
<1>9. f[n] \in S[n]
  BY <1>8, RunEnds
<1> QED BY <1>4, <1>9

(* The same of the steps of an iterator.                                   *)
LEMMA RepeatIterator ==
  ASSUME NEW U, NEW S \in [Nat -> SUBSET U], NEW first \in S[0], NEW n \in Nat,
         \A k \in 0 .. n - 1 : \A x \in S[k] : StepIterator(x) \in S[k + 1]
  PROVE  Repeat(StepIterator, first, n) \in S[n]
<1> DEFINE step == [x \in U |-> StepIterator(x)]
           B(f) == [k \in 0 .. n |-> IF k = 0 THEN first ELSE StepIterator(f[k - 1])]
           f == CHOOSE f : f = B(f)
<1>1. \A k \in Nat : \A x \in S[k] : step[x] = StepIterator(x)
  OBVIOUS
<1> HIDE DEF step
<1>2. PICK g : IsRun(g, S, first, step, n)
  <2>1. \A k \in 0 .. n - 1 : \A x \in S[k] : step[x] \in S[k + 1]
    BY <1>1
  <2> QED BY <2>1, RunExists
<1>3. g = B(g)
  <2> DEFINE h == [k \in 0 .. n |-> IF k = 0 THEN first ELSE step[g[k - 1]]]
  <2>1. g = h /\ \A k \in 0 .. n : g[k] \in S[k]
    BY <1>2 DEF IsRun
  <2>2. ASSUME NEW k \in 0 .. n
        PROVE  (IF k = 0 THEN first ELSE step[g[k - 1]]) = (IF k = 0 THEN first ELSE StepIterator(g[k - 1]))
    <3>1. CASE k = 0
      BY <3>1
    <3>2. CASE k # 0
      <4>1. k - 1 \in Nat /\ k - 1 \in 0 .. n
        BY <3>2
      <4> QED BY <1>1, <2>1, <3>2, <4>1
    <3> QED BY <3>1, <3>2
  <2>3. h = B(g)
    BY <2>2, Zenon
  <2> QED BY <2>1, <2>3, Zenon
<1>4. Repeat(StepIterator, first, n) = f[n]
  BY Zenon DEF Repeat
<1> HIDE DEF B
<1>5. f = B(f)
  BY <1>3, Zenon
<1> HIDE DEF f
<1>6. f[0] = first /\ \A k \in 1 .. n : f[k] = StepIterator(f[k - 1])
  BY <1>5 DEF B
<1>7. \A k \in 1 .. n : k - 1 \in 0 .. n - 1 /\ (k - 1) + 1 = k
  OBVIOUS
<1>8. f[0] \in S[0] /\ \A k \in 1 .. n : f[k - 1] \in S[k - 1] => f[k] \in S[k]
  BY <1>6, <1>7
<1>9. f[n] \in S[n]
  BY <1>8, RunEnds
<1> QED BY <1>4, <1>9

(* The same of the rounds of a walk.                                       *)
LEMMA RepeatRound ==
  ASSUME NEW U, NEW S \in [Nat -> SUBSET U], NEW first \in S[0], NEW n \in Nat,
         \A k \in 0 .. n - 1 : \A x \in S[k] : Round(x) \in S[k + 1]
  PROVE  Repeat(Round, first, n) \in S[n]
<1> DEFINE step == [x \in U |-> Round(x)]
           B(f) == [k \in 0 .. n |-> IF k = 0 THEN first ELSE Round(f[k - 1])]
           f == CHOOSE f : f = B(f)
<1>1. \A k \in Nat : \A x \in S[k] : step[x] = Round(x)
  OBVIOUS
<1> HIDE DEF step
<1>2. PICK g : IsRun(g, S, first, step, n)
  <2>1. \A k \in 0 .. n - 1 : \A x \in S[k] : step[x] \in S[k + 1]
    BY <1>1
  <2> QED BY <2>1, RunExists
<1>3. g = B(g)
  <2> DEFINE h == [k \in 0 .. n |-> IF k = 0 THEN first ELSE step[g[k - 1]]]
  <2>1. g = h /\ \A k \in 0 .. n : g[k] \in S[k]
    BY <1>2 DEF IsRun
  <2>2. ASSUME NEW k \in 0 .. n
        PROVE  (IF k = 0 THEN first ELSE step[g[k - 1]]) = (IF k = 0 THEN first ELSE Round(g[k - 1]))
    <3>1. CASE k = 0
      BY <3>1
    <3>2. CASE k # 0
      <4>1. k - 1 \in Nat /\ k - 1 \in 0 .. n
        BY <3>2
      <4> QED BY <1>1, <2>1, <3>2, <4>1
    <3> QED BY <3>1, <3>2
  <2>3. h = B(g)
    BY <2>2, Zenon
  <2> QED BY <2>1, <2>3, Zenon
<1>4. Repeat(Round, first, n) = f[n]
  BY Zenon DEF Repeat
<1> HIDE DEF B
<1>5. f = B(f)
  BY <1>3, Zenon
<1> HIDE DEF f
<1>6. f[0] = first /\ \A k \in 1 .. n : f[k] = Round(f[k - 1])
  BY <1>5 DEF B
<1>7. \A k \in 1 .. n : k - 1 \in 0 .. n - 1 /\ (k - 1) + 1 = k
  OBVIOUS
<1>8. f[0] \in S[0] /\ \A k \in 1 .. n : f[k - 1] \in S[k - 1] => f[k] \in S[k]
  BY <1>6, <1>7
<1>9. f[n] \in S[n]
  BY <1>8, RunEnds
<1> QED BY <1>4, <1>9

-----------------------------------------------------------------------------
(* What the stack is made of.                                              *)
Link == [node : Nat \ {0}, tree : Trees \cup {NoTree}, pending : BOOLEAN, pushes : Nat]
StackNode == [state : States, position : Nat, links : Seq(Link), refs : Nat, errors : Nat, cost : Nat]
StackHead == [node : Nat \ {0}, pushes : Nat, halted : BOOLEAN]
Pointer == Link \cup StackHead

(* A node in the pool is a node.                                           *)
LEMMA FreeType == Free \in StackNode
  BY ParseStackAssumption DEF Free, StackNode

(* The parts of a node have their types, whichever node it is.             *)
LEMMA NodeType ==
  ASSUME NEW ns \in Seq(StackNode)
  PROVE  /\ Len(ns) \in Nat /\ DOMAIN ns = 1 .. Len(ns)
         /\ \A n \in DOMAIN ns :
              /\ ns[n] \in StackNode
              /\ ns[n].state \in States /\ ns[n].position \in Nat /\ ns[n].links \in Seq(Link)
              /\ ns[n].refs \in Nat /\ ns[n].errors \in Nat /\ ns[n].cost \in Nat
<1> DEFINE L == Seq(Link)
<1>1. StackNode = [state : States, position : Nat, links : L, refs : Nat, errors : Nat, cost : Nat]
  BY DEF StackNode
<1> HIDE DEF L
<1>2. \A x \in StackNode :
        /\ x.state \in States /\ x.position \in Nat /\ x.links \in L
        /\ x.refs \in Nat /\ x.errors \in Nat /\ x.cost \in Nat
  BY <1>1
<1>3. Len(ns) \in Nat /\ DOMAIN ns = 1 .. Len(ns) /\ \A n \in DOMAIN ns : ns[n] \in StackNode
  OBVIOUS
<1> QED BY <1>2, <1>3 DEF L

(* The sum of the reference counts.                                        *)
IsSum(g, ns) ==
  /\ g[0] = 0
  /\ \A k \in 0 .. Len(ns) : g[k] \in Nat
  /\ \A k \in 1 .. Len(ns) : g[k] = g[k - 1] + ns[k].refs

(* The sum that bounds the releases, which StackGraph defines by           *)
(* recursion, is that sum.                                                 *)
LEMMA ReferencesAre ==
  ASSUME NEW ns \in Seq(StackNode)
  PROVE  /\ References(ns) \in Nat
         /\ \E g : IsSum(g, ns) /\ References(ns) = g[Len(ns)]
<1> DEFINE L == Len(ns)
           B(f) == [n \in 0 .. L |-> IF n = 0 THEN 0 ELSE f[n - 1] + ns[n].refs]
           f == CHOOSE f : f = B(f)
           add == [k \in Nat |-> [x \in Nat |-> x + IF k < L THEN ns[k + 1].refs ELSE 0]]
<1>0. L \in Nat /\ \A k \in 1 .. L : ns[k].refs \in Nat
  BY NodeType
<1>1. add \in [Nat -> [Nat -> Nat]]
  <2>1. ASSUME NEW k \in Nat, NEW x \in Nat PROVE (x + IF k < L THEN ns[k + 1].refs ELSE 0) \in Nat
    <3>1. k < L => k + 1 \in 1 .. L
      BY <1>0
    <3> HIDE DEF L
    <3> QED BY <1>0, <3>1
  <2> QED BY <2>1
<1>2. \A k \in Nat : k < L => \A x \in Nat : add[k][x] = x + ns[k + 1].refs
  OBVIOUS
<1> HIDE DEF add, L
<1>3. PICK h : IsIteration(h, Nat, 0, add)
  BY <1>1, Iteration
<1>4. h \in [Nat -> Nat] /\ h[0] = 0 /\ \A n \in Nat : h[n + 1] = add[n][h[n]]
  BY <1>3 DEF IsIteration
<1> DEFINE g == [n \in 0 .. L |-> h[n]]
<1>5. ASSUME NEW n \in 0 .. L
      PROVE  g[n] = IF n = 0 THEN 0 ELSE g[n - 1] + ns[n].refs
  <2>1. CASE n = 0
    BY <1>0, <1>4, <2>1
  <2>2. CASE n # 0
    <3>1. n - 1 \in Nat /\ n - 1 \in 0 .. L /\ (n - 1) + 1 = n /\ n - 1 < L
      BY <1>0, <2>2
    <3>2. h[n] = add[n - 1][h[n - 1]] /\ h[n - 1] \in Nat
      BY <1>4, <3>1
    <3>3. add[n - 1][h[n - 1]] = h[n - 1] + ns[n].refs
      BY <1>2, <3>1, <3>2
    <3> QED BY <2>2, <3>1, <3>2, <3>3
  <2> QED BY <2>1, <2>2
<1>6. g = B(g)
  <2>1. g = [n \in 0 .. L |-> g[n]]
    OBVIOUS
  <2> HIDE DEF g
  <2> QED BY <1>5, <2>1, Zenon
<1> HIDE DEF g, B
<1>7. f = B(f)
  BY <1>6, Zenon
<1>8. References(ns) = f[L]
  BY Zenon DEF References, B, L
<1> HIDE DEF f
<1>9. f[0] = 0 /\ \A k \in 1 .. L : f[k] = f[k - 1] + ns[k].refs
  BY <1>0, <1>7 DEF B
<1>10. \A k \in 0 .. L : f[k] \in Nat
  <2> SUFFICES ASSUME NEW m \in 0 .. L PROVE f[m] \in Nat
    OBVIOUS
  <2> DEFINE S == [k \in 0 .. m |-> Nat]
  <2>1. m \in Nat /\ f[0] \in S[0] /\ f[m] \in S[m] <=> f[m] \in Nat
    BY <1>0, <1>9
  <2>2. ASSUME NEW k \in 1 .. m, f[k - 1] \in S[k - 1] PROVE f[k] \in S[k]
    <3>1. k \in 1 .. L /\ k - 1 \in 0 .. m
      BY <1>0
    <3>2. f[k - 1] \in Nat /\ f[k] = f[k - 1] + ns[k].refs /\ ns[k].refs \in Nat
      BY <1>0, <1>9, <2>2, <3>1
    <3>3. f[k] \in Nat /\ S[k] = Nat
      BY <3>2
    <3> QED BY <3>3
  <2>3. m \in Nat /\ f[0] \in S[0]
    BY <1>0, <1>9
  <2>4. f[m] \in S[m]
    <3> HIDE DEF S
    <3> QED BY <2>2, <2>3, RunEnds
  <2> QED BY <1>0, <2>4
<1>11. IsSum(f, ns)
  BY <1>9, <1>10 DEF IsSum, L
<1>12. References(ns) \in Nat
  BY <1>0, <1>8, <1>10
<1> QED BY <1>8, <1>11, <1>12 DEF L

(* One reference less in one node is one less in the sum.                  *)
LEMMA ReferencesLess ==
  ASSUME NEW ns \in Seq(StackNode), NEW ms \in Seq(StackNode), NEW n \in DOMAIN ns,
         Len(ms) = Len(ns), ns[n].refs = ms[n].refs + 1,
         \A k \in DOMAIN ns : k # n => ms[k].refs = ns[k].refs
  PROVE  References(ns) = References(ms) + 1
<1>1. PICK g : IsSum(g, ns) /\ References(ns) = g[Len(ns)]
  BY ReferencesAre
<1>2. PICK h : IsSum(h, ms) /\ References(ms) = h[Len(ms)]
  BY ReferencesAre
<1> DEFINE L == Len(ns)
           T == {k \in Nat : k <= L => g[k] = h[k] + IF k >= n THEN 1 ELSE 0}
<1>3. /\ L \in Nat /\ Len(ms) = L /\ n \in 1 .. L /\ DOMAIN ns = 1 .. L
      /\ \A k \in 1 .. L : ns[k].refs \in Nat /\ ms[k].refs \in Nat
  BY NodeType
<1>4. /\ g[0] = 0 /\ h[0] = 0
      /\ \A k \in 0 .. L : g[k] \in Nat /\ h[k] \in Nat
      /\ \A k \in 1 .. L : g[k] = g[k - 1] + ns[k].refs /\ h[k] = h[k - 1] + ms[k].refs
  BY <1>1, <1>2, <1>3 DEF IsSum
<1> HIDE DEF L
<1>5. 0 \in T
  BY <1>3, <1>4
<1>6. ASSUME NEW k \in T PROVE k + 1 \in T
  <2>1. SUFFICES ASSUME k + 1 <= L PROVE g[k + 1] = h[k + 1] + IF k + 1 >= n THEN 1 ELSE 0
    OBVIOUS
  <2>2. k \in Nat /\ k <= L /\ k \in 0 .. L /\ k + 1 \in 1 .. L /\ (k + 1) - 1 = k
    BY <1>3, <2>1
  <2>3. g[k] = h[k] + IF k >= n THEN 1 ELSE 0
    BY <2>2
  <2>4. /\ g[k + 1] = g[k] + ns[k + 1].refs /\ h[k + 1] = h[k] + ms[k + 1].refs
        /\ g[k] \in Nat /\ h[k] \in Nat /\ ns[k + 1].refs \in Nat /\ ms[k + 1].refs \in Nat
    BY <1>3, <1>4, <2>2
  <2>5. /\ k + 1 = n => ns[k + 1].refs = ms[k + 1].refs + 1
        /\ k + 1 # n => ns[k + 1].refs = ms[k + 1].refs
    BY <1>3, <2>2
  <2>6. CASE k + 1 = n
    <3>1. ~ (k >= n) /\ k + 1 >= n
      BY <1>3, <2>2, <2>6
    <3>2. g[k] = h[k]
      BY <2>3, <2>4, <3>1
    <3>3. PICK a \in Nat, r \in Nat, q \in Nat :
            a = h[k] /\ r = ns[k + 1].refs /\ q = ms[k + 1].refs
      BY <2>4
    <3>4. g[k + 1] = a + r /\ h[k + 1] = a + q /\ r = q + 1
      BY <2>4, <2>5, <2>6, <3>2, <3>3
    <3>5. g[k + 1] = h[k + 1] + 1
      BY <3>4
    <3> QED BY <3>1, <3>5
  <2>7. CASE k + 1 # n
    <3>1. k >= n <=> k + 1 >= n
      BY <1>3, <2>2, <2>7
    <3>2. PICK d : d = IF k >= n THEN 1 ELSE 0
      OBVIOUS
    <3>3. d \in Nat /\ g[k] = h[k] + d /\ d = IF k + 1 >= n THEN 1 ELSE 0
      BY <2>3, <3>1, <3>2
    <3>4. g[k + 1] = h[k + 1] + d
      <4>1. PICK a \in Nat, b \in Nat, r \in Nat, q \in Nat :
              a = g[k] /\ b = h[k] /\ r = ns[k + 1].refs /\ q = ms[k + 1].refs
        BY <2>4
      <4>2. a = b + d /\ r = q
        BY <2>5, <2>7, <3>3, <4>1
      <4>4. d \in Nat
        BY <3>3
      <4>3. a + r = (b + q) + d
        BY <4>2, <4>4
      <4> QED BY <2>4, <4>1, <4>3
    <3> QED BY <3>3, <3>4
  <2> QED BY <2>6, <2>7
<1>7. T \in SUBSET Nat
  OBVIOUS
<1> HIDE DEF T
<1>8. T = Nat
  BY <1>5, <1>6, <1>7, Induct
<1>9. g[L] = h[L] + 1
  <2>1. L \in T /\ L >= n
    BY <1>3, <1>8
  <2> QED BY <1>3, <2>1 DEF T
<1> QED BY <1>1, <1>2, <1>3, <1>9 DEF L

-----------------------------------------------------------------------------
(* The links that point to a node.                                         *)
LinksOf(ns, m) == IF m \in DOMAIN ns THEN ns[m].links ELSE << >>

(* The places of the links that point to a node, and how many they are.    *)
LinksTo(ns, n) ==
  {p \in (1 .. Len(ns)) \X (1 .. MaxLinks) :
     p[2] \in DOMAIN ns[p[1]].links /\ ns[p[1]].links[p[2]].node = n}

InLinks(ns, n) == Cardinality(LinksTo(ns, n))

(* They are finitely many.                                                 *)
LEMMA InLinksType ==
  ASSUME NEW ns \in Seq(StackNode), NEW n
  PROVE  IsFiniteSet(LinksTo(ns, n)) /\ InLinks(ns, n) \in Nat
<1> DEFINE A == 1 .. Len(ns)  B == 1 .. MaxLinks
<1>1. IsFiniteSet(A) /\ IsFiniteSet(B)
  BY FS_Interval, ParseStackAssumption
<1>2. LinksTo(ns, n) \subseteq A \X B
  BY DEF LinksTo
<1> HIDE DEF A, B
<1>3. IsFiniteSet(A \X B)
  BY <1>1, FS_Product
<1>4. IsFiniteSet(LinksTo(ns, n))
  BY <1>2, <1>3, FS_Subset
<1> QED BY <1>4, FS_CardinalityType DEF InLinks

(* A change of the links of one node.                                      *)
LEMMA LinksChange ==
  ASSUME NEW ns \in Seq(StackNode), NEW ms \in Seq(StackNode), NEW m, NEW n,
         \A k \in Nat : k # m => LinksOf(ms, k) = LinksOf(ns, k),
         Len(LinksOf(ns, m)) <= MaxLinks, Len(LinksOf(ms, m)) <= MaxLinks
  PROVE  InLinks(ms, n) + Points(LinksOf(ns, m), n) = InLinks(ns, n) + Points(LinksOf(ms, m), n)
<1> DEFINE Of(g) == {p \in LinksTo(g, n) : p[1] = m}
           Rest(g) == LinksTo(g, n) \ Of(g)
<1>1. ASSUME NEW g \in Seq(StackNode), Len(LinksOf(g, m)) <= MaxLinks
      PROVE  /\ Points(LinksOf(g, m), n) \in Nat
             /\ Cardinality(Rest(g)) = InLinks(g, n) - Points(LinksOf(g, m), n)
  <2>1. IsFiniteSet(LinksTo(g, n)) /\ InLinks(g, n) \in Nat
    BY InLinksType
  <2>2. IsFiniteSet(Of(g)) /\ Cardinality(Of(g)) = Points(LinksOf(g, m), n)
    <3> DEFINE P == Pointers(LinksOf(g, m), n)
    <3>1. Of(g) = {m} \X P
      <4>1. CASE m \in DOMAIN g
        <5>1. LinksOf(g, m) = g[m].links /\ m \in 1 .. Len(g) /\ g[m].links \in Seq(Link)
          BY <4>1, NodeType DEF LinksOf
        <5>2. DOMAIN g[m].links \subseteq 1 .. MaxLinks
          BY <1>1, <5>1, ParseStackAssumption
        <5> QED BY <5>1, <5>2 DEF LinksTo, Pointers
      <4>2. CASE m \notin DOMAIN g
        <5>1. LinksOf(g, m) = << >> /\ m \notin 1 .. Len(g)
          BY <4>2, NodeType DEF LinksOf
        <5> QED BY <5>1 DEF LinksTo, Pointers
      <4> QED BY <4>1, <4>2
    <3>2. LinksOf(g, m) \in Seq(Link)
      <4>1. CASE m \in DOMAIN g
        BY <4>1, NodeType DEF LinksOf
      <4>2. CASE m \notin DOMAIN g
        BY <4>2 DEF LinksOf
      <4> QED BY <4>1, <4>2
    <3>3. IsFiniteSet(P) /\ Cardinality(P) \in Nat
      BY <3>2, PointsType DEF Points
    <3> HIDE DEF P
    <3>4. IsFiniteSet({m}) /\ Cardinality({m}) = 1
      BY FS_Singleton
    <3>5. IsFiniteSet({m} \X P) /\ Cardinality({m} \X P) = Cardinality({m}) * Cardinality(P)
      BY <3>3, <3>4, FS_Product
    <3>6. Cardinality({m} \X P) = Cardinality(P)
      BY <3>3, <3>4, <3>5
    <3> QED BY <3>1, <3>5, <3>6 DEF Points, P
  <2>3. Points(LinksOf(g, m), n) \in Nat
    BY <2>2, FS_CardinalityType
  <2>4. Of(g) \cap LinksTo(g, n) = Of(g)
    OBVIOUS
  <2> HIDE DEF Of
  <2>5. Cardinality(LinksTo(g, n) \ Of(g)) = Cardinality(LinksTo(g, n)) - Cardinality(LinksTo(g, n) \cap Of(g))
    BY <2>1, <2>2, FS_Difference
  <2> QED BY <2>2, <2>3, <2>4, <2>5 DEF InLinks
<1>2. ASSUME NEW g \in Seq(StackNode)
      PROVE  Rest(g) = {p \in Nat \X (1 .. MaxLinks) :
                          p[1] # m /\ p[2] \in DOMAIN LinksOf(g, p[1]) /\ LinksOf(g, p[1])[p[2]].node = n}
  <2>1. \A k \in Nat : k \in 1 .. Len(g) => LinksOf(g, k) = g[k].links
    BY NodeType DEF LinksOf
  <2>2. \A k \in Nat : k \notin 1 .. Len(g) => DOMAIN LinksOf(g, k) = {}
    BY NodeType DEF LinksOf
  <2>3. 1 .. Len(g) \subseteq Nat
    OBVIOUS
  <2> QED BY <2>1, <2>2, <2>3 DEF LinksTo
<1> HIDE DEF Rest
<1>3. Rest(ns) = Rest(ms)
  <2> DEFINE R(g) == {p \in Nat \X (1 .. MaxLinks) :
                        p[1] # m /\ p[2] \in DOMAIN LinksOf(g, p[1]) /\ LinksOf(g, p[1])[p[2]].node = n}
  <2>1. Rest(ns) = R(ns) /\ Rest(ms) = R(ms)
    BY <1>2
  <2>2. R(ns) = R(ms)
    <3>1. \A p \in Nat \X (1 .. MaxLinks) : p[1] # m => LinksOf(ms, p[1]) = LinksOf(ns, p[1])
      OBVIOUS
    <3> QED BY <3>1
  <2> HIDE DEF R
  <2> QED BY <2>1, <2>2
<1>4. /\ Cardinality(Rest(ns)) = InLinks(ns, n) - Points(LinksOf(ns, m), n)
      /\ Cardinality(Rest(ms)) = InLinks(ms, n) - Points(LinksOf(ms, m), n)
      /\ Points(LinksOf(ns, m), n) \in Nat /\ Points(LinksOf(ms, m), n) \in Nat
  BY <1>1
<1>5. InLinks(ns, n) \in Nat /\ InLinks(ms, n) \in Nat
  BY InLinksType
<1>6. PICK c : c = Cardinality(Rest(ns)) /\ c = Cardinality(Rest(ms))
  BY <1>3
<1>7. /\ c = InLinks(ns, n) - Points(LinksOf(ns, m), n)
      /\ c = InLinks(ms, n) - Points(LinksOf(ms, m), n)
  BY <1>4, <1>6
<1>8. InLinks(ns, n) - Points(LinksOf(ns, m), n) = InLinks(ms, n) - Points(LinksOf(ms, m), n)
  BY <1>7, Zenon
<1>9. PICK a \in Nat, b \in Nat, p \in Nat, q \in Nat :
        /\ a = InLinks(ns, n) /\ b = InLinks(ms, n)
        /\ p = Points(LinksOf(ns, m), n) /\ q = Points(LinksOf(ms, m), n)
  BY <1>4, <1>5
<1>10. a - p = b - q
  BY <1>8, <1>9
<1>11. b + p = a + q
  BY <1>10
<1> QED BY <1>9, <1>11

(* And of none.                                                            *)
LEMMA LinksSame ==
  ASSUME NEW ns \in Seq(StackNode), NEW ms \in Seq(StackNode), Len(ms) = Len(ns),
         \A k \in DOMAIN ns : ms[k].links = ns[k].links, NEW n
  PROVE  InLinks(ms, n) = InLinks(ns, n)
<1>1. LinksTo(ms, n) = LinksTo(ns, n)
  BY NodeType DEF LinksTo
<1> QED BY <1>1 DEF InLinks

(* A node that a link points to is counted.                                *)
LEMMA LinksSome ==
  ASSUME NEW ns \in Seq(StackNode), NEW m \in DOMAIN ns, NEW i \in DOMAIN ns[m].links,
         Len(ns[m].links) <= MaxLinks
  PROVE  InLinks(ns, ns[m].links[i].node) > 0
<1> DEFINE n == ns[m].links[i].node
<1>1. m \in 1 .. Len(ns) /\ ns[m].links \in Seq(Link) /\ i \in 1 .. MaxLinks
  BY NodeType, ParseStackAssumption
<1>2. <<m, i>> \in LinksTo(ns, n)
  BY <1>1 DEF LinksTo
<1> HIDE DEF n
<1>3. IsFiniteSet(LinksTo(ns, n)) /\ InLinks(ns, n) \in Nat
  BY InLinksType
<1>4. InLinks(ns, n) # 0
  BY <1>2, <1>3, FS_EmptySet DEF InLinks
<1> QED BY <1>3, <1>4 DEF n

-----------------------------------------------------------------------------
(* What holds of the graph between any two operations and in the middle of *)
(* most.  A node agrees with the node below each of its links.             *)
Follows(ns, n, link) ==
  /\ link.node \in DOMAIN ns
  /\ ns[n].position = ns[link.node].position + Bytes(link.tree)
  /\ ns[n].errors = ns[link.node].errors + IF link.tree = NoTree THEN 1 ELSE 0
  /\ ns[n].cost = ns[link.node].cost + LinkCost(link.tree, ns[n].state)

(* A node has no more links than fit, and none exactly when it is free or  *)
(* the base.                                                               *)
NodeOK(ns, n) ==
  /\ Len(ns[n].links) <= MaxLinks
  /\ ns[n].refs = 0 => ns[n].links = << >>
  /\ ns[n].refs > 0 /\ n # Base => ns[n].links # << >>
  /\ \A i \in DOMAIN ns[n].links : Follows(ns, n, ns[n].links[i])

(* A graph of such nodes on top of the base node.                          *)
GraphOK(ns) ==
  /\ ns \in Seq(StackNode)
  /\ Base \in DOMAIN ns /\ ns[Base].position = 0 /\ ns[Base].errors = 0 /\ ns[Base].links = << >>
  /\ \A n \in DOMAIN ns : NodeOK(ns, n)

(* A count is exact for the heads, and for heads and links given up that   *)
(* are still to be released.                                               *)
Here(n, k) == IF n = k THEN 1 ELSE 0

Exact(ns, hs, gone) ==
  \A n \in DOMAIN ns : ns[n].refs = Points(hs, n) + Points(gone, n) + InLinks(ns, n) + Here(n, Base)

(* Heads and links point to nodes that are there.                          *)
Aims(ns, s) == \A i \in DOMAIN s : s[i].node \in DOMAIN ns

(* All of this together, of a graph, its heads and what has been given up. *)
Sound(ns, hs, gone) ==
  /\ GraphOK(ns) /\ hs \in Seq(StackHead) /\ gone \in Seq(Pointer)
  /\ Aims(ns, hs) /\ Aims(ns, gone) /\ Exact(ns, hs, gone)

(* The four parts of a count are numbers.                                  *)
LEMMA CountsType ==
  ASSUME NEW ns \in Seq(StackNode), NEW hs \in Seq(StackHead), NEW gone \in Seq(Pointer), NEW n
  PROVE  Points(hs, n) \in Nat /\ Points(gone, n) \in Nat /\ InLinks(ns, n) \in Nat /\ Here(n, Base) \in Nat
<1>1. Here(n, Base) \in Nat
  BY DEF Here
<1>2. InLinks(ns, n) \in Nat
  BY InLinksType
<1>3. Points(hs, n) \in Nat
  BY PointsType
<1>4. Points(gone, n) \in Nat
  BY PointsType
<1> QED BY <1>1, <1>2, <1>3, <1>4

(* Nothing points to a node that is not in use.                            *)
LEMMA Counted ==
  ASSUME NEW ns, NEW hs, NEW gone, Sound(ns, hs, gone)
  PROVE  /\ ns[Base].refs > 0
         /\ \A i \in DOMAIN hs : ns[hs[i].node].refs > 0
         /\ \A i \in DOMAIN gone : ns[gone[i].node].refs > 0
         /\ \A m \in DOMAIN ns : \A i \in DOMAIN ns[m].links : ns[ns[m].links[i].node].refs > 0
<1>1. /\ ns \in Seq(StackNode) /\ hs \in Seq(StackHead) /\ gone \in Seq(Pointer)
      /\ Aims(ns, hs) /\ Aims(ns, gone) /\ Exact(ns, hs, gone) /\ GraphOK(ns)
  BY DEF Sound, GraphOK
<1>2. ASSUME NEW n \in DOMAIN ns,
             Points(hs, n) > 0 \/ Points(gone, n) > 0 \/ InLinks(ns, n) > 0 \/ Here(n, Base) > 0
      PROVE  ns[n].refs > 0
  <2>1. PICK a \in Nat, b \in Nat, c \in Nat, d \in Nat :
          a = Points(hs, n) /\ b = Points(gone, n) /\ c = InLinks(ns, n) /\ d = Here(n, Base)
    BY <1>1, CountsType
  <2>2. ns[n].refs = a + b + c + d
    BY <1>1, <2>1 DEF Exact
  <2>3. a > 0 \/ b > 0 \/ c > 0 \/ d > 0
    BY <1>2, <2>1
  <2> QED BY <2>2, <2>3
<1>3. ns[Base].refs > 0
  <2>1. Base \in DOMAIN ns /\ Here(Base, Base) > 0
    BY <1>1 DEF GraphOK, Here
  <2> QED BY <1>2, <2>1
<1>4. ASSUME NEW i \in DOMAIN hs PROVE ns[hs[i].node].refs > 0
  <2>1. hs[i].node \in DOMAIN ns /\ Points(hs, hs[i].node) > 0
    BY <1>1, PointsSome DEF Aims
  <2> QED BY <1>2, <2>1
<1>5. ASSUME NEW i \in DOMAIN gone PROVE ns[gone[i].node].refs > 0
  <2>1. gone[i].node \in DOMAIN ns /\ Points(gone, gone[i].node) > 0
    BY <1>1, PointsSome DEF Aims
  <2> QED BY <1>2, <2>1
<1>6. ASSUME NEW m \in DOMAIN ns, NEW i \in DOMAIN ns[m].links
      PROVE  ns[ns[m].links[i].node].refs > 0
  <2>1. Len(ns[m].links) <= MaxLinks /\ ns[m].links[i].node \in DOMAIN ns
    BY <1>1 DEF GraphOK, NodeOK, Follows
  <2>2. InLinks(ns, ns[m].links[i].node) > 0
    BY <1>1, <2>1, LinksSome
  <2> QED BY <1>2, <2>1, <2>2
<1> QED BY <1>3, <1>4, <1>5, <1>6

(* The parts of a link have their types.                                   *)
LEMMA LinkType ==
  ASSUME NEW x \in Link
  PROVE  /\ x.node \in Nat \ {0} /\ x.tree \in Trees \cup {NoTree}
         /\ x.pending \in BOOLEAN /\ x.pushes \in Nat /\ x \in Pointer
  BY DEF Link, Pointer

(* A node is replaced.                                                     *)
LEMMA UpdateNode ==
  ASSUME NEW ns \in Seq(StackNode), NEW n \in DOMAIN ns, NEW x \in StackNode, NEW ms,
         ms = [ns EXCEPT ![n] = x]
  PROVE  /\ ms \in Seq(StackNode) /\ Len(ms) = Len(ns) /\ DOMAIN ms = DOMAIN ns
         /\ ms[n] = x /\ \A k \in DOMAIN ns : k # n => ms[k] = ns[k]
  OBVIOUS

(* The count of a node is replaced.                                        *)
LEMMA UpdateRefs ==
  ASSUME NEW x \in StackNode, NEW r \in Nat
  PROVE  /\ [x EXCEPT !.refs = r] \in StackNode
         /\ LET y == [x EXCEPT !.refs = r]
            IN  /\ y.refs = r /\ y.links = x.links /\ y.state = x.state
                /\ y.position = x.position /\ y.errors = x.errors /\ y.cost = x.cost
<1> DEFINE L == Seq(Link)
<1>1. x \in [state : States, position : Nat, links : L, refs : Nat, errors : Nat, cost : Nat]
  BY DEF StackNode
<1> SUFFICES /\ [x EXCEPT !.refs = r] \in [state : States, position : Nat, links : L, refs : Nat, errors : Nat, cost : Nat]
             /\ LET y == [x EXCEPT !.refs = r]
                IN  /\ y.refs = r /\ y.links = x.links /\ y.state = x.state
                    /\ y.position = x.position /\ y.errors = x.errors /\ y.cost = x.cost
  BY DEF StackNode
<1> HIDE DEF L
<1> QED BY <1>1

(* stack_node_release of one node.                                         *)
LEMMA ReleaseOne ==
  ASSUME NEW ns, NEW hs, NEW gone, Sound(ns, hs, gone), gone # << >>, NEW st,
         st = ReleaseStep([nodes |-> ns, gone |-> gone])
  PROVE  /\ st = [nodes |-> st.nodes, gone |-> st.gone]
         /\ Sound(st.nodes, hs, st.gone)
         /\ References(ns) = References(st.nodes) + 1
<1>1. /\ ns \in Seq(StackNode) /\ hs \in Seq(StackHead) /\ gone \in Seq(Pointer)
      /\ Aims(ns, hs) /\ Aims(ns, gone) /\ Exact(ns, hs, gone) /\ GraphOK(ns)
  BY DEF Sound, GraphOK
<1>2. PICK n : n = Head(gone).node
  OBVIOUS
<1>3. PICK rest : rest = Tail(gone)
  OBVIOUS
<1>4. n \in DOMAIN ns /\ ns[n].refs > 0 /\ rest \in Seq(Pointer) /\ Aims(ns, rest)
  <2>1. 1 \in DOMAIN gone /\ Head(gone) = gone[1] /\ rest \in Seq(Pointer)
    BY <1>1, <1>3
  <2>2. \A i \in DOMAIN rest : i + 1 \in DOMAIN gone /\ rest[i] = gone[i + 1]
    BY <1>1, <1>3
  <2>3. n = gone[1].node
    BY <1>2, <2>1
  <2>4. n \in DOMAIN ns /\ ns[n].refs > 0
    BY <1>1, <2>1, <2>3, Counted DEF Aims
  <2>5. Aims(ns, rest)
    BY <1>1, <2>2 DEF Aims
  <2> QED BY <2>1, <2>4, <2>5
<1>5. \A k : Points(gone, k) = Points(rest, k) + Here(n, k)
  <2> SUFFICES ASSUME NEW k PROVE Points(gone, k) = Points(rest, k) + Here(n, k)
    OBVIOUS
  <2>1. Points(gone, k) = Points(Tail(gone), k) + IF Head(gone).node = k THEN 1 ELSE 0
    BY <1>1, PointsTail
  <2> QED BY <1>2, <1>3, <2>1 DEF Here
<1>6. ns[n].refs - 1 \in Nat /\ ns[n] \in StackNode
  BY <1>1, <1>4, NodeType
<1>7. PICK one \in StackNode : one = [ns[n] EXCEPT !.refs = ns[n].refs - 1]
  BY <1>6, UpdateRefs
<1>8. /\ one.refs = ns[n].refs - 1 /\ one.links = ns[n].links /\ one.state = ns[n].state
      /\ one.position = ns[n].position /\ one.errors = ns[n].errors /\ one.cost = ns[n].cost
  BY <1>6, <1>7, UpdateRefs
<1>r. one.refs \in Nat /\ ns[n].refs = one.refs + 1
  <2>1. \A x \in Nat : \A y : x - 1 \in Nat /\ y = x - 1 => y \in Nat /\ x = y + 1
    OBVIOUS
  <2>2. ns[n].refs \in Nat
    BY <1>1, <1>4, NodeType
  <2> QED BY <1>6, <1>8, <2>1, <2>2
<1>9. PICK less : less = [ns EXCEPT ![n] = one]
  OBVIOUS
<1>u. /\ less \in Seq(StackNode) /\ Len(less) = Len(ns) /\ DOMAIN less = DOMAIN ns
      /\ less[n] = one /\ \A k \in DOMAIN ns : k # n => less[k] = ns[k]
  BY <1>1, <1>4, <1>9, UpdateNode
<1>10. ns[n].links \in Seq(Link) /\ ns[n].links \in Seq(Pointer) /\ Len(ns[n].links) <= MaxLinks
  <2>1. ns[n].links \in Seq(Link) /\ Link \subseteq Pointer
    BY <1>1, <1>4, NodeType DEF Pointer
  <2> HIDE DEF Link, Pointer
  <2>2. ns[n].links \in Seq(Pointer)
    BY <2>1
  <2> QED BY <1>1, <1>4, <2>1, <2>2 DEF GraphOK, NodeOK
<1>11. st = IF one.refs > 0 THEN [nodes |-> less, gone |-> rest]
            ELSE [nodes |-> [less EXCEPT ![n] = Free], gone |-> one.links \o rest]
  <2> DEFINE s0 == [nodes |-> ns, gone |-> gone]
             l0 == [s0.nodes EXCEPT ![Head(s0.gone).node].refs = @ - 1]
  <2>1. s0.nodes = ns /\ s0.gone = gone
    OBVIOUS
  <2>2. l0 = [ns EXCEPT ![n] = [ns[n] EXCEPT !.refs = ns[n].refs - 1]]
    BY <1>2, <2>1
  <2>3. l0 = less
    BY <1>7, <1>9, <2>2
  <2>4. st = IF s0.gone = << >> THEN s0
             ELSE IF l0[Head(s0.gone).node].refs > 0 THEN [nodes |-> l0, gone |-> Tail(s0.gone)]
             ELSE [nodes |-> [l0 EXCEPT ![Head(s0.gone).node] = Free],
                   gone |-> l0[Head(s0.gone).node].links \o Tail(s0.gone)]
    BY Zenon DEF ReleaseStep
  <2> HIDE DEF l0, s0
  <2>5. less[n] = one
    BY <1>u
  <2> QED BY <1>2, <1>3, <2>1, <2>3, <2>4, <2>5
(* What both cases have in common.                                         *)
<1>12. ASSUME NEW ms \in Seq(StackNode), NEW left \in Seq(Pointer), st = [nodes |-> ms, gone |-> left],
             Len(ms) = Len(ns), DOMAIN ms = DOMAIN ns, ms[n].refs = ns[n].refs - 1,
             \A k \in DOMAIN ns : k # n => ms[k].refs = ns[k].refs,
             \A k : Points(left, k) + InLinks(ms, k) = Points(rest, k) + InLinks(ns, k),
             GraphOK(ms), Aims(ns, left)
       PROVE  /\ st = [nodes |-> st.nodes, gone |-> st.gone]
              /\ Sound(st.nodes, hs, st.gone)
              /\ References(ns) = References(st.nodes) + 1
  <2>1. st.nodes = ms /\ st.gone = left
    BY <1>12
  <2>2. References(ns) = References(ms) + 1
    <3>1. ns[n].refs = ms[n].refs + 1
      BY <1>8, <1>r, <1>12
    <3> QED BY <1>1, <1>4, <1>12, <3>1, ReferencesLess
  <2>3. Aims(ms, hs) /\ Aims(ms, left)
    BY <1>1, <1>12 DEF Aims
  <2>4. ASSUME NEW k \in DOMAIN ms
        PROVE  ms[k].refs = Points(hs, k) + Points(left, k) + InLinks(ms, k) + Here(k, Base)
    <3>1. PICK a \in Nat, b \in Nat, c \in Nat, d \in Nat, b1 \in Nat, c1 \in Nat, b2 \in Nat :
            /\ a = Points(hs, k) /\ b = Points(gone, k) /\ c = InLinks(ns, k) /\ d = Here(k, Base)
            /\ b1 = Points(left, k) /\ c1 = InLinks(ms, k) /\ b2 = Points(rest, k)
      <4>1. Points(hs, k) \in Nat /\ Points(gone, k) \in Nat /\ InLinks(ns, k) \in Nat /\ Here(k, Base) \in Nat
        BY <1>1, CountsType
      <4>2. Points(left, k) \in Nat
        BY <1>12, PointsType
      <4>3. InLinks(ms, k) \in Nat
        BY <1>12, InLinksType
      <4>4. Points(rest, k) \in Nat
        BY <1>4, PointsType
      <4> QED BY <4>1, <4>2, <4>3, <4>4
    <3>2. ns[k].refs = a + b + c + d
      BY <1>1, <1>12, <3>1 DEF Exact
    <3>3. b1 + c1 = b2 + c
      BY <1>12, <3>1
    <3>4. b = b2 + Here(n, k)
      BY <1>5, <3>1
    <3>5. ms[k].refs = a + b1 + c1 + d
      <4>1. CASE k = n
        <5>1. ms[k].refs = ns[k].refs - 1 /\ Here(n, k) = 1
          BY <1>12, <4>1 DEF Here
        <5> QED BY <3>2, <3>3, <3>4, <5>1
      <4>2. CASE k # n
        <5>1. ms[k].refs = ns[k].refs /\ Here(n, k) = 0
          BY <1>12, <4>2 DEF Here
        <5> QED BY <3>2, <3>3, <3>4, <5>1
      <4> QED BY <4>1, <4>2
    <3> QED BY <3>1, <3>5
  <2> QED BY <1>1, <1>12, <2>1, <2>2, <2>3, <2>4 DEF Sound, Exact
(* Somebody else still holds the node.                                     *)
<1>13. CASE one.refs > 0
  <2>1. st = [nodes |-> less, gone |-> rest]
    BY <1>11, <1>13
  <2>2. \A k \in DOMAIN ns :
          /\ less[k].links = ns[k].links /\ less[k].state = ns[k].state
          /\ less[k].position = ns[k].position /\ less[k].errors = ns[k].errors /\ less[k].cost = ns[k].cost
          /\ less[k].refs > 0 <=> ns[k].refs > 0
    BY <1>4, <1>8, <1>u, <1>13
  <2>3. \A k : InLinks(less, k) = InLinks(ns, k)
    BY <1>1, <1>u, <2>2, LinksSame
  <2>4. GraphOK(less)
    <3>1. ASSUME NEW k \in DOMAIN ns PROVE NodeOK(less, k)
      <4>1. NodeOK(ns, k)
        BY <1>1 DEF GraphOK
      <4>2. ASSUME NEW i \in DOMAIN less[k].links PROVE Follows(less, k, less[k].links[i])
        BY <1>u, <2>2, <4>1, SMTT(30) DEF NodeOK, Follows
      <4>3. less[k].refs = 0 => less[k].links = << >>
        <5>1. less[k].refs \in Nat /\ ns[k].refs \in Nat
          BY <1>1, <1>u, NodeType
        <5> QED BY <2>2, <4>1, <5>1 DEF NodeOK
      <4> QED BY <2>2, <4>1, <4>2, <4>3 DEF NodeOK
    <3> QED BY <1>1, <1>u, <2>2, <3>1 DEF GraphOK
  <2>5. \A k : Points(rest, k) + InLinks(less, k) = Points(rest, k) + InLinks(ns, k)
    BY <2>3
  <2>6. \A k \in DOMAIN ns : k # n => less[k].refs = ns[k].refs
    BY <1>u
  <2> QED BY <1>4, <1>8, <1>u, <1>12, <2>1, <2>4, <2>5, <2>6
(* The node is free, and nothing points to it.                             *)
<1>14. CASE ~ (one.refs > 0)
  <2>1. PICK ms : ms = [less EXCEPT ![n] = Free]
    OBVIOUS
  <2>2. PICK left : left = ns[n].links \o rest
    OBVIOUS
  <2>3. st = [nodes |-> ms, gone |-> left]
    BY <1>8, <1>11, <1>14, <2>1, <2>2
  <2>4. /\ ms \in Seq(StackNode) /\ Len(ms) = Len(ns) /\ DOMAIN ms = DOMAIN ns
        /\ ms[n] = Free /\ \A k \in DOMAIN ns : k # n => ms[k] = ns[k]
    <3>1. /\ ms \in Seq(StackNode) /\ Len(ms) = Len(less) /\ DOMAIN ms = DOMAIN less
          /\ ms[n] = Free /\ \A k \in DOMAIN less : k # n => ms[k] = less[k]
      BY <1>4, <1>u, <2>1, FreeType, UpdateNode
    <3> QED BY <1>u, <3>1
  <2>5. left \in Seq(Pointer) /\ \A k : Points(left, k) = Points(ns[n].links, k) + Points(rest, k)
    BY <1>4, <1>10, <2>2, PointsConcat
  <2>6. LinksOf(ns, n) = ns[n].links /\ LinksOf(ms, n) = << >>
    BY <1>4, <2>4 DEF LinksOf, Free
  <2>7. \A k : InLinks(ms, k) + Points(ns[n].links, k) = InLinks(ns, k)
    <3> SUFFICES ASSUME NEW k PROVE InLinks(ms, k) + Points(ns[n].links, k) = InLinks(ns, k)
      OBVIOUS
    <3>1. \A m \in Nat : m # n => LinksOf(ms, m) = LinksOf(ns, m)
      BY <2>4 DEF LinksOf
    <3>2. Len(LinksOf(ms, n)) <= MaxLinks
      BY <2>6, ParseStackAssumption
    <3>3. InLinks(ms, k) + Points(ns[n].links, k) = InLinks(ns, k) + Points(<< >>, k)
      BY <1>1, <1>10, <2>4, <2>6, <3>1, <3>2, LinksChange
    <3>4. Points(<< >>, k) = 0 /\ InLinks(ns, k) \in Nat
      BY <1>1, PointsNone, InLinksType
    <3> QED BY <3>3, <3>4
  <2>8. ASSUME NEW k PROVE Points(left, k) + InLinks(ms, k) = Points(rest, k) + InLinks(ns, k)
    <3>1. PICK a \in Nat, b \in Nat, c \in Nat, d \in Nat :
            a = Points(ns[n].links, k) /\ b = Points(rest, k) /\ c = InLinks(ms, k) /\ d = InLinks(ns, k)
      <4>1. Points(ns[n].links, k) \in Nat
        BY <1>10, PointsType
      <4>2. Points(rest, k) \in Nat
        BY <1>4, PointsType
      <4>3. InLinks(ms, k) \in Nat /\ InLinks(ns, k) \in Nat
        BY <1>1, <2>4, InLinksType
      <4> QED BY <4>1, <4>2, <4>3
    <3>2. Points(left, k) = a + b /\ c + a = d
      BY <2>5, <2>7, <3>1
    <3> QED BY <3>1, <3>2
  <2>9. ms[n].refs = ns[n].refs - 1 /\ \A k \in DOMAIN ns : k # n => ms[k].refs = ns[k].refs
    <3>1. one.refs = 0 /\ ms[n].refs = 0
      BY <1>r, <1>14, <2>4 DEF Free
    <3>2. ms[n].refs = ns[n].refs - 1
      BY <1>8, <3>1
    <3> QED BY <2>4, <3>2
  <2>10. ns[n].refs = 1 /\ n # Base /\ LinksTo(ns, n) = {}
    <3>1. PICK a \in Nat, b \in Nat, c \in Nat, d \in Nat :
            /\ a = Points(hs, n) /\ b = Points(rest, n) /\ c = InLinks(ns, n) /\ d = Here(n, Base)
      <4>1. Points(hs, n) \in Nat /\ InLinks(ns, n) \in Nat /\ Here(n, Base) \in Nat
        BY <1>1, CountsType
      <4>2. Points(rest, n) \in Nat
        BY <1>4, PointsType
      <4> QED BY <4>1, <4>2
    <3>2. Points(gone, n) = b + 1
      BY <1>5, <3>1 DEF Here
    <3>3. ns[n].refs = a + (b + 1) + c + d
      BY <1>1, <1>4, <3>1, <3>2 DEF Exact
    <3>4. ns[n].refs = 1
      BY <1>r, <1>14
    <3>5. c = 0 /\ d = 0
      BY <3>3, <3>4
    <3>6. IsFiniteSet(LinksTo(ns, n))
      BY <1>1, InLinksType
    <3>7. LinksTo(ns, n) = {}
      BY <3>1, <3>5, <3>6, FS_EmptySet DEF InLinks
    <3> QED BY <3>1, <3>4, <3>5, <3>7 DEF Here
  <2>11. GraphOK(ms)
    <3>1. ASSUME NEW k \in DOMAIN ns, k # n PROVE NodeOK(ms, k)
      <4>1. NodeOK(ns, k) /\ ms[k] = ns[k]
        BY <1>1, <2>4, <3>1 DEF GraphOK
      <4>2. ASSUME NEW i \in DOMAIN ns[k].links PROVE ns[k].links[i].node # n
        <5>1. k \in 1 .. Len(ns) /\ i \in 1 .. MaxLinks
          <6>1. ns[k].links \in Seq(Link) /\ Len(ns[k].links) <= MaxLinks /\ DOMAIN ns = 1 .. Len(ns)
            BY <1>1, <4>1, NodeType DEF NodeOK
          <6> QED BY <6>1, ParseStackAssumption
        <5>2. <<k, i>> \notin LinksTo(ns, n)
          BY <2>10
        <5> QED BY <5>1, <5>2 DEF LinksTo
      <4>3. ASSUME NEW i \in DOMAIN ms[k].links PROVE Follows(ms, k, ms[k].links[i])
        <5>1. PICK x : x = ns[k].links[i]
          OBVIOUS
        <5>2. x.node # n /\ x.node \in DOMAIN ns /\ ms[x.node] = ns[x.node] /\ Follows(ns, k, x)
          BY <2>4, <4>1, <4>2, <4>3, <5>1 DEF NodeOK, Follows
        <5> QED BY <2>4, <4>1, <5>1, <5>2 DEF Follows
      <4> QED BY <4>1, <4>3 DEF NodeOK
    <3>2. NodeOK(ms, n)
      BY <2>4, ParseStackAssumption DEF NodeOK, Free
    <3>3. ms[Base] = ns[Base]
      BY <1>1, <2>4, <2>10 DEF GraphOK
    <3> QED BY <1>1, <2>4, <3>1, <3>2, <3>3 DEF GraphOK
  <2>12. Aims(ns, left)
    <3>1. ASSUME NEW i \in DOMAIN ns[n].links PROVE ns[n].links[i].node \in DOMAIN ns
      BY <1>1, <1>4, <3>1 DEF GraphOK, NodeOK, Follows
    <3>2. Aims(ns, ns[n].links)
      BY <3>1 DEF Aims
    <3> QED BY <1>4, <1>10, <2>2, <3>2 DEF Aims
  <2> QED BY <1>12, <2>3, <2>4, <2>5, <2>8, <2>9, <2>11, <2>12
<1> QED BY <1>13, <1>14

(* stack_node_release: all that is given up is released.                   *)
LEMMA ReleaseSound ==
  ASSUME NEW ns, NEW hs, NEW gone, Sound(ns, hs, gone)
  PROVE  Sound(Release(ns, gone), hs, << >>)
<1> DEFINE A == Seq(StackNode)  B == Seq(Pointer)
           U == [nodes : A, gone : B]
           R == References(ns)
           first == [nodes |-> ns, gone |-> gone]
           Z(k) == {st \in U : Sound(st.nodes, hs, st.gone) /\ (st.gone = << >> \/ References(st.nodes) + k = R)}
           S == [k \in Nat |-> Z(k)]
<1>1. /\ ns \in A /\ gone \in B
      /\ \A ms, left : Sound(ms, hs, left) => ms \in A /\ left \in B
  BY DEF Sound, GraphOK
<1>2. R \in Nat /\ \A ms \in A : References(ms) \in Nat
  BY <1>1, ReferencesAre
<1> HIDE DEF A, B, R
<1>3. \A st \in U : st = [nodes |-> st.nodes, gone |-> st.gone] /\ st.nodes \in A /\ st.gone \in B
  OBVIOUS
<1>4. first \in U /\ first.nodes = ns /\ first.gone = gone
  BY <1>1
<1>5. ASSUME NEW ms, NEW left, ms \in A, left \in B, NEW st, st = [nodes |-> ms, gone |-> left]
      PROVE  st \in U /\ st.nodes = ms /\ st.gone = left
  BY <1>5
<1> HIDE DEF U, first
<1>6. S \in [Nat -> SUBSET U] /\ \A k \in Nat : S[k] = Z(k)
  OBVIOUS
<1>7. first \in S[0]
  <2>1. References(ns) + 0 = R
    BY <1>2 DEF R
  <2>2. first \in Z(0)
    BY <1>4, <2>1
  <2> QED BY <1>6, <2>2
<1>8. ASSUME NEW k \in Nat, NEW st \in S[k] PROVE ReleaseStep(st) \in S[k + 1]
  <2>1. /\ st \in U /\ Sound(st.nodes, hs, st.gone)
        /\ st.gone = << >> \/ References(st.nodes) + k = R
    BY <1>6
  <2>2. CASE st.gone = << >>
    <3>1. ReleaseStep(st) = st
      BY <2>2, Zenon DEF ReleaseStep
    <3>2. st \in Z(k + 1) /\ k + 1 \in Nat
      BY <2>1, <2>2
    <3> QED BY <1>6, <3>1, <3>2
  <2>3. CASE st.gone # << >>
    <3>1. PICK next : next = ReleaseStep(st)
      OBVIOUS
    <3>2. st = [nodes |-> st.nodes, gone |-> st.gone]
      BY <1>3, <2>1
    <3>3. next = ReleaseStep([nodes |-> st.nodes, gone |-> st.gone])
      BY <3>1, <3>2
    <3>4. /\ next = [nodes |-> next.nodes, gone |-> next.gone]
          /\ Sound(next.nodes, hs, next.gone)
          /\ References(st.nodes) = References(next.nodes) + 1
      BY <2>1, <2>3, <3>3, ReleaseOne
    <3>5. next.nodes \in A /\ next.gone \in B
      BY <1>1, <3>4
    <3>6. next \in U
      BY <1>5, <3>4, <3>5
    <3>7. PICK a \in Nat : a = References(next.nodes)
      BY <1>2, <3>5
    <3>8. a + (k + 1) = R
      BY <2>1, <2>3, <3>4, <3>7
    <3>9. next \in Z(k + 1) /\ k + 1 \in Nat
      BY <3>4, <3>6, <3>7, <3>8
    <3> QED BY <1>6, <3>1, <3>9
  <2> QED BY <2>2, <2>3
<1> HIDE DEF S
<1>9. PICK last : last = Repeat(ReleaseStep, first, R)
  OBVIOUS
<1>10. last \in S[R]
  <2>1. \A k \in 0 .. R - 1 : \A st \in S[k] : ReleaseStep(st) \in S[k + 1]
    BY <1>2, <1>8
  <2>2. S \in [Nat -> SUBSET U]
    BY <1>6
  <2>3. Repeat(ReleaseStep, first, R) \in S[R]
    BY <1>2, <1>7, <2>1, <2>2, RepeatRelease
  <2> QED BY <1>9, <2>3
<1>11. /\ last \in U /\ Sound(last.nodes, hs, last.gone)
       /\ last.gone = << >> \/ References(last.nodes) + R = R
  BY <1>2, <1>6, <1>10
<1>12. last.gone = << >>
  <2> SUFFICES ASSUME last.gone # << >> PROVE FALSE
    OBVIOUS
  <2>1. References(last.nodes) = 0
    <3>1. PICK a \in Nat : a = References(last.nodes)
      BY <1>2, <1>3, <1>11
    <3> QED BY <1>2, <1>11, <3>1
  <2>2. PICK next : next = ReleaseStep([nodes |-> last.nodes, gone |-> last.gone])
    OBVIOUS
  <2>3. Sound(next.nodes, hs, next.gone) /\ References(last.nodes) = References(next.nodes) + 1
    BY <1>11, <2>2, ReleaseOne
  <2>4. References(next.nodes) \in Nat
    BY <1>1, <1>2, <2>3
  <2> QED BY <2>1, <2>3, <2>4
<1>13. Release(ns, gone) = last.nodes
  BY <1>9 DEF Release, first, R
<1> QED BY <1>11, <1>12, <1>13

(* Heads are pointers, and so are sequences of them.                       *)
HeadIsPointer == Seq(StackHead) \subseteq Seq(Pointer)

(* Heads are pointers; the parts of a head have their types.               *)
LEMMA HeadsArePointers ==
  /\ HeadIsPointer
  /\ \A h \in StackHead : h.node \in Nat \ {0} /\ h.pushes \in Nat /\ h.halted \in BOOLEAN
<1>1. StackHead \subseteq Pointer
  BY DEF Pointer
<1>2. HeadIsPointer
  <2> HIDE DEF StackHead, Pointer
  <2> QED BY <1>1 DEF HeadIsPointer
<1>3. \A h \in StackHead : h.node \in Nat \ {0} /\ h.pushes \in Nat /\ h.halted \in BOOLEAN
  BY DEF StackHead
<1> QED BY <1>2, <1>3

(* A pointer may move between what is held and what is given up.           *)
LEMMA PointersMove ==
  ASSUME NEW ns, NEW hs, NEW gone, Sound(ns, hs, gone),
         NEW hs2 \in Seq(StackHead), NEW gone2 \in Seq(Pointer), Aims(ns, hs2), Aims(ns, gone2),
         \A n \in DOMAIN ns : Points(hs2, n) + Points(gone2, n) = Points(hs, n) + Points(gone, n)
  PROVE  Sound(ns, hs2, gone2)
<1>1. /\ ns \in Seq(StackNode) /\ hs \in Seq(StackHead) /\ gone \in Seq(Pointer) /\ Exact(ns, hs, gone)
  BY DEF Sound, GraphOK
<1>2. ASSUME NEW n \in DOMAIN ns
      PROVE  ns[n].refs = Points(hs2, n) + Points(gone2, n) + InLinks(ns, n) + Here(n, Base)
  <2>1. PICK a \in Nat, b \in Nat, c \in Nat, d \in Nat, a2 \in Nat, b2 \in Nat :
          /\ a = Points(hs, n) /\ b = Points(gone, n) /\ c = InLinks(ns, n) /\ d = Here(n, Base)
          /\ a2 = Points(hs2, n) /\ b2 = Points(gone2, n)
    BY <1>1, CountsType
  <2>2. ns[n].refs = a + b + c + d /\ a2 + b2 = a + b
    BY <1>1, <2>1 DEF Exact
  <2>3. ns[n].refs = a2 + b2 + c + d
    BY <2>2
  <2> QED BY <2>1, <2>3
<1> QED BY <1>2 DEF Sound, Exact

(* One more holds a node.                                                  *)
LEMMA RetainGraph ==
  ASSUME NEW ns, GraphOK(ns), NEW n \in DOMAIN ns, ns[n].refs > 0, NEW ms, ms = Retain(ns, n)
  PROVE  /\ GraphOK(ms) /\ Len(ms) = Len(ns) /\ DOMAIN ms = DOMAIN ns
         /\ ms[n].refs = ns[n].refs + 1 /\ \A k \in DOMAIN ns : k # n => ms[k].refs = ns[k].refs
         /\ \A k \in DOMAIN ns :
              /\ ms[k].links = ns[k].links /\ ms[k].state = ns[k].state
              /\ ms[k].position = ns[k].position /\ ms[k].errors = ns[k].errors /\ ms[k].cost = ns[k].cost
         /\ \A k : InLinks(ms, k) = InLinks(ns, k)
<1>1. ns \in Seq(StackNode) /\ ns[n] \in StackNode /\ ns[n].refs + 1 \in Nat
  BY NodeType DEF GraphOK
<1>2. PICK one \in StackNode : one = [ns[n] EXCEPT !.refs = ns[n].refs + 1]
  BY <1>1, UpdateRefs
<1>3. /\ one.refs = ns[n].refs + 1 /\ one.links = ns[n].links /\ one.state = ns[n].state
      /\ one.position = ns[n].position /\ one.errors = ns[n].errors /\ one.cost = ns[n].cost
  BY <1>1, <1>2, UpdateRefs
<1>4. ms = [ns EXCEPT ![n] = one]
  BY <1>1, <1>2 DEF Retain
<1>5. /\ ms \in Seq(StackNode) /\ Len(ms) = Len(ns) /\ DOMAIN ms = DOMAIN ns
      /\ ms[n] = one /\ \A k \in DOMAIN ns : k # n => ms[k] = ns[k]
  BY <1>1, <1>4, UpdateNode
<1>6. /\ ms[n].refs = ns[n].refs + 1 /\ \A k \in DOMAIN ns : k # n => ms[k].refs = ns[k].refs
      /\ \A k \in DOMAIN ns :
           /\ ms[k].links = ns[k].links /\ ms[k].state = ns[k].state
           /\ ms[k].position = ns[k].position /\ ms[k].errors = ns[k].errors /\ ms[k].cost = ns[k].cost
  BY <1>3, <1>5
<1>7. \A k : InLinks(ms, k) = InLinks(ns, k)
  BY <1>1, <1>5, <1>6, LinksSame
<1>8. GraphOK(ms)
  <2>1. ASSUME NEW k \in DOMAIN ns PROVE NodeOK(ms, k)
    <3>1. NodeOK(ns, k) /\ (ms[k].refs = 0 <=> ns[k].refs = 0) /\ (ms[k].refs > 0 <=> ns[k].refs > 0)
      <4>1. ns[k].refs \in Nat /\ ns[n].refs \in Nat /\ NodeOK(ns, k)
        BY <1>1, NodeType DEF GraphOK
      <4>2. CASE k = n
        <5>1. ms[k].refs = ns[k].refs + 1 /\ ns[k].refs > 0
          BY <1>6, <4>2
        <5>2. ms[k].refs > 0 /\ ms[k].refs # 0 /\ ns[k].refs # 0
          BY <4>1, <5>1
        <5> QED BY <4>1, <5>1, <5>2
      <4>3. CASE k # n
        BY <1>6, <4>1, <4>3
      <4> QED BY <4>2, <4>3
    <3>2. ASSUME NEW i \in DOMAIN ms[k].links PROVE Follows(ms, k, ms[k].links[i])
      <4>1. PICK x : x = ns[k].links[i] /\ x = ms[k].links[i]
        BY <1>6
      <4>2. Follows(ns, k, x)
        BY <1>6, <3>1, <3>2, <4>1 DEF NodeOK
      <4>3. x.node \in DOMAIN ns
        BY <4>2 DEF Follows
      <4>4. Follows(ms, k, x)
        BY <1>5, <1>6, <4>2, <4>3 DEF Follows
      <4> QED BY <4>1, <4>4
    <3> QED BY <1>6, <3>1, <3>2 DEF NodeOK
  <2> QED BY <1>5, <1>6, <2>1 DEF GraphOK
<1> QED BY <1>5, <1>6, <1>7, <1>8

(* A head for a node that is in use.                                       *)
LEMMA HeadAdded ==
  ASSUME NEW ns, NEW hs, NEW gone, Sound(ns, hs, gone), NEW h \in StackHead,
         h.node \in DOMAIN ns, ns[h.node].refs > 0
  PROVE  Sound(Retain(ns, h.node), Append(hs, h), gone)
<1>1. /\ ns \in Seq(StackNode) /\ hs \in Seq(StackHead) /\ gone \in Seq(Pointer)
      /\ Aims(ns, hs) /\ Aims(ns, gone) /\ Exact(ns, hs, gone) /\ GraphOK(ns)
  BY DEF Sound, GraphOK
<1>2. PICK ms : ms = Retain(ns, h.node)
  OBVIOUS
<1>3. /\ GraphOK(ms) /\ DOMAIN ms = DOMAIN ns
      /\ ms[h.node].refs = ns[h.node].refs + 1 /\ \A k \in DOMAIN ns : k # h.node => ms[k].refs = ns[k].refs
      /\ \A k : InLinks(ms, k) = InLinks(ns, k)
  BY <1>1, <1>2, RetainGraph
<1>4. PICK hs2 : hs2 = Append(hs, h)
  OBVIOUS
<1>5. /\ hs2 \in Seq(StackHead) /\ DOMAIN hs2 = DOMAIN hs \cup {Len(hs) + 1}
      /\ hs2[Len(hs) + 1] = h /\ \A i \in DOMAIN hs : hs2[i] = hs[i]
  BY <1>1, <1>4, AppendProperties
<1>6. Aims(ms, hs2) /\ Aims(ms, gone)
  BY <1>1, <1>3, <1>5 DEF Aims
<1>7. ASSUME NEW k \in DOMAIN ms
      PROVE  ms[k].refs = Points(hs2, k) + Points(gone, k) + InLinks(ms, k) + Here(k, Base)
  <2>1. PICK a \in Nat, b \in Nat, c \in Nat, d \in Nat :
          a = Points(hs, k) /\ b = Points(gone, k) /\ c = InLinks(ns, k) /\ d = Here(k, Base)
    BY <1>1, CountsType
  <2>2. ns[k].refs = a + b + c + d
    BY <1>1, <1>3, <2>1 DEF Exact
  <2>3. Points(hs2, k) = Points(hs, k) + IF h.node = k THEN 1 ELSE 0
    BY <1>1, <1>4, PointsAppend
  <2>4. CASE k = h.node
    <3>1. Points(hs2, k) = a + 1 /\ ms[k].refs = a + b + c + d + 1
      BY <1>3, <2>1, <2>2, <2>3, <2>4
    <3>2. ms[k].refs = (a + 1) + b + c + d
      BY <3>1
    <3> QED BY <1>3, <2>1, <3>1, <3>2
  <2>5. CASE k # h.node
    <3>1. Points(hs2, k) = a /\ ms[k].refs = a + b + c + d
      BY <1>3, <2>1, <2>2, <2>3, <2>5
    <3> QED BY <1>3, <2>1, <3>1
  <2> QED BY <2>4, <2>5
<1> QED BY <1>1, <1>2, <1>3, <1>4, <1>5, <1>6, <1>7 DEF Sound, Exact

(* A head is given up.                                                     *)
LEMMA HeadGone ==
  ASSUME NEW ns, NEW hs, Sound(ns, hs, << >>), NEW v \in DOMAIN hs
  PROVE  Sound(ns, RemoveAt(hs, v), <<hs[v]>>)
<1>1. /\ ns \in Seq(StackNode) /\ hs \in Seq(StackHead) /\ Aims(ns, hs)
  BY DEF Sound, GraphOK
<1>2. PICK hs2 : hs2 = RemoveAt(hs, v)
  OBVIOUS
<1>3. PICK gone : gone = <<hs[v]>>
  OBVIOUS
<1>4. /\ hs2 \in Seq(StackHead) /\ Len(hs2) = Len(hs) - 1
      /\ \A k \in 1 .. Len(hs) - 1 : hs2[k] = IF k < v THEN hs[k] ELSE hs[k + 1]
      /\ \A n : Points(hs, n) = Points(hs2, n) + IF hs[v].node = n THEN 1 ELSE 0
  BY <1>1, <1>2, PointsRemoveAt
<1>5. hs[v] \in StackHead /\ hs[v].node \in DOMAIN ns
  BY <1>1 DEF Aims
<1>6. gone \in Seq(StackHead) /\ gone \in Seq(Pointer) /\ Aims(ns, gone)
  <2>1. gone \in Seq(StackHead) /\ DOMAIN gone = {1} /\ gone[1] = hs[v]
    BY <1>3, <1>5
  <2> QED BY <1>5, <2>1, HeadsArePointers DEF HeadIsPointer, Aims
<1>7. Aims(ns, hs2)
  <2> SUFFICES ASSUME NEW k \in DOMAIN hs2 PROVE hs2[k].node \in DOMAIN ns
    BY DEF Aims
  <2>1. Len(hs) \in Nat /\ k \in 1 .. Len(hs) - 1 /\ k \in DOMAIN hs /\ k + 1 \in DOMAIN hs
    BY <1>1, <1>4
  <2> QED BY <1>1, <1>4, <2>1 DEF Aims
<1>8. ASSUME NEW n \in DOMAIN ns
      PROVE  Points(hs2, n) + Points(gone, n) = Points(hs, n) + Points(<< >>, n)
  <2>1. Points(gone, n) = IF hs[v].node = n THEN 1 ELSE 0
    BY <1>3, <1>5, PointsOne
  <2>2. Points(<< >>, n) = 0
    BY PointsNone
  <2>3. PICK a \in Nat, b \in Nat, d \in Nat : a = Points(hs2, n) /\ b = Points(hs, n) /\ d = IF hs[v].node = n THEN 1 ELSE 0
    BY <1>1, <1>4, PointsType
  <2>4. b = a + d /\ Points(gone, n) = d
    BY <1>4, <2>1, <2>3
  <2> QED BY <2>2, <2>3, <2>4
<1>9. Sound(ns, hs2, gone)
  BY <1>4, <1>6, <1>7, <1>8, PointersMove
<1> QED BY <1>2, <1>3, <1>9

(* A head is replaced by another one, which is removed.                    *)
LEMMA HeadReplaced ==
  ASSUME NEW ns, NEW hs, Sound(ns, hs, << >>), NEW v1 \in DOMAIN hs, NEW v2 \in DOMAIN hs, v1 # v2
  PROVE  Sound(ns, RemoveAt([hs EXCEPT ![v2] = hs[v1]], v1), <<hs[v2]>>)
<1>1. /\ ns \in Seq(StackNode) /\ hs \in Seq(StackHead) /\ Aims(ns, hs)
  BY DEF Sound, GraphOK
<1>2. PICK both : both = [hs EXCEPT ![v2] = hs[v1]]
  OBVIOUS
<1>3. /\ both \in Seq(StackHead) /\ Len(both) = Len(hs) /\ DOMAIN both = DOMAIN hs
      /\ both[v2] = hs[v1] /\ both[v1] = hs[v1]
      /\ \A k \in DOMAIN hs : k # v2 => both[k] = hs[k]
  <2>1. hs[v1] \in StackHead
    BY <1>1
  <2>2. both \in Seq(StackHead) /\ Len(both) = Len(hs) /\ DOMAIN both = DOMAIN hs
    BY <1>1, <1>2, <2>1
  <2>3. both[v2] = hs[v1] /\ \A k \in DOMAIN hs : k # v2 => both[k] = hs[k]
    BY <1>1, <1>2
  <2> QED BY <2>2, <2>3
<1>4. PICK hs2 : hs2 = RemoveAt(both, v1)
  OBVIOUS
<1>5. PICK gone : gone = <<hs[v2]>>
  OBVIOUS
<1>6. /\ hs2 \in Seq(StackHead) /\ Len(hs2) = Len(both) - 1
      /\ \A k \in 1 .. Len(both) - 1 : hs2[k] = IF k < v1 THEN both[k] ELSE both[k + 1]
      /\ \A n : Points(both, n) = Points(hs2, n) + IF both[v1].node = n THEN 1 ELSE 0
  <2>1. both \in Seq(StackHead) /\ v1 \in DOMAIN both
    BY <1>3
  <2> QED BY <1>4, <2>1, PointsRemoveAt
<1>7. hs[v2] \in StackHead /\ hs[v2].node \in DOMAIN ns
  BY <1>1 DEF Aims
<1>8. gone \in Seq(StackHead) /\ gone \in Seq(Pointer) /\ Aims(ns, gone)
  <2>1. gone \in Seq(StackHead) /\ DOMAIN gone = {1} /\ gone[1] = hs[v2]
    BY <1>5, <1>7
  <2> QED BY <1>7, <2>1, HeadsArePointers DEF HeadIsPointer, Aims
<1>9. Aims(ns, hs2)
  <2> SUFFICES ASSUME NEW k \in DOMAIN hs2 PROVE hs2[k].node \in DOMAIN ns
    BY DEF Aims
  <2>1. Len(hs) \in Nat /\ k \in 1 .. Len(both) - 1 /\ k \in DOMAIN hs /\ k + 1 \in DOMAIN hs
    BY <1>1, <1>3, <1>6
  <2>2. both[k].node \in DOMAIN ns /\ both[k + 1].node \in DOMAIN ns
    BY <1>1, <1>3, <2>1 DEF Aims
  <2> QED BY <1>6, <2>1, <2>2
<1>10. ASSUME NEW n \in DOMAIN ns
       PROVE  Points(hs2, n) + Points(gone, n) = Points(hs, n) + Points(<< >>, n)
  <2>1. Points(gone, n) = IF hs[v2].node = n THEN 1 ELSE 0
    BY <1>5, <1>7, PointsOne
  <2>2. Points(<< >>, n) = 0
    BY PointsNone
  <2>3. PICK a \in Nat, b \in Nat, c \in Nat, d \in Nat, e \in Nat :
          /\ a = Points(hs2, n) /\ b = Points(hs, n) /\ c = Points(both, n)
          /\ d = (IF hs[v2].node = n THEN 1 ELSE 0) /\ e = (IF hs[v1].node = n THEN 1 ELSE 0)
    <3>1. Points(hs2, n) \in Nat
      BY <1>6, PointsType
    <3>2. Points(hs, n) \in Nat
      BY <1>1, PointsType
    <3>3. Points(both, n) \in Nat
      BY <1>3, PointsType
    <3> QED BY <3>1, <3>2, <3>3
  <2>4. Points(both, n) + (IF hs[v2].node = n THEN 1 ELSE 0) = Points(hs, n) + (IF both[v2].node = n THEN 1 ELSE 0)
    <3>1. \A k \in DOMAIN hs : k # v2 => both[k].node = hs[k].node
      BY <1>3
    <3>2. SameBut(hs, both, v2) /\ hs \in Seq(StackHead) /\ both \in Seq(StackHead)
      BY <1>1, <1>3, <3>1 DEF SameBut
    <3> QED BY <3>1, <3>2, PointsExcept
  <2>5. c + d = b + e
    BY <1>3, <2>3, <2>4
  <2>6. c = a + e
    BY <1>3, <1>6, <2>3
  <2>7. a + d = b
    BY <2>5, <2>6
  <2>8. Points(gone, n) = d
    BY <2>1, <2>3
  <2> QED BY <2>2, <2>3, <2>7, <2>8
<1>11. Sound(ns, hs2, gone)
  BY <1>6, <1>8, <1>9, <1>10, PointersMove
<1> QED BY <1>2, <1>4, <1>5, <1>11

(* The stack of a version.                                                 *)
StackOK(s) == s = [nodes |-> s.nodes, heads |-> s.heads] /\ Sound(s.nodes, s.heads, << >>)

(* What a stack in order gives, part by part.                              *)
LEMMA StackParts ==
  ASSUME NEW s, StackOK(s)
  PROVE  /\ Sound(s.nodes, s.heads, << >>) /\ GraphOK(s.nodes) /\ s.nodes \in Seq(StackNode)
         /\ s.heads \in Seq(StackHead) /\ Len(s.heads) \in Nat /\ DOMAIN s.heads = 1 .. Len(s.heads)
         /\ \A v \in DOMAIN s.heads :
              s.heads[v] \in StackHead /\ s.heads[v].node \in DOMAIN s.nodes /\ s.nodes[s.heads[v].node].refs > 0
<1>1. /\ Sound(s.nodes, s.heads, << >>) /\ GraphOK(s.nodes) /\ s.nodes \in Seq(StackNode)
      /\ s.heads \in Seq(StackHead) /\ Aims(s.nodes, s.heads)
  BY DEF StackOK, Sound, GraphOK
<1>2. \A v \in DOMAIN s.heads : s.nodes[s.heads[v].node].refs > 0
  BY <1>1, Counted
<1> QED BY <1>1, <1>2 DEF Aims

(* What has been given up is released, and the stack is in order.          *)
LEMMA StackReleased ==
  ASSUME NEW ns, NEW hs, NEW gone, Sound(ns, hs, gone)
  PROVE  StackOK([nodes |-> Release(ns, gone), heads |-> hs])
  BY ReleaseSound DEF StackOK

(* ts_stack_remove_version                                                 *)
LEMMA RemoveOK ==
  ASSUME NEW s, StackOK(s), NEW v \in DOMAIN s.heads
  PROVE  StackOK(RemoveVersion(s, v))
<1>1. Sound(s.nodes, RemoveAt(s.heads, v), <<s.heads[v]>>)
  BY StackParts, HeadGone
<1> QED BY <1>1, StackReleased DEF RemoveVersion

(* ts_stack_renumber_version                                               *)
LEMMA RenumberOK ==
  ASSUME NEW s, StackOK(s), NEW v1 \in DOMAIN s.heads, NEW v2 \in DOMAIN s.heads, v1 # v2
  PROVE  StackOK(RenumberVersion(s, v1, v2))
<1>1. Sound(s.nodes, RemoveAt([s.heads EXCEPT ![v2] = s.heads[v1]], v1), <<s.heads[v2]>>)
  BY StackParts, HeadReplaced
<1> QED BY <1>1, StackReleased DEF RenumberVersion

(* ts_stack_copy_version                                                   *)
LEMMA CopyOK ==
  ASSUME NEW s, StackOK(s), NEW v \in DOMAIN s.heads
  PROVE  StackOK(CopyVersion(s, v))
<1>1. PICK h : h = s.heads[v]
  OBVIOUS
<1>2. h \in StackHead /\ h.node \in DOMAIN s.nodes /\ s.nodes[h.node].refs > 0 /\ Sound(s.nodes, s.heads, << >>)
  BY <1>1, StackParts
<1>3. Sound(Retain(s.nodes, h.node), Append(s.heads, h), << >>)
  BY <1>2, HeadAdded
<1> QED BY <1>1, <1>3 DEF CopyVersion, StackOK

(* ts_stack_new and ts_stack_clear.  Only the base node is left, held by   *)
(* its own reference and by the one head.                                  *)
LEMMA FirstHead ==
  /\ NewStack.heads \in Seq(StackHead) /\ DOMAIN NewStack.heads = {1} /\ NewStack.heads[1].node = Base
  /\ \A n : Points(NewStack.heads, n) = Here(Base, n)
<1>1. PICK h \in StackHead : h = [node |-> Base, pushes |-> 0, halted |-> FALSE]
  <2>1. [node |-> Base, pushes |-> 0, halted |-> FALSE] \in StackHead
    BY DEF StackHead, Base
  <2> QED BY <2>1
<1>2. NewStack.heads = <<h>> /\ h.node = Base
  BY <1>1 DEF NewStack
<1>3. ASSUME NEW n PROVE Points(<<h>>, n) = Here(Base, n)
  <2>1. Points(<<h>>, n) = IF h.node = n THEN 1 ELSE 0
    BY PointsOne
  <2> QED BY <1>2, <2>1 DEF Here
<1>4. <<h>> \in Seq(StackHead) /\ DOMAIN <<h>> = {1} /\ <<h>>[1] = h
  OBVIOUS
<1>5. PICK first : first = <<h>>
  OBVIOUS
<1>6. /\ first \in Seq(StackHead) /\ DOMAIN first = {1} /\ first[1].node = Base
      /\ \A n : Points(first, n) = Here(Base, n)
  BY <1>2, <1>3, <1>4, <1>5
<1> QED BY <1>2, <1>5, <1>6

(* ts_stack_new gives a stack in order.                                    *)
LEMMA NewOK == StackOK(NewStack)
<1> DEFINE ns == NewStack.nodes
<1>1. PICK base \in StackNode : base = [Free EXCEPT !.refs = 2]
  BY FreeType, UpdateRefs
<1>2. /\ base.refs = 2 /\ base.links = << >> /\ base.position = 0 /\ base.errors = 0
  BY <1>1 DEF Free
<1>3. NewStack = [nodes |-> NewStack.nodes, heads |-> NewStack.heads] /\ ns = <<base>>
  BY <1>1 DEF NewStack
<1> HIDE DEF ns
<1>4. ns \in Seq(StackNode) /\ Len(ns) = 1 /\ DOMAIN ns = {Base} /\ ns[Base] = base
  BY <1>3 DEF Base
<1>5. GraphOK(ns)
  BY <1>2, <1>4, ParseStackAssumption DEF GraphOK, NodeOK
<1>6. ASSUME NEW n \in DOMAIN ns
      PROVE  ns[n].refs = Points(NewStack.heads, n) + Points(<< >>, n) + InLinks(ns, n) + Here(n, Base)
  <2>1. LinksTo(ns, n) = {}
    BY <1>2, <1>4 DEF LinksTo, Base
  <2>2. InLinks(ns, n) = 0
    BY <2>1, FS_EmptySet DEF InLinks
  <2>3. Points(<< >>, n) = 0
    BY PointsNone
  <2>4. Points(NewStack.heads, n) = 1 /\ Here(n, Base) = 1
    BY <1>4, FirstHead DEF Here
  <2> QED BY <1>2, <1>4, <2>2, <2>3, <2>4
<1>7. Aims(ns, NewStack.heads) /\ Aims(ns, << >>)
  BY <1>4, FirstHead DEF Aims
<1>8. Sound(ns, NewStack.heads, << >>)
  BY <1>5, <1>6, <1>7, FirstHead DEF Sound, Exact
<1> QED BY <1>3, <1>8 DEF StackOK, ns

(* ts_stack_clear keeps a stack in order: only the base node is left.      *)
LEMMA ClearOK ==
  ASSUME NEW s, StackOK(s)
  PROVE  StackOK(Clear(s))
<1>1. PICK ns, hs : ns = s.nodes /\ hs = s.heads
  OBVIOUS
<1>2. /\ GraphOK(ns) /\ ns \in Seq(StackNode) /\ hs \in Seq(StackHead) /\ Exact(ns, hs, << >>)
      /\ Aims(ns, hs) /\ ns[Base].refs > 0 /\ Base \in DOMAIN ns
  BY <1>1, Counted DEF StackOK, Sound, GraphOK
<1>3. PICK ms : ms = Retain(ns, Base)
  OBVIOUS
<1>4. /\ GraphOK(ms) /\ DOMAIN ms = DOMAIN ns
      /\ ms[Base].refs = ns[Base].refs + 1 /\ \A k \in DOMAIN ns : k # Base => ms[k].refs = ns[k].refs
      /\ \A k : InLinks(ms, k) = InLinks(ns, k)
  BY <1>2, <1>3, RetainGraph
<1>5. PICK first : first = NewStack.heads
  OBVIOUS
<1>6. /\ first \in Seq(StackHead) /\ Aims(ms, first) /\ \A n : Points(first, n) = Here(Base, n)
  BY <1>2, <1>4, <1>5, FirstHead DEF Aims
<1>7. ASSUME NEW k \in DOMAIN ms
      PROVE  ms[k].refs = Points(first, k) + Points(hs, k) + InLinks(ms, k) + Here(k, Base)
  <2>1. PICK a \in Nat, c \in Nat, d \in Nat :
          a = Points(hs, k) /\ c = InLinks(ns, k) /\ d = Here(k, Base)
    <3>1. Points(hs, k) \in Nat
      BY <1>2, PointsType
    <3>2. InLinks(ns, k) \in Nat
      BY <1>2, InLinksType
    <3> QED BY <3>1, <3>2 DEF Here
  <2>2. ns[k].refs = a + c + d
    <3>1. ns[k].refs = Points(hs, k) + Points(<< >>, k) + InLinks(ns, k) + Here(k, Base)
      BY <1>2, <1>4 DEF Exact
    <3>2. Points(<< >>, k) = 0
      BY PointsNone
    <3> QED BY <2>1, <3>1, <3>2
  <2>3. CASE k = Base
    <3>1. Points(first, k) = 1 /\ ms[k].refs = (a + c + d) + 1
      BY <1>4, <1>6, <2>2, <2>3 DEF Here
    <3>2. ms[k].refs = 1 + a + c + d
      BY <3>1
    <3> QED BY <1>4, <2>1, <3>1, <3>2
  <2>4. CASE k # Base
    <3>1. Points(first, k) = 0 /\ ms[k].refs = 0 + a + c + d
      BY <1>4, <1>6, <2>2, <2>4 DEF Here
    <3> QED BY <1>4, <2>1, <3>1
  <2> QED BY <2>3, <2>4
<1>8. hs \in Seq(Pointer) /\ Aims(ms, hs)
  BY <1>2, <1>4, HeadsArePointers DEF HeadIsPointer, Aims
<1>9. Sound(ms, first, hs)
  BY <1>4, <1>6, <1>7, <1>8 DEF Sound, Exact
<1> QED BY <1>1, <1>3, <1>5, <1>9, StackReleased DEF Clear

(* A tree has a length, and only no tree has none.                         *)
LEMMA BytesType ==
  ASSUME NEW tree \in Trees \cup {NoTree}
  PROVE  Bytes(tree) \in Nat /\ (tree # NoTree => Bytes(tree) > 0)
  BY ParseStackAssumption DEF Bytes

(* A link adds a cost.                                                     *)
LEMMA LinkCostType ==
  ASSUME NEW tree \in Trees \cup {NoTree}, NEW state
  PROVE  LinkCost(tree, state) \in Nat
<1>1. CASE tree = NoTree
  BY <1>1 DEF LinkCost
<1>2. CASE tree # NoTree
  <2>1. tree.cost \in Nat /\ SkippedTreeCost \in Nat
    BY <1>2, ParseStackAssumption
  <2>2. (IF state = ErrorState /\ ~ tree.extra THEN SkippedTreeCost ELSE 0) \in Nat
    BY <2>1
  <2> QED BY <1>2, <2>1, <2>2 DEF LinkCost
<1> QED BY <1>1, <1>2

(* The least of a set of numbers is one of them, and no other is less.     *)
LEMMA LeastIs ==
  ASSUME NEW T \in SUBSET Nat, T # {}
  PROVE  Min(T) \in T /\ \A x \in T : Min(T) <= x
<1>1. \E x \in T : \A y \in T : x <= y
  BY Least
<1> QED BY <1>1 DEF Min

(* Nothing points to a node that is not used or not there.                 *)
LEMMA Uncounted ==
  ASSUME NEW ns, NEW hs, Sound(ns, hs, << >>), NEW n, n \in DOMAIN ns => ns[n].refs = 0
  PROVE  /\ Points(hs, n) = 0 /\ InLinks(ns, n) = 0 /\ n # Base
         /\ \A m \in DOMAIN ns : \A i \in DOMAIN ns[m].links : ns[m].links[i].node # n
<1>1. /\ ns \in Seq(StackNode) /\ hs \in Seq(StackHead) /\ Aims(ns, hs) /\ GraphOK(ns) /\ Base \in DOMAIN ns
  BY DEF Sound, GraphOK
<1>2. /\ ns[Base].refs > 0
      /\ \A i \in DOMAIN hs : ns[hs[i].node].refs > 0
      /\ \A m \in DOMAIN ns : \A i \in DOMAIN ns[m].links : ns[ns[m].links[i].node].refs > 0
  BY Counted
<1>3. \A i \in DOMAIN hs : hs[i].node # n
  BY <1>1, <1>2 DEF Aims
<1>4. ASSUME NEW m \in DOMAIN ns, NEW i \in DOMAIN ns[m].links PROVE ns[m].links[i].node # n
  <2>1. ns[m].links[i].node \in DOMAIN ns
    BY <1>1 DEF GraphOK, NodeOK, Follows
  <2> QED BY <1>2, <2>1
<1>5. Pointers(hs, n) = {}
  BY <1>3 DEF Pointers
<1>6. LinksTo(ns, n) = {}
  BY <1>1, <1>4, NodeType DEF LinksTo
<1> QED BY <1>1, <1>2, <1>4, <1>5, <1>6, FS_EmptySet DEF Points, InLinks

(* ts_stack_push                                                           *)
LEMMA UnusedIs ==
  ASSUME NEW ns \in Seq(StackNode), NEW n, n = Unused(ns)
  PROVE  n \in Nat \ {0} /\ ((n \in DOMAIN ns /\ ns[n].refs = 0) \/ (n = Len(ns) + 1 /\ n \notin DOMAIN ns))
<1> DEFINE pool == {k \in DOMAIN ns : ns[k].refs = 0}
<1>1. DOMAIN ns = 1 .. Len(ns) /\ Len(ns) \in Nat
  BY NodeType
<1>2. n = IF pool = {} THEN Len(ns) + 1 ELSE Min(pool)
  BY DEF Unused
<1>3. pool \in SUBSET Nat
  BY <1>1
<1>4. CASE pool = {}
  <2>1. n = Len(ns) + 1
    BY <1>2, <1>4
  <2> QED BY <1>1, <2>1
<1>5. CASE pool # {}
  <2>1. Min(pool) \in pool
    BY <1>3, <1>5, LeastIs
  <2>2. n \in pool
    BY <1>2, <1>5, <2>1
  <2>3. n \in DOMAIN ns /\ ns[n].refs = 0
    BY <2>2
  <2>4. n \in 1 .. Len(ns)
    BY <1>1, <2>3
  <2>5. n \in Nat \ {0}
    BY <1>1, <2>4
  <2> QED BY <2>3, <2>5
<1> QED BY <1>4, <1>5

(* A node with a single link and the sums that the link gives.             *)
OnTop(ns, node, l) ==
  /\ node.refs = 1 /\ node.links = <<l>>
  /\ node.position = ns[l.node].position + Bytes(l.tree)
  /\ node.errors = ns[l.node].errors + (IF l.tree = NoTree THEN 1 ELSE 0)
  /\ node.cost = ns[l.node].cost + LinkCost(l.tree, node.state)

(* Such a link leads to a node.                                            *)
HasLinkTo(ns, node, below) == \E l \in Link : l.node = below /\ OnTop(ns, node, l)

(* stack_node_new: the new node has one link, to the node below.           *)
LEMMA NewNodeIs ==
  ASSUME NEW ns, GraphOK(ns), NEW below \in DOMAIN ns, NEW tree \in Trees \cup {NoTree},
         NEW pending \in BOOLEAN, NEW state \in States, NEW pushes \in Nat,
         NEW node, node = NewNode(ns, below, tree, pending, state, pushes)
  PROVE  node \in StackNode /\ HasLinkTo(ns, node, below)
<1>1. /\ ns \in Seq(StackNode) /\ ns[below].position \in Nat /\ ns[below].errors \in Nat /\ ns[below].cost \in Nat
      /\ below \in Nat \ {0}
  BY NodeType DEF GraphOK
<1>2. Bytes(tree) \in Nat /\ LinkCost(tree, state) \in Nat
  BY BytesType, LinkCostType
<1>3. PICK l \in Link : l = [node |-> below, tree |-> tree, pending |-> pending, pushes |-> pushes]
  <2>1. [node |-> below, tree |-> tree, pending |-> pending, pushes |-> pushes] \in Link
    BY <1>1 DEF Link
  <2> QED BY <2>1
<1>4. PICK p \in Nat, e \in Nat, c \in Nat :
        /\ p = ns[below].position + Bytes(tree)
        /\ e = ns[below].errors + (IF tree = NoTree THEN 1 ELSE 0)
        /\ c = ns[below].cost + LinkCost(tree, state)
  <2>1. ns[below].position + Bytes(tree) \in Nat
    BY <1>1, <1>2
  <2>2. ns[below].errors + (IF tree = NoTree THEN 1 ELSE 0) \in Nat
    BY <1>1
  <2>3. ns[below].cost + LinkCost(tree, state) \in Nat
    BY <1>1, <1>2
  <2> QED BY <2>1, <2>2, <2>3
<1>5. node = [state |-> state, position |-> p, links |-> <<l>>, refs |-> 1, errors |-> e, cost |-> c]
  BY <1>3, <1>4 DEF NewNode
<1>6. PICK ls \in Seq(Link) : ls = <<l>>
  <2>1. <<l>> \in Seq(Link)
    OBVIOUS
  <2> QED BY <2>1
<1>7. node = [state |-> state, position |-> p, links |-> ls, refs |-> 1, errors |-> e, cost |-> c]
  BY <1>5, <1>6
<1>8. node \in StackNode
  <2> DEFINE L == Seq(Link)
  <2>1. ls \in L
    OBVIOUS
  <2> HIDE DEF L
  <2>2. node \in [state : States, position : Nat, links : L, refs : Nat, errors : Nat, cost : Nat]
    BY <1>7, <2>1
  <2> QED BY <2>2 DEF StackNode, L
<1>9. /\ node.refs = 1 /\ node.links = <<l>> /\ node.state = state
      /\ node.position = p /\ node.errors = e /\ node.cost = c
  BY <1>6, <1>7
<1>10. l.node = below /\ l.tree = tree
  BY <1>3
<1>11. OnTop(ns, node, l)
  BY <1>4, <1>9, <1>10 DEF OnTop
<1> QED BY <1>8, <1>10, <1>11 DEF HasLinkTo

(* A new node on top of one that is in use, in a place that is not in use. *)
IsUnused(ns, n) == (n \in DOMAIN ns /\ ns[n].refs = 0) \/ (n = Len(ns) + 1 /\ n \notin DOMAIN ns)

(* Where the new node goes: to the end, or to a place of the pool.         *)
Placed(ns, n, node) == IF n > Len(ns) THEN Append(ns, node) ELSE [ns EXCEPT ![n] = node]

(* What a graph is with the new node, which nothing points to yet.         *)
Added(ns, ms, below, n) ==
  /\ GraphOK(ms) /\ DOMAIN ms = DOMAIN ns \cup {n} /\ ms[n].refs = 1
  /\ \A k \in DOMAIN ns : k # n => ms[k].refs = ns[k].refs + Here(below, k)
  /\ \A k : InLinks(ms, k) = InLinks(ns, k) + Here(below, k)

(* stack_node_new in the graph: the node below is held once more.          *)
LEMMA NodeAdded ==
  ASSUME NEW ns, NEW hs, Sound(ns, hs, << >>), NEW n \in Nat \ {0}, IsUnused(ns, n),
         NEW node \in StackNode, NEW l \in Link, l.node \in DOMAIN ns, ns[l.node].refs > 0,
         OnTop(ns, node, l)
  PROVE  Added(ns, Placed(Retain(ns, l.node), n, node), l.node, n)
<1>a. PICK below \in DOMAIN ns : below = l.node /\ ns[below].refs > 0
  OBVIOUS
<1>b. PICK held : held = Retain(ns, below)
  OBVIOUS
<1>c. PICK ms : ms = Placed(held, n, node)
  OBVIOUS
<1>1. GraphOK(ns) /\ ns \in Seq(StackNode)
  BY DEF Sound, GraphOK
<1>o. /\ node.refs = 1 /\ node.links = <<l>>
      /\ node.position = ns[below].position + Bytes(l.tree)
      /\ node.errors = ns[below].errors + (IF l.tree = NoTree THEN 1 ELSE 0)
      /\ node.cost = ns[below].cost + LinkCost(l.tree, node.state)
  BY <1>a DEF OnTop
<1>m. Len(<<l>>) <= MaxLinks /\ 0 <= MaxLinks
  <2>1. MaxLinks \in Nat \ {0}
    BY ParseStackAssumption
  <2>2. Len(<<l>>) = 1
    OBVIOUS
  <2> QED BY <2>1, <2>2
<1>2. /\ n # below /\ n # Base
      /\ \A m \in DOMAIN ns : \A i \in DOMAIN ns[m].links : ns[m].links[i].node # n
  <2>1. n \in DOMAIN ns => ns[n].refs = 0
    BY NodeType DEF IsUnused, Sound, GraphOK
  <2>2. /\ n # Base /\ \A m \in DOMAIN ns : \A i \in DOMAIN ns[m].links : ns[m].links[i].node # n
    BY <2>1, Uncounted
  <2> QED BY <1>a, <2>1, <2>2
<1>3. /\ GraphOK(held) /\ held \in Seq(StackNode) /\ Len(held) = Len(ns) /\ DOMAIN held = DOMAIN ns
      /\ held[below].refs = ns[below].refs + 1 /\ \A k \in DOMAIN ns : k # below => held[k].refs = ns[k].refs
      /\ \A k \in DOMAIN ns :
           /\ held[k].links = ns[k].links /\ held[k].state = ns[k].state
           /\ held[k].position = ns[k].position /\ held[k].errors = ns[k].errors /\ held[k].cost = ns[k].cost
      /\ \A k : InLinks(held, k) = InLinks(ns, k)
  BY <1>1, <1>a, <1>b, RetainGraph DEF GraphOK
<1>4. Len(ns) \in Nat /\ DOMAIN ns = 1 .. Len(ns)
  BY <1>1, NodeType
<1>5. /\ ms \in Seq(StackNode) /\ DOMAIN ms = DOMAIN ns \cup {n} /\ ms[n] = node
      /\ \A k \in DOMAIN ns : k # n => ms[k] = held[k]
  <2>1. CASE n \in DOMAIN ns
    <3>1. ~ (n > Len(held))
      BY <1>3, <1>4, <2>1
    <3>2. ms = [held EXCEPT ![n] = node]
      BY <1>c, <3>1 DEF Placed
    <3>3. /\ ms \in Seq(StackNode) /\ DOMAIN ms = DOMAIN held /\ ms[n] = node
          /\ \A k \in DOMAIN held : k # n => ms[k] = held[k]
      BY <1>3, <2>1, <3>2, UpdateNode
    <3> QED BY <1>3, <2>1, <3>3
  <2>2. CASE n \notin DOMAIN ns
    <3>1. n = Len(held) + 1 /\ n > Len(held)
      BY <1>3, <1>4, <2>2 DEF IsUnused
    <3>2. ms = Append(held, node)
      BY <1>c, <3>1 DEF Placed
    <3>3. /\ ms \in Seq(StackNode) /\ DOMAIN ms = DOMAIN held \cup {Len(held) + 1} /\ ms[Len(held) + 1] = node
          /\ \A k \in DOMAIN held : ms[k] = held[k]
      <4>1. held \in Seq(StackNode)
        BY <1>3
      <4> QED BY <3>2, <4>1, AppendProperties
    <3> QED BY <1>3, <3>1, <3>3
  <2> QED BY <2>1, <2>2
<1>6. \A k \in DOMAIN ns : k # n => ms[k].refs = ns[k].refs + Here(below, k)
  <2> SUFFICES ASSUME NEW k \in DOMAIN ns, k # n PROVE ms[k].refs = ns[k].refs + Here(below, k)
    OBVIOUS
  <2>1. ns[k].refs \in Nat /\ ms[k].refs = held[k].refs
    BY <1>1, <1>5, NodeType
  <2>2. CASE k = below
    BY <1>3, <2>1, <2>2 DEF Here
  <2>3. CASE k # below
    BY <1>3, <2>1, <2>3 DEF Here
  <2> QED BY <2>2, <2>3
<1>7. LinksOf(held, n) = << >> /\ LinksOf(ms, n) = <<l>>
  <2>1. LinksOf(ms, n) = <<l>>
    BY <1>5, <1>o DEF LinksOf
  <2>2. CASE n \in DOMAIN ns
    <3>1. ns[n].refs = 0
      BY <1>4, <2>2 DEF IsUnused
    <3>2. NodeOK(ns, n)
      BY <1>1, <2>2 DEF GraphOK
    <3>3. ns[n].links = << >>
      BY <3>1, <3>2 DEF NodeOK
    <3> QED BY <1>3, <2>1, <2>2, <3>3 DEF LinksOf
  <2>3. CASE n \notin DOMAIN ns
    BY <1>3, <2>1, <2>3 DEF LinksOf
  <2> QED BY <2>2, <2>3
<1>8. ASSUME NEW k PROVE InLinks(ms, k) = InLinks(ns, k) + Here(below, k)
  <2>1. \A m \in Nat : m # n => LinksOf(ms, m) = LinksOf(held, m)
    <3>1. DOMAIN held = DOMAIN ns /\ DOMAIN ms = DOMAIN ns \cup {n} /\ \A m \in DOMAIN ns : m # n => ms[m] = held[m]
      BY <1>3, <1>5
    <3> QED BY <3>1 DEF LinksOf
  <2>2. Len(LinksOf(held, n)) <= MaxLinks /\ Len(LinksOf(ms, n)) <= MaxLinks
    <3>1. Len(<<l>>) <= MaxLinks /\ Len(<< >>) <= MaxLinks
      BY <1>m
    <3> QED BY <1>7, <3>1
  <2>3. InLinks(ms, k) + Points(LinksOf(held, n), k) = InLinks(held, k) + Points(LinksOf(ms, n), k)
    <3>1. held \in Seq(StackNode) /\ ms \in Seq(StackNode)
      BY <1>3, <1>5
    <3>2. InLinks(ms, k) + Points(LinksOf(held, n), k) = InLinks(held, k) + Points(LinksOf(ms, n), k)
      BY <2>1, <2>2, <3>1, LinksChange
    <3> QED BY <3>2
  <2>4. Points(<<l>>, k) = Here(below, k)
    <3>1. Points(<<l>>, k) = IF l.node = k THEN 1 ELSE 0
      BY PointsOne
    <3> QED BY <1>a, <3>1 DEF Here
  <2>5. Points(<< >>, k) = 0
    BY PointsNone
  <2>6. InLinks(ms, k) \in Nat
    BY <1>5, InLinksType
  <2>7. InLinks(ms, k) + 0 = InLinks(ns, k) + Here(below, k)
    BY <1>3, <1>7, <2>3, <2>4, <2>5
  <2> QED BY <2>6, <2>7
<1>9. ASSUME NEW k \in DOMAIN ns, k # n PROVE NodeOK(ms, k)
  <2>1. NodeOK(held, k) /\ ms[k] = held[k]
    BY <1>3, <1>5, <1>9 DEF GraphOK
  <2>2. ASSUME NEW i \in DOMAIN ms[k].links PROVE Follows(ms, k, ms[k].links[i])
    <3>1. PICK x : x = ms[k].links[i] /\ x = held[k].links[i] /\ x = ns[k].links[i]
      BY <1>3, <1>9, <2>1
    <3>2. Follows(held, k, x)
      BY <2>1, <2>2, <3>1 DEF NodeOK
    <3>3. i \in DOMAIN ns[k].links
      BY <1>3, <2>1, <2>2
    <3>4. x.node # n
      BY <1>2, <3>1, <3>3
    <3>5. x.node \in DOMAIN ns /\ ms[x.node] = held[x.node] /\ x.node \in DOMAIN ms
      <4>1. x.node \in DOMAIN ns
        BY <1>3, <3>2 DEF Follows
      <4> QED BY <1>5, <3>4, <4>1
    <3>6. Follows(ms, k, x)
      BY <2>1, <3>2, <3>5 DEF Follows
    <3> QED BY <3>1, <3>6
  <2> QED BY <2>1, <2>2 DEF NodeOK
<1>10. NodeOK(ms, n)
  <2>1. ms[below] = held[below]
    BY <1>2, <1>5
  <2>2. Follows(ms, n, l)
    <3>1. ms[n] = node /\ below \in DOMAIN ms
      BY <1>5
    <3>2. ms[below].position = ns[below].position /\ ms[below].errors = ns[below].errors /\ ms[below].cost = ns[below].cost
      BY <1>3, <2>1
    <3> QED BY <1>a, <1>o, <3>1, <3>2 DEF Follows
  <2>3. ms[n].refs = 1 /\ ms[n].links = <<l>>
    BY <1>5, <1>o
  <2>4. Len(<<l>>) <= MaxLinks /\ <<l>> # << >> /\ DOMAIN <<l>> = {1} /\ <<l>>[1] = l
    BY <1>m
  <2>5. ASSUME NEW i \in DOMAIN ms[n].links PROVE Follows(ms, n, ms[n].links[i])
    <3>1. i = 1 /\ ms[n].links[i] = l
      BY <2>3, <2>4
    <3> QED BY <2>2, <3>1
  <2>6. ms[n].refs # 0 /\ Len(ms[n].links) <= MaxLinks /\ ms[n].links # << >>
    BY <2>3, <2>4
  <2> QED BY <2>5, <2>6 DEF NodeOK
<1>11. GraphOK(ms)
  <2>1. ms[Base] = held[Base] /\ Base \in DOMAIN ms
    BY <1>1, <1>2, <1>5 DEF GraphOK
  <2> QED BY <1>3, <1>5, <1>9, <1>10, <2>1 DEF GraphOK
<1>12. Added(ns, ms, below, n)
  BY <1>5, <1>o, <1>6, <1>8, <1>11 DEF Added
<1> QED BY <1>a, <1>b, <1>c, <1>12

(* And a head moves to the new node.                                       *)
LEMMA HeadMoved ==
  ASSUME NEW ns, NEW hs, Sound(ns, hs, << >>), NEW v \in DOMAIN hs,
         NEW n \in Nat \ {0}, IsUnused(ns, n), NEW node \in StackNode, NEW l \in Link,
         l.node = hs[v].node, OnTop(ns, node, l),
         NEW hs2 \in Seq(StackHead), SameBut(hs, hs2, v), hs2[v].node = n
  PROVE  Sound(Placed(Retain(ns, hs[v].node), n, node), hs2, <<hs[v]>>)
<1>1. PICK below, gone, ms : below = hs[v].node /\ gone = <<hs[v]>> /\ ms = Placed(Retain(ns, below), n, node)
  OBVIOUS
<1>2. /\ ns \in Seq(StackNode) /\ hs \in Seq(StackHead) /\ Aims(ns, hs) /\ Exact(ns, hs, << >>)
      /\ hs[v] \in StackHead /\ below \in DOMAIN ns /\ ns[below].refs > 0
  <2>1. /\ ns \in Seq(StackNode) /\ hs \in Seq(StackHead) /\ Aims(ns, hs) /\ Exact(ns, hs, << >>)
    BY DEF Sound, GraphOK
  <2>2. ns[below].refs > 0
    BY <1>1, Counted
  <2> QED BY <1>1, <2>1, <2>2 DEF Aims
<1>3. /\ GraphOK(ms) /\ DOMAIN ms = DOMAIN ns \cup {n} /\ ms[n].refs = 1
      /\ \A k \in DOMAIN ns : k # n => ms[k].refs = ns[k].refs + Here(below, k)
      /\ \A k : InLinks(ms, k) = InLinks(ns, k) + Here(below, k)
  <2>1. l.node \in DOMAIN ns /\ ns[l.node].refs > 0 /\ l.node = below
    BY <1>1, <1>2
  <2>2. Added(ns, Placed(Retain(ns, l.node), n, node), l.node, n)
    BY <2>1, NodeAdded
  <2> QED BY <1>1, <2>1, <2>2 DEF Added
<1>4. /\ DOMAIN hs2 = DOMAIN hs /\ \A k \in DOMAIN hs : k # v => hs2[k].node = hs[k].node
  <2>1. Len(hs) = Len(hs2)
    BY DEF SameBut
  <2>2. DOMAIN hs = 1 .. Len(hs) /\ DOMAIN hs2 = 1 .. Len(hs2)
    BY <1>2
  <2> QED BY <2>1, <2>2 DEF SameBut
<1>5. Aims(ms, hs2)
  <2> SUFFICES ASSUME NEW k \in DOMAIN hs2 PROVE hs2[k].node \in DOMAIN ms
    BY DEF Aims
  <2>1. CASE k = v
    BY <1>3, <2>1
  <2>2. CASE k # v
    BY <1>2, <1>3, <1>4, <2>2 DEF Aims
  <2> QED BY <2>1, <2>2
<1>6. gone \in Seq(Pointer) /\ Aims(ms, gone)
  <2>1. gone \in Seq(StackHead) /\ DOMAIN gone = {1} /\ gone[1] = hs[v]
    BY <1>1, <1>2
  <2> QED BY <1>1, <1>2, <1>3, <2>1, HeadsArePointers DEF HeadIsPointer, Aims
<1>7. \A k : Points(gone, k) = Here(below, k)
  <2> SUFFICES ASSUME NEW k PROVE Points(gone, k) = Here(below, k)
    OBVIOUS
  <2>1. Points(<<hs[v]>>, k) = IF hs[v].node = k THEN 1 ELSE 0
    BY <1>2, PointsOne
  <2> QED BY <1>1, <2>1 DEF Here
<1>8. \A k : Points(hs2, k) + Here(below, k) = Points(hs, k) + Here(n, k)
  <2> SUFFICES ASSUME NEW k PROVE Points(hs2, k) + Here(below, k) = Points(hs, k) + Here(n, k)
    OBVIOUS
  <2>1. Points(hs2, k) + (IF hs[v].node = k THEN 1 ELSE 0) = Points(hs, k) + (IF hs2[v].node = k THEN 1 ELSE 0)
    BY <1>2, PointsExcept
  <2> QED BY <1>1, <2>1 DEF Here
<1>9. Points(hs, n) = 0 /\ InLinks(ns, n) = 0 /\ n # Base /\ n # below
  <2>1. n \in DOMAIN ns => ns[n].refs = 0
    BY <1>2, NodeType DEF IsUnused
  <2>2. Points(hs, n) = 0 /\ InLinks(ns, n) = 0 /\ n # Base
    BY <2>1, Uncounted
  <2>3. n # below
    BY <1>2, <2>1
  <2> QED BY <2>2, <2>3
<1>10. ASSUME NEW k \in DOMAIN ms
       PROVE  ms[k].refs = Points(hs2, k) + Points(gone, k) + InLinks(ms, k) + Here(k, Base)
  <2>1. PICK a \in Nat, b \in Nat, c \in Nat, d \in Nat, e \in Nat, f \in Nat :
          /\ a = Points(hs, k) /\ b = Points(hs2, k) /\ c = InLinks(ns, k) /\ d = Here(k, Base)
          /\ e = Here(below, k) /\ f = Here(n, k)
    <3>1. Points(hs, k) \in Nat
      BY <1>2, PointsType
    <3>2. Points(hs2, k) \in Nat
      BY PointsType
    <3>3. InLinks(ns, k) \in Nat
      BY <1>2, InLinksType
    <3> QED BY <3>1, <3>2, <3>3 DEF Here
  <2>2. b + e = a + f /\ Points(gone, k) = e /\ InLinks(ms, k) = c + e
    BY <1>3, <1>7, <1>8, <2>1
  <2>3. CASE k = n
    <3>1. a = 0 /\ c = 0 /\ d = 0 /\ e = 0 /\ f = 1
      BY <1>9, <2>1, <2>3 DEF Here
    <3>2. ms[k].refs = 1
      BY <1>3, <2>3
    <3>3. b = 1
      BY <2>2, <3>1
    <3>4. ms[k].refs = b + e + (c + e) + d
      BY <3>1, <3>2, <3>3
    <3> QED BY <2>1, <2>2, <3>4
  <2>4. CASE k # n
    <3>1. k \in DOMAIN ns /\ f = 0
      BY <1>3, <2>1, <2>4 DEF Here
    <3>2. ns[k].refs = a + c + d
      <4>1. ns[k].refs = Points(hs, k) + Points(<< >>, k) + InLinks(ns, k) + Here(k, Base)
        BY <1>2, <3>1 DEF Exact
      <4>2. Points(<< >>, k) = 0
        BY PointsNone
      <4> QED BY <2>1, <4>1, <4>2
    <3>3. ms[k].refs = (a + c + d) + e
      BY <1>3, <2>1, <2>4, <3>1, <3>2
    <3>4. ms[k].refs = b + e + (c + e) + d
      BY <2>2, <3>1, <3>3
    <3> QED BY <2>1, <2>2, <3>4
  <2> QED BY <2>3, <2>4
<1>11. Sound(ms, hs2, gone)
  BY <1>3, <1>5, <1>6, <1>10 DEF Sound, Exact
<1> QED BY <1>1, <1>11

(* ts_stack_push keeps a stack in order.                                   *)
LEMMA PushOK ==
  ASSUME NEW s, StackOK(s), NEW v \in DOMAIN s.heads, NEW tree \in Trees \cup {NoTree},
         NEW pending \in BOOLEAN, NEW state \in States
  PROVE  StackOK(Push(s, v, tree, pending, state))
<1>1. PICK ns, hs, below, n : ns = s.nodes /\ hs = s.heads /\ below = hs[v].node /\ n = Unused(ns)
  OBVIOUS
<1>2. /\ Sound(ns, hs, << >>) /\ GraphOK(ns) /\ ns \in Seq(StackNode) /\ hs \in Seq(StackHead) /\ v \in DOMAIN hs
      /\ hs[v] \in StackHead /\ below \in DOMAIN ns
  BY <1>1, StackParts
<1>3. PICK pushes \in Nat, pushed \in Nat :
        /\ pushes = IF state = ErrorState THEN hs[v].pushes ELSE 0
        /\ pushed = IF state = ErrorState THEN 0 ELSE (hs[v].pushes + 1) % Word
  <2>1. hs[v].pushes \in Nat
    BY <1>2, HeadsArePointers
  <2>2. (hs[v].pushes + 1) % Word \in Nat
    BY <2>1, ParseStackAssumption
  <2> QED BY <2>1, <2>2
<1>4. PICK node : node = NewNode(ns, below, tree, pending, state, pushes)
  OBVIOUS
<1>5. node \in StackNode /\ HasLinkTo(ns, node, below)
  BY <1>2, <1>4, NewNodeIs
<1>6. PICK l \in Link : l.node = below /\ OnTop(ns, node, l)
  BY <1>5 DEF HasLinkTo
<1>7. n \in Nat \ {0} /\ IsUnused(ns, n)
  BY <1>1, <1>2, UnusedIs DEF IsUnused
<1>8. PICK h \in StackHead : h = [node |-> n, pushes |-> pushed, halted |-> hs[v].halted] /\ h.node = n
  <2>1. hs[v].halted \in BOOLEAN
    BY <1>2, HeadsArePointers
  <2>2. [node |-> n, pushes |-> pushed, halted |-> hs[v].halted] \in StackHead
    BY <1>7, <2>1 DEF StackHead
  <2> QED BY <2>2
<1>9. PICK hs2 : hs2 = [hs EXCEPT ![v] = h]
  OBVIOUS
<1>10. hs2 \in Seq(StackHead) /\ SameBut(hs, hs2, v) /\ hs2[v].node = n
  <2>1. hs2 \in Seq(StackHead) /\ Len(hs2) = Len(hs)
    BY <1>2, <1>9
  <2>2. hs2[v] = h /\ \A k \in DOMAIN hs : k # v => hs2[k] = hs[k]
    BY <1>2, <1>9
  <2> QED BY <1>8, <2>1, <2>2 DEF SameBut
<1>11. Sound(Placed(Retain(ns, below), n, node), hs2, <<hs[v]>>)
  <2>1. below = hs[v].node /\ l.node = hs[v].node
    BY <1>1, <1>6
  <2>2. Sound(Placed(Retain(ns, hs[v].node), n, node), hs2, <<hs[v]>>)
    BY <1>2, <1>5, <1>6, <1>7, <1>10, <2>1, HeadMoved
  <2> QED BY <2>1, <2>2
<1>12. StackOK([nodes |-> Release(Placed(Retain(ns, below), n, node), <<hs[v]>>), heads |-> hs2])
  BY <1>11, StackReleased
<1>13. hs2 = [hs EXCEPT ![v].node = n, ![v].pushes = IF state = ErrorState THEN 0 ELSE (@ + 1) % Word]
  <2>1. [hs[v] EXCEPT !.node = n, !.pushes = pushed] = h
    <3>1. PICK r \in StackHead : r = hs[v]
      BY <1>2
    <3>2. r \in [node : Nat \ {0}, pushes : Nat, halted : BOOLEAN]
      BY DEF StackHead
    <3>3. [r EXCEPT !.node = n, !.pushes = pushed] = [node |-> n, pushes |-> pushed, halted |-> r.halted]
      <4>1. PICK q : q = [r EXCEPT !.node = n]
        OBVIOUS
      <4>2. q = [node |-> n, pushes |-> r.pushes, halted |-> r.halted]
        BY <3>2, <4>1
      <4>3. [q EXCEPT !.pushes = pushed] = [node |-> n, pushes |-> pushed, halted |-> r.halted]
        BY <4>2
      <4> QED BY <4>1, <4>3
    <3> QED BY <1>8, <3>1, <3>3
  <2>2. [hs EXCEPT ![v].node = n, ![v].pushes = IF state = ErrorState THEN 0 ELSE (@ + 1) % Word]
          = [hs EXCEPT ![v] = [hs[v] EXCEPT !.node = n, !.pushes = pushed]]
    BY <1>2, <1>3
  <2> QED BY <1>9, <2>1, <2>2
<1>14. Push(s, v, tree, pending, state) = [nodes |-> Release(Placed(Retain(ns, below), n, node), <<hs[v]>>), heads |-> hs2]
  BY <1>1, <1>3, <1>4, <1>13 DEF Push, Placed
<1> QED BY <1>12, <1>14

(* What adding links never changes.                                        *)
SameGround(ns, ms) ==
  /\ ms \in Seq(StackNode) /\ DOMAIN ms = DOMAIN ns
  /\ \A k \in DOMAIN ns :
       /\ ms[k].state = ns[k].state /\ ms[k].position = ns[k].position
       /\ ms[k].errors = ns[k].errors /\ ms[k].cost = ns[k].cost
       /\ ns[k].refs > 0 => ms[k].refs > 0

(* A link to be added: to a node in use, which it agrees with.             *)
Job == [onto : Nat \ {0}, link : Link]

(* The node that gets the link is in use, and it agrees with the node      *)
(* below.                                                                  *)
JobOK(ns, j) ==
  /\ j.onto \in DOMAIN ns /\ ns[j.onto].refs > 0 /\ Follows(ns, j.onto, j.link)
  /\ ns[j.link.node].refs > 0

(* A list of links to be added.                                            *)
Jobs(ns, todo) == todo \in Seq(Job) /\ \A i \in DOMAIN todo : JobOK(ns, todo[i])

(* Adding a link spoils none of those still to be added.                   *)
LEMMA JobsStay ==
  ASSUME NEW ns, NEW ms, SameGround(ns, ms), NEW todo, Jobs(ns, todo)
  PROVE  Jobs(ms, todo)
<1>1. ASSUME NEW i \in DOMAIN todo PROVE JobOK(ms, todo[i])
  <2>1. PICK j : j = todo[i]
    OBVIOUS
  <2>2. JobOK(ns, j)
    BY <2>1 DEF Jobs
  <2>3. j.onto \in DOMAIN ns /\ j.link.node \in DOMAIN ns
    BY <2>2 DEF JobOK, Follows
  <2>4. JobOK(ms, j)
    BY <2>2, <2>3 DEF JobOK, Follows, SameGround
  <2> QED BY <2>1, <2>4
<1> QED BY <1>1 DEF Jobs

(* The links of a node are jobs for every node that agrees with it.        *)
LEMMA LinksAreJobs ==
  ASSUME NEW ns, NEW hs, NEW gone, Sound(ns, hs, gone), NEW m \in DOMAIN ns, NEW n \in DOMAIN ns,
         ns[n].refs > 0, ns[n].state = ns[m].state, ns[n].position = ns[m].position,
         ns[n].errors = ns[m].errors, ns[n].cost = ns[m].cost
  PROVE  Jobs(ns, AddingTo(n, ns[m].links))
<1>1. GraphOK(ns) /\ ns \in Seq(StackNode) /\ NodeOK(ns, m)
  BY DEF Sound, GraphOK
<1>2. PICK links \in Seq(Link) : links = ns[m].links
  BY <1>1, NodeType
<1>3. PICK todo : todo = AddingTo(n, links)
  OBVIOUS
<1>4. n \in Nat \ {0}
  BY <1>1, NodeType
<1>5. todo = [k \in 1 .. Len(links) |-> [onto |-> n, link |-> links[k]]] /\ DOMAIN links = 1 .. Len(links)
  BY <1>3 DEF AddingTo
<1>6. \A k \in 1 .. Len(links) : todo[k] \in Job /\ todo[k].onto = n /\ todo[k].link = links[k]
  BY <1>4, <1>5 DEF Job
<1>7. todo \in Seq(Job) /\ DOMAIN todo = 1 .. Len(links)
  <2>1. Len(links) \in Nat
    OBVIOUS
  <2> HIDE DEF Job
  <2> QED BY <1>5, <1>6, <2>1
<1>8. ASSUME NEW i \in DOMAIN todo PROVE JobOK(ns, todo[i])
  <2>1. i \in DOMAIN ns[m].links /\ todo[i].onto = n /\ todo[i].link = links[i]
    BY <1>2, <1>5, <1>6, <1>7
  <2>2. Follows(ns, m, links[i])
    BY <1>1, <1>2, <2>1 DEF NodeOK
  <2>3. Follows(ns, n, links[i])
    BY <2>2 DEF Follows
  <2>4. ns[links[i].node].refs > 0
    BY <1>2, <2>1, Counted
  <2> QED BY <2>1, <2>3, <2>4 DEF JobOK
<1> QED BY <1>2, <1>3, <1>7, <1>8 DEF Jobs

(* Equal trees count alike.                                                *)
LEMMA SameTreeCounts ==
  ASSUME NEW t \in Trees \cup {NoTree}, NEW u \in Trees \cup {NoTree}, SameTree(t, u)
  PROVE  /\ (t = NoTree <=> u = NoTree) /\ Bytes(t) = Bytes(u)
         /\ \A state : LinkCost(t, state) = LinkCost(u, state)
<1>1. CASE t = u
  BY <1>1
<1>2. CASE t # u
  <2>1. t # NoTree /\ u # NoTree /\ TokensEq(t, u)
    BY <1>2 DEF SameTree
  <2>2. t \in Trees /\ u \in Trees /\ t.bytes = u.bytes /\ t.extra = u.extra /\ t.cost = u.cost
    BY <2>1, ParseStackAssumption DEF TokensEq
  <2> QED BY <2>1, <2>2 DEF Bytes, LinkCost
<1> QED BY <1>1, <1>2

(* A link is added to a node.                                              *)
LinkAdded(ns, n, link) == [Retain(ns, link.node) EXCEPT ![n].links = Append(@, link)]

(* A link that is added counts for the node below, and spoils nothing on   *)
(* the ground.                                                             *)
LEMMA LinkAddedSound ==
  ASSUME NEW ns, NEW hs, NEW gone, Sound(ns, hs, gone), NEW j \in Job, JobOK(ns, j),
         Len(ns[j.onto].links) < MaxLinks
  PROVE  Sound(LinkAdded(ns, j.onto, j.link), hs, gone) /\ SameGround(ns, LinkAdded(ns, j.onto, j.link))
<1>1. PICK n, link, below : n = j.onto /\ link = j.link /\ below = link.node
  OBVIOUS
<1>2. /\ n \in DOMAIN ns /\ ns[n].refs > 0 /\ Follows(ns, n, link) /\ ns[below].refs > 0
      /\ below \in DOMAIN ns /\ link \in Link /\ Len(ns[n].links) < MaxLinks
  BY <1>1 DEF JobOK, Follows, Job
<1>3. /\ ns \in Seq(StackNode) /\ hs \in Seq(StackHead) /\ gone \in Seq(Pointer)
      /\ Aims(ns, hs) /\ Aims(ns, gone) /\ Exact(ns, hs, gone) /\ GraphOK(ns)
  BY DEF Sound, GraphOK
<1>4. n # Base
  <2> SUFFICES ASSUME n = Base PROVE FALSE
    OBVIOUS
  <2>1. ns[n].position = 0 /\ ns[n].errors = 0
    BY <1>3 DEF GraphOK
  <2>2. ns[below].position \in Nat /\ ns[below].errors \in Nat
    BY <1>2, <1>3, NodeType
  <2>3. link.tree \in Trees \cup {NoTree}
    BY <1>2, LinkType
  <2>4. CASE link.tree = NoTree
    <3>1. ns[n].errors = ns[below].errors + 1
      BY <1>1, <1>2, <2>4 DEF Follows
    <3> QED BY <2>1, <2>2, <3>1
  <2>5. CASE link.tree # NoTree
    <3>1. ns[n].position = ns[below].position + Bytes(link.tree)
      BY <1>1, <1>2 DEF Follows
    <3>2. Bytes(link.tree) \in Nat /\ Bytes(link.tree) > 0
      BY <2>3, <2>5, BytesType
    <3> QED BY <2>1, <2>2, <3>1, <3>2
  <2> QED BY <2>4, <2>5
<1>5. PICK held : held = Retain(ns, below)
  OBVIOUS
<1>6. /\ GraphOK(held) /\ DOMAIN held = DOMAIN ns
      /\ held[below].refs = ns[below].refs + 1 /\ \A k \in DOMAIN ns : k # below => held[k].refs = ns[k].refs
      /\ \A k \in DOMAIN ns :
           /\ held[k].links = ns[k].links /\ held[k].state = ns[k].state
           /\ held[k].position = ns[k].position /\ held[k].errors = ns[k].errors /\ held[k].cost = ns[k].cost
      /\ \A k : InLinks(held, k) = InLinks(ns, k)
  BY <1>2, <1>3, <1>5, RetainGraph
<1>7. held \in Seq(StackNode) /\ held[n] \in StackNode /\ held[n].links \in Seq(Link)
  BY <1>2, <1>6, NodeType DEF GraphOK
<1>8. PICK links \in Seq(Link) : links = Append(held[n].links, link)
  <2>1. PICK before \in Seq(Link) : before = held[n].links
    BY <1>7
  <2>2. Append(before, link) \in Seq(Link)
    BY <1>2, AppendProperties
  <2> QED BY <2>1, <2>2
<1>9. PICK one : one = [held[n] EXCEPT !.links = links]
  OBVIOUS
<1>10. /\ one \in StackNode /\ one.links = links /\ one.refs = held[n].refs /\ one.state = held[n].state
       /\ one.position = held[n].position /\ one.errors = held[n].errors /\ one.cost = held[n].cost
  <2> DEFINE L == Seq(Link)
  <2>1. held[n] \in [state : States, position : Nat, links : L, refs : Nat, errors : Nat, cost : Nat] /\ links \in L
    BY <1>7 DEF StackNode
  <2> HIDE DEF L
  <2>2. /\ one \in [state : States, position : Nat, links : L, refs : Nat, errors : Nat, cost : Nat]
        /\ one.links = links /\ one.refs = held[n].refs /\ one.state = held[n].state
        /\ one.position = held[n].position /\ one.errors = held[n].errors /\ one.cost = held[n].cost
    BY <1>9, <2>1
  <2> QED BY <2>2 DEF StackNode, L
<1>11. PICK ms : ms = [held EXCEPT ![n] = one]
  OBVIOUS
<1>12. /\ ms \in Seq(StackNode) /\ DOMAIN ms = DOMAIN ns /\ ms[n] = one
       /\ \A k \in DOMAIN ns : k # n => ms[k] = held[k]
  BY <1>2, <1>6, <1>7, <1>10, <1>11, UpdateNode
<1>13. ms = LinkAdded(ns, n, link)
  <2>1. LinkAdded(ns, n, link) = [held EXCEPT ![n].links = Append(@, link)]
    BY <1>1, <1>5 DEF LinkAdded
  <2>2. [held EXCEPT ![n].links = Append(@, link)]
          = [held EXCEPT ![n] = [held[n] EXCEPT !.links = Append(held[n].links, link)]]
    BY <1>7
  <2>3. [held[n] EXCEPT !.links = Append(held[n].links, link)] = one
    BY <1>8, <1>9
  <2>4. LinkAdded(ns, n, link) = [held EXCEPT ![n] = one]
    BY <2>1, <2>2, <2>3
  <2> QED BY <1>11, <2>4, Zenon
<1>14. \A k \in DOMAIN ns :
         /\ ms[k].state = ns[k].state /\ ms[k].position = ns[k].position
         /\ ms[k].errors = ns[k].errors /\ ms[k].cost = ns[k].cost
         /\ ms[k].refs = held[k].refs
  <2>1. \A k \in DOMAIN ns :
           /\ ms[k].state = held[k].state /\ ms[k].position = held[k].position
           /\ ms[k].errors = held[k].errors /\ ms[k].cost = held[k].cost /\ ms[k].refs = held[k].refs
    <3>1. ASSUME NEW k \in DOMAIN ns, k # n PROVE ms[k] = held[k]
      BY <1>12, <3>1
    <3> QED BY <1>10, <1>12, <3>1
  <2> QED BY <1>6, <2>1, Zenon
<1>15. ASSUME NEW k \in DOMAIN ns PROVE ms[k].refs = ns[k].refs + Here(below, k)
  <2>1. ns[k].refs \in Nat
    BY <1>3, NodeType
  <2>2. CASE k = below
    BY <1>6, <1>14, <2>1, <2>2 DEF Here
  <2>3. CASE k # below
    BY <1>6, <1>14, <2>1, <2>3 DEF Here
  <2> QED BY <2>2, <2>3
<1>16. ASSUME NEW k \in DOMAIN ns, ns[k].refs > 0 PROVE ms[k].refs > 0
  <2>1. ns[k].refs \in Nat /\ Here(below, k) \in Nat
    BY <1>3, NodeType DEF Here
  <2> QED BY <1>15, <1>16, <2>1
<1>17. SameGround(ns, ms)
  BY <1>12, <1>14, <1>16 DEF SameGround
<1>18. \A k \in DOMAIN ns, x \in Link : Follows(ns, k, x) => Follows(ms, k, x)
  <2> SUFFICES ASSUME NEW k \in DOMAIN ns, NEW x \in Link, Follows(ns, k, x) PROVE Follows(ms, k, x)
    OBVIOUS
  <2>1. x.node \in DOMAIN ns
    BY DEF Follows
  <2> QED BY <1>12, <1>14, <2>1 DEF Follows
<1>19. Len(links) <= MaxLinks /\ links # << >> /\ \A i \in DOMAIN links : Follows(ns, n, links[i])
  <2>1. NodeOK(ns, n) /\ held[n].links = ns[n].links
    BY <1>2, <1>3, <1>6 DEF GraphOK
  <2>2. /\ Len(links) = Len(ns[n].links) + 1 /\ DOMAIN links = DOMAIN ns[n].links \cup {Len(ns[n].links) + 1}
        /\ links[Len(ns[n].links) + 1] = link /\ \A i \in DOMAIN ns[n].links : links[i] = ns[n].links[i]
    BY <1>2, <1>7, <1>8, <2>1, AppendProperties
  <2>3. Len(ns[n].links) \in Nat /\ MaxLinks \in Nat
    BY <1>7, <2>1, ParseStackAssumption
  <2>4. Len(links) <= MaxLinks /\ Len(links) # 0
    BY <1>2, <2>2, <2>3
  <2>5. links # << >>
    BY <2>4
  <2>6. ASSUME NEW i \in DOMAIN links PROVE Follows(ns, n, links[i])
    <3>1. CASE i \in DOMAIN ns[n].links
      BY <2>1, <2>2, <3>1 DEF NodeOK
    <3>2. CASE i = Len(ns[n].links) + 1
      BY <1>2, <2>2, <3>2
    <3> QED BY <2>2, <3>1, <3>2
  <2> QED BY <2>4, <2>5, <2>6
<1>20. ASSUME NEW k \in DOMAIN ns PROVE NodeOK(ms, k)
  <2>1. NodeOK(held, k) /\ NodeOK(ns, k)
    BY <1>3, <1>6 DEF GraphOK
  <2>2. CASE k = n
    <3>1. ms[n].refs > 0 /\ ms[n].refs # 0
      <4>1. ms[n].refs > 0
        BY <1>2, <1>16
      <4> QED BY <4>1
    <3>2. ms[n].links = links
      BY <1>10, <1>12
    <3>3. ASSUME NEW i \in DOMAIN links PROVE Follows(ms, n, links[i])
      <4>1. links[i] \in Link
        OBVIOUS
      <4> QED BY <1>2, <1>18, <1>19, <4>1
    <3> QED BY <1>19, <2>2, <3>1, <3>2, <3>3 DEF NodeOK
  <2>3. CASE k # n
    <3>1. ms[k] = held[k] /\ held[k].links = ns[k].links /\ ns[k].links \in Seq(Link)
      BY <1>3, <1>6, <1>12, <2>3, NodeType
    <3>2. ASSUME NEW i \in DOMAIN ms[k].links PROVE Follows(ms, k, ms[k].links[i])
      <4>1. ns[k].links[i] \in Link /\ Follows(ns, k, ns[k].links[i]) /\ ms[k].links = ns[k].links
        BY <2>1, <3>1, <3>2 DEF NodeOK
      <4> QED BY <1>18, <4>1
    <3> QED BY <2>1, <3>1, <3>2 DEF NodeOK
  <2> QED BY <2>2, <2>3
<1>21. GraphOK(ms)
  <2>1. ms[Base] = held[Base] /\ Base \in DOMAIN ms
    BY <1>3, <1>4, <1>12 DEF GraphOK
  <2> QED BY <1>6, <1>12, <1>20, <2>1 DEF GraphOK
<1>22. ASSUME NEW k PROVE InLinks(ms, k) = InLinks(ns, k) + Here(below, k)
  <2>1. LinksOf(held, n) = held[n].links /\ LinksOf(ms, n) = links
    BY <1>2, <1>6, <1>10, <1>12 DEF LinksOf
  <2>2. \A m \in Nat : m # n => LinksOf(ms, m) = LinksOf(held, m)
    BY <1>6, <1>12 DEF LinksOf
  <2>3. Len(LinksOf(held, n)) <= MaxLinks /\ Len(LinksOf(ms, n)) <= MaxLinks
    <3>1. NodeOK(held, n)
      BY <1>2, <1>6 DEF GraphOK
    <3> QED BY <1>19, <2>1, <3>1 DEF NodeOK
  <2>4. InLinks(ms, k) + Points(LinksOf(held, n), k) = InLinks(held, k) + Points(LinksOf(ms, n), k)
    <3>1. held \in Seq(StackNode) /\ ms \in Seq(StackNode)
      BY <1>7, <1>12
    <3> QED BY <2>2, <2>3, <3>1, LinksChange
  <2>5. Points(links, k) = Points(held[n].links, k) + Here(below, k)
    <3>1. Points(Append(held[n].links, link), k) = Points(held[n].links, k) + IF link.node = k THEN 1 ELSE 0
      BY <1>2, <1>7, PointsAppend
    <3> QED BY <1>1, <1>8, <3>1 DEF Here
  <2>6. PICK a \in Nat, b \in Nat, c \in Nat, d \in Nat :
          a = InLinks(ms, k) /\ b = Points(held[n].links, k) /\ c = InLinks(ns, k) /\ d = Here(below, k)
    <3>1. InLinks(ms, k) \in Nat /\ InLinks(ns, k) \in Nat
      BY <1>3, <1>12, InLinksType
    <3>2. Points(held[n].links, k) \in Nat
      BY <1>7, PointsType
    <3> QED BY <3>1, <3>2 DEF Here
  <2>7. a + b = c + (b + d)
    BY <1>6, <2>1, <2>4, <2>5, <2>6
  <2>8. a = c + d
    BY <2>7
  <2> QED BY <2>6, <2>8
<1>23. ASSUME NEW k \in DOMAIN ms
       PROVE  ms[k].refs = Points(hs, k) + Points(gone, k) + InLinks(ms, k) + Here(k, Base)
  <2>1. PICK a \in Nat, b \in Nat, c \in Nat, d \in Nat, e \in Nat :
          /\ a = Points(hs, k) /\ b = Points(gone, k) /\ c = InLinks(ns, k) /\ d = Here(k, Base)
          /\ e = Here(below, k)
    <3>1. Points(hs, k) \in Nat /\ Points(gone, k) \in Nat /\ InLinks(ns, k) \in Nat /\ Here(k, Base) \in Nat
      BY <1>3, CountsType
    <3> QED BY <3>1 DEF Here
  <2>2. ns[k].refs = a + b + c + d
    BY <1>3, <1>12, <2>1 DEF Exact
  <2>3. ms[k].refs = ns[k].refs + e /\ InLinks(ms, k) = c + e
    BY <1>12, <1>15, <1>22, <2>1
  <2>4. ms[k].refs = a + b + (c + e) + d
    BY <2>2, <2>3
  <2> QED BY <2>1, <2>3, <2>4
<1>24. Aims(ms, hs) /\ Aims(ms, gone)
  BY <1>3, <1>12 DEF Aims
<1>25. Sound(ms, hs, gone)
  BY <1>3, <1>21, <1>23, <1>24 DEF Sound, Exact
<1> QED BY <1>1, <1>13, <1>17, <1>25

(* Where nothing is added nothing changes.                                 *)
LEMMA NothingAdded ==
  ASSUME NEW ns, ns \in Seq(StackNode)
  PROVE  SameGround(ns, ns) /\ Jobs(ns, << >>)
<1>1. << >> \in Seq(Job)
  OBVIOUS
<1> QED BY <1>1 DEF SameGround, Jobs

(* Two links of a node with equal trees lead to nodes that agree.          *)
LEMMA SameTreeSameGround ==
  ASSUME NEW ns \in Seq(StackNode), NEW n, NEW l \in Link, NEW link \in Link,
         Follows(ns, n, l), Follows(ns, n, link), SameTree(l.tree, link.tree)
  PROVE  /\ ns[l.node].position = ns[link.node].position /\ ns[l.node].errors = ns[link.node].errors
         /\ ns[l.node].cost = ns[link.node].cost
<1>1. l.tree \in Trees \cup {NoTree} /\ link.tree \in Trees \cup {NoTree}
  BY LinkType
<1>2. /\ l.tree = NoTree <=> link.tree = NoTree
      /\ Bytes(l.tree) = Bytes(link.tree) /\ LinkCost(l.tree, ns[n].state) = LinkCost(link.tree, ns[n].state)
  BY <1>1, SameTreeCounts
<1>3. /\ Bytes(l.tree) \in Nat /\ LinkCost(l.tree, ns[n].state) \in Nat
  BY <1>1, BytesType, LinkCostType
<1>4. l.node \in DOMAIN ns /\ link.node \in DOMAIN ns
  BY DEF Follows
<1>5. PICK p \in Nat, q \in Nat, e \in Nat, f \in Nat, c \in Nat, d \in Nat :
        /\ p = ns[l.node].position /\ q = ns[link.node].position
        /\ e = ns[l.node].errors /\ f = ns[link.node].errors
        /\ c = ns[l.node].cost /\ d = ns[link.node].cost
  BY <1>4, NodeType
<1>6. PICK b \in Nat, k \in Nat : b = Bytes(l.tree) /\ k = LinkCost(l.tree, ns[n].state)
  BY <1>3
<1>7. p + b = q + b /\ c + k = d + k
  BY <1>2, <1>5, <1>6 DEF Follows
<1>8. e + (IF l.tree = NoTree THEN 1 ELSE 0) = f + (IF link.tree = NoTree THEN 1 ELSE 0)
  BY <1>5 DEF Follows
<1>9. e = f
  <2>1. CASE l.tree = NoTree
    BY <1>2, <1>8, <2>1
  <2>2. CASE l.tree # NoTree
    BY <1>2, <1>8, <2>2
  <2> QED BY <2>1, <2>2
<1>10. p = q /\ c = d
  BY <1>7
<1> QED BY <1>5, <1>9, <1>10

(* stack_node_add_link                                                     *)
LEMMA AddLinkOK ==
  ASSUME NEW ns, NEW hs, NEW gone, Sound(ns, hs, gone), NEW j \in Job, JobOK(ns, j),
         NEW added, added = AddLink(ns, j.onto, j.link)
  PROVE  /\ Sound(added.nodes, hs, gone) /\ SameGround(ns, added.nodes)
         /\ Jobs(added.nodes, added.left)
<1>1. PICK n, link, below : n = j.onto /\ link = j.link /\ below = link.node
  OBVIOUS
<1>2. /\ n \in DOMAIN ns /\ ns[n].refs > 0 /\ Follows(ns, n, link) /\ ns[below].refs > 0
      /\ below \in DOMAIN ns /\ link \in Link
  BY <1>1 DEF JobOK, Follows, Job
<1>3. ns \in Seq(StackNode) /\ NodeOK(ns, n)
  BY <1>2 DEF Sound, GraphOK
<1>4. PICK links \in Seq(Link) : links = ns[n].links
  BY <1>2, <1>3, NodeType
<1>5. PICK same : same = {i \in DOMAIN links : /\ SameTree(links[i].tree, link.tree)
                                               /\ ns[links[i].node].state = ns[link.node].state}
  OBVIOUS
<1>6. PICK first : first = links[Min(same)].node
  OBVIOUS
<1>7. added = IF same # {}
                THEN [nodes |-> ns,
                      left |-> IF first = below THEN << >> ELSE AddingTo(first, ns[below].links)]
              ELSE IF Len(links) < MaxLinks
                THEN [nodes |-> LinkAdded(ns, n, link), left |-> << >>]
              ELSE [nodes |-> ns, left |-> << >>]
  BY <1>1, <1>4, <1>5, <1>6 DEF AddLink, LinkAdded
<1>8. SameGround(ns, ns) /\ Jobs(ns, << >>)
  BY <1>3, NothingAdded
<1>9. CASE same # {}
  <2>1. added.nodes = ns /\ added.left = IF first = below THEN << >> ELSE AddingTo(first, ns[below].links)
    BY <1>7, <1>9
  <2>2. PICK i \in same : i = Min(same)
    <3>1. same \in SUBSET Nat
      BY <1>5
    <3>2. Min(same) \in same
      BY <1>9, <3>1, LeastIs
    <3> QED BY <3>2
  <2>3. PICK l : l = links[i]
    OBVIOUS
  <2>4. /\ l \in Link /\ SameTree(l.tree, link.tree) /\ l.node = first
        /\ ns[first].state = ns[below].state /\ i \in DOMAIN links
    <3>1. i \in DOMAIN links /\ SameTree(links[i].tree, link.tree) /\ ns[links[i].node].state = ns[link.node].state
      BY <1>5
    <3>2. links[i] \in Link
      BY <3>1
    <3>3. links[i].node = first
      BY <1>6, <2>2
    <3> QED BY <1>1, <2>3, <3>1, <3>2, <3>3
  <2>5. Follows(ns, n, l)
    <3>1. Follows(ns, n, links[i])
      BY <1>3, <1>4, <2>4 DEF NodeOK
    <3> QED BY <2>3, <3>1
  <2>6. first \in DOMAIN ns
    BY <2>4, <2>5 DEF Follows
  <2>7. ns[first].refs > 0
    BY <1>2, <1>4, <2>3, <2>4, Counted
  <2>8. ns[first].position = ns[below].position /\ ns[first].errors = ns[below].errors /\ ns[first].cost = ns[below].cost
    BY <1>1, <1>2, <1>3, <2>4, <2>5, SameTreeSameGround
  <2>9. Jobs(ns, AddingTo(first, ns[below].links))
    BY <1>2, <2>4, <2>6, <2>7, <2>8, LinksAreJobs
  <2>10. Jobs(ns, added.left)
    BY <1>8, <2>1, <2>9
  <2> QED BY <1>8, <2>1, <2>10
<1>10. CASE same = {} /\ Len(links) < MaxLinks
  <2>1. added.nodes = LinkAdded(ns, n, link) /\ added.left = << >>
    BY <1>7, <1>10
  <2>2. Len(ns[j.onto].links) < MaxLinks
    BY <1>1, <1>4, <1>10
  <2>3. Sound(added.nodes, hs, gone) /\ SameGround(ns, added.nodes)
    BY <1>1, <2>1, <2>2, LinkAddedSound
  <2>4. Jobs(added.nodes, << >>)
    BY <1>8, <2>3, JobsStay
  <2> QED BY <2>1, <2>3, <2>4
<1>11. CASE same = {} /\ ~ (Len(links) < MaxLinks)
  <2>1. added.nodes = ns /\ added.left = << >>
    BY <1>7, <1>11
  <2> QED BY <1>8, <2>1
<1> QED BY <1>9, <1>10, <1>11

(* Two lists of links to be added, one after the other.                    *)
LEMMA JobsConcat ==
  ASSUME NEW ns, NEW a, NEW b, Jobs(ns, a), Jobs(ns, b)
  PROVE  Jobs(ns, a \o b)
<1>1. a \in Seq(Job) /\ b \in Seq(Job)
  BY DEF Jobs
<1>2. a \o b \in Seq(Job)
  BY <1>1, ConcatProperties
<1>3. ASSUME NEW i \in DOMAIN (a \o b) PROVE JobOK(ns, (a \o b)[i])
  <2>1. \/ i \in DOMAIN a /\ (a \o b)[i] = a[i]
        \/ i - Len(a) \in DOMAIN b /\ (a \o b)[i] = b[i - Len(a)]
    <3> HIDE DEF Job
    <3> QED BY <1>1
  <2> QED BY <2>1 DEF Jobs
<1> QED BY <1>2, <1>3 DEF Jobs

(* The first of a list of links to be added, and the others.               *)
LEMMA JobsTail ==
  ASSUME NEW ns, NEW a, Jobs(ns, a), a # << >>
  PROVE  Head(a) \in Job /\ JobOK(ns, Head(a)) /\ Jobs(ns, Tail(a))
<1>1. a \in Seq(Job)
  BY DEF Jobs
<1>2. Head(a) = a[1] /\ 1 \in DOMAIN a /\ Tail(a) \in Seq(Job)
  <2> HIDE DEF Job
  <2> QED BY <1>1
<1>3. ASSUME NEW i \in DOMAIN Tail(a) PROVE JobOK(ns, Tail(a)[i])
  <2>1. i + 1 \in DOMAIN a /\ Tail(a)[i] = a[i + 1]
    <3> HIDE DEF Job
    <3> QED BY <1>1
  <2> QED BY <2>1 DEF Jobs
<1> QED BY <1>1, <1>2, <1>3 DEF Jobs

(* A step of adding links.                                                 *)
Adding(ms, st, hs) ==
  /\ st = [nodes |-> st.nodes, todo |-> st.todo]
  /\ Sound(st.nodes, hs, << >>) /\ SameGround(ms, st.nodes) /\ Jobs(st.nodes, st.todo)

(* A step adds the first link and leaves good ones behind.                 *)
LEMMA AddStepOK ==
  ASSUME NEW ms, NEW hs, NEW st, Adding(ms, st, hs), NEW next, next = AddStep(st)
  PROVE  Adding(ms, next, hs)
<1>1. /\ Sound(st.nodes, hs, << >>) /\ SameGround(ms, st.nodes) /\ Jobs(st.nodes, st.todo)
  BY DEF Adding
<1>2. CASE st.todo = << >>
  BY <1>2 DEF AddStep
<1>3. CASE st.todo # << >>
  <2>1. PICK j : j = Head(st.todo)
    OBVIOUS
  <2>2. PICK added : added = AddLink(st.nodes, j.onto, j.link)
    OBVIOUS
  <2>3. next = [nodes |-> added.nodes, todo |-> added.left \o Tail(st.todo)]
    BY <1>3, <2>1, <2>2 DEF AddStep
  <2>4. j \in Job /\ JobOK(st.nodes, j) /\ Jobs(st.nodes, Tail(st.todo))
    BY <1>1, <1>3, <2>1, JobsTail
  <2>5. /\ Sound(added.nodes, hs, << >>) /\ SameGround(st.nodes, added.nodes)
        /\ Jobs(added.nodes, added.left)
    BY <1>1, <2>2, <2>4, AddLinkOK
  <2>6. Jobs(added.nodes, Tail(st.todo))
    BY <2>4, <2>5, JobsStay
  <2>7. Jobs(added.nodes, added.left \o Tail(st.todo))
    BY <2>5, <2>6, JobsConcat
  <2>8. SameGround(ms, added.nodes)
    BY <1>1, <2>5 DEF SameGround
  <2> QED BY <2>3, <2>5, <2>7, <2>8 DEF Adding
<1> QED BY <1>2, <1>3

(* All the links are added, or as many as the calls suffice for.           *)
LEMMA AddLinksOK ==
  ASSUME NEW ns, NEW hs, Sound(ns, hs, << >>), NEW n, NEW links, Jobs(ns, AddingTo(n, links))
  PROVE  Sound(AddLinks(ns, n, links), hs, << >>) /\ SameGround(ns, AddLinks(ns, n, links))
<1> DEFINE A == Seq(StackNode)  B == Seq(Job)
           U == [nodes : A, todo : B]
           first == [nodes |-> ns, todo |-> AddingTo(n, links)]
           Z == {st \in U : Adding(ns, st, hs)}
           S == [k \in Nat |-> Z]
           after(k) == Repeat(AddStep, first, k)
<1>1. ns \in A /\ AddingTo(n, links) \in B
  BY DEF Sound, GraphOK, Jobs
<1>2. first \in Z
  <2>1. first \in U /\ first.nodes = ns /\ first.todo = AddingTo(n, links)
    BY <1>1
  <2>2. SameGround(ns, ns)
    BY <1>1, NothingAdded
  <2>3. Adding(ns, first, hs)
    BY <2>1, <2>2 DEF Adding
  <2> QED BY <2>1, <2>3
<1>3. ASSUME NEW st \in Z PROVE AddStep(st) \in Z
  <2>1. PICK next : next = AddStep(st)
    OBVIOUS
  <2>2. Adding(ns, next, hs)
    BY <2>1, AddStepOK
  <2>3. next.nodes \in A /\ next.todo \in B /\ next = [nodes |-> next.nodes, todo |-> next.todo]
    BY <2>2 DEF Adding, Sound, GraphOK, Jobs
  <2>4. next \in U
    BY <2>3
  <2> QED BY <2>1, <2>2, <2>4
<1>4. ASSUME NEW k \in Nat PROVE after(k) \in Z
  <2>1. S \in [Nat -> SUBSET U] /\ first \in S[0]
    BY <1>2
  <2>2. \A i \in 0 .. k - 1 : \A x \in S[i] : AddStep(x) \in S[i + 1]
    BY <1>3
  <2>3. after(k) \in S[k]
    <3> HIDE DEF S, U, first
    <3> QED BY <2>1, <2>2, RepeatAdd
  <2> QED BY <2>3
<1>5. PICK k \in Nat : AddLinks(ns, n, links) = after(k).nodes
  <2>1. MaxCalls \in Nat
    BY ParseStackAssumption
  <2>2. PICK k : k = CHOOSE i \in 0 .. MaxCalls : after(i).todo = << >> \/ i = MaxCalls
    OBVIOUS
  <2>3. MaxCalls \in 0 .. MaxCalls
    BY <2>1
  <2>4. k \in 0 .. MaxCalls
    <3> HIDE DEF after
    <3> QED BY <2>2, <2>3
  <2>5. AddLinks(ns, n, links) = after(k).nodes
    BY <2>2 DEF AddLinks
  <2> QED BY <2>1, <2>4, <2>5
<1>6. after(k) \in Z
  BY <1>4
<1>7. Adding(ns, after(k), hs)
  <2> HIDE DEF after
  <2> QED BY <1>6
<1> QED
  <2> HIDE DEF after
  <2> QED BY <1>5, <1>7 DEF Adding

(* ts_stack_merge                                                          *)
LEMMA MergeOK ==
  ASSUME NEW s, StackOK(s), NEW v \in DOMAIN s.heads, NEW w \in DOMAIN s.heads, v # w, Mergeable(s, v, w)
  PROVE  StackOK(Merge(s, v, w))
<1>1. PICK ns, hs, n, m : ns = s.nodes /\ hs = s.heads /\ n = hs[v].node /\ m = hs[w].node
  OBVIOUS
<1>2. /\ Sound(ns, hs, << >>) /\ hs \in Seq(StackHead) /\ v \in DOMAIN hs /\ w \in DOMAIN hs
      /\ n \in DOMAIN ns /\ m \in DOMAIN ns /\ ns[n].refs > 0 /\ ns[m].refs > 0
      /\ hs[v] \in StackHead /\ hs[w] \in StackHead
  BY <1>1, StackParts
<1>3. ns[n].state = ns[m].state /\ ns[n].position = ns[m].position /\ ns[n].errors = ns[m].errors /\ ns[n].cost = ns[m].cost
  BY <1>1 DEF Mergeable, MergeableTops, Top
<1>4. Jobs(ns, AddingTo(n, ns[m].links))
  BY <1>2, <1>3, LinksAreJobs
<1>5. PICK ms : ms = AddLinks(ns, n, ns[m].links)
  OBVIOUS
<1>6. Sound(ms, hs, << >>)
  BY <1>2, <1>4, <1>5, AddLinksOK
<1>7. PICK p \in Nat : p = Max({hs[v].pushes, hs[w].pushes})
  <2>1. hs[v].pushes \in Nat /\ hs[w].pushes \in Nat
    BY <1>2, HeadsArePointers
  <2>2. Max({hs[v].pushes, hs[w].pushes}) \in {hs[v].pushes, hs[w].pushes}
    <3>1. \E x \in {hs[v].pushes, hs[w].pushes} : \A y \in {hs[v].pushes, hs[w].pushes} : y <= x
      BY <2>1
    <3> QED BY <3>1 DEF Max
  <2> QED BY <2>1, <2>2
<1>8. PICK h \in StackHead : h = [hs[v] EXCEPT !.pushes = p] /\ h.node = n
  <2>1. [hs[v] EXCEPT !.pushes = p] \in StackHead /\ [hs[v] EXCEPT !.pushes = p].node = n
    BY <1>1, <1>2, <1>7 DEF StackHead
  <2> QED BY <2>1
<1>9. PICK hs2 : hs2 = [hs EXCEPT ![v] = h]
  OBVIOUS
<1>10. hs2 \in Seq(StackHead) /\ DOMAIN hs2 = DOMAIN hs /\ hs2[v] = h /\ \A k \in DOMAIN hs : k # v => hs2[k] = hs[k]
  <2> HIDE DEF StackHead
  <2> QED BY <1>2, <1>8, <1>9
<1>11. \A k \in DOMAIN hs : hs2[k].node = hs[k].node
  BY <1>1, <1>8, <1>10
<1>12. Sound(ms, hs2, << >>)
  <2>1. Aims(ms, hs2)
    BY <1>6, <1>10, <1>11 DEF Sound, Aims
  <2>2. \A k \in DOMAIN ms : Points(hs2, k) + Points(<< >>, k) = Points(hs, k) + Points(<< >>, k)
    BY <1>10, <1>11, PointsSame
  <2>3. << >> \in Seq(Pointer) /\ Aims(ms, << >>)
    BY DEF Aims
  <2> QED BY <1>6, <1>10, <2>1, <2>2, <2>3, PointersMove
<1>13. StackOK([nodes |-> ms, heads |-> hs2])
  BY <1>12 DEF StackOK
<1>14. [hs EXCEPT ![v].pushes = Max({@, hs[w].pushes})] = hs2
  BY <1>7, <1>8, <1>9
<1>15. Merge(s, v, w) = RemoveVersion([nodes |-> ms, heads |-> hs2], w)
  BY <1>1, <1>5, <1>14 DEF Merge, Top
<1>16. w \in DOMAIN [nodes |-> ms, heads |-> hs2].heads
  BY <1>2, <1>10
<1> QED BY <1>13, <1>15, <1>16, RemoveOK

-----------------------------------------------------------------------------
(* What a walk down the graph is made of.                                  *)
Iterator == [node : Nat \ {0}, trees : Seq(Trees), count : Nat, pending : BOOLEAN, pushes : Nat]
Slice == [version : Nat \ {0}, node : Nat \ {0}, trees : Seq(Trees)]
Session == {[kind |-> "pending"], [kind |-> "all"]}
           \cup [kind : {"count"}, count : Nat, error : BOOLEAN, valid : BOOLEAN]

(* Counting what is remembered.                                            *)
Bit(b) == IF b THEN 1 ELSE 0

(* A session that counts has made a slice for each of the ends it          *)
(* remembers.                                                              *)
SessionOK(session, slices) ==
  /\ session \in Session /\ slices \in Nat
  /\ session.kind = "count" => slices >= Bit(session.error) + Bit(session.valid)

(* Slices name heads of their nodes, made since there were so many, and    *)
(* stand in the order of their versions.                                   *)
SlicesOK(s, slices, old) ==
  /\ slices \in Seq(Slice)
  /\ \A k \in DOMAIN slices :
       /\ slices[k].version \in DOMAIN s.heads /\ slices[k].version > old
       /\ s.heads[slices[k].version].node = slices[k].node
  /\ \A k, l \in DOMAIN slices : k <= l => slices[k].version <= slices[l].version

(* An iterator is at a node in use.                                        *)
IteratorOK(ns, it) == it.node \in DOMAIN ns /\ ns[it.node].refs > 0

(* And so are all of them.                                                 *)
IteratorsOK(ns, its) == its \in Seq(Iterator) /\ \A k \in DOMAIN its : IteratorOK(ns, its[k])

(* The types of what a walk changes.                                       *)
StackType == [nodes : Seq(StackNode), heads : Seq(StackHead)]
SliceList == Seq(Slice)
IteratorList == Seq(Iterator)

Walk == [stack : StackType, slices : SliceList, session : Session, pushes : Nat,
              its : IteratorList, i : Nat \ {0}]

(* What holds in the middle of a walk that began with so many heads.       *)
WalkOK(st, old, kind) ==
  /\ st \in Walk
  /\ StackOK(st.stack) /\ old \in Nat /\ old <= Len(st.stack.heads) /\ SlicesOK(st.stack, st.slices, old)
  /\ SessionOK(st.session, Len(st.slices)) /\ st.session.kind = kind
  /\ IteratorsOK(st.stack.nodes, st.its)

(* What InsertAt gives: one more, and those behind it moved.               *)
LEMMA InsertAtIs ==
  ASSUME NEW S, NEW s \in Seq(S), NEW i \in 1 .. Len(s) + 1, NEW x \in S, NEW t, t = InsertAt(s, i, x)
  PROVE  /\ t \in Seq(S) /\ Len(t) = Len(s) + 1
         /\ t[i] = x /\ \A k \in DOMAIN t : (k < i => t[k] = s[k]) /\ (k > i => t[k] = s[k - 1])
<1>1. PICK a, b, one : a = SubSeq(s, 1, i - 1) /\ b = SubSeq(s, i, Len(s)) /\ one = <<x>>
  OBVIOUS
<1>2. i \in Nat /\ i >= 1 /\ i <= Len(s) + 1 /\ Len(s) \in Nat
  OBVIOUS
<1>3. a \in Seq(S) /\ Len(a) = i - 1 /\ \A k \in 1 .. i - 1 : a[k] = s[k]
  BY <1>1, <1>2, SubSeqProperties
<1>4. b \in Seq(S) /\ Len(b) = Len(s) + 1 - i /\ \A k \in 1 .. Len(s) + 1 - i : b[k] = s[i + k - 1]
  BY <1>1, <1>2, SubSeqProperties
<1>5. one \in Seq(S) /\ Len(one) = 1 /\ one[1] = x
  BY <1>1
<1>6. t = (a \o one) \o b
  BY <1>1 DEF InsertAt
<1>7. PICK c : c = a \o one
  OBVIOUS
<1>8. c \in Seq(S) /\ Len(c) = i /\ c[i] = x /\ \A k \in 1 .. i - 1 : c[k] = s[k]
  <2>1. /\ c \in Seq(S) /\ Len(c) = Len(a) + Len(one)
        /\ \A k \in 1 .. Len(a) + Len(one) : c[k] = IF k <= Len(a) THEN a[k] ELSE one[k - Len(a)]
    BY <1>3, <1>5, <1>7, ConcatProperties
  <2>2. Len(a) + Len(one) = i /\ i \in 1 .. i /\ ~ (i <= Len(a)) /\ i - Len(a) = 1
    BY <1>2, <1>3, <1>5
  <2>3. \A k \in 1 .. i - 1 : k \in 1 .. i /\ k <= Len(a)
    BY <1>2, <1>3
  <2> QED BY <1>3, <1>5, <2>1, <2>2, <2>3
<1>a. /\ t \in Seq(S) /\ Len(t) = Len(s) + 1
      /\ \A k \in 1 .. Len(s) + 1 : t[k] = IF k <= i THEN c[k] ELSE b[k - i]
  <2>1. /\ t \in Seq(S) /\ Len(t) = Len(c) + Len(b)
        /\ \A k \in 1 .. Len(c) + Len(b) : t[k] = IF k <= Len(c) THEN c[k] ELSE b[k - Len(c)]
    <3>1. b \in Seq(S) /\ c \in Seq(S) /\ t = c \o b
      BY <1>4, <1>6, <1>7, <1>8
    <3> QED BY <3>1, ConcatProperties
  <2>2. Len(c) = i /\ Len(c) + Len(b) = Len(s) + 1
    BY <1>2, <1>4, <1>8
  <2> QED BY <2>1, <2>2
<1>9. t \in Seq(S) /\ Len(t) = Len(s) + 1 /\ DOMAIN t = 1 .. Len(s) + 1
  BY <1>a
<1>10. t[i] = x /\ \A k \in 1 .. i - 1 : t[k] = s[k]
  <2>1. i \in 1 .. Len(s) + 1 /\ \A k \in 1 .. i - 1 : k \in 1 .. Len(s) + 1 /\ k <= i
    BY <1>2
  <2> QED BY <1>2, <1>8, <1>a, <2>1
<1>11. ASSUME NEW k \in DOMAIN t, k > i PROVE t[k] = s[k - 1]
  <2>1. k - i \in 1 .. Len(s) + 1 - i /\ i + (k - i) - 1 = k - 1
    BY <1>2, <1>9, <1>11
  <2>2. t[k] = b[k - i]
    BY <1>2, <1>9, <1>a, <1>11
  <2> QED BY <1>4, <2>1, <2>2
<1>12. ASSUME NEW k \in DOMAIN t, k < i PROVE t[k] = s[k]
  <2>1. k \in 1 .. i - 1
    BY <1>2, <1>9, <1>12
  <2> QED BY <1>10, <2>1
<1> QED BY <1>9, <1>10, <1>11, <1>12

(* The callbacks of the stack's own walks.                                 *)
LEMMA VerdictOK ==
  ASSUME NEW session, NEW n, SessionOK(session, n), NEW node, NEW it,
         NEW w, w = Verdict(session, node, it)
  PROVE  w.pop \in BOOLEAN /\ SessionOK(w.session, n + Bit(w.pop)) /\ w.session.kind = session.kind
<1>1. session \in Session /\ n \in Nat
  BY DEF SessionOK
<1>c. PICK none, halt, take : /\ none = [pop |-> FALSE, stop |-> FALSE, session |-> session]
                              /\ halt = [none EXCEPT !.stop = TRUE]
                              /\ take = [halt EXCEPT !.pop = TRUE]
  OBVIOUS
<1>2. /\ none.pop = FALSE /\ none.session = session /\ halt.pop = FALSE /\ halt.session = session
      /\ take.pop = TRUE /\ take.session = session /\ DOMAIN take = {"pop", "stop", "session"}
  <2>1. none.pop = FALSE /\ none.session = session /\ DOMAIN none = {"pop", "stop", "session"}
    BY <1>c
  <2>2. halt.pop = FALSE /\ halt.session = session /\ DOMAIN halt = {"pop", "stop", "session"}
    BY <1>c, <2>1
  <2>3. take.pop = TRUE /\ take.session = session /\ DOMAIN take = {"pop", "stop", "session"}
    BY <1>c, <2>2
  <2> QED BY <2>1, <2>2, <2>3
<1>3. \A b \in BOOLEAN : Bit(b) \in {0, 1}
  BY DEF Bit
<1>4. Bit(FALSE) = 0 /\ Bit(TRUE) = 1
  BY DEF Bit
<1>5. SessionOK(session, n + 0) /\ SessionOK(session, n + 1)
  <2>1. n + 0 = n /\ n + 1 \in Nat
    BY <1>1
  <2>2. ASSUME session.kind = "count" PROVE n + 1 >= Bit(session.error) + Bit(session.valid)
    <3>1. n >= Bit(session.error) + Bit(session.valid) /\ session.error \in BOOLEAN /\ session.valid \in BOOLEAN
      BY <2>2 DEF SessionOK, Session
    <3> QED BY <1>1, <1>3, <3>1
  <2> QED BY <2>1, <2>2 DEF SessionOK
<1>b. ASSUME w \in {none, take, halt}
      PROVE  w.pop \in BOOLEAN /\ SessionOK(w.session, n + Bit(w.pop)) /\ w.session.kind = session.kind
  <2>1. w.session = session /\ w.pop \in BOOLEAN
    <3>1. CASE w = none
      BY <1>2, <3>1
    <3>2. CASE w = halt
      BY <1>2, <3>2
    <3>3. CASE w = take
      BY <1>2, <3>3
    <3> QED BY <1>b, <3>1, <3>2, <3>3
  <2>2. Bit(w.pop) = 0 \/ Bit(w.pop) = 1
    BY <1>3, <2>1
  <2> QED BY <1>5, <2>1, <2>2
<1>6. CASE session.kind = "pending"
  <2>1. w \in {none, take, halt}
    BY <1>c, <1>6 DEF Verdict
  <2> QED BY <1>b, <2>1
<1>7. CASE session.kind = "all"
  <2>1. w \in {none, take}
    BY <1>c, <1>7 DEF Verdict
  <2> QED BY <1>b, <2>1
<1>8. CASE session.kind = "count"
  <2>1. session \in [kind : {"count"}, count : Nat, error : BOOLEAN, valid : BOOLEAN]
    BY <1>1, <1>8 DEF Session
  <2>2. n >= Bit(session.error) + Bit(session.valid)
    BY <1>8 DEF SessionOK
  <2>3. \/ w = none \/ w = halt
        \/ w = [take EXCEPT !.session.valid = TRUE]
        \/ w = [take EXCEPT !.session.error = TRUE] /\ ~ session.error
    <3>1. w = IF it.count = session.count THEN [take EXCEPT !.session.valid = TRUE]
              ELSE IF node.state # ErrorState THEN none
              ELSE IF session.valid \/ session.error THEN halt
              ELSE [take EXCEPT !.session.error = TRUE]
      <4>1. session.kind # "pending" /\ session.kind # "all"
        BY <1>8
      <4> QED BY <1>8, <1>c, <4>1 DEF Verdict
    <3> QED BY <3>1
  <2>4. CASE w = none \/ w = halt
    BY <1>b, <2>4
  <2>5. CASE w = [take EXCEPT !.session.valid = TRUE]
    <3>1. PICK next : next = [session EXCEPT !.valid = TRUE]
      OBVIOUS
    <3>2. w.pop = TRUE /\ w.session = next
      BY <1>2, <2>5, <3>1
    <3>3. next \in Session /\ next.error = session.error /\ next.valid = TRUE /\ next.kind = "count"
      BY <2>1, <3>1 DEF Session
    <3>4. /\ Bit(next.error) \in {0, 1} /\ Bit(next.error) = Bit(session.error)
          /\ Bit(session.valid) \in {0, 1} /\ Bit(next.valid) = 1
      BY <1>3, <1>4, <2>1, <3>3
    <3>5. n + 1 >= Bit(next.error) + Bit(next.valid) /\ n + 1 \in Nat
      BY <1>1, <2>2, <3>4
    <3>6. SessionOK(next, n + 1)
      BY <3>3, <3>5 DEF SessionOK
    <3>7. w.pop = TRUE /\ w.session = next
      BY <3>2
    <3>8. Bit(w.pop) = 1
      BY <1>4, <3>7
    <3> QED BY <1>8, <3>3, <3>6, <3>7, <3>8
  <2>6. CASE w = [take EXCEPT !.session.error = TRUE] /\ ~ session.error
    <3>1. PICK next : next = [session EXCEPT !.error = TRUE]
      OBVIOUS
    <3>2. w.pop = TRUE /\ w.session = next
      BY <1>2, <2>6, <3>1
    <3>3. next \in Session /\ next.valid = session.valid /\ next.error = TRUE /\ next.kind = "count"
      BY <2>1, <3>1 DEF Session
    <3>4. /\ Bit(next.error) = 1 /\ Bit(session.error) = 0
          /\ Bit(session.valid) \in {0, 1} /\ Bit(next.valid) = Bit(session.valid)
      BY <1>3, <1>4, <2>1, <2>6, <3>3
    <3>5. n + 1 >= Bit(next.error) + Bit(next.valid) /\ n + 1 \in Nat
      BY <1>1, <2>2, <3>4
    <3>6. SessionOK(next, n + 1)
      BY <3>3, <3>5 DEF SessionOK
    <3>7. w.pop = TRUE /\ w.session = next
      BY <3>2
    <3>8. Bit(w.pop) = 1
      BY <1>4, <3>7
    <3> QED BY <1>8, <3>3, <3>6, <3>7, <3>8
  <2> QED BY <2>3, <2>4, <2>5, <2>6
<1>9. session.kind \in {"pending", "all", "count"}
  BY <1>1 DEF Session
<1> QED BY <1>6, <1>7, <1>8, <1>9

(* The largest of a bounded set of numbers.                                *)
LEMMA MostIs ==
  ASSUME NEW L \in Nat, NEW T \in SUBSET (1 .. L), T # {}
  PROVE  Max(T) \in T
<1> DEFINE R == {L - x : x \in T}
<1>1. R \in SUBSET Nat /\ R # {}
  <2>1. \A x \in T : x \in Nat /\ L - x \in Nat
    OBVIOUS
  <2>2. PICK x : x \in T
    OBVIOUS
  <2>3. L - x \in R
    BY <2>2
  <2> QED BY <2>1, <2>3
<1>2. PICK r \in R : \A q \in R : r <= q
  BY <1>1, Least
<1>3. PICK x \in T : r = L - x
  OBVIOUS
<1>4. ASSUME NEW y \in T PROVE y <= x
  <2>1. L - x <= L - y
    BY <1>2, <1>3
  <2>2. x \in Nat /\ y \in Nat
    OBVIOUS
  <2> QED BY <2>1, <2>2
<1> QED BY <1>4 DEF Max

(* A graph with more references and nothing else changed.                  *)
Grown(ns, ms) ==
  /\ DOMAIN ms = DOMAIN ns
  /\ \A k \in DOMAIN ns : ms[k].links = ns[k].links /\ (ns[k].refs > 0 => ms[k].refs > 0)

(* Iterators stay where they are when a graph grows.                       *)
LEMMA IteratorsStay ==
  ASSUME NEW ns, NEW ms, Grown(ns, ms), NEW its, IteratorsOK(ns, its)
  PROVE  IteratorsOK(ms, its)
  BY DEF Grown, IteratorsOK, IteratorOK

(* A slice with a version of its own.                                      *)
LEMMA SliceAppended ==
  ASSUME NEW s, StackOK(s), NEW slices, NEW old \in Nat, old <= Len(s.heads), SlicesOK(s, slices, old),
         NEW h \in StackHead, NEW z, StackOK(z), z.heads = Append(s.heads, h),
         NEW slice \in Slice, slice.version = Len(s.heads) + 1, slice.node = h.node
  PROVE  SlicesOK(z, Append(slices, slice), old)
<1>1. s.heads \in Seq(StackHead) /\ Len(s.heads) \in Nat /\ DOMAIN s.heads = 1 .. Len(s.heads)
  BY StackParts
<1>2. PICK n \in Nat, hs \in Seq(StackHead) : n = Len(s.heads) /\ hs = z.heads
  <2>1. z.heads \in Seq(StackHead)
    BY StackParts
  <2> QED BY <1>1, <2>1
<1>3. DOMAIN hs = 1 .. n + 1 /\ hs[n + 1] = h /\ \A v \in 1 .. n : hs[v] = s.heads[v]
  <2>1. hs = Append(s.heads, h)
    BY <1>2
  <2>2. /\ Len(hs) = Len(s.heads) + 1 /\ \A v \in 1 .. Len(s.heads) : hs[v] = s.heads[v]
        /\ hs[Len(s.heads) + 1] = h
    BY <1>1, <2>1, AppendProperties
  <2> QED BY <1>2, <2>2
<1>4. slices \in Seq(Slice)
  BY DEF SlicesOK
<1>5. PICK m \in Nat, t \in Seq(Slice) : m = Len(slices) /\ t = Append(slices, slice)
  <2>1. Append(slices, slice) \in Seq(Slice) /\ Len(slices) \in Nat
    BY <1>4, AppendProperties
  <2> QED BY <2>1
<1>6. DOMAIN t = 1 .. m + 1 /\ t[m + 1] = slice /\ DOMAIN slices = 1 .. m /\ \A k \in 1 .. m : t[k] = slices[k]
  BY <1>4, <1>5, AppendProperties
<1>7. \A k \in 1 .. m : /\ slices[k].version \in 1 .. n /\ slices[k].version > old
                        /\ s.heads[slices[k].version].node = slices[k].node
  BY <1>1, <1>2, <1>6 DEF SlicesOK
<1>8. ASSUME NEW k \in 1 .. m + 1
      PROVE  t[k].version \in 1 .. n + 1 /\ t[k].version > old /\ hs[t[k].version].node = t[k].node
  <2>1. CASE k \in 1 .. m
    <3>1. PICK v : v = slices[k].version
      OBVIOUS
    <3>2. t[k] = slices[k] /\ v \in 1 .. n /\ v > old /\ s.heads[v].node = slices[k].node
      BY <1>6, <1>7, <2>1, <3>1
    <3>3. hs[v] = s.heads[v] /\ v \in 1 .. n + 1
      BY <1>2, <1>3, <3>2
    <3>4. t[k].version = v /\ t[k].node = slices[k].node
      BY <3>1, <3>2
    <3> QED BY <3>2, <3>3, <3>4
  <2>2. CASE k = m + 1
    <3>1. t[k].version = n + 1 /\ t[k].node = h.node
      BY <1>2, <1>6, <2>2
    <3>2. n + 1 > old
      BY <1>2
    <3> QED BY <1>3, <3>1, <3>2
  <2> QED BY <2>1, <2>2
<1>9. ASSUME NEW k \in 1 .. m + 1, NEW l \in 1 .. m + 1, k <= l PROVE t[k].version <= t[l].version
  <2>1. CASE l \in 1 .. m
    <3>1. k \in 1 .. m
      BY <1>9, <2>1
    <3>2. slices[k].version <= slices[l].version
      BY <1>6, <1>9, <2>1, <3>1 DEF SlicesOK
    <3> QED BY <1>6, <2>1, <3>1, <3>2
  <2>2. CASE l = m + 1
    <3>1. t[l].version = n + 1
      BY <1>2, <1>6, <2>2
    <3>2. t[k].version \in 1 .. n + 1
      BY <1>8
    <3> QED BY <3>1, <3>2
  <2> QED BY <2>1, <2>2
<1> QED BY <1>2, <1>3, <1>5, <1>6, <1>8, <1>9 DEF SlicesOK

(* A slice beside another one of the same node.                            *)
LEMMA SliceInserted ==
  ASSUME NEW s, NEW slices, NEW old, SlicesOK(s, slices, old), NEW m \in DOMAIN slices,
         NEW slice \in Slice, slice.version = slices[m].version, slice.node = s.heads[slices[m].version].node
  PROVE  SlicesOK(s, InsertAt(slices, m + 1, slice), old)
<1>1. slices \in Seq(Slice)
  BY DEF SlicesOK
<1>0. PICK t : t = InsertAt(slices, m + 1, slice)
  OBVIOUS
<1>2. PICK n \in Nat, p \in Nat : n = Len(slices) /\ p = m + 1 /\ t = InsertAt(slices, p, slice)
  BY <1>0, <1>1
<1>3. p \in 1 .. Len(slices) + 1 /\ m \in 1 .. n /\ DOMAIN slices = 1 .. n
  BY <1>1, <1>2
<1>4. /\ t \in Seq(Slice) /\ Len(t) = n + 1
      /\ t[p] = slice /\ \A k \in DOMAIN t : (k < p => t[k] = slices[k]) /\ (k > p => t[k] = slices[k - 1])
  <2>1. p \in 1 .. Len(slices) + 1 /\ t = InsertAt(slices, p, slice)
    BY <1>2, <1>3
  <2>2. /\ t \in Seq(Slice) /\ Len(t) = Len(slices) + 1
        /\ t[p] = slice /\ \A k \in DOMAIN t : (k < p => t[k] = slices[k]) /\ (k > p => t[k] = slices[k - 1])
    BY <1>1, <2>1, InsertAtIs
  <2> QED BY <1>2, <2>2
<1>5. DOMAIN t = 1 .. n + 1
  BY <1>4
<1> DEFINE From(k) == IF k < p THEN k ELSE k - 1
<1>6. \A k \in 1 .. n + 1 : From(k) \in 1 .. n
  BY <1>2, <1>3
<1>7. \A k, l \in 1 .. n + 1 : k <= l => From(k) <= From(l)
  BY <1>2, <1>3
<1>8. ASSUME NEW k \in 1 .. n + 1
      PROVE  t[k].version = slices[From(k)].version /\ t[k].node = s.heads[slices[From(k)].version].node
  <2>1. \A j \in 1 .. n : s.heads[slices[j].version].node = slices[j].node
    BY <1>3 DEF SlicesOK
  <2>2. PICK j \in 1 .. n : j = From(k)
    BY <1>6
  <2>3. CASE k < p
    <3>1. j = k /\ t[k] = slices[k]
      BY <1>4, <1>5, <2>2, <2>3
    <3>2. t[k] = slices[j]
      BY <3>1
    <3> QED BY <2>1, <2>2, <3>2, Zenon
  <2>4. CASE k > p
    <3>1. j = k - 1 /\ t[k] = slices[k - 1]
      BY <1>2, <1>4, <1>5, <2>2, <2>4
    <3>2. t[k] = slices[j]
      BY <3>1
    <3> QED BY <2>1, <2>2, <3>2, Zenon
  <2>5. CASE k = p
    <3>1. From(k) = m
      BY <1>2, <1>3, <2>5
    <3> QED BY <1>4, <2>5, <3>1
  <2> QED BY <1>2, <2>3, <2>4, <2>5
<1> HIDE DEF From
<1>9. ASSUME NEW k \in 1 .. n + 1
      PROVE  t[k].version \in DOMAIN s.heads /\ t[k].version > old /\ s.heads[t[k].version].node = t[k].node
  <2>1. PICK j \in 1 .. n : j = From(k)
    BY <1>6
  <2>2. slices[j].version \in DOMAIN s.heads /\ slices[j].version > old
    BY <1>3 DEF SlicesOK
  <2> QED BY <1>8, <2>1, <2>2
<1>10. ASSUME NEW k \in 1 .. n + 1, NEW l \in 1 .. n + 1, k <= l PROVE t[k].version <= t[l].version
  <2>1. PICK i \in 1 .. n, j \in 1 .. n : i = From(k) /\ j = From(l) /\ i <= j
    BY <1>6, <1>7, <1>10
  <2>2. slices[i].version <= slices[j].version
    BY <1>3, <2>1 DEF SlicesOK
  <2> QED BY <1>8, <2>1, <2>2
<1> QED BY <1>2, <1>4, <1>5, <1>9, <1>10 DEF SlicesOK

(* What the iterator of one link more is.                                  *)
LEMMA DownOK ==
  ASSUME NEW ns, NEW hs, Sound(ns, hs, << >>), NEW it \in Iterator, IteratorOK(ns, it),
         NEW i \in DOMAIN ns[it.node].links, NEW next, next = Down(it, ns[it.node].links[i])
  PROVE  next \in Iterator /\ IteratorOK(ns, next)
<1>1. ns \in Seq(StackNode) /\ it.node \in DOMAIN ns /\ ns[it.node].links \in Seq(Link) /\ NodeOK(ns, it.node)
  BY NodeType DEF Sound, GraphOK, IteratorOK
<1>2. PICK link \in Link : link = ns[it.node].links[i]
  BY <1>1
<1>3. link.node \in DOMAIN ns /\ ns[link.node].refs > 0
  BY <1>1, <1>2, Counted DEF NodeOK, Follows
<1>4. link.node \in Nat \ {0} /\ link.tree \in Trees \cup {NoTree} /\ link.pending \in BOOLEAN /\ link.pushes \in Nat
  BY LinkType
<1>5. it.trees \in Seq(Trees) /\ it.count \in Nat /\ it.pending \in BOOLEAN /\ it.pushes \in Nat
  BY DEF Iterator
<1>6. PICK trees \in Seq(Trees) : trees = IF link.tree = NoTree THEN it.trees ELSE <<link.tree>> \o it.trees
  <2>1. CASE link.tree = NoTree
    BY <1>5, <2>1
  <2>2. CASE link.tree # NoTree
    <3>1. <<link.tree>> \in Seq(Trees)
      BY <1>4, <2>2
    <3>2. <<link.tree>> \o it.trees \in Seq(Trees)
      BY <1>5, <3>1, ConcatProperties
    <3> QED BY <2>2, <3>2
  <2> QED BY <2>1, <2>2
<1> DEFINE counts == link.tree # NoTree /\ ~ link.tree.extra
<1>7. PICK count \in Nat : count = it.count + IF counts THEN 1 ELSE 0
  BY <1>5
<1>8. PICK pending \in BOOLEAN :
        pending = IF link.tree = NoTree \/ (counts /\ ~ link.pending) THEN FALSE ELSE it.pending
  BY <1>5
<1>9. PICK pushes \in Nat : pushes = it.pushes + link.pushes
  BY <1>4, <1>5
<1>10. next = [node |-> link.node, trees |-> trees, count |-> count, pending |-> pending, pushes |-> pushes]
  BY <1>2, <1>6, <1>7, <1>8, <1>9 DEF Down
<1>11. next \in Iterator /\ next.node = link.node
  <2> DEFINE T == Seq(Trees)
  <2>1. trees \in T
    OBVIOUS
  <2> HIDE DEF T
  <2>2. next \in [node : Nat \ {0}, trees : T, count : Nat, pending : BOOLEAN, pushes : Nat] /\ next.node = link.node
    BY <1>4, <1>10, <2>1
  <2> QED BY <2>2 DEF Iterator, T
<1> QED BY <1>3, <1>11 DEF IteratorOK

(* What a slice that is added preserves of a walk.                         *)
SlicedOK(st, old) ==
  /\ st \in Walk /\ StackOK(st.stack)
  /\ old \in Nat /\ old <= Len(st.stack.heads) /\ SlicesOK(st.stack, st.slices, old)

(* The parts of a walk have their types.                                   *)
WalkParts(st) ==
  /\ st.stack \in StackType /\ st.slices \in SliceList /\ st.session \in Session /\ st.pushes \in Nat
  /\ st.its \in IteratorList /\ st.i \in Nat \ {0}

(* They do, whichever walk it is.                                          *)
LEMMA PartsOf ==
  ASSUME NEW st \in Walk
  PROVE  WalkParts(st)
  BY DEF Walk, WalkParts

(* A stack in order has the type of one.                                   *)
LEMMA StackIn ==
  ASSUME NEW s, StackOK(s)
  PROVE  s \in StackType
<1>1. s.nodes \in Seq(StackNode) /\ s.heads \in Seq(StackHead)
  BY StackParts
<1>2. s = [nodes |-> s.nodes, heads |-> s.heads]
  BY DEF StackOK
<1> QED BY <1>1, <1>2 DEF StackType

(* ts_stack__add_slice                                                     *)
LEMMA AddSliceOK ==
  ASSUME NEW st, NEW old, SlicedOK(st, old), NEW it \in Iterator, IteratorOK(st.stack.nodes, it),
         NEW next, next = AddSlice(st, it)
  PROVE  /\ SlicedOK(next, old) /\ Len(next.slices) = Len(st.slices) + 1
         /\ Grown(st.stack.nodes, next.stack.nodes)
         /\ next.session = st.session /\ next.its = st.its /\ next.i = st.i
<1>1. PICK s, ns, hs, slices : s = st.stack /\ ns = s.nodes /\ hs = s.heads /\ slices = st.slices
  OBVIOUS
<1>2. /\ st \in Walk /\ StackOK(s) /\ old \in Nat /\ old <= Len(hs) /\ SlicesOK(s, slices, old)
  BY <1>1 DEF SlicedOK
<1>3. /\ Sound(ns, hs, << >>) /\ hs \in Seq(StackHead) /\ Len(hs) \in Nat /\ ns \in Seq(StackNode)
  BY <1>1, <1>2, StackParts
<1>4. slices \in Seq(Slice) /\ st.pushes \in Nat /\ st.session \in Session
  BY <1>2, PartsOf DEF SlicesOK, WalkParts
<1>5. PICK same : same = {k \in DOMAIN slices : hs[slices[k].version].node = it.node}
  OBVIOUS
<1>6. it.node \in Nat \ {0} /\ it.trees \in Seq(Trees) /\ it.pushes \in Nat /\ it.node \in DOMAIN ns /\ ns[it.node].refs > 0
  BY <1>1 DEF Iterator, IteratorOK
<1>7. PICK version : version = IF same = {} THEN Len(hs) + 1 ELSE slices[Max(same)].version
  OBVIOUS
<1>8. PICK slice : slice = [version |-> version, node |-> it.node, trees |-> it.trees]
  OBVIOUS
<1>9. PICK h \in StackHead :
        /\ h = [node |-> it.node, pushes |-> (st.pushes + it.pushes) % Word, halted |-> FALSE]
        /\ h.node = it.node
  <2>1. (st.pushes + it.pushes) % Word \in Nat
    BY <1>4, <1>6, ParseStackAssumption
  <2>2. PICK p \in Nat : p = (st.pushes + it.pushes) % Word
    BY <2>1
  <2>3. [node |-> it.node, pushes |-> p, halted |-> FALSE] \in StackHead
    BY <1>6 DEF StackHead
  <2> QED BY <2>2, <2>3
<1>10. next = IF same # {}
                THEN [st EXCEPT !.slices = InsertAt(@, Max(same) + 1, slice)]
                ELSE [st EXCEPT !.slices = Append(@, slice),
                                !.stack = [nodes |-> Retain(@.nodes, it.node), heads |-> Append(@.heads, h)]]
  BY <1>1, <1>5, <1>7, <1>8, <1>9 DEF AddSlice
<1>11. ASSUME version \in Nat \ {0} PROVE slice \in Slice /\ slice.version = version /\ slice.node = it.node
  BY <1>6, <1>8, <1>11 DEF Slice
<1>12. CASE same # {}
  <2>1. PICK m \in same : m = Max(same)
    <3>1. Len(slices) \in Nat /\ same \in SUBSET (1 .. Len(slices))
      BY <1>4, <1>5
    <3>2. Max(same) \in same
      BY <1>12, <3>1, MostIs
    <3> QED BY <3>2
  <2>2. m \in DOMAIN slices /\ hs[slices[m].version].node = it.node /\ version = slices[m].version
    BY <1>5, <1>7, <1>12, <2>1
  <2>3. version \in Nat \ {0}
    <3>1. slices[m] \in Slice
      BY <1>4, <2>2
    <3> QED BY <2>2, <3>1 DEF Slice
  <2>4. slice \in Slice /\ slice.version = slices[m].version /\ slice.node = s.heads[slices[m].version].node
    BY <1>1, <1>11, <2>2, <2>3
  <2>5. PICK t : t = InsertAt(slices, m + 1, slice)
    OBVIOUS
  <2>6. SlicesOK(s, t, old)
    BY <1>2, <2>2, <2>4, <2>5, SliceInserted
  <2>7. Len(t) = Len(slices) + 1
    <3>1. m + 1 \in 1 .. Len(slices) + 1
      BY <1>4, <2>2
    <3> QED BY <1>4, <2>4, <2>5, <3>1, InsertAtIs
  <2>8. t \in SliceList
    BY <2>6 DEF SlicesOK, SliceList
  <2>9. next = [st EXCEPT !.slices = t]
    BY <1>1, <1>10, <1>12, <2>1, <2>5
  <2>10. /\ next \in Walk /\ next.stack = st.stack /\ next.slices = t /\ next.session = st.session
         /\ next.its = st.its /\ next.i = st.i
    BY <1>2, <2>8, <2>9 DEF Walk
  <2>11. Grown(ns, ns)
    BY DEF Grown
  <2> QED BY <1>1, <1>2, <2>6, <2>7, <2>10, <2>11 DEF SlicedOK
<1>13. CASE same = {}
  <2>1. version = Len(hs) + 1 /\ version \in Nat \ {0}
    BY <1>3, <1>7, <1>13
  <2>2. slice \in Slice /\ slice.version = Len(s.heads) + 1 /\ slice.node = h.node
    BY <1>1, <1>9, <1>11, <2>1
  <2>3. PICK ms, z : ms = Retain(ns, it.node) /\ z = [nodes |-> ms, heads |-> Append(hs, h)]
    OBVIOUS
  <2>4. StackOK(z) /\ z.heads = Append(s.heads, h) /\ z.nodes = ms
    <3>1. Sound(ms, Append(hs, h), << >>)
      BY <1>3, <1>6, <1>9, <2>3, HeadAdded
    <3> QED BY <1>1, <2>3, <3>1 DEF StackOK
  <2>5. PICK t : t = Append(slices, slice)
    OBVIOUS
  <2>6. SlicesOK(z, t, old)
    <3>1. old <= Len(s.heads)
      BY <1>1, <1>2
    <3> QED BY <1>2, <2>2, <2>4, <2>5, <3>1, SliceAppended
  <2>7. Len(t) = Len(slices) + 1
    BY <1>4, <2>2, <2>5, AppendProperties
  <2>8. t \in SliceList /\ z \in StackType
    BY <2>4, <2>6, StackIn DEF SlicesOK, SliceList
  <2>9. next = [st EXCEPT !.slices = t, !.stack = z]
    BY <1>1, <1>10, <1>13, <2>3, <2>5
  <2>10. /\ next \in Walk /\ next.stack = z /\ next.slices = t /\ next.session = st.session
         /\ next.its = st.its /\ next.i = st.i
    BY <1>2, <2>8, <2>9 DEF Walk
  <2>11. Grown(ns, ms)
    <3>1. GraphOK(ns)
      BY <1>3 DEF Sound
    <3>2. /\ DOMAIN ms = DOMAIN ns /\ ms[it.node].refs = ns[it.node].refs + 1
          /\ \A k \in DOMAIN ns : k # it.node => ms[k].refs = ns[k].refs
          /\ \A k \in DOMAIN ns : ms[k].links = ns[k].links
      BY <1>6, <2>3, <3>1, RetainGraph
    <3>3. ASSUME NEW k \in DOMAIN ns, ns[k].refs > 0 PROVE ms[k].refs > 0
      <4>1. ns[k].refs \in Nat
        BY <1>3, NodeType
      <4> QED BY <3>2, <3>3, <4>1
    <3> QED BY <3>2, <3>3 DEF Grown
  <2>12. old <= Len(z.heads)
    <3>1. Len(z.heads) = Len(hs) + 1
      BY <1>1, <1>3, <1>9, <2>4, AppendProperties
    <3> QED BY <1>2, <1>3, <3>1
  <2> QED BY <1>1, <1>2, <2>4, <2>6, <2>7, <2>10, <2>11, <2>12 DEF SlicedOK
<1> QED BY <1>12, <1>13

(* The copies of an iterator are at nodes in use, too.                     *)
LEMMA ForkedOK ==
  ASSUME NEW ns, NEW hs, Sound(ns, hs, << >>), NEW it \in Iterator, IteratorOK(ns, it),
         NEW room \in Nat, room <= Len(ns[it.node].links) - 1, NEW f, f = Forked(it, ns[it.node].links, room)
  PROVE  IteratorsOK(ns, f) /\ Len(f) = room
<1>1. ns[it.node].links \in Seq(Link)
  BY NodeType DEF Sound, GraphOK, IteratorOK
<1>2. f = [k \in 1 .. room |-> Down(it, ns[it.node].links[k + 1])]
  BY DEF Forked
<1>3. ASSUME NEW k \in 1 .. room PROVE f[k] \in Iterator /\ IteratorOK(ns, f[k])
  <2>1. k + 1 \in DOMAIN ns[it.node].links
    BY <1>1
  <2>2. f[k] = Down(it, ns[it.node].links[k + 1])
    BY <1>2
  <2> QED BY <2>1, <2>2, DownOK
<1>4. f \in Seq(Iterator) /\ DOMAIN f = 1 .. room /\ Len(f) = room
  <2> HIDE DEF Iterator
  <2> QED BY <1>2, <1>3
<1> QED BY <1>3, <1>4 DEF IteratorsOK

(* Two lists of iterators, one after the other.                            *)
LEMMA IteratorsConcat ==
  ASSUME NEW ns, NEW a, NEW b, IteratorsOK(ns, a), IteratorsOK(ns, b)
  PROVE  IteratorsOK(ns, a \o b) /\ Len(a \o b) = Len(a) + Len(b)
<1>1. a \in Seq(Iterator) /\ b \in Seq(Iterator)
  BY DEF IteratorsOK
<1>2. a \o b \in Seq(Iterator) /\ Len(a \o b) = Len(a) + Len(b)
  BY <1>1, ConcatProperties
<1>3. ASSUME NEW i \in DOMAIN (a \o b) PROVE IteratorOK(ns, (a \o b)[i])
  <2>1. \/ i \in DOMAIN a /\ (a \o b)[i] = a[i]
        \/ i - Len(a) \in DOMAIN b /\ (a \o b)[i] = b[i - Len(a)]
    <3> HIDE DEF Iterator
    <3> QED BY <1>1
  <2> QED BY <2>1 DEF IteratorsOK
<1> QED BY <1>2, <1>3 DEF IteratorsOK

(* All iterators but one.                                                  *)
LEMMA IteratorsWithout ==
  ASSUME NEW ns, NEW its, IteratorsOK(ns, its), NEW i \in DOMAIN its
  PROVE  IteratorsOK(ns, RemoveAt(its, i)) /\ Len(RemoveAt(its, i)) = Len(its) - 1
<1>1. its \in Seq(Iterator)
  BY DEF IteratorsOK
<1>2. PICK t : t = RemoveAt(its, i)
  OBVIOUS
<1>3. /\ t \in Seq(Iterator) /\ Len(t) = Len(its) - 1
      /\ \A k \in 1 .. Len(its) - 1 : t[k] = IF k < i THEN its[k] ELSE its[k + 1]
  BY <1>1, <1>2, PointsRemoveAt
<1>4. ASSUME NEW k \in DOMAIN t PROVE IteratorOK(ns, t[k])
  <2>1. k \in 1 .. Len(its) - 1
    BY <1>3
  <2>2. k \in DOMAIN its /\ k + 1 \in DOMAIN its
    BY <1>1, <2>1
  <2>3. t[k] = its[k] \/ t[k] = its[k + 1]
    BY <1>3, <2>1
  <2> QED BY <2>2, <2>3 DEF IteratorsOK
<1> QED BY <1>2, <1>3, <1>4 DEF IteratorsOK

(* One iterator moved on.                                                  *)
With(its, i, it) == [its EXCEPT ![i] = it]

(* It is at a node in use, and so are the others.                          *)
LEMMA IteratorsExcept ==
  ASSUME NEW ns, NEW its, IteratorsOK(ns, its), NEW i \in DOMAIN its, NEW it \in Iterator, IteratorOK(ns, it),
         NEW t, t = With(its, i, it)
  PROVE  IteratorsOK(ns, t) /\ Len(t) = Len(its)
<1>1. its \in Seq(Iterator)
  BY DEF IteratorsOK
<1>3. t \in Seq(Iterator) /\ Len(t) = Len(its) /\ DOMAIN t = DOMAIN its
      /\ t[i] = it /\ \A k \in DOMAIN its : k # i => t[k] = its[k]
  <2> HIDE DEF Iterator
  <2> QED BY <1>1 DEF With
<1> QED BY <1>3 DEF IteratorsOK

(* Room for copies: not more than there are links but the first.           *)
LEMMA RoomIs ==
  ASSUME NEW a \in Nat, NEW b \in Int, NEW room, room = Max({0, Min({a, b})})
  PROVE  room \in Nat /\ room <= a
<1>1. PICK m \in {a, b} : m = Min({a, b}) /\ m <= a
  <2>1. \E x \in {a, b} : \A y \in {a, b} : x <= y
    OBVIOUS
  <2> QED BY <2>1 DEF Min
<1>2. m \in Int
  OBVIOUS
<1>3. \E x \in {0, m} : \A y \in {0, m} : y <= x
  BY <1>2
<1>4. room \in {0, m} /\ 0 <= room
  BY <1>1, <1>3 DEF Max
<1> QED BY <1>1, <1>2, <1>4

(* An iterator that goes or is done is one turn less.                      *)
Turns(st, next) == next.i + Len(st.its) <= st.i + 1 + Len(next.its)

(* stack__iter: the step of one iterator.                                  *)
LEMMA StepIteratorOK ==
  ASSUME NEW st, NEW old, NEW kind, WalkOK(st, old, kind), st.i <= Len(st.its), NEW next, next = StepIterator(st)
  PROVE  WalkOK(next, old, kind) /\ Turns(st, next)
<1>1. PICK ns, its, i, it : ns = st.stack.nodes /\ its = st.its /\ i = st.i /\ it = its[i]
  OBVIOUS
<1>2. /\ st \in Walk /\ StackOK(st.stack) /\ old \in Nat /\ old <= Len(st.stack.heads)
      /\ SlicesOK(st.stack, st.slices, old) /\ SessionOK(st.session, Len(st.slices)) /\ IteratorsOK(ns, its)
      /\ st.session.kind = kind
  BY <1>1 DEF WalkOK
<1>3. its \in Seq(Iterator) /\ i \in DOMAIN its /\ i \in Nat \ {0} /\ Len(its) \in Nat
  <2>1. its \in Seq(Iterator) /\ i \in Nat \ {0}
    BY <1>1, <1>2, PartsOf DEF WalkParts, IteratorsOK
  <2>2. Len(its) \in Nat /\ i <= Len(its)
    BY <1>1, <2>1
  <2>3. DOMAIN its = 1 .. Len(its)
    BY <2>1
  <2> QED BY <2>1, <2>2, <2>3
<1>4. it \in Iterator /\ IteratorOK(ns, it)
  BY <1>1, <1>2, <1>3 DEF IteratorsOK
<1>5. PICK w : w = Verdict(st.session, ns[it.node], it)
  OBVIOUS
<1>6. w.pop \in BOOLEAN /\ SessionOK(w.session, Len(st.slices) + Bit(w.pop)) /\ w.session.kind = kind
  BY <1>2, <1>5, VerdictOK
<1>7. PICK seen : seen = [st EXCEPT !.session = w.session]
  OBVIOUS
<1>8. /\ seen \in Walk /\ seen.stack = st.stack /\ seen.slices = st.slices /\ seen.session = w.session
      /\ seen.its = its /\ seen.i = i
  <2>1. w.session \in Session
    BY <1>6 DEF SessionOK
  <2> QED BY <1>1, <1>2, <1>7, <2>1 DEF Walk
<1>9. SlicedOK(seen, old)
  BY <1>2, <1>8 DEF SlicedOK
<1>10. PICK after : after = IF w.pop THEN AddSlice(seen, it) ELSE seen
  OBVIOUS
<1>11. /\ SlicedOK(after, old) /\ SessionOK(after.session, Len(after.slices))
       /\ Grown(ns, after.stack.nodes) /\ after.its = its /\ after.i = i /\ after.session.kind = kind
  <2>1. CASE w.pop = TRUE
    <3>1. after = AddSlice(seen, it) /\ Bit(w.pop) = 1
      BY <1>10, <2>1 DEF Bit
    <3>2. IteratorOK(seen.stack.nodes, it)
      BY <1>1, <1>4, <1>8
    <3>3. /\ SlicedOK(after, old) /\ Len(after.slices) = Len(seen.slices) + 1
          /\ Grown(seen.stack.nodes, after.stack.nodes)
          /\ after.session = seen.session /\ after.its = seen.its /\ after.i = seen.i
      BY <1>4, <1>9, <3>1, <3>2, AddSliceOK
    <3>4. SessionOK(after.session, Len(after.slices))
      BY <1>6, <1>8, <3>1, <3>3
    <3> QED BY <1>1, <1>6, <1>8, <3>3, <3>4
  <2>2. CASE w.pop = FALSE
    <3>1. after = seen /\ Bit(w.pop) = 0
      BY <1>10, <2>2 DEF Bit
    <3>2. Len(st.slices) + 0 = Len(st.slices)
      <4>1. Len(st.slices) \in Nat
        BY <1>2 DEF SessionOK
      <4> QED BY <4>1
    <3>3. SessionOK(after.session, Len(after.slices))
      BY <1>6, <1>8, <3>1, <3>2
    <3>4. Grown(ns, ns)
      BY DEF Grown
    <3> QED BY <1>1, <1>6, <1>8, <1>9, <3>1, <3>3, <3>4
  <2> QED BY <1>6, <2>1, <2>2
<1>12. PICK ms : ms = after.stack.nodes
  OBVIOUS
<1>13. IteratorsOK(ms, its) /\ IteratorOK(ms, it) /\ ms[it.node].links = ns[it.node].links
  <2>1. IteratorsOK(ms, its)
    BY <1>2, <1>11, <1>12, IteratorsStay
  <2>2. ms[it.node].links = ns[it.node].links
    BY <1>4, <1>11, <1>12 DEF Grown, IteratorOK
  <2> QED BY <1>1, <1>3, <2>1, <2>2 DEF IteratorsOK
<1>14. Sound(ms, after.stack.heads, << >>)
  BY <1>11, <1>12, StackParts DEF SlicedOK
<1>15. PICK links : links = ms[it.node].links
  OBVIOUS
<1>16. links \in Seq(Link)
  BY <1>13, <1>14, <1>15, NodeType DEF Sound, GraphOK, IteratorOK
<1>17. PICK room : room = Max({0, Min({Len(links) - 1, MaxIterators - Len(its)})})
  OBVIOUS
<1>18. next = IF w.stop \/ links = << >>
                THEN [after EXCEPT !.its = RemoveAt(@, i)]
                ELSE [after EXCEPT !.its = [@ EXCEPT ![i] = Down(it, links[1])] \o Forked(it, links, room), !.i = @ + 1]
  BY <1>1, <1>5, <1>7, <1>10, <1>13, <1>15, <1>17, ZenonT(60) DEF StepIterator
<1>19. CASE w.stop \/ links = << >>
  <2>1. PICK left : left = RemoveAt(its, i)
    OBVIOUS
  <2>2. IteratorsOK(ms, left) /\ Len(left) = Len(its) - 1
    BY <1>3, <1>13, <2>1, IteratorsWithout
  <2>3. next = [after EXCEPT !.its = left]
    BY <1>11, <1>18, <1>19, <2>1
  <2>4. /\ next \in Walk /\ next.stack = after.stack /\ next.slices = after.slices
        /\ next.session = after.session /\ next.its = left /\ next.i = i
    <3>1. left \in IteratorList /\ after \in Walk
      BY <1>11, <2>2 DEF IteratorsOK, IteratorList, SlicedOK
    <3> QED BY <1>11, <2>3, <3>1 DEF Walk
  <2>5. Turns(st, next)
    <3>1. i + Len(its) <= i + 1 + (Len(its) - 1)
      BY <1>3
    <3> QED BY <1>1, <2>2, <2>4, <3>1 DEF Turns
  <2> QED BY <1>11, <1>12, <2>2, <2>4, <2>5 DEF WalkOK, SlicedOK
<1>20. CASE ~ (w.stop \/ links = << >>)
  <2>1. Len(links) \in Nat \ {0} /\ 1 \in DOMAIN links
    BY <1>16, <1>20
  <2>2. room \in Nat /\ room <= Len(links) - 1
    <3>1. Len(links) - 1 \in Nat /\ MaxIterators - Len(its) \in Int
      BY <1>3, <2>1, ParseStackAssumption
    <3> QED BY <1>17, <3>1, RoomIs
  <2>3. PICK one : one = Down(it, links[1])
    OBVIOUS
  <2>4. one \in Iterator /\ IteratorOK(ms, one)
    <3>1. one = Down(it, ms[it.node].links[1]) /\ 1 \in DOMAIN ms[it.node].links
      BY <1>15, <2>1, <2>3
    <3> QED BY <1>4, <1>13, <1>14, <3>1, DownOK
  <2>5. PICK f : f = Forked(it, links, room)
    OBVIOUS
  <2>6. IteratorsOK(ms, f) /\ Len(f) = room
    <3>1. f = Forked(it, ms[it.node].links, room) /\ room <= Len(ms[it.node].links) - 1
      BY <1>15, <2>2, <2>5
    <3> QED BY <1>4, <1>13, <1>14, <2>2, <3>1, ForkedOK
  <2>7. PICK moved : moved = With(its, i, one)
    OBVIOUS
  <2>8. IteratorsOK(ms, moved) /\ Len(moved) = Len(its)
    BY <1>3, <1>13, <2>4, <2>7, IteratorsExcept
  <2>9. PICK all : all = moved \o f
    OBVIOUS
  <2>10. IteratorsOK(ms, all) /\ Len(all) = Len(its) + room
    <3>1. IteratorsOK(ms, moved \o f) /\ Len(moved \o f) = Len(moved) + Len(f)
      BY <2>6, <2>8, IteratorsConcat
    <3> QED BY <2>6, <2>8, <2>9, <3>1
  <2>11. next = [after EXCEPT !.its = all, !.i = i + 1]
    <3>1. next = [after EXCEPT !.its = [@ EXCEPT ![i] = one] \o f, !.i = @ + 1]
      BY <1>18, <1>20, <2>3, <2>5
    <3> QED BY <1>11, <2>7, <2>9, <3>1 DEF With
  <2>12. /\ next \in Walk /\ next.stack = after.stack /\ next.slices = after.slices
         /\ next.session = after.session /\ next.its = all /\ next.i = i + 1
    <3>1. all \in IteratorList /\ after \in Walk /\ i + 1 \in Nat \ {0}
      BY <1>3, <1>11, <2>10 DEF IteratorsOK, IteratorList, SlicedOK
    <3> QED BY <2>11, <3>1 DEF Walk
  <2>13. Turns(st, next)
    <3>1. (i + 1) + Len(its) <= i + 1 + (Len(its) + room)
      BY <1>3, <2>2
    <3> QED BY <1>1, <2>10, <2>12, <3>1 DEF Turns
  <2> QED BY <1>11, <1>12, <2>10, <2>12, <2>13 DEF WalkOK, SlicedOK
<1> QED BY <1>19, <1>20

(* stack__iter: a round.  There are never more turns left than iterators.  *)
LEMMA RoundOK ==
  ASSUME NEW st, NEW old, NEW kind, WalkOK(st, old, kind)
  PROVE  WalkOK(Round(st), old, kind)
<1>1. PICK n \in Nat : n = Len(st.its)
  <2>1. st.its \in Seq(Iterator)
    BY DEF WalkOK, IteratorsOK
  <2> QED BY <2>1
<1> DEFINE Z(k) == {x \in Walk : WalkOK(x, old, kind) /\ x.i + (n - k) <= Len(x.its) + 1}
           S == [k \in Nat |-> Z(k)]
<1>2. PICK first : first = [st EXCEPT !.i = 1]
  OBVIOUS
<1>3. first \in Z(0)
  <2>1. /\ first \in Walk /\ first.stack = st.stack /\ first.slices = st.slices
        /\ first.session = st.session /\ first.its = st.its /\ first.i = 1
    BY <1>2 DEF Walk, WalkOK
  <2>2. WalkOK(first, old, kind)
    BY <2>1 DEF WalkOK
  <2>3. 1 + (n - 0) <= n + 1
    OBVIOUS
  <2> QED BY <1>1, <2>1, <2>2, <2>3
<1>4. ASSUME NEW k \in 0 .. n - 1, NEW x \in Z(k) PROVE StepIterator(x) \in Z(k + 1)
  <2>1. PICK next : next = StepIterator(x)
    OBVIOUS
  <2>2. WalkOK(x, old, kind) /\ x.i + (n - k) <= Len(x.its) + 1
    OBVIOUS
  <2>3. x.i \in Nat /\ Len(x.its) \in Nat
    <3>1. x.its \in Seq(Iterator) /\ x.i \in Nat
      BY <2>2, PartsOf DEF WalkOK, IteratorsOK, WalkParts
    <3> QED BY <3>1
  <2>4. x.i <= Len(x.its)
    BY <2>2, <2>3
  <2>5. WalkOK(next, old, kind) /\ Turns(x, next)
    BY <2>1, <2>2, <2>4, StepIteratorOK
  <2>6. next \in Walk /\ next.i \in Nat /\ Len(next.its) \in Nat
    <3>1. next \in Walk /\ next.its \in Seq(Iterator) /\ next.i \in Nat
      BY <2>5, PartsOf DEF WalkOK, IteratorsOK, WalkParts
    <3> QED BY <3>1
  <2>7. PICK a \in Nat, b \in Nat, c \in Nat, d \in Nat :
          a = x.i /\ b = Len(x.its) /\ c = next.i /\ d = Len(next.its)
    BY <2>3, <2>6
  <2>8. c + b <= a + 1 + d /\ a + (n - k) <= b + 1
    BY <2>2, <2>5, <2>7 DEF Turns
  <2>9. c + (n - (k + 1)) <= d + 1
    BY <2>8
  <2> QED BY <2>1, <2>5, <2>6, <2>7, <2>9
<1>5. S \in [Nat -> SUBSET Walk] /\ first \in S[0]
  BY <1>3
<1>6. \A k \in 0 .. n - 1 : \A x \in S[k] : StepIterator(x) \in S[k + 1]
  BY <1>4
<1>7. Repeat(StepIterator, first, n) \in S[n]
  <2> HIDE DEF S
  <2> QED BY <1>5, <1>6, RepeatIterator
<1>8. Round(st) = Repeat(StepIterator, first, n)
  BY <1>1, <1>2 DEF Round
<1>9. Round(st) \in Z(n)
  BY <1>7, <1>8
<1> QED BY <1>9

(* What a pop gives.                                                       *)
Pop == [stack : StackType, slices : SliceList, session : Session]

(* A stack in order, the slices, and what the session remembers.           *)
PopOK(pop, old, kind) ==
  /\ pop \in Pop /\ StackOK(pop.stack) /\ SlicesOK(pop.stack, pop.slices, old)
  /\ SessionOK(pop.session, Len(pop.slices)) /\ pop.session.kind = kind

(* A walk begins with one iterator at the node of the head.                *)
StartAt(node) == [node |-> node, trees |-> << >>, count |-> 0, pending |-> TRUE, pushes |-> 0]

(* It is one.                                                              *)
LEMMA FirstIterator ==
  ASSUME NEW node \in Nat \ {0}, NEW it, it = StartAt(node)
  PROVE  it \in Iterator /\ it.node = node
<1>1. << >> \in Seq(Trees)
  OBVIOUS
<1> DEFINE T == Seq(Trees)
<1>2. << >> \in T
  BY <1>1
<1> HIDE DEF T
<1>3. it \in [node : Nat \ {0}, trees : T, count : Nat, pending : BOOLEAN, pushes : Nat] /\ it.node = node
  BY <1>2 DEF StartAt
<1> QED BY <1>3 DEF Iterator, T

(* stack__iter                                                             *)
LEMMA IterateOK ==
  ASSUME NEW s, StackOK(s), NEW v \in DOMAIN s.heads, NEW session, SessionOK(session, 0)
  PROVE  PopOK(Iterate(s, v, session), Len(s.heads), session.kind)
<1>1. PICK old \in Nat : old = Len(s.heads)
  BY StackParts
<1>a. PICK kind : kind = session.kind
  OBVIOUS
<1>2. PICK head : head = s.heads[v]
  OBVIOUS
<1>3. /\ head.node \in Nat \ {0} /\ head.pushes \in Nat
      /\ head.node \in DOMAIN s.nodes /\ s.nodes[head.node].refs > 0
  BY <1>2, StackParts, HeadsArePointers
<1>4. PICK it : it = StartAt(head.node)
  OBVIOUS
<1>5. it \in Iterator /\ it.node = head.node
  BY <1>3, <1>4, FirstIterator
<1>6. PICK its : its = <<it>> /\ its \in Seq(Iterator) /\ \A k \in DOMAIN its : its[k].node = head.node
  <2>1. PICK one \in Iterator : one = it
    BY <1>5
  <2>2. <<one>> \in Seq(Iterator) /\ \A k \in DOMAIN <<one>> : <<one>>[k] = one
    OBVIOUS
  <2> QED BY <1>5, <2>1, <2>2
<1>7. IteratorsOK(s.nodes, its) /\ its \in IteratorList
  BY <1>3, <1>6 DEF IteratorsOK, IteratorOK, IteratorList
<1>8. PICK none : none = << >> /\ none \in SliceList /\ Len(none) = 0 /\ SlicesOK(s, none, old)
  <2>1. << >> \in Seq(Slice) /\ Len(<< >>) = 0 /\ DOMAIN << >> = {}
    OBVIOUS
  <2> QED BY <2>1 DEF SlicesOK, SliceList
<1>9. PICK first : first = [stack |-> s, slices |-> none, session |-> session,
                            pushes |-> head.pushes, its |-> its, i |-> 1]
  OBVIOUS
<1>10. WalkOK(first, old, kind)
  <2>1. s \in StackType /\ session \in Session
    BY StackIn DEF SessionOK
  <2>2. /\ first \in Walk /\ first.stack = s /\ first.slices = none /\ first.session = session
        /\ first.its = its
    BY <1>3, <1>7, <1>8, <1>9, <2>1 DEF Walk
  <2>3. old <= Len(s.heads)
    BY <1>1
  <2> QED BY <1>7, <1>8, <1>a, <2>2, <2>3 DEF WalkOK
<1> DEFINE Z == {x \in Walk : WalkOK(x, old, kind)}
           S == [k \in Nat |-> Z]
<1>11. PICK n \in Nat : n = Len(s.nodes)
  <2>1. s.nodes \in Seq(StackNode)
    BY StackParts
  <2> QED BY <2>1, NodeType
<1>12. PICK end : end = Repeat(Round, first, n)
  OBVIOUS
<1>13. end \in Z
  <2>1. S \in [Nat -> SUBSET Walk] /\ first \in S[0]
    BY <1>10 DEF WalkOK
  <2>2. \A k \in 0 .. n - 1 : \A x \in S[k] : Round(x) \in S[k + 1]
    <3>1. ASSUME NEW x \in Z PROVE Round(x) \in Z
      <4>1. WalkOK(Round(x), old, kind)
        BY RoundOK
      <4> QED BY <4>1 DEF WalkOK
    <3> QED BY <3>1
  <2>3. Repeat(Round, first, n) \in S[n]
    <3> HIDE DEF S
    <3> QED BY <2>1, <2>2, RepeatRound
  <2> QED BY <1>12, <2>3
<1>14. WalkOK(end, old, kind)
  BY <1>13
<1>15. PICK pop : pop = [stack |-> end.stack, slices |-> end.slices, session |-> end.session]
  OBVIOUS
<1>16. Iterate(s, v, session) = pop
  BY <1>2, <1>4, <1>6, <1>8, <1>9, <1>11, <1>12, <1>15 DEF Iterate, StartAt
<1>17. pop \in Pop
  <2>1. end.stack \in StackType /\ end.slices \in SliceList /\ end.session \in Session
    BY <1>14, PartsOf DEF WalkOK, WalkParts
  <2> QED BY <1>15, <2>1 DEF Pop
<1>18. PopOK(pop, old, kind)
  BY <1>14, <1>15, <1>17 DEF PopOK, WalkOK
<1> QED BY <1>1, <1>16, <1>18, <1>a

(* Slices that name heads of their nodes.                                  *)
NameNodes(s, slices) ==
  \A k \in DOMAIN slices :
    slices[k].version \in DOMAIN s.heads /\ s.heads[slices[k].version].node = slices[k].node

(* The parts of a slice have their types.                                  *)
LEMMA SliceType ==
  ASSUME NEW slices \in SliceList
  PROVE  /\ Len(slices) \in Nat /\ DOMAIN slices = 1 .. Len(slices)
         /\ \A k \in DOMAIN slices : slices[k] \in Slice /\ slices[k].version \in Nat \ {0}
<1>1. Len(slices) \in Nat /\ DOMAIN slices = 1 .. Len(slices) /\ \A k \in DOMAIN slices : slices[k] \in Slice
  <2> HIDE DEF Slice
  <2> QED BY DEF SliceList
<1>2. \A x \in Slice : x.version \in Nat \ {0}
  BY DEF Slice
<1> QED BY <1>1, <1>2

(* A dropped slice takes its version along, and those behind it move up by *)
(* one: the slices stand in the order of their versions, so that all       *)
(* others move.                                                            *)
LEMMA DropOK ==
  ASSUME NEW pop, NEW old, NEW kind, PopOK(pop, old, kind), Len(pop.slices) >= 2, NEW p, p = DropErrorSlice(pop)
  PROVE  StackOK(p.stack) /\ NameNodes(p.stack, p.slices)
<1>1. PICK s, slices, rest : s = pop.stack /\ slices = pop.slices /\ rest = Tail(slices)
  OBVIOUS
<1>2. pop \in Pop /\ StackOK(s) /\ SlicesOK(s, slices, old) /\ slices \in SliceList
  BY <1>1 DEF PopOK, Pop
<1>3. PICK n \in Nat : n = Len(slices) /\ n >= 2 /\ DOMAIN slices = 1 .. n
  BY <1>1, <1>2, SliceType
<1>4. /\ rest \in SliceList /\ DOMAIN rest = 1 .. n - 1
      /\ \A k \in 1 .. n - 1 : rest[k] = slices[k + 1]
  <2>1. rest \in Seq(Slice) /\ DOMAIN rest = 1 .. Len(slices) - 1 /\ \A k \in 1 .. Len(slices) - 1 : rest[k] = slices[k + 1]
    <3>1. slices # << >> /\ slices \in Seq(Slice)
      BY <1>2, <1>3 DEF SliceList
    <3> HIDE DEF Slice
    <3> QED BY <1>1, <3>1
  <2> QED BY <1>3, <2>1 DEF SliceList
<1>5. NameNodes(s, rest)
  <2>1. \A k \in 1 .. n - 1 : k + 1 \in DOMAIN slices
    BY <1>3
  <2> QED BY <1>2, <1>4, <2>1 DEF NameNodes, SlicesOK
<1>6. CASE rest[1].version = slices[1].version
  <2>1. p = [pop EXCEPT !.slices = rest]
    BY <1>1, <1>6 DEF DropErrorSlice
  <2>2. p.stack = s /\ p.slices = rest
    BY <1>1, <1>2, <2>1 DEF Pop
  <2> QED BY <1>2, <1>5, <2>2
<1>7. CASE rest[1].version # slices[1].version
  <2>1. PICK v : v = slices[1].version
    OBVIOUS
  <2>2. PICK z : z = RemoveVersion(s, v)
    OBVIOUS
  <2>3. PICK moved : moved = [k \in DOMAIN rest |-> [rest[k] EXCEPT !.version = @ - 1]]
    OBVIOUS
  <2>4. p.stack = z /\ p.slices = moved
    <3>1. p = [pop EXCEPT !.stack = z, !.slices = moved]
      BY <1>1, <1>7, <2>1, <2>2, <2>3 DEF DropErrorSlice
    <3> QED BY <1>2, <3>1 DEF Pop
  <2>5. v \in DOMAIN s.heads /\ 1 \in DOMAIN slices
    BY <1>2, <1>3, <2>1 DEF SlicesOK
  <2>6. StackOK(z)
    BY <1>2, <2>2, <2>5, RemoveOK
  <2>7. PICK h \in Nat : h = Len(s.heads) /\ s.heads \in Seq(StackHead) /\ DOMAIN s.heads = 1 .. h
    BY <1>2, StackParts
  <2>8. PICK hs : hs = RemoveAt(s.heads, v) /\ hs = z.heads
    BY <2>2 DEF RemoveVersion
  <2>9. DOMAIN hs = 1 .. h - 1 /\ \A k \in 1 .. h - 1 : hs[k] = IF k < v THEN s.heads[k] ELSE s.heads[k + 1]
    <3>1. /\ RemoveAt(s.heads, v) \in Seq(StackHead) /\ Len(RemoveAt(s.heads, v)) = Len(s.heads) - 1
          /\ \A k \in 1 .. Len(s.heads) - 1 : RemoveAt(s.heads, v)[k] = IF k < v THEN s.heads[k] ELSE s.heads[k + 1]
      BY <2>5, <2>7, PointsRemoveAt
    <3>2. hs \in Seq(StackHead) /\ Len(hs) = h - 1
      BY <2>7, <2>8, <3>1
    <3>3. DOMAIN hs = 1 .. h - 1
      <4> HIDE DEF StackHead
      <4> QED BY <3>2
    <3> QED BY <2>7, <2>8, <3>1, <3>3
  <2>10. ASSUME NEW k \in DOMAIN rest
         PROVE  /\ moved[k].version = rest[k].version - 1 /\ moved[k].node = rest[k].node
                /\ rest[k].version \in 1 .. h /\ rest[k].version > v
                /\ s.heads[rest[k].version].node = rest[k].node
    <3>1. k \in 1 .. n - 1 /\ 1 \in 1 .. n - 1 /\ 2 \in 1 .. n /\ k + 1 \in 1 .. n /\ 2 <= k + 1 /\ 1 <= 2
      BY <1>3, <1>4
    <3>2. rest[k] = slices[k + 1] /\ rest[1] = slices[2]
      BY <1>4, <3>1
    <3>3. slices[1].version <= slices[2].version /\ slices[2].version <= slices[k + 1].version
      BY <1>2, <1>3, <3>1 DEF SlicesOK
    <3>4. slices[1].version \in Nat /\ slices[2].version \in Nat /\ slices[k + 1].version \in Nat
      BY <1>2, <1>3, <3>1, SliceType
    <3>5. rest[k].version > v
      BY <1>7, <2>1, <3>2, <3>3, <3>4
    <3>6. rest[k].version \in 1 .. h /\ s.heads[rest[k].version].node = rest[k].node
      BY <1>5, <2>7 DEF NameNodes
    <3>7. moved[k].version = rest[k].version - 1 /\ moved[k].node = rest[k].node
      <4>1. rest[k] \in Slice
        BY <1>4, SliceType
      <4>2. moved[k] = [rest[k] EXCEPT !.version = rest[k].version - 1]
        BY <2>3
      <4> QED BY <4>1, <4>2 DEF Slice
    <3> QED BY <3>5, <3>6, <3>7
  <2>11. ASSUME NEW k \in DOMAIN moved
         PROVE  moved[k].version \in DOMAIN hs /\ hs[moved[k].version].node = moved[k].node
    <3>1. k \in DOMAIN rest
      BY <2>3
    <3>2. PICK x \in 1 .. h : x = rest[k].version
      BY <2>10, <3>1
    <3>3. v \in Nat /\ v >= 1 /\ x > v
      BY <2>5, <2>7, <2>10, <3>1, <3>2
    <3>4. x - 1 \in 1 .. h - 1 /\ ~ (x - 1 < v) /\ (x - 1) + 1 = x
      BY <3>3
    <3>5. hs[x - 1] = s.heads[x]
      BY <2>9, <3>4
    <3> QED BY <2>9, <2>10, <3>1, <3>2, <3>4, <3>5
  <2> QED BY <2>4, <2>6, <2>8, <2>11 DEF NameNodes
<1> QED BY <1>6, <1>7

(* The slices of a pop name heads of their nodes.                          *)
LEMMA PopNames ==
  ASSUME NEW pop, NEW old, NEW kind, PopOK(pop, old, kind)
  PROVE  StackOK(pop.stack) /\ NameNodes(pop.stack, pop.slices)
  BY DEF PopOK, SlicesOK, NameNodes

(* ts_stack_pop_count                                                      *)
LEMMA PopCountOK ==
  ASSUME NEW s, StackOK(s), NEW v \in DOMAIN s.heads, NEW count \in Nat, NEW p, p = PopCount(s, v, count)
  PROVE  StackOK(p.stack) /\ NameNodes(p.stack, p.slices)
<1>1. PICK session : session = [kind |-> "count", count |-> count, error |-> FALSE, valid |-> FALSE]
  OBVIOUS
<1>2. SessionOK(session, 0)
  BY <1>1 DEF SessionOK, Session, Bit
<1>3. PICK pop : pop = Iterate(s, v, session)
  OBVIOUS
<1>4. PopOK(pop, Len(s.heads), "count")
  BY <1>1, <1>2, <1>3, IterateOK
<1>5. p = IF pop.session.error /\ pop.session.valid THEN DropErrorSlice(pop) ELSE pop
  BY <1>1, <1>3 DEF PopCount
<1>6. CASE pop.session.error /\ pop.session.valid
  <2>1. Len(pop.slices) >= 2
    <3>1. /\ pop.session \in Session /\ pop.session.kind = "count" /\ Len(pop.slices) \in Nat
          /\ Len(pop.slices) >= Bit(pop.session.error) + Bit(pop.session.valid)
      BY <1>4 DEF PopOK, SessionOK
    <3>2. Bit(pop.session.error) = 1 /\ Bit(pop.session.valid) = 1
      BY <1>6 DEF Bit
    <3> QED BY <3>1, <3>2
  <2> QED BY <1>4, <1>5, <1>6, <2>1, DropOK
<1>7. CASE ~ (pop.session.error /\ pop.session.valid)
  <2>1. p = pop
    BY <1>5, <1>7
  <2> QED BY <1>4, <2>1, PopNames
<1> QED BY <1>6, <1>7

(* ts_stack_pop_all                                                        *)
LEMMA PopAllOK ==
  ASSUME NEW s, StackOK(s), NEW v \in DOMAIN s.heads, NEW p, p = PopAll(s, v)
  PROVE  StackOK(p.stack) /\ NameNodes(p.stack, p.slices)
<1>1. PICK session : session = [kind |-> "all"]
  OBVIOUS
<1>2. SessionOK(session, 0)
  BY <1>1 DEF SessionOK, Session
<1>3. PopOK(p, Len(s.heads), session.kind)
  BY <1>1, <1>2, IterateOK DEF PopAll
<1> QED BY <1>3, PopNames

(* ts_stack_pop_pending                                                    *)
LEMMA PopPendingOK ==
  ASSUME NEW s, StackOK(s), NEW v \in DOMAIN s.heads, NEW p, p = PopPending(s, v)
  PROVE  StackOK(p.stack) /\ (Len(p.slices) = 1 => NameNodes(p.stack, p.slices))
<1>1. PICK session : session = [kind |-> "pending"]
  OBVIOUS
<1>2. SessionOK(session, 0)
  BY <1>1 DEF SessionOK, Session
<1>3. PICK pop : pop = Iterate(s, v, session)
  OBVIOUS
<1>4. PopOK(pop, Len(s.heads), session.kind)
  BY <1>2, <1>3, IterateOK
<1>5. PICK z, slices : z = pop.stack /\ slices = pop.slices
  OBVIOUS
<1>6. pop \in Pop /\ StackOK(z) /\ SlicesOK(z, slices, Len(s.heads)) /\ slices \in SliceList
  BY <1>4, <1>5 DEF PopOK, Pop
<1>7. p = IF slices = << >> THEN pop
          ELSE [pop EXCEPT !.stack = RenumberVersion(@, slices[1].version, v), !.slices[1].version = v]
  BY <1>1, <1>3, <1>5 DEF PopPending
<1>8. CASE slices = << >>
  <2>1. p = pop
    BY <1>7, <1>8
  <2> QED BY <1>4, <2>1, PopNames
<1>9. CASE slices # << >>
  <2>1. 1 \in DOMAIN slices
    <3>1. Len(slices) # 0
      BY <1>6, <1>9 DEF SliceList
    <3> QED BY <1>6, <3>1, SliceType
  <2>2. PICK w : w = slices[1].version
    OBVIOUS
  <2>3. w \in DOMAIN z.heads /\ w > Len(s.heads) /\ z.heads[w].node = slices[1].node
    BY <1>6, <2>1, <2>2 DEF SlicesOK
  <2>4. PICK h \in Nat, old \in Nat : /\ h = Len(z.heads) /\ DOMAIN z.heads = 1 .. h /\ z.heads \in Seq(StackHead)
                                      /\ old = Len(s.heads) /\ v \in 1 .. old
    BY <1>6, StackParts
  <2>5. w \in 1 .. h /\ v \in 1 .. h /\ v < w
    BY <2>3, <2>4
  <2>6. PICK y : y = RenumberVersion(z, w, v)
    OBVIOUS
  <2>7. StackOK(y)
    <3>1. w \in DOMAIN z.heads /\ v \in DOMAIN z.heads /\ w # v
      BY <2>4, <2>5
    <3> QED BY <1>6, <2>6, <3>1, RenumberOK
  <2>8. PICK named : named = [slices EXCEPT ![1].version = v]
    OBVIOUS
  <2>9. p.stack = y /\ p.slices = named
    <3>1. p = [pop EXCEPT !.stack = y, !.slices = named]
      <4>1. p = [pop EXCEPT !.stack = RenumberVersion(@, slices[1].version, v), !.slices[1].version = v]
        BY <1>7, <1>9
      <4>2. p = [[pop EXCEPT !.stack = y] EXCEPT !.slices = [@ EXCEPT ![1].version = v]]
        BY <1>5, <2>2, <2>6, <4>1
      <4>3. [pop EXCEPT !.stack = y].slices = slices
        BY <1>5, <1>6 DEF Pop
      <4> QED BY <2>8, <4>2, <4>3
    <3> QED BY <1>6, <3>1 DEF Pop
  <2>10. ASSUME Len(named) = 1 PROVE NameNodes(y, named)
    <3>1. Len(slices) = 1 /\ DOMAIN named = {1}
      BY <1>6, <2>8, <2>10, SliceType
    <3>2. named[1].version = v /\ named[1].node = slices[1].node
      BY <1>6, <2>1, <2>8, SliceType DEF Slice
    <3>3. PICK both : both = [z.heads EXCEPT ![v] = z.heads[w]]
      OBVIOUS
    <3>4. both \in Seq(StackHead) /\ Len(both) = h /\ both[v] = z.heads[w] /\ DOMAIN both = 1 .. h
      <4> HIDE DEF StackHead
      <4> QED BY <2>4, <2>5, <3>3
    <3>5. PICK hs : hs = RemoveAt(both, w) /\ hs = y.heads
      BY <2>6, <3>3 DEF RenumberVersion
    <3>6. /\ hs \in Seq(StackHead) /\ Len(hs) = h - 1
          /\ \A k \in 1 .. h - 1 : hs[k] = IF k < w THEN both[k] ELSE both[k + 1]
      <4>1. w \in DOMAIN both
        BY <2>5, <3>4
      <4>2. /\ RemoveAt(both, w) \in Seq(StackHead) /\ Len(RemoveAt(both, w)) = Len(both) - 1
            /\ \A k \in 1 .. Len(both) - 1 : RemoveAt(both, w)[k] = IF k < w THEN both[k] ELSE both[k + 1]
        BY <3>4, <4>1, PointsRemoveAt
      <4> QED BY <3>4, <3>5, <4>2
    <3>7. v \in 1 .. h - 1 /\ hs[v] = z.heads[w]
      BY <2>5, <3>4, <3>6
    <3>8. v \in DOMAIN hs
      <4> HIDE DEF StackHead
      <4> QED BY <3>6, <3>7
    <3> QED BY <2>3, <3>1, <3>2, <3>5, <3>7, <3>8 DEF NameNodes
  <2> QED BY <2>7, <2>9, <2>10
<1> QED BY <1>8, <1>9

(* The inductive invariant: the stack is in order, and the slices of the   *)
(* last pop name their nodes.                                              *)
IInv == StackOK(stack) /\ SlicesNameTheirNodes

(* A step that pops nothing.                                               *)
LEMMA BecomesOK ==
  ASSUME NEW s, StackOK(s), Becomes(s)
  PROVE  IInv'
<1>1. stack' = s /\ popped'.slices = << >>
  BY DEF Becomes, NoPop
<1>2. StackOK(stack)'
  BY <1>1 DEF StackOK
<1>3. SlicesNameTheirNodes'
  BY <1>1 DEF SlicesNameTheirNodes
<1> QED BY <1>2, <1>3 DEF IInv

(* A step that pops.                                                       *)
LEMMA PopsOK ==
  ASSUME NEW kind, NEW count, NEW v, NEW pop, StackOK(pop.stack),
         kind # "pending" \/ Len(pop.slices) = 1 => NameNodes(pop.stack, pop.slices),
         Pops(kind, count, v, pop)
  PROVE  IInv'
<1>1. stack' = pop.stack /\ popped'.slices = pop.slices /\ popped'.kind = kind
  BY DEF Pops
<1>2. StackOK(stack)'
  BY <1>1 DEF StackOK
<1>3. SlicesNameTheirNodes'
  BY <1>1 DEF SlicesNameTheirNodes, NameNodes, Versions, heads
<1> QED BY <1>2, <1>3 DEF IInv

(* Every operation keeps the stack in order, from ts_stack_new on and in   *)
(* whichever order the parser calls them.                                  *)
THEOREM Inductive == Spec => []IInv
<1>1. Init => IInv
  <2> SUFFICES ASSUME Init PROVE IInv
    OBVIOUS
  <2>1. stack = NewStack /\ popped.slices = << >>
    BY DEF Init, NoPop
  <2>2. StackOK(stack)
    BY <2>1, NewOK
  <2>3. SlicesNameTheirNodes
    BY <2>1 DEF SlicesNameTheirNodes
  <2> QED BY <2>2, <2>3 DEF IInv
<1>2. IInv /\ [Next]_vars => IInv'
  <2> SUFFICES ASSUME IInv, [Next]_vars PROVE IInv'
    OBVIOUS
  <2>1. StackOK(stack) /\ Versions = DOMAIN stack.heads
    BY DEF IInv, Versions, heads
  <2>2. ASSUME NEW v \in Versions, NEW tree \in Trees, NEW state \in Goto(Top(stack, v).state, tree),
               PushTree(v, tree, tree.children # << >>, state)
        PROVE  IInv'
    <3>1. Top(stack, v).state \in States
      BY <2>1, StackParts, NodeType DEF Top
    <3>2. state \in States
      BY <3>1, ParseStackAssumption
    <3>3. StackOK(Push(stack, v, tree, tree.children # << >>, state))
      <4>1. PICK pending \in BOOLEAN : pending = (tree.children # << >>)
        OBVIOUS
      <4>2. StackOK(Push(stack, v, tree, pending, state))
        BY <2>1, <3>2, PushOK
      <4> QED BY <4>1, <4>2
    <3> QED BY <2>2, <3>3, BecomesOK DEF PushTree
  <2>3. ASSUME NEW v \in Versions, PushTree(v, NoTree, FALSE, ErrorState) PROVE IInv'
    <3>1. StackOK(Push(stack, v, NoTree, FALSE, ErrorState))
      <4>1. ErrorState \in States
        BY ParseStackAssumption
      <4> QED BY <2>1, <4>1, PushOK
    <3> QED BY <2>3, <3>1, BecomesOK DEF PushTree
  <2>4. ASSUME NEW v \in Versions, NEW count \in 0 .. MaxPop, Pops("count", count, v, PopCount(stack, v, count))
        PROVE  IInv'
    <3>1. PICK p : p = PopCount(stack, v, count)
      OBVIOUS
    <3>2. count \in Nat
      OBVIOUS
    <3>3. StackOK(p.stack) /\ NameNodes(p.stack, p.slices)
      BY <2>1, <3>1, <3>2, PopCountOK
    <3> QED BY <2>4, <3>1, <3>3, PopsOK
  <2>5. ASSUME NEW v \in Versions, Pops("pending", 1, v, PopPending(stack, v)) PROVE IInv'
    <3>1. PICK p : p = PopPending(stack, v)
      OBVIOUS
    <3>2. StackOK(p.stack) /\ (Len(p.slices) = 1 => NameNodes(p.stack, p.slices))
      BY <2>1, <3>1, PopPendingOK
    <3> QED BY <2>5, <3>1, <3>2, PopsOK
  <2>6. ASSUME NEW v \in Versions, Pops("all", 0, v, PopAll(stack, v)) PROVE IInv'
    <3>1. PICK p : p = PopAll(stack, v)
      OBVIOUS
    <3>2. StackOK(p.stack) /\ NameNodes(p.stack, p.slices)
      BY <2>1, <3>1, PopAllOK
    <3> QED BY <2>6, <3>1, <3>2, PopsOK
  <2>7. ASSUME NEW v \in Versions, Becomes(RemoveVersion(stack, v)) PROVE IInv'
    BY <2>1, <2>7, RemoveOK, BecomesOK
  <2>8. ASSUME NEW v \in Versions, Becomes(CopyVersion(stack, v)) PROVE IInv'
    BY <2>1, <2>8, CopyOK, BecomesOK
  <2>9. ASSUME NEW v \in Versions, NEW w \in Versions, w < v, Becomes(RenumberVersion(stack, v, w)) PROVE IInv'
    <3>1. v # w
      <4>1. v \in Nat /\ w \in Nat
        BY <2>1, StackParts
      <4> QED BY <2>9, <4>1
    <3>2. StackOK(RenumberVersion(stack, v, w))
      BY <2>1, <3>1, RenumberOK
    <3> QED BY <2>9, <3>2, BecomesOK
  <2>10. ASSUME NEW v \in Versions, NEW w \in Versions, v # w, Mergeable(stack, v, w), Becomes(Merge(stack, v, w))
         PROVE  IInv'
    <3>1. StackOK(Merge(stack, v, w))
      BY <2>1, <2>10, MergeOK
    <3> QED BY <2>10, <3>1, BecomesOK
  <2>11. ASSUME Becomes(Clear(stack)) PROVE IInv'
    BY <2>1, <2>11, ClearOK, BecomesOK
  <2>12. CASE UNCHANGED vars
    BY <2>12 DEF vars, IInv, StackOK, SlicesNameTheirNodes, Versions, heads
  <2> QED BY <2>2, <2>3, <2>4, <2>5, <2>6, <2>7, <2>8, <2>9, <2>10, <2>11, <2>12 DEF Next
<1> QED BY <1>1, <1>2, PTL DEF Spec

(* The slices that ts_stack_pop_count and ts_stack_pop_all return name     *)
(* heads of the nodes they were popped down to, also after the slice of an *)
(* error was dropped with its version; so does a single slice of           *)
(* ts_stack_pop_pending.                                                   *)
THEOREM SlicesNamed == Spec => []SlicesNameTheirNodes
<1>1. IInv => SlicesNameTheirNodes
  BY DEF IInv
<1> QED BY <1>1, Inductive, PTL

(* Merging adds links deep in the graph without looking at positions,      *)
(* errors and costs there; they agree on every way down all the same.      *)
THEOREM WaysAgree == Spec => []EveryWayAgrees
<1>1. IInv => EveryWayAgrees
  <2> SUFFICES ASSUME IInv PROVE EveryWayAgrees
    OBVIOUS
  <2>1. /\ Sound(nodes, heads, << >>) /\ GraphOK(nodes) /\ nodes[Base].links = << >>
    BY StackParts DEF IInv, nodes, heads, GraphOK
  <2>2. ASSUME NEW n \in Used PROVE nodes[n].links = << >> <=> n = Base
    <3>1. n \in DOMAIN nodes /\ nodes[n].refs > 0 /\ NodeOK(nodes, n)
      BY <2>1 DEF Used, GraphOK
    <3> QED BY <2>1, <3>1 DEF NodeOK
  <2>3. ASSUME NEW n \in Used, NEW i \in DOMAIN nodes[n].links
        PROVE  LET link  == nodes[n].links[i]
                   below == nodes[link.node]
               IN  /\ below.refs > 0
                   /\ nodes[n].position = below.position + Bytes(link.tree)
                   /\ nodes[n].errors = below.errors + IF link.tree = NoTree THEN 1 ELSE 0
                   /\ nodes[n].cost = below.cost + LinkCost(link.tree, nodes[n].state)
    <3>1. n \in DOMAIN nodes /\ NodeOK(nodes, n)
      BY <2>1 DEF Used, GraphOK
    <3>2. Follows(nodes, n, nodes[n].links[i])
      BY <3>1 DEF NodeOK
    <3>3. nodes[nodes[n].links[i].node].refs > 0
      BY <2>1, <3>1, Counted
    <3> QED BY <3>2, <3>3 DEF Follows
  <2> QED BY <2>2, <2>3 DEF EveryWayAgrees
<1> QED BY <1>1, Inductive, PTL

(* stack_node_retain and stack_node_release keep the count of every node   *)
(* at the number of heads and links that point to it: no node is freed     *)
(* that is reached, and none is kept that is not.                          *)
THEOREM CountsExact == Spec => []RefsExact
<1>1. IInv => RefsExact
  <2> SUFFICES ASSUME IInv PROVE RefsExact
    OBVIOUS
  <2>1. /\ Sound(nodes, heads, << >>) /\ GraphOK(nodes) /\ nodes \in Seq(StackNode)
        /\ heads \in Seq(StackHead) /\ Exact(nodes, heads, << >>)
    BY StackParts DEF IInv, nodes, heads, Sound
  <2> DEFINE links == UNION {{n} \X DOMAIN nodes[n].links : n \in Used}
  <2>2. \A m \in DOMAIN nodes : /\ nodes[m].links \in Seq(Link) /\ nodes[m].refs \in Nat
                                /\ (nodes[m].refs = 0 => nodes[m].links = << >>)
                                /\ Len(nodes[m].links) <= MaxLinks
    BY <2>1, NodeType DEF GraphOK, NodeOK
  <2>3. ASSUME NEW n PROVE {p \in links : nodes[p[1]].links[p[2]].node = n} = LinksTo(nodes, n)
    <3>1. ASSUME NEW p \in links PROVE p \in (1 .. Len(nodes)) \X (1 .. MaxLinks) /\ p[2] \in DOMAIN nodes[p[1]].links
      <4>1. PICK m \in Used : p \in {m} \X DOMAIN nodes[m].links
        OBVIOUS
      <4>2. p = <<m, p[2]>> /\ p[1] = m /\ p[2] \in DOMAIN nodes[m].links
        BY <4>1
      <4>3. m \in DOMAIN nodes /\ m \in 1 .. Len(nodes)
        BY <2>1, NodeType DEF Used
      <4>4. p[2] \in 1 .. MaxLinks
        BY <2>2, <4>2, <4>3, ParseStackAssumption
      <4> QED BY <4>2, <4>3, <4>4
    <3>2. ASSUME NEW p \in (1 .. Len(nodes)) \X (1 .. MaxLinks), p[2] \in DOMAIN nodes[p[1]].links PROVE p \in links
      <4>1. PICK m \in 1 .. Len(nodes) : m = p[1] /\ p = <<m, p[2]>>
        OBVIOUS
      <4>2. m \in DOMAIN nodes
        BY <2>1, <4>1, NodeType
      <4>3. nodes[m].links # << >>
        BY <2>2, <3>2, <4>1, <4>2
      <4>4. nodes[m].refs > 0
        BY <2>2, <4>2, <4>3
      <4>5. m \in Used /\ p \in {m} \X DOMAIN nodes[m].links
        BY <3>2, <4>1, <4>2, <4>4 DEF Used
      <4> QED BY <4>5
    <3> HIDE DEF links
    <3> QED BY <3>1, <3>2 DEF LinksTo
  <2>4. ASSUME NEW n \in DOMAIN nodes
        PROVE  nodes[n].refs = Cardinality({v \in Versions : heads[v].node = n})
                 + Cardinality({p \in links : nodes[p[1]].links[p[2]].node = n})
                 + IF n = Base THEN 1 ELSE 0
    <3>1. {v \in Versions : heads[v].node = n} = Pointers(heads, n)
      BY DEF Versions, Pointers
    <3>2. PICK a \in Nat, b \in Nat, d \in Nat :
            /\ a = Points(heads, n) /\ b = InLinks(nodes, n) /\ d = Here(n, Base)
      <4>1. Points(heads, n) \in Nat
        BY <2>1, PointsType
      <4>2. InLinks(nodes, n) \in Nat
        BY <2>1, InLinksType
      <4> QED BY <4>1, <4>2 DEF Here
    <3>3. Points(<< >>, n) = 0
      BY PointsNone
    <3>4. nodes[n].refs = a + 0 + b + d
      BY <2>1, <3>2, <3>3 DEF Exact
    <3>5. nodes[n].refs = a + b + d
      BY <3>4
    <3>6. Cardinality({v \in Versions : heads[v].node = n}) = a
      BY <3>1, <3>2 DEF Points
    <3>7. Cardinality({p \in links : nodes[p[1]].links[p[2]].node = n}) = b
      BY <2>3, <3>2 DEF InLinks
    <3>8. d = IF n = Base THEN 1 ELSE 0
      BY <3>2 DEF Here
    <3> HIDE DEF links
    <3> QED BY <3>5, <3>6, <3>7, <3>8
  <2> QED BY <2>4 DEF RefsExact
<1> QED BY <1>1, Inductive, PTL
=============================================================================
