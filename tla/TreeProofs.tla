----------------------------- MODULE TreeProofs -----------------------------
(***************************************************************************)
(* What an edit makes of a tree, and what the next parse may take over.  A *)
(* tree is well-formed if its nodes hang together; the first part says     *)
(* what the operators on trees give and keep (where nodes start, what a    *)
(* graft is, what a parse leaves), the second what ts_tree_edit calls for  *)
(* on every node, where that puts the node, and which bytes then stand in  *)
(* its window.  The third part is about the parse: which nodes of an       *)
(* edited tree are fit to be taken over, what the stack then holds, and    *)
(* that the reusable node is where its byte_index says.                    *)
(***************************************************************************)
EXTENDS Reparse, Induction, SequenceTheorems, FiniteSetTheorems

(* What a value is computed from one step at a time can be had for a range *)
(* of numbers.                                                             *)
IsRecursion(f, S, first, b, m, step) ==
  /\ f \in [b .. m -> S]
  /\ f = [i \in b .. m |-> IF i = b THEN first ELSE step[i][f[i - 1]]]

LEMMA Recursion ==
  ASSUME NEW S, NEW first \in S, NEW b \in Nat, NEW m \in Nat, NEW step \in [b .. m -> [S -> S]]
  PROVE  \E f : IsRecursion(f, S, first, b, m, step)
<1> DEFINE pick == [k \in Nat |-> IF b + k + 1 \in b .. m THEN step[b + k + 1] ELSE [x \in S |-> x]]
<1>1. pick \in [Nat -> [S -> S]]
  <2>1. [x \in S |-> x] \in [S -> S]
    OBVIOUS
  <2> QED BY <2>1
<1>2. \A k \in Nat : b + k + 1 \in b .. m => pick[k] = step[b + k + 1]
  OBVIOUS
<1> HIDE DEF pick
<1>3. PICK g : IsIteration(g, S, first, pick)
  BY <1>1, Iteration
<1>4. g \in [Nat -> S] /\ g[0] = first /\ \A k \in Nat : g[k + 1] = pick[k][g[k]]
  BY <1>3 DEF IsIteration
<1> DEFINE f == [i \in b .. m |-> g[i - b]]
           h == [i \in b .. m |-> IF i = b THEN first ELSE step[i][f[i - 1]]]
<1>5. f \in [b .. m -> S]
  BY <1>4
<1>6. ASSUME NEW i \in b .. m PROVE f[i] = h[i]
  <2>1. CASE i = b
    BY <1>4, <2>1
  <2>2. CASE i # b
    <3>1. PICK k \in Nat : k = i - b - 1
      BY <2>2
    <3>2. i \in b .. m /\ b + k + 1 = i /\ i - b = k + 1 /\ i - 1 \in b .. m /\ (i - 1) - b = k
      BY <2>2, <3>1
    <3>3. f[i] = g[k + 1] /\ f[i - 1] = g[k]
      BY <3>2
    <3>4. g[k + 1] = step[i][g[k]]
      BY <1>2, <1>4, <3>1, <3>2
    <3>5. h[i] = step[i][f[i - 1]]
      BY <2>2
    <3> QED BY <3>3, <3>4, <3>5
  <2> QED BY <2>1, <2>2
<1>7. f = h
  <2>1. f = [i \in b .. m |-> f[i]] /\ h = [i \in b .. m |-> h[i]]
    OBVIOUS
  <2> HIDE DEF f, h
  <2> QED BY <1>6, <2>1, Zenon
<1> HIDE DEF f
<1> QED BY <1>5, <1>7 DEF IsRecursion

-----------------------------------------------------------------------------
(* Paths.                                                                  *)
Path == Seq(Nat \ {0})

(* A path is the empty one or one step longer than another one.            *)
LEMMA PathAppend ==
  ASSUME NEW p \in Path, NEW i \in Nat \ {0}
  PROVE  /\ Append(p, i) \in Path /\ Append(p, i) # << >> /\ Len(Append(p, i)) = Len(p) + 1
         /\ Front(Append(p, i)) = p /\ Last(Append(p, i)) = i
<1> DEFINE q == Append(p, i)
<1>1. /\ q \in Path /\ q # << >> /\ Len(q) = Len(p) + 1 /\ Len(p) \in Nat
      /\ \A k \in 1 .. Len(p) : q[k] = p[k]
      /\ q[Len(p) + 1] = i
  BY AppendProperties DEF Path
<1> HIDE DEF q
<1>2. \A k \in 1 .. Len(p) : q[k] \in Nat \ {0}
  BY <1>1 DEF Path
<1>3. Len(q) - 1 = Len(p)
  BY <1>1
<1>4. Front(q) = SubSeq(q, 1, Len(p))
  BY <1>3 DEF Front
<1>5. /\ SubSeq(q, 1, Len(p)) \in Path /\ Len(SubSeq(q, 1, Len(p))) = IF 1 <= Len(p) THEN Len(p) - 1 + 1 ELSE 0
      /\ \A k \in 1 .. Len(p) - 1 + 1 : SubSeq(q, 1, Len(p))[k] = q[1 + k - 1]
  BY <1>1, <1>2, SubSeqProperties DEF Path
<1>6. Len(Front(q)) = Len(p) /\ \A k \in 1 .. Len(p) : Front(q)[k] = p[k]
  BY <1>1, <1>4, <1>5
<1>7. Front(q) = p
  BY <1>4, <1>5, <1>6, SeqEqual DEF Path
<1>8. Last(q) = i
  BY <1>1 DEF Last
<1> QED BY <1>1, <1>7, <1>8 DEF q

LEMMA PathSplit ==
  ASSUME NEW p \in Path, p # << >>
  PROVE  /\ Front(p) \in Path /\ Last(p) \in Nat \ {0}
         /\ p = Append(Front(p), Last(p)) /\ Len(p) = Len(Front(p)) + 1 /\ Len(Front(p)) \in Nat
<1>1. PICK q \in Path, i \in Nat \ {0} : p = Append(q, i)
  BY SequenceEmptyOrAppend DEF Path
<1>2. Front(p) = q /\ Last(p) = i /\ Len(p) = Len(q) + 1
  BY <1>1, PathAppend
<1>3. Len(q) \in Nat
  BY DEF Path
<1> QED BY <1>1, <1>2, <1>3

(* The paths of a tree: with a path, the one it comes from.                *)
IsPaths(D) == D \in SUBSET Path /\ \A p \in D : p # << >> => Front(p) \in D

(* Induction down a tree.                                                  *)
LEMMA PathInduct ==
  ASSUME NEW D, IsPaths(D), NEW T, T \subseteq D,
         \A p \in D : p = << >> \/ Front(p) \in T => p \in T
  PROVE  T = D
<1> DEFINE N == {n \in Nat : \A p \in D : Len(p) = n => p \in T}
<1>1. D \in SUBSET Path /\ \A p \in D : p # << >> => Front(p) \in D
  BY DEF IsPaths
<1>2. 0 \in N
  <2>1. ASSUME NEW p \in D, Len(p) = 0 PROVE p = << >>
    <3>1. p \in Path BY <1>1
    <3> QED BY <2>1, <3>1 DEF Path
  <2> QED BY <2>1
<1>3. ASSUME NEW n \in N PROVE n + 1 \in N
  <2>1. ASSUME NEW p \in D, Len(p) = n + 1 PROVE p \in T
    <3>1. p \in Path /\ n \in Nat
      BY <1>1
    <3>2. p # << >>
      BY <2>1, <3>1
    <3>3. Front(p) \in D /\ Len(Front(p)) = n
      BY <1>1, <2>1, <3>1, <3>2, PathSplit
    <3> QED BY <3>3
  <2> QED BY <2>1
<1>4. N \in SUBSET Nat
  OBVIOUS
<1> HIDE DEF N
<1>5. N = Nat
  BY <1>2, <1>3, <1>4, Induct
<1>6. ASSUME NEW p \in D PROVE p \in T
  <2>1. Len(p) \in Nat
    BY <1>1 DEF Path
  <2>2. Len(p) \in N
    BY <1>5, <2>1
  <2> QED BY <2>2 DEF N
<1> QED BY <1>6

(* What a node's value is computed from its parent's can be had for a tree.*)
IsPathRecursion(f, S, first, D, step) ==
  /\ f \in [D -> S]
  /\ f = [p \in D |-> IF p = << >> THEN first ELSE step[p][f[Front(p)]]]

LEMMA PathRecursion ==
  ASSUME NEW S, NEW first \in S, NEW D, IsPaths(D), NEW step \in [D -> [S -> S]]
  PROVE  \E f : IsPathRecursion(f, S, first, D, step)
<1> DEFINE M == [D -> S]
           pick == [k \in Nat |-> [g \in M |-> [p \in D |-> IF p = << >> THEN first
                                                   ELSE step[p][g[Front(p)]]]]]
           start == [p \in D |-> first]
<1>1. D \in SUBSET Path /\ \A p \in D : p # << >> => Front(p) \in D
  BY DEF IsPaths
<1>2. start \in M
  OBVIOUS
<1>3. pick \in [Nat -> [M -> M]]
  <2>1. ASSUME NEW g \in M, NEW p \in D
        PROVE  (IF p = << >> THEN first ELSE step[p][g[Front(p)]]) \in S
    BY <1>1
  <2> QED BY <2>1
<1>4. \A k \in Nat, g \in M : pick[k][g] = [p \in D |-> IF p = << >> THEN first ELSE step[p][g[Front(p)]]]
  OBVIOUS
<1> HIDE DEF pick, start, M
<1>5. PICK it : IsIteration(it, M, start, pick)
  BY <1>2, <1>3, Iteration
<1>6. it \in [Nat -> M] /\ \A k \in Nat : it[k + 1] = pick[k][it[k]]
  BY <1>5 DEF IsIteration
<1> DEFINE f == [p \in D |-> it[Len(p) + 1][p]]
           h == [p \in D |-> IF p = << >> THEN first ELSE step[p][f[Front(p)]]]
<1>7. \A p \in D : Len(p) \in Nat /\ Len(p) + 1 \in Nat
  BY <1>1 DEF Path
<1>8. f \in [D -> S]
  <2>1. \A p \in D : it[Len(p) + 1] \in M
    BY <1>6, <1>7
  <2> QED BY <2>1 DEF M
<1>9. ASSUME NEW p \in D PROVE f[p] = h[p]
  <2>1. Len(p) \in Nat
    BY <1>7
  <2>2. it[Len(p) + 1] = pick[Len(p)][it[Len(p)]] /\ it[Len(p)] \in M
    BY <1>6, <2>1
  <2>3. f[p] = IF p = << >> THEN first ELSE step[p][it[Len(p)][Front(p)]]
    <3> DEFINE g == it[Len(p)]
    <3>1. f[p] = pick[Len(p)][g][p]
      BY <2>2
    <3>2. pick[Len(p)][g] = [q \in D |-> IF q = << >> THEN first ELSE step[q][g[Front(q)]]]
      BY <1>4, <2>1, <2>2
    <3> HIDE DEF g, f
    <3>3. f[p] = IF p = << >> THEN first ELSE step[p][g[Front(p)]]
      BY <3>1, <3>2
    <3> QED BY <3>3 DEF g
  <2>4. CASE p = << >>
    BY <2>3, <2>4
  <2>5. CASE p # << >>
    <3>1. Front(p) \in D /\ Len(p) = Len(Front(p)) + 1
      BY <1>1, <2>5, PathSplit
    <3>2. f[Front(p)] = it[Len(p)][Front(p)]
      BY <3>1
    <3> QED BY <2>3, <2>5, <3>2
  <2> QED BY <2>4, <2>5
<1>10. f = h
  <2>1. f = [p \in D |-> f[p]] /\ h = [p \in D |-> h[p]]
    OBVIOUS
  <2> HIDE DEF f, h
  <2> QED BY <1>9, <2>1, Zenon
<1> HIDE DEF f
<1> QED BY <1>8, <1>10 DEF IsPathRecursion

-----------------------------------------------------------------------------
(* Rows of nodes.                                                          *)
Node == [padding : Nat, size : Nat, bytes_scanned : Nat, has_changes : BOOLEAN,
         child_count : Nat, lexedAt : Int]

LEMMA NodeType ==
  ASSUME NEW n \in Node
  PROVE  /\ n.padding \in Nat /\ n.size \in Nat /\ n.bytes_scanned \in Nat /\ n.has_changes \in BOOLEAN
         /\ n.child_count \in Nat /\ n.lexedAt \in Int /\ Total(n) \in Nat
  BY DEF Node, Total

(* Every node starts where the one before it ends.                         *)
LEMMA StartsAre ==
  ASSUME NEW nodes \in Seq(Node)
  PROVE  /\ Starts(nodes) \in [1 .. Len(nodes) + 1 -> Nat]
         /\ Starts(nodes)[1] = 0 /\ Len(nodes) \in Nat
         /\ \A i \in 1 .. Len(nodes) : Starts(nodes)[i + 1] = Starts(nodes)[i] + Total(nodes[i])
<1> DEFINE n == Len(nodes)
           B(f) == [i \in 1 .. Len(nodes) + 1 |-> IF i = 1 THEN 0 ELSE f[i - 1] + Total(nodes[i - 1])]
           step == [i \in 1 .. n + 1 |-> [x \in Nat |-> IF i = 1 THEN x ELSE x + Total(nodes[i - 1])]]
           start == CHOOSE f : f = B(f)
<1>1. n \in Nat
  OBVIOUS
<1>2. \A i \in 1 .. n : Total(nodes[i]) \in Nat
  <2>1. \A i \in 1 .. n : nodes[i] \in Node
    BY ElementOfSeq
  <2> QED BY <2>1, NodeType
<1>3. step \in [1 .. n + 1 -> [Nat -> Nat]]
  <2>1. ASSUME NEW i \in 1 .. n + 1, NEW x \in Nat PROVE (IF i = 1 THEN x ELSE x + Total(nodes[i - 1])) \in Nat
    <3>1. CASE i # 1
      <4>1. i - 1 \in 1 .. n
        BY <1>1, <3>1
      <4> QED BY <1>2, <4>1
    <3> QED BY <3>1
  <2> QED BY <2>1
<1>4. \A i \in 1 .. n + 1, x \in Nat : i # 1 => step[i][x] = x + Total(nodes[i - 1])
  OBVIOUS
<1> HIDE DEF step
<1>5. PICK g : IsRecursion(g, Nat, 0, 1, n + 1, step)
  <2>1. 0 \in Nat /\ 1 \in Nat /\ n + 1 \in Nat
    BY <1>1
  <2> HIDE DEF n
  <2> QED BY <1>3, <2>1, Recursion, Zenon
<1>6. g = B(g)
  <2>1. g \in [1 .. n + 1 -> Nat] /\ g = [i \in 1 .. n + 1 |-> IF i = 1 THEN 0 ELSE step[i][g[i - 1]]]
    BY <1>5 DEF IsRecursion
  <2>2. ASSUME NEW i \in 1 .. n + 1
        PROVE  (IF i = 1 THEN 0 ELSE step[i][g[i - 1]]) = (IF i = 1 THEN 0 ELSE g[i - 1] + Total(nodes[i - 1]))
    <3>1. CASE i # 1
      <4>1. i - 1 \in 1 .. n + 1
        BY <1>1, <3>1
      <4> QED BY <1>4, <2>1, <3>1, <4>1
    <3> QED BY <3>1
  <2> QED BY <2>1, <2>2, Zenon
<1>7. Starts(nodes) = start
  BY Zenon DEF Starts
<1> HIDE DEF B
<1>8. start = B(start)
  BY <1>6, Zenon
<1> HIDE DEF start
<1>9. start[1] = 0 /\ DOMAIN start = 1 .. n + 1 /\ start = [i \in DOMAIN start |-> start[i]]
  BY <1>1, <1>8 DEF B
<1>10. ASSUME NEW i \in 1 .. n PROVE start[i + 1] = start[i] + Total(nodes[i])
  <2>1. i + 1 \in 1 .. Len(nodes) + 1 /\ i + 1 # 1 /\ (i + 1) - 1 = i
    BY <1>1
  <2> QED BY <1>8, <2>1 DEF B
<1>11. ASSUME NEW i \in 1 .. n + 1 PROVE start[i] \in Nat
  <2> DEFINE T == {k \in Nat : k + 1 <= n + 1 => start[k + 1] \in Nat}
  <2>1. 0 \in T
    BY <1>9
  <2>2. ASSUME NEW k \in T PROVE k + 1 \in T
    <3>1. CASE (k + 1) + 1 <= n + 1
      <4>1. k + 1 \in 1 .. n /\ k \in Nat /\ k + 1 <= n + 1
        BY <1>1, <3>1
      <4>2. start[k + 1] \in Nat /\ start[(k + 1) + 1] = start[k + 1] + Total(nodes[k + 1])
        BY <1>10, <4>1
      <4> QED BY <1>2, <4>1, <4>2
    <3> QED BY <3>1
  <2>3. T \in SUBSET Nat
    OBVIOUS
  <2> HIDE DEF T
  <2>4. T = Nat
    BY <2>1, <2>2, <2>3, Induct
  <2>5. i - 1 \in T /\ (i - 1) + 1 = i /\ i <= n + 1
    BY <1>1, <2>4
  <2> QED BY <2>5, Zenon DEF T
<1>12. start \in [1 .. n + 1 -> Nat]
  BY <1>9, <1>11
<1> QED BY <1>1, <1>7, <1>9, <1>10, <1>12

(* What starts at 0 and goes on by the nodes' lengths is where they start. *)
LEMMA StartsOnly ==
  ASSUME NEW nodes \in Seq(Node), NEW f, f[1] = 0,
         \A i \in 1 .. Len(nodes) : f[i + 1] = f[i] + Total(nodes[i])
  PROVE  \A i \in 1 .. Len(nodes) + 1 : f[i] = Starts(nodes)[i]
<1> DEFINE n == Len(nodes)
           T == {k \in Nat : k + 1 <= n + 1 => f[k + 1] = Starts(nodes)[k + 1]}
<1>1. n \in Nat /\ Starts(nodes)[1] = 0 /\ \A i \in 1 .. n : Starts(nodes)[i + 1] = Starts(nodes)[i] + Total(nodes[i])
  BY StartsAre
<1>2. 0 \in T
  <2>1. 0 + 1 = 1 /\ 0 \in Nat
    OBVIOUS
  <2> QED BY <1>1, <2>1, Zenon
<1>3. ASSUME NEW k \in T PROVE k + 1 \in T
  <2>1. CASE (k + 1) + 1 <= n + 1
    <3>1. k + 1 \in 1 .. n /\ k \in Nat /\ k + 1 <= n + 1
      BY <1>1, <2>1
    <3> QED BY <1>1, <3>1
  <2> QED BY <2>1
<1>4. T \in SUBSET Nat
  OBVIOUS
<1> HIDE DEF T
<1>5. T = Nat
  BY <1>2, <1>3, <1>4, Induct
<1>6. ASSUME NEW i \in 1 .. n + 1 PROVE f[i] = Starts(nodes)[i]
  <2>1. i - 1 \in Nat /\ (i - 1) + 1 = i /\ i <= n + 1
    BY <1>1
  <2> QED BY <1>5, <2>1 DEF T
<1> QED BY <1>6

(* Later nodes start no earlier, and end within the row.                   *)
LEMMA StartsGrow ==
  ASSUME NEW nodes \in Seq(Node), NEW i \in 1 .. Len(nodes) + 1, NEW j \in 1 .. Len(nodes) + 1, i <= j
  PROVE  Starts(nodes)[i] <= Starts(nodes)[j]
<1> DEFINE n == Len(nodes)
           s == Starts(nodes)
           T == {k \in Nat : i + k <= n + 1 => s[i] <= s[i + k]}
<1>1. n \in Nat /\ s \in [1 .. n + 1 -> Nat] /\ \A m \in 1 .. n : s[m + 1] = s[m] + Total(nodes[m]) /\ Total(nodes[m]) \in Nat
  <2>1. \A m \in 1 .. n : nodes[m] \in Node
    BY ElementOfSeq
  <2> QED BY <2>1, StartsAre, NodeType
<1> HIDE DEF s
<1>2. 0 \in T
  <2>1. i + 0 = i /\ i \in 1 .. n + 1
    BY <1>1
  <2>2. s[i] \in Nat
    BY <1>1, <2>1
  <2> QED BY <2>1, <2>2
<1>3. ASSUME NEW k \in T PROVE k + 1 \in T
  <2>1. CASE i + (k + 1) <= n + 1
    <3>1. i + k \in 1 .. n /\ i + k \in 1 .. n + 1 /\ k \in Nat /\ i + (k + 1) = (i + k) + 1 /\ i \in 1 .. n + 1
      BY <1>1, <2>1
    <3>2. s[i] <= s[i + k] /\ s[(i + k) + 1] = s[i + k] + Total(nodes[i + k]) /\ Total(nodes[i + k]) \in Nat
      BY <1>1, <3>1
    <3>3. s[i] \in Nat /\ s[i + k] \in Nat
      BY <1>1, <3>1
    <3> QED BY <3>1, <3>2, <3>3
  <2> QED BY <2>1
<1>4. T \in SUBSET Nat
  OBVIOUS
<1> HIDE DEF T
<1>5. T = Nat
  BY <1>2, <1>3, <1>4, Induct
<1>6. j - i \in Nat /\ i + (j - i) = j /\ j <= n + 1
  BY <1>1
<1> QED BY <1>5, <1>6 DEF T, s

(* Rows of the same lengths start at the same bytes.                       *)
LEMMA StartsSame ==
  ASSUME NEW a \in Seq(Node), NEW b \in Seq(Node), Len(a) = Len(b),
         \A i \in 1 .. Len(a) : Total(a[i]) = Total(b[i])
  PROVE  \A i \in 1 .. Len(a) + 1 : Starts(a)[i] = Starts(b)[i]
<1>1. Starts(a)[1] = 0 /\ \A i \in 1 .. Len(b) : Starts(a)[i + 1] = Starts(a)[i] + Total(b[i])
  BY StartsAre
<1> QED BY <1>1, StartsOnly

-----------------------------------------------------------------------------
(* Trees.                                                                  *)
WellFormed(t) ==
  /\ IsPaths(DOMAIN t) /\ << >> \in DOMAIN t
  /\ t \in [DOMAIN t -> Node]
  /\ \A p \in DOMAIN t : p # << >> => Last(p) \in 1 .. t[Front(p)].child_count
  /\ \A p \in DOMAIN t : \A i \in 1 .. t[p].child_count : Append(p, i) \in DOMAIN t

LEMMA ChildPath ==
  ASSUME NEW t, WellFormed(t), NEW p \in DOMAIN t, NEW i \in 1 .. t[p].child_count
  PROVE  /\ Append(p, i) \in DOMAIN t /\ Append(p, i) # << >>
         /\ Front(Append(p, i)) = p /\ Last(Append(p, i)) = i
         /\ t[p] \in Node /\ t[Append(p, i)] \in Node /\ p \in Path /\ i \in Nat \ {0}
<1>1. t[p] \in Node /\ p \in Path /\ Append(p, i) \in DOMAIN t
  BY DEF WellFormed, IsPaths
<1>2. i \in Nat \ {0}
  BY <1>1, NodeType
<1>3. t[Append(p, i)] \in Node
  BY <1>1 DEF WellFormed
<1> QED BY <1>1, <1>2, <1>3, PathAppend

LEMMA ParentPath ==
  ASSUME NEW t, WellFormed(t), NEW p \in DOMAIN t, p # << >>
  PROVE  /\ Front(p) \in DOMAIN t /\ Last(p) \in 1 .. t[Front(p)].child_count
         /\ p = Append(Front(p), Last(p)) /\ p \in Path
<1>1. p \in Path /\ Front(p) \in DOMAIN t /\ Last(p) \in 1 .. t[Front(p)].child_count
  BY DEF WellFormed, IsPaths
<1> QED BY <1>1, PathSplit

(* What is true of the root, and of the children of what it is true of, is *)
(* true of all nodes.                                                      *)
LEMMA TreeInduct ==
  ASSUME NEW t, WellFormed(t), NEW T, T \subseteq DOMAIN t, << >> \in T,
         \A p \in T : \A i \in 1 .. t[p].child_count : Append(p, i) \in T
  PROVE  T = DOMAIN t
<1>1. IsPaths(DOMAIN t)
  BY DEF WellFormed
<1>2. ASSUME NEW p \in DOMAIN t, p = << >> \/ Front(p) \in T PROVE p \in T
  <2>1. CASE p # << >>
    <3>1. /\ Front(p) \in DOMAIN t /\ Last(p) \in 1 .. t[Front(p)].child_count
          /\ p = Append(Front(p), Last(p))
      BY <1>2, <2>1, ParentPath, Zenon
    <3> QED BY <1>2, <2>1, <3>1, Zenon
  <2> QED BY <2>1
<1> QED BY <1>1, <1>2, PathInduct

LEMMA KidsAre ==
  ASSUME NEW t, WellFormed(t), NEW p \in DOMAIN t
  PROVE  /\ Kids(t, p) \in Seq(Node) /\ Len(Kids(t, p)) = t[p].child_count
         /\ t[p].child_count \in Nat /\ DOMAIN Kids(t, p) = 1 .. t[p].child_count
         /\ \A i \in 1 .. t[p].child_count : Kids(t, p)[i] = t[Append(p, i)]
<1>1. t[p] \in Node
  BY DEF WellFormed
<1>2. t[p].child_count \in Nat
  BY <1>1, NodeType
<1>3. \A i \in 1 .. t[p].child_count : t[Append(p, i)] \in Node
  BY ChildPath
<1> DEFINE n == t[p].child_count
           k == [i \in 1 .. n |-> t[Append(p, i)]]
<1>4. k \in [1 .. n -> Node]
  BY <1>3
<1>5. k \in Seq(Node) /\ Len(k) = n
  BY <1>2, <1>4, SeqDef, LenProperties
<1> QED BY <1>2, <1>5 DEF Kids

LEMMA ChildStartType ==
  ASSUME NEW t, WellFormed(t), NEW p \in DOMAIN t, NEW i \in 1 .. t[p].child_count
  PROVE  ChildStart(t, p, i) \in Nat
<1>1. i \in 1 .. Len(Kids(t, p)) + 1
  BY KidsAre
<1>2. Starts(Kids(t, p)) \in [1 .. Len(Kids(t, p)) + 1 -> Nat]
  BY KidsAre, StartsAre
<1> QED BY <1>1, <1>2 DEF ChildStart

(* A child begins where its parent does, and its elder siblings further.   *)
LEMMA BeginsAre ==
  ASSUME NEW t, WellFormed(t)
  PROVE  /\ Begins(t) \in [DOMAIN t -> Nat] /\ Begins(t)[<< >>] = 0
         /\ \A p \in DOMAIN t : \A i \in 1 .. t[p].child_count :
              Begins(t)[Append(p, i)] = Begins(t)[p] + ChildStart(t, p, i)
<1> DEFINE D == DOMAIN t
           B(f) == [p \in D |-> IF p = << >> THEN 0 ELSE f[Front(p)] + ChildStart(t, Front(p), Last(p))]
           step == [p \in D |-> [x \in Nat |-> IF p = << >> THEN x ELSE x + ChildStart(t, Front(p), Last(p))]]
           at == CHOOSE f : f = B(f)
<1>1. IsPaths(D) /\ << >> \in D
  BY DEF WellFormed
<1>2. \A p \in D : p # << >> => ChildStart(t, Front(p), Last(p)) \in Nat
  BY ParentPath, ChildStartType
<1>3. step \in [D -> [Nat -> Nat]]
  BY <1>2
<1>4. \A p \in D, x \in Nat : p # << >> => step[p][x] = x + ChildStart(t, Front(p), Last(p))
  OBVIOUS
<1> HIDE DEF step
<1>5. PICK g : IsPathRecursion(g, Nat, 0, D, step)
  <2>1. 0 \in Nat
    OBVIOUS
  <2> HIDE DEF D
  <2> QED BY <1>1, <1>3, <2>1, PathRecursion, Zenon
<1>6. g \in [D -> Nat] /\ g = [p \in D |-> IF p = << >> THEN 0 ELSE step[p][g[Front(p)]]]
  BY <1>5 DEF IsPathRecursion
<1>7. g = B(g)
  <2>1. ASSUME NEW p \in D
        PROVE  (IF p = << >> THEN 0 ELSE step[p][g[Front(p)]])
                 = (IF p = << >> THEN 0 ELSE g[Front(p)] + ChildStart(t, Front(p), Last(p)))
    <3>1. CASE p # << >>
      <4>1. Front(p) \in D
        BY <3>1, ParentPath
      <4> QED BY <1>4, <1>6, <3>1, <4>1
    <3> QED BY <3>1
  <2> QED BY <1>6, <2>1, Zenon
<1>8. Begins(t) = at
  BY Zenon DEF Begins
<1> HIDE DEF B
<1>9. at = B(at)
  BY <1>7, Zenon
<1> HIDE DEF at
<1>10. at[<< >>] = 0 /\ DOMAIN at = D /\ at = [p \in DOMAIN at |-> at[p]]
  BY <1>1, <1>9 DEF B
<1>11. ASSUME NEW p \in D, NEW i \in 1 .. t[p].child_count
       PROVE  at[Append(p, i)] = at[p] + ChildStart(t, p, i)
  <2>1. Append(p, i) \in D /\ Append(p, i) # << >> /\ Front(Append(p, i)) = p /\ Last(Append(p, i)) = i
    BY ChildPath
  <2>2. at[Append(p, i)] = at[Front(Append(p, i))] + ChildStart(t, Front(Append(p, i)), Last(Append(p, i)))
    BY <1>9, <2>1 DEF B
  <2> QED BY <2>1, <2>2
<1>12. \A p \in D : at[p] \in Nat
  <2> DEFINE T == {p \in D : at[p] \in Nat}
  <2>1. << >> \in T
    BY <1>1, <1>10
  <2>2. ASSUME NEW p \in T, NEW i \in 1 .. t[p].child_count PROVE Append(p, i) \in T
    BY <1>11, ChildPath, ChildStartType
  <2>3. T = D
    <3> HIDE DEF at, B
    <3>1. T \subseteq DOMAIN t
      OBVIOUS
    <3> HIDE DEF T
    <3> QED BY <2>1, <2>2, <3>1, TreeInduct
  <2> QED BY <2>3
<1> QED BY <1>8, <1>10, <1>11, <1>12

(* What follows the same equations is where the nodes begin.               *)
LEMMA BeginsOnly ==
  ASSUME NEW t, WellFormed(t), NEW f, f[<< >>] = 0,
         \A p \in DOMAIN t : \A i \in 1 .. t[p].child_count :
           f[Append(p, i)] = f[p] + ChildStart(t, p, i)
  PROVE  \A p \in DOMAIN t : f[p] = Begins(t)[p]
<1> DEFINE T == {p \in DOMAIN t : f[p] = Begins(t)[p]}
<1>1. << >> \in T
  BY BeginsAre DEF WellFormed
<1>2. ASSUME NEW p \in T, NEW i \in 1 .. t[p].child_count PROVE Append(p, i) \in T
  BY BeginsAre, ChildPath
<1>3. T \subseteq DOMAIN t
  OBVIOUS
<1> HIDE DEF T
<1>4. T = DOMAIN t
  BY <1>1, <1>2, <1>3, TreeInduct
<1> QED BY <1>4 DEF T

-----------------------------------------------------------------------------
(* What is called for on the nodes of a tree.                              *)
Call == [call : {"edit", "look", "none"}, start : Int, removed : Int, added : Int]

KidState == [right : Int, found : BOOLEAN, rest : Int, call : Call]

LEMMA CallTypes ==
  ASSUME NEW s \in Int, NEW r \in Int, NEW a \in Int
  PROVE  EditCall(s, r, a) \in Call /\ LookCall(s) \in Call /\ NoCall \in Call
  BY DEF EditCall, LookCall, NoCall, Call

LEMMA CallType ==
  ASSUME NEW c \in Call
  PROVE  c.call \in {"edit", "look", "none"} /\ c.start \in Int /\ c.removed \in Int /\ c.added \in Int
  BY DEF Call

(* ts_tree_edit changes the padding and the size of the node itself.       *)
LEMMA EditSelfType ==
  ASSUME NEW node \in Node, NEW e \in Call
  PROVE  /\ EditSelf(node, e).padding \in Int /\ EditSelf(node, e).size \in Int
         /\ Total(EditSelf(node, e)) \in Int
<1>1. node.padding \in Int /\ node.size \in Int /\ e.start \in Int /\ e.removed \in Int /\ e.added \in Int
  BY NodeType, CallType
<1>2. EditSelf(node, e).padding \in Int /\ EditSelf(node, e).size \in Int
  BY <1>1 DEF EditSelf, Node, Total
<1> QED BY <1>2 DEF Total

LEMMA EditChildType ==
  ASSUME NEW s \in KidState, NEW child \in Node, NEW e \in Call
  PROVE  EditChild(s, child, e) \in KidState
<1>1. /\ s.right \in Int /\ s.rest \in Int /\ Total(child) \in Int /\ Total(child) \in Nat
      /\ e.start \in Int /\ e.removed \in Int /\ e.added \in Int
  BY NodeType, CallType DEF KidState
<1>2. EditFirst(s, child, e) \in KidState
  <2> DEFINE end  == s.right + Total(child)
             cut  == IF e.start + e.removed > end THEN end - e.start ELSE e.removed
             call == EditCall(e.start - s.right, cut, e.added)
             total == Total(EditSelf(child, call))
  <2>1. cut \in Int
    BY <1>1
  <2>2. call \in Call
    BY <1>1, <2>1, CallTypes
  <2>3. total \in Int
    BY <2>2, EditSelfType
  <2>4. EditFirst(s, child, e) = [right |-> s.right + total, found |-> TRUE, rest |-> e.removed - cut, call |-> call]
    BY DEF EditFirst
  <2> HIDE DEF total, call, cut
  <2> QED BY <1>1, <2>1, <2>2, <2>3, <2>4 DEF KidState
<1>3. EditRest(s, child) \in KidState
  <2> DEFINE share == IF s.rest < Total(child) THEN s.rest ELSE Total(child)
             call == EditCall(0, share, 0)
             total == Total(EditSelf(child, call))
  <2>1. share \in Int
    BY <1>1
  <2>2. call \in Call
    BY <1>1, <2>1, CallTypes
  <2>3. total \in Int
    BY <2>2, EditSelfType
  <2>4. EditRest(s, child) = [right |-> s.right + total, found |-> TRUE, rest |-> s.rest - share, call |-> call]
    BY DEF EditRest
  <2> HIDE DEF total, call, share
  <2> QED BY <1>1, <2>1, <2>2, <2>3, <2>4 DEF KidState
<1>4. EditNone(s, child, e) \in KidState
  <2> DEFINE right == s.right + Total(child)
             look  == LookCall((e.start - s.right) % Word)
  <2>1. right \in Int /\ (e.start - s.right) % Word \in Int /\ s.found \in BOOLEAN /\ s.rest \in Int
    BY <1>1, TreeEditAssumption DEF KidState
  <2>2. look \in Call
    BY <2>1, CallTypes
  <2>3. EditNone(s, child, e) = [right |-> right, found |-> s.found, rest |-> s.rest, call |-> look]
    BY DEF EditNone
  <2> HIDE DEF right, look
  <2> QED BY <2>1, <2>2, <2>3 DEF KidState
<1> QED BY <1>2, <1>3, <1>4 DEF EditChild

(* The loop over the children, one step at a time.                         *)
LEMMA KidStates ==
  ASSUME NEW nodes \in Seq(Node), NEW e \in Call
  PROVE  /\ EditKids(nodes, e) \in [0 .. Len(nodes) -> KidState]
         /\ EditKids(nodes, e)[0] = [right |-> 0, found |-> FALSE, rest |-> 0, call |-> NoCall]
         /\ \A i \in 1 .. Len(nodes) :
              EditKids(nodes, e)[i] = EditChild(EditKids(nodes, e)[i - 1], nodes[i], e)
<1> DEFINE n == Len(nodes)
           first == [right |-> 0, found |-> FALSE, rest |-> 0, call |-> NoCall]
           B(f) == [i \in 0 .. n |-> IF i = 0 THEN first ELSE EditChild(f[i - 1], nodes[i], e)]
           step == [i \in 0 .. n |-> [x \in KidState |-> IF i = 0 THEN x ELSE EditChild(x, nodes[i], e)]]
           after == CHOOSE f : f = B(f)
<1>1. n \in Nat /\ \A i \in 1 .. n : nodes[i] \in Node
  BY ElementOfSeq
<1>2. first \in KidState
  <2>1. NoCall \in Call
    BY CallTypes
  <2> QED BY <2>1 DEF KidState
<1> HIDE DEF first
<1>3. step \in [0 .. n -> [KidState -> KidState]]
  <2>1. ASSUME NEW i \in 0 .. n, NEW x \in KidState PROVE (IF i = 0 THEN x ELSE EditChild(x, nodes[i], e)) \in KidState
    <3>1. CASE i # 0
      <4>1. nodes[i] \in Node
        BY <1>1, <3>1
      <4> QED BY <3>1, <4>1, EditChildType
    <3> QED BY <3>1
  <2> QED BY <2>1
<1>4. \A i \in 0 .. n, x \in KidState : i # 0 => step[i][x] = EditChild(x, nodes[i], e)
  OBVIOUS
<1> HIDE DEF step
<1>5. PICK g : IsRecursion(g, KidState, first, 0, n, step)
  <2>1. 0 \in Nat
    OBVIOUS
  <2> HIDE DEF n
  <2> QED BY <1>1, <1>2, <1>3, <2>1, Recursion, Zenon
<1>6. g \in [0 .. n -> KidState] /\ g = [i \in 0 .. n |-> IF i = 0 THEN first ELSE step[i][g[i - 1]]]
  BY <1>5 DEF IsRecursion
<1>7. ASSUME NEW f \in [0 .. n -> KidState], NEW i \in 0 .. n, i # 0
      PROVE  step[i][f[i - 1]] = EditChild(f[i - 1], nodes[i], e) /\ f[i - 1] \in KidState
  <2>1. i - 1 \in 0 .. n
    BY <1>1, <1>7
  <2> QED BY <1>4, <1>7, <2>1
<1>8. g = B(g)
  <2>1. ASSUME NEW i \in 0 .. n
        PROVE  (IF i = 0 THEN first ELSE step[i][g[i - 1]]) = (IF i = 0 THEN first ELSE EditChild(g[i - 1], nodes[i], e))
    BY <1>6, <1>7, Zenon
  <2> QED BY <1>6, <2>1, Zenon
<1>9. EditKids(nodes, e) = after
  BY Zenon DEF EditKids, first
<1> HIDE DEF B
<1>10. after = B(after)
  BY <1>8, Zenon
<1> HIDE DEF after
<1>11. after[0] = first /\ DOMAIN after = 0 .. n /\ after = [i \in DOMAIN after |-> after[i]]
  BY <1>1, <1>10 DEF B
<1>12. ASSUME NEW i \in 1 .. n PROVE after[i] = EditChild(after[i - 1], nodes[i], e)
  <2>1. i \in 0 .. n /\ i # 0
    BY <1>1
  <2> QED BY <1>10, <2>1 DEF B
<1>13. \A i \in 0 .. n : after[i] \in KidState
  <2> DEFINE T == {k \in Nat : k <= n => after[k] \in KidState}
  <2>1. 0 \in T
    BY <1>2, <1>11
  <2>2. ASSUME NEW k \in T PROVE k + 1 \in T
    <3>1. CASE k + 1 <= n
      <4>1. k + 1 \in 1 .. n /\ (k + 1) - 1 = k /\ k <= n
        BY <1>1, <3>1
      <4>2. after[k] \in KidState /\ after[k + 1] = EditChild(after[k], nodes[k + 1], e) /\ nodes[k + 1] \in Node
        BY <1>1, <1>12, <4>1
      <4>3. after[k + 1] \in KidState
        BY <4>2, EditChildType
      <4> QED BY <4>3
    <3> QED BY <3>1
  <2>3. T \in SUBSET Nat
    OBVIOUS
  <2> HIDE DEF T
  <2>4. T = Nat
    BY <2>1, <2>2, <2>3, Induct
  <2> QED BY <1>1, <2>4 DEF T
<1> QED BY <1>9, <1>11, <1>12, <1>13 DEF first

LEMMA CallForType ==
  ASSUME NEW t, WellFormed(t), NEW p \in DOMAIN t, NEW i \in 1 .. t[p].child_count, NEW c \in Call
  PROVE  CallFor(t, p, c, i) \in Call
<1>1. CASE c.call = "edit"
  <2>1. i \in 0 .. Len(Kids(t, p))
    BY KidsAre
  <2>2. EditKids(Kids(t, p), c)[i] \in KidState
    BY <2>1, KidsAre, KidStates
  <2>3. EditKids(Kids(t, p), c)[i].call \in Call
    BY <2>2 DEF KidState
  <2> QED BY <1>1, <2>3 DEF CallFor
<1>2. CASE c.call = "look"
  <2>1. LookFor(t, p, c.start, i) \in Call
    <3>1. c.start - ChildStart(t, p, i) \in Int
      BY ChildStartType, CallType
    <3> QED BY <3>1, CallTypes DEF LookFor
  <2> QED BY <1>2, <2>1 DEF CallFor
<1>3. CASE c.call = "none"
  BY <1>3, CallTypes DEF CallFor
<1> QED BY <1>1, <1>2, <1>3, CallType

LEMMA CallsAre ==
  ASSUME NEW t, WellFormed(t), NEW e \in Call
  PROVE  /\ Calls(t, e) \in [DOMAIN t -> Call] /\ Calls(t, e)[<< >>] = e
         /\ \A p \in DOMAIN t : \A i \in 1 .. t[p].child_count :
              Calls(t, e)[Append(p, i)] = CallFor(t, p, Calls(t, e)[p], i)
<1> DEFINE D == DOMAIN t
           B(f) == [p \in D |-> IF p = << >> THEN e ELSE CallFor(t, Front(p), f[Front(p)], Last(p))]
           step == [p \in D |-> [x \in Call |-> IF p = << >> THEN x ELSE CallFor(t, Front(p), x, Last(p))]]
           call == CHOOSE f : f = B(f)
<1>1. IsPaths(D) /\ << >> \in D
  BY DEF WellFormed
<1>2. \A p \in D, x \in Call : p # << >> => CallFor(t, Front(p), x, Last(p)) \in Call
  BY ParentPath, CallForType
<1>3. step \in [D -> [Call -> Call]]
  BY <1>2
<1>4. \A p \in D, x \in Call : p # << >> => step[p][x] = CallFor(t, Front(p), x, Last(p))
  OBVIOUS
<1> HIDE DEF step
<1>5. PICK g : IsPathRecursion(g, Call, e, D, step)
  <2> HIDE DEF D
  <2> QED BY <1>1, <1>3, PathRecursion, Zenon
<1>6. g \in [D -> Call] /\ g = [p \in D |-> IF p = << >> THEN e ELSE step[p][g[Front(p)]]]
  BY <1>5 DEF IsPathRecursion
<1>7. g = B(g)
  <2>1. ASSUME NEW p \in D
        PROVE  (IF p = << >> THEN e ELSE step[p][g[Front(p)]])
                 = (IF p = << >> THEN e ELSE CallFor(t, Front(p), g[Front(p)], Last(p)))
    <3>1. CASE p # << >>
      <4>1. Front(p) \in D
        BY <3>1, ParentPath
      <4> QED BY <1>4, <1>6, <3>1, <4>1
    <3> QED BY <3>1
  <2> QED BY <1>6, <2>1, Zenon
<1>8. Calls(t, e) = call
  BY Zenon DEF Calls
<1> HIDE DEF B
<1>9. call = B(call)
  BY <1>7, Zenon
<1> HIDE DEF call
<1>10. call[<< >>] = e /\ DOMAIN call = D /\ call = [p \in DOMAIN call |-> call[p]]
  BY <1>1, <1>9 DEF B
<1>11. ASSUME NEW p \in D, NEW i \in 1 .. t[p].child_count
       PROVE  call[Append(p, i)] = CallFor(t, p, call[p], i)
  <2>1. Append(p, i) \in D /\ Append(p, i) # << >> /\ Front(Append(p, i)) = p /\ Last(Append(p, i)) = i
    BY ChildPath
  <2>2. call[Append(p, i)] = CallFor(t, Front(Append(p, i)), call[Front(Append(p, i))], Last(Append(p, i)))
    BY <1>9, <2>1 DEF B
  <2> QED BY <2>1, <2>2
<1>12. \A p \in D : call[p] \in Call
  <2> DEFINE T == {p \in D : call[p] \in Call}
  <2>1. << >> \in T
    BY <1>1, <1>10
  <2>2. ASSUME NEW p \in T, NEW i \in 1 .. t[p].child_count PROVE Append(p, i) \in T
    BY <1>11, ChildPath, CallForType
  <2>3. T = D
    <3> HIDE DEF call, B
    <3>1. T \subseteq DOMAIN t
      OBVIOUS
    <3> HIDE DEF T
    <3> QED BY <2>1, <2>2, <3>1, TreeInduct
  <2> QED BY <2>3
<1> QED BY <1>8, <1>10, <1>11, <1>12

-----------------------------------------------------------------------------
(* The lengths an edit leaves.                                             *)
IsEdit(e, length) ==
  /\ e \in Call /\ e.call = "edit"
  /\ e.start \in Nat /\ e.removed \in Nat /\ e.added \in Nat
  /\ e.start + e.removed <= length

LEMMA CallFields ==
  ASSUME NEW s, NEW r, NEW a
  PROVE  /\ EditCall(s, r, a).call = "edit" /\ EditCall(s, r, a).start = s
         /\ EditCall(s, r, a).removed = r /\ EditCall(s, r, a).added = a
         /\ LookCall(s).call = "look" /\ LookCall(s).start = s
         /\ NoCall.call = "none"
  BY DEF EditCall, LookCall, NoCall

(* A node that is edited within its bounds gets longer by what is added    *)
(* and shorter by what is removed.                                         *)
LEMMA EditSelfSpans ==
  ASSUME NEW node \in Node, NEW e, IsEdit(e, Total(node))
  PROVE  /\ EditSelf(node, e) \in Node
         /\ Total(EditSelf(node, e)) = Total(node) + e.added - e.removed
         /\ EditSelf(node, e).child_count = node.child_count
         /\ EditSelf(node, e).bytes_scanned = node.bytes_scanned
         /\ EditSelf(node, e).lexedAt = node.lexedAt
<1> DEFINE p == node.padding
           z == node.size
           s == e.start
           r == e.removed
           a == e.added
           n == EditSelf(node, e)
<1>1. p \in Nat /\ z \in Nat /\ Total(node) = p + z /\ s \in Nat /\ r \in Nat /\ a \in Nat /\ s + r <= p + z
  BY NodeType DEF IsEdit, Total
<1>2. ASSUME NEW x \in Nat
      PROVE  /\ [node EXCEPT !.padding = x] \in Node /\ [node EXCEPT !.padding = x].padding = x
             /\ [node EXCEPT !.padding = x].size = z
             /\ [node EXCEPT !.padding = x].child_count = node.child_count
             /\ [node EXCEPT !.padding = x].bytes_scanned = node.bytes_scanned
             /\ [node EXCEPT !.padding = x].lexedAt = node.lexedAt
  BY DEF Node
<1>3. ASSUME NEW x \in Nat
      PROVE  /\ [node EXCEPT !.size = x] \in Node /\ [node EXCEPT !.size = x].padding = p
             /\ [node EXCEPT !.size = x].size = x
             /\ [node EXCEPT !.size = x].child_count = node.child_count
             /\ [node EXCEPT !.size = x].bytes_scanned = node.bytes_scanned
             /\ [node EXCEPT !.size = x].lexedAt = node.lexedAt
  BY DEF Node
<1>4. ASSUME NEW x \in Nat, NEW y \in Nat
      PROVE  /\ [node EXCEPT !.padding = x, !.size = y] \in Node
             /\ [node EXCEPT !.padding = x, !.size = y].padding = x
             /\ [node EXCEPT !.padding = x, !.size = y].size = y
             /\ [node EXCEPT !.padding = x, !.size = y].child_count = node.child_count
             /\ [node EXCEPT !.padding = x, !.size = y].bytes_scanned = node.bytes_scanned
             /\ [node EXCEPT !.padding = x, !.size = y].lexedAt = node.lexedAt
  BY DEF Node
<1> HIDE DEF p, z, s, r, a
<1> DEFINE Good == /\ n \in Node /\ Total(n) = Total(node) + a - r
                   /\ n.child_count = node.child_count
                   /\ n.bytes_scanned = node.bytes_scanned /\ n.lexedAt = node.lexedAt
<1>5. CASE s < p /\ s + r <= p
  <2> DEFINE x == s + a + (p - (s + r))
  <2>1. n = [node EXCEPT !.padding = x]
    BY <1>5 DEF EditSelf, p, z, s, r, a
  <2>2. x \in Nat /\ x + z = p + z + a - r
    BY <1>1, <1>5
  <2> HIDE DEF x, n
  <2>3. /\ n \in Node /\ n.padding = x /\ n.size = z /\ n.child_count = node.child_count
        /\ n.bytes_scanned = node.bytes_scanned /\ n.lexedAt = node.lexedAt
    BY <1>2, <2>1, <2>2
  <2> QED BY <1>1, <2>2, <2>3 DEF Total, n, r, a
<1>6. CASE s < p /\ ~ (s + r <= p)
  <2> DEFINE x == s + a
             y == z - ((s + r) - p)
  <2>1. n = [node EXCEPT !.padding = x, !.size = y]
    <3>1. x = e.start + e.added /\ y = node.size - ((e.start + e.removed) - node.padding)
      BY DEF z, s, r, p, a
    <3> HIDE DEF x, y
    <3> QED BY <1>6, <3>1 DEF EditSelf, p, s, r
  <2>2. x \in Nat /\ y \in Nat /\ x + y = p + z + a - r
    BY <1>1, <1>6
  <2> HIDE DEF x, y, n
  <2>3. /\ n \in Node /\ n.padding = x /\ n.size = y /\ n.child_count = node.child_count
        /\ n.bytes_scanned = node.bytes_scanned /\ n.lexedAt = node.lexedAt
    BY <1>4, <2>1, <2>2
  <2> QED BY <1>1, <2>2, <2>3 DEF Total, n, r, a
<1>7. CASE ~ (s < p) /\ s = p /\ r = 0
  <2> DEFINE x == p + a
  <2>1. n = [node EXCEPT !.padding = x]
    BY <1>7 DEF EditSelf, p, z, s, r, a
  <2>2. x \in Nat /\ x + z = p + z + a - r
    BY <1>1, <1>7
  <2> HIDE DEF x, n
  <2>3. /\ n \in Node /\ n.padding = x /\ n.size = z /\ n.child_count = node.child_count
        /\ n.bytes_scanned = node.bytes_scanned /\ n.lexedAt = node.lexedAt
    BY <1>2, <2>1, <2>2
  <2> QED BY <1>1, <2>2, <2>3 DEF Total, n, r, a
<1>8. CASE ~ (s < p) /\ ~ (s = p /\ r = 0)
  <2> DEFINE x == s + a + (Total(node) - (s + r)) - p
  <2>1. n = [node EXCEPT !.size = x]
    BY <1>8 DEF EditSelf, p, z, s, r, a
  <2>2. x \in Nat /\ p + x = p + z + a - r
    BY <1>1, <1>8
  <2> HIDE DEF x, n
  <2>3. /\ n \in Node /\ n.padding = p /\ n.size = x /\ n.child_count = node.child_count
        /\ n.bytes_scanned = node.bytes_scanned /\ n.lexedAt = node.lexedAt
    BY <1>3, <2>1, <2>2
  <2> QED BY <1>1, <2>2, <2>3 DEF Total, n, r, a
<1> QED BY <1>5, <1>6, <1>7, <1>8

(* Where the loop over the children stands: "at" is where the next child   *)
(* starts.                                                                 *)
LoopAt(x, e, at, some) ==
  /\ ~ x.found => x.right = at /\ x.rest = 0 /\ (some => at < e.start)
  /\ x.found => /\ e.start <= at
                /\ x.rest = IF e.start + e.removed > at THEN e.start + e.removed - at ELSE 0
                /\ x.right = at + e.added - e.removed + x.rest

(* What is called for on a child from b to d, which will start at nb: the  *)
(* ones the edit does not reach yet, the first it touches, the ones the    *)
(* rest of the deletion is taken from, and the ones behind.                *)
LeftOf(b, d, e, c, nb) ==
  d < e.start /\ c = LookCall((e.start - b) % Word) /\ nb = b
Touched(b, d, e, c, nb) ==
  /\ b <= e.start /\ e.start <= d /\ nb = b
  /\ c = EditCall(e.start - b, (IF e.start + e.removed > d THEN d ELSE e.start + e.removed) - e.start, e.added)
Cut(b, d, e, c, nb) ==
  /\ e.start <= b /\ b < e.start + e.removed /\ nb = e.start + e.added
  /\ c = EditCall(0, (IF e.start + e.removed > d THEN d ELSE e.start + e.removed) - b, 0)
RightOf(b, e, c, nb) ==
  /\ e.start + e.removed <= b /\ nb = b + e.added - e.removed
  /\ c = LookCall((e.start - nb) % Word)

ChildCall(b, d, e, c, nb) ==
  LeftOf(b, d, e, c, nb) \/ Touched(b, d, e, c, nb) \/ Cut(b, d, e, c, nb) \/ RightOf(b, e, c, nb)

LEMMA CalledTotal ==
  ASSUME NEW node \in Node, NEW c \in Call
  PROVE  /\ c.call = "edit" => Total(Called(node, c)) = Total(EditSelf(node, c))
         /\ c.call # "edit" => Total(Called(node, c)) = Total(node)
<1>1. ASSUME NEW m PROVE Total([m EXCEPT !.has_changes = TRUE]) = Total(m)
  BY DEF Total
<1>2. CASE c.call = "edit"
  BY <1>1, <1>2 DEF Called
<1>3. CASE c.call = "look"
  BY <1>1, <1>3 DEF Called, Invalidated
<1>4. CASE c.call = "none"
  BY <1>4 DEF Called
<1> QED BY <1>2, <1>3, <1>4, CallType

(* One step of the loop.                                                   *)
LEMMA LoopStep ==
  ASSUME NEW x \in KidState, NEW child \in Node, NEW e, NEW length, IsEdit(e, length),
         NEW b \in Nat, NEW d \in Nat, d = b + Total(child), NEW some \in BOOLEAN, ~ some => b = 0,
         LoopAt(x, e, b, some)
  PROVE  /\ LoopAt(EditChild(x, child, e), e, d, TRUE)
         /\ ChildCall(b, d, e, EditChild(x, child, e).call, x.right)
         /\ EditChild(x, child, e).right = x.right + Total(Called(child, EditChild(x, child, e).call))
<1> DEFINE s == e.start
           r == e.removed
           a == e.added
           y == EditChild(x, child, e)
<1>1. /\ s \in Nat /\ r \in Nat /\ a \in Nat /\ e \in Call /\ Total(child) \in Nat
      /\ x.right \in Int /\ x.rest \in Int /\ x.found \in BOOLEAN
  BY NodeType DEF IsEdit, KidState
<1>2. CASE ~ x.found /\ x.right + Total(child) >= e.start
  <2> DEFINE end  == x.right + Total(child)
             cut  == IF e.start + e.removed > end THEN end - e.start ELSE e.removed
             call == EditCall(e.start - x.right, cut, e.added)
             total == Total(EditSelf(child, call))
  <2>1. y = [right |-> x.right + total, found |-> TRUE, rest |-> e.removed - cut, call |-> call]
    BY <1>2 DEF EditChild, EditFirst
  <2>2. x.right = b /\ x.rest = 0 /\ (some => b < s) /\ end = d /\ b <= s /\ s <= d
    BY <1>1, <1>2 DEF LoopAt
  <2>3. cut \in Nat /\ (s - b) \in Nat /\ (s - b) + cut <= Total(child)
    BY <1>1, <2>2
  <2>4. IsEdit(call, Total(child))
    <3> HIDE DEF cut
    <3>1. s - x.right \in Int /\ cut \in Int /\ a \in Int
      BY <1>1, <2>3
    <3>2. call \in Call
      BY <3>1, CallTypes
    <3>3. call.call = "edit" /\ call.start = s - x.right /\ call.removed = cut /\ call.added = a
      BY CallFields
    <3> HIDE DEF call
    <3> QED BY <1>1, <2>2, <2>3, <3>2, <3>3 DEF IsEdit
  <2>5. total = Total(child) + a - cut /\ Total(Called(child, call)) = total
    <3>1. total = Total(child) + call.added - call.removed
      BY <2>4, EditSelfSpans
    <3>2. call \in Call /\ call.call = "edit" /\ call.added = a /\ call.removed = cut
      BY <2>4, CallFields DEF IsEdit
    <3> QED BY <3>1, <3>2, CalledTotal
  <2>6. cut = (IF s + r > d THEN d ELSE s + r) - s
    BY <1>1, <2>2
  <2>7. Touched(b, d, e, call, x.right)
    BY <2>2, <2>6 DEF Touched
  <2>8. y.right = b + total /\ y.found = TRUE /\ y.rest = r - cut /\ y.call = call
    BY <2>1, <2>2
  <2> HIDE DEF total, call, cut, y
  <2>9. LoopAt(y, e, d, TRUE)
    BY <1>1, <2>2, <2>5, <2>6, <2>8 DEF LoopAt
  <2> QED BY <2>2, <2>5, <2>7, <2>8, <2>9 DEF y, ChildCall
<1>3. CASE ~ (~ x.found /\ x.right + Total(child) >= e.start) /\ x.rest > 0
  <2> DEFINE share == IF x.rest < Total(child) THEN x.rest ELSE Total(child)
             call == EditCall(0, share, 0)
             total == Total(EditSelf(child, call))
  <2>1. y = [right |-> x.right + total, found |-> TRUE, rest |-> x.rest - share, call |-> call]
    BY <1>3 DEF EditChild, EditRest
  <2>2. x.found
    BY <1>1, <1>3 DEF LoopAt
  <2>3. s <= b /\ b < s + r /\ x.rest = s + r - b /\ x.right = s + a
    BY <1>1, <1>3, <2>2 DEF LoopAt
  <2>4. share \in Nat /\ share <= Total(child)
    BY <1>1, <2>3
  <2>5. IsEdit(call, Total(child))
    <3> HIDE DEF share
    <3>1. call \in Call
      BY <2>4, CallTypes
    <3>2. call.call = "edit" /\ call.start = 0 /\ call.removed = share /\ call.added = 0
      BY CallFields
    <3> HIDE DEF call
    <3> QED BY <1>1, <2>4, <3>1, <3>2 DEF IsEdit
  <2>6. total = Total(child) - share /\ Total(Called(child, call)) = total
    <3>1. total = Total(child) + call.added - call.removed
      BY <2>5, EditSelfSpans
    <3>2. call \in Call /\ call.call = "edit" /\ call.added = 0 /\ call.removed = share
      BY <2>5, CallFields DEF IsEdit
    <3> QED BY <1>1, <2>4, <3>1, <3>2, CalledTotal
  <2>7. share = (IF s + r > d THEN d ELSE s + r) - b
    BY <1>1, <2>3
  <2>8. Cut(b, d, e, call, x.right)
    BY <2>3, <2>7 DEF Cut
  <2>9. y.right = x.right + total /\ y.found = TRUE /\ y.rest = x.rest - share /\ y.call = call
    BY <2>1
  <2> HIDE DEF total, call, share, y
  <2>10. LoopAt(y, e, d, TRUE)
    <3>1. CASE s + r > d
      <4>1. y.rest = s + r - d /\ y.right = s + a /\ s <= d
        BY <1>1, <2>3, <2>6, <2>7, <2>9, <3>1
      <4> QED BY <1>1, <2>9, <3>1, <4>1 DEF LoopAt
    <3>2. CASE ~ (s + r > d)
      <4>1. y.rest = 0 /\ y.right = d + a - r /\ s <= d
        BY <1>1, <2>3, <2>6, <2>7, <2>9, <3>2
      <4> QED BY <1>1, <2>9, <3>2, <4>1 DEF LoopAt
    <3> QED BY <3>1, <3>2
  <2> QED BY <2>6, <2>8, <2>9, <2>10 DEF y, ChildCall
<1>4. CASE ~ (~ x.found /\ x.right + Total(child) >= e.start) /\ ~ (x.rest > 0)
  <2> DEFINE look == LookCall((s - x.right) % Word)
  <2>1. y = [right |-> x.right + Total(child), found |-> x.found, rest |-> x.rest, call |-> look]
    BY <1>4 DEF EditChild, EditNone
  <2>2. y.right = x.right + Total(child) /\ y.found = x.found /\ y.rest = x.rest /\ y.call = look
    BY <2>1
  <2>3. look.call = "look" /\ look \in Call
    <3>1. (s - x.right) % Word \in Int
      BY <1>1, TreeEditAssumption
    <3> QED BY <3>1, CallFields, CallTypes
  <2>4. Total(Called(child, look)) = Total(child)
    BY <2>3, CalledTotal
  <2>5. CASE ~ x.found
    <3>1. x.right = b /\ x.rest = 0 /\ d < s
      BY <1>1, <1>4, <2>5 DEF LoopAt
    <3>2. LeftOf(b, d, e, look, x.right)
      BY <3>1 DEF LeftOf
    <3> HIDE DEF look, y
    <3>3. LoopAt(y, e, d, TRUE)
      BY <1>1, <2>2, <2>5, <3>1 DEF LoopAt
    <3> QED BY <2>2, <2>4, <3>2, <3>3 DEF y, ChildCall
  <2>6. CASE x.found
    <3>1. s <= b /\ s + r <= b /\ x.rest = 0 /\ x.right = b + a - r
      BY <1>1, <1>4, <2>6 DEF LoopAt
    <3>2. RightOf(b, e, look, x.right)
      BY <3>1 DEF RightOf
    <3> HIDE DEF look, y
    <3>3. LoopAt(y, e, d, TRUE)
      BY <1>1, <2>2, <2>6, <3>1 DEF LoopAt
    <3> QED BY <2>2, <2>4, <3>2, <3>3 DEF y, ChildCall
  <2> QED BY <1>1, <2>5, <2>6
<1> QED BY <1>2, <1>3, <1>4

(* All of the loop.                                                        *)
LEMMA KidsLoop ==
  ASSUME NEW nodes \in Seq(Node), NEW e, IsEdit(e, TotalOf(nodes))
  PROVE  /\ EditKids(nodes, e)[0].right = 0
         /\ \A i \in 1 .. Len(nodes) :
              /\ EditKids(nodes, e)[i].call \in Call /\ EditKids(nodes, e)[i - 1].right \in Int
              /\ ChildCall(Starts(nodes)[i], Starts(nodes)[i + 1], e, EditKids(nodes, e)[i].call,
                           EditKids(nodes, e)[i - 1].right)
              /\ EditKids(nodes, e)[i].right
                   = EditKids(nodes, e)[i - 1].right + Total(Called(nodes[i], EditKids(nodes, e)[i].call))
         /\ Len(nodes) > 0 => EditKids(nodes, e)[Len(nodes)].right = TotalOf(nodes) + e.added - e.removed
<1> DEFINE n == Len(nodes)
           S == Starts(nodes)
           K == EditKids(nodes, e)
           T == {k \in Nat : k <= n => LoopAt(K[k], e, S[k + 1], k > 0)}
<1>1. /\ n \in Nat /\ S \in [1 .. n + 1 -> Nat] /\ S[1] = 0
      /\ \A i \in 1 .. n : S[i + 1] = S[i] + Total(nodes[i]) /\ nodes[i] \in Node
      /\ e \in Call /\ e.start \in Nat /\ e.removed \in Nat /\ e.added \in Nat /\ e.start + e.removed <= TotalOf(nodes)
      /\ TotalOf(nodes) = S[n + 1]
  BY StartsAre, ElementOfSeq DEF IsEdit, TotalOf
<1>2. /\ K \in [0 .. n -> KidState]
      /\ K[0] = [right |-> 0, found |-> FALSE, rest |-> 0, call |-> NoCall]
      /\ \A i \in 1 .. n : K[i] = EditChild(K[i - 1], nodes[i], e)
  BY <1>1, KidStates
<1> HIDE DEF n, S, K
<1>3. ASSUME NEW i \in 1 .. n, LoopAt(K[i - 1], e, S[i], i > 1)
      PROVE  /\ LoopAt(K[i], e, S[i + 1], TRUE)
             /\ ChildCall(S[i], S[i + 1], e, K[i].call, K[i - 1].right)
             /\ K[i].right = K[i - 1].right + Total(Called(nodes[i], K[i].call))
  <2> DEFINE x == K[i - 1]
             b == S[i]
             d == S[i + 1]
             some == i > 1
  <2>1. i - 1 \in 0 .. n /\ i \in 1 .. n + 1 /\ i + 1 \in 1 .. n + 1
    BY <1>1
  <2>2. x \in KidState /\ K[i] = EditChild(x, nodes[i], e)
    BY <1>2, <2>1
  <2>3. b \in Nat /\ d \in Nat /\ d = b + Total(nodes[i])
    BY <1>1, <2>1
  <2>4. some \in BOOLEAN /\ (~ some => b = 0)
    BY <1>1
  <2>5. LoopAt(x, e, b, some)
    BY <1>3
  <2> HIDE DEF x, b, d, some
  <2>6. nodes[i] \in Node /\ IsEdit(e, TotalOf(nodes))
    BY <1>1
  <2>7. /\ LoopAt(EditChild(x, nodes[i], e), e, d, TRUE)
        /\ ChildCall(b, d, e, EditChild(x, nodes[i], e).call, x.right)
        /\ EditChild(x, nodes[i], e).right = x.right + Total(Called(nodes[i], EditChild(x, nodes[i], e).call))
    <3> DEFINE child == nodes[i]
               length == TotalOf(nodes)
    <3>1. child \in Node /\ IsEdit(e, length)
      BY <2>6
    <3>2. d = b + Total(child)
      BY <2>3
    <3> HIDE DEF child, length
    <3>3. /\ LoopAt(EditChild(x, child, e), e, d, TRUE)
          /\ ChildCall(b, d, e, EditChild(x, child, e).call, x.right)
          /\ EditChild(x, child, e).right = x.right + Total(Called(child, EditChild(x, child, e).call))
      BY <2>2, <2>3, <2>4, <2>5, <3>1, <3>2, LoopStep
    <3> QED BY <3>3 DEF child
  <2> QED BY <2>2, <2>7, Zenon DEF x, b, d
<1>4. T = Nat
  <2>1. 0 \in T
    <3>1. K[0].right = 0 /\ K[0].found = FALSE /\ K[0].rest = 0 /\ 0 + 1 = 1 /\ ~ (0 > 0)
      BY <1>2
    <3>2. LoopAt(K[0], e, S[1], 0 > 0)
      BY <1>1, <3>1 DEF LoopAt
    <3> QED BY <3>1, <3>2
  <2>2. ASSUME NEW k \in T PROVE k + 1 \in T
    <3>1. CASE k + 1 <= n
      <4>1. k + 1 \in 1 .. n /\ (k + 1) - 1 = k /\ k <= n /\ (k + 1 > 1) = (k > 0) /\ k + 1 > 0 /\ k + 1 \in Nat
        BY <1>1, <3>1
      <4>2. LoopAt(K[(k + 1) - 1], e, S[k + 1], k + 1 > 1)
        BY <4>1, Zenon
      <4>3. LoopAt(K[k + 1], e, S[(k + 1) + 1], TRUE)
        BY <1>3, <4>1, <4>2
      <4>4. (k + 1 > 0) = TRUE
        BY <4>1
      <4> QED BY <4>1, <4>3, <4>4, Zenon
    <3> QED BY <3>1
  <2>3. T \in SUBSET Nat
    OBVIOUS
  <2> HIDE DEF T
  <2> QED BY <2>1, <2>2, <2>3, Induct
<1>5. ASSUME NEW i \in 0 .. n PROVE LoopAt(K[i], e, S[i + 1], i > 0)
  <2> HIDE DEF T
  <2>1. i \in T /\ i <= n
    BY <1>1, <1>4
  <2> QED BY <2>1, Zenon DEF T
<1>6. ASSUME NEW i \in 1 .. n
      PROVE  /\ K[i].call \in Call /\ K[i - 1].right \in Int
             /\ ChildCall(S[i], S[i + 1], e, K[i].call, K[i - 1].right)
             /\ K[i].right = K[i - 1].right + Total(Called(nodes[i], K[i].call))
  <2>1. i - 1 \in 0 .. n /\ i \in 0 .. n /\ (i - 1) + 1 = i /\ (i - 1 > 0) = (i > 1)
    BY <1>1
  <2>2. LoopAt(K[i - 1], e, S[(i - 1) + 1], i - 1 > 0)
    BY <1>5, <2>1
  <2>3. LoopAt(K[i - 1], e, S[i], i > 1)
    BY <2>1, <2>2, Zenon
  <2>4. K[i] \in KidState /\ K[i - 1] \in KidState
    BY <1>2, <2>1
  <2> QED BY <1>3, <2>3, <2>4 DEF KidState
<1>7. ASSUME n > 0 PROVE K[n].right = TotalOf(nodes) + e.added - e.removed
  <2>1. LoopAt(K[n], e, S[n + 1], n > 0) /\ K[n] \in KidState /\ S[n + 1] \in Nat
    BY <1>1, <1>2, <1>5
  <2> DEFINE x == K[n]
             d == S[n + 1]
             some == n > 0
  <2>2. LoopAt(x, e, d, some) /\ some = TRUE /\ x.found \in BOOLEAN /\ d \in Nat /\ d = TotalOf(nodes)
    BY <1>1, <1>7, <2>1 DEF KidState
  <2> HIDE DEF x, d, some
  <2>3. x.right = d + e.added - e.removed
    BY <1>1, <2>2 DEF LoopAt
  <2> QED BY <2>2, <2>3 DEF x
<1> QED BY <1>2, <1>6, <1>7 DEF n, S, K

(* What a child gets is within its bounds.                                 *)
LEMMA ChildEdit ==
  ASSUME NEW b \in Nat, NEW d \in Nat, b <= d, NEW e, NEW length, IsEdit(e, length), NEW c \in Call, NEW nb,
         ChildCall(b, d, e, c, nb), c.call = "edit"
  PROVE  IsEdit(c, d - b)
<1>1. e.start \in Nat /\ e.removed \in Nat /\ e.added \in Nat
  BY DEF IsEdit
<1>2. ~ LeftOf(b, d, e, c, nb) /\ ~ RightOf(b, e, c, nb)
  BY CallFields DEF LeftOf, RightOf
<1>3. CASE Touched(b, d, e, c, nb)
  <2> DEFINE cut == (IF e.start + e.removed > d THEN d ELSE e.start + e.removed) - e.start
  <2>1. c = EditCall(e.start - b, cut, e.added) /\ b <= e.start /\ e.start <= d
    BY <1>3 DEF Touched
  <2>2. c.start = e.start - b /\ c.removed = cut /\ c.added = e.added
    BY <2>1, CallFields
  <2>3. cut \in Nat /\ (e.start - b) \in Nat /\ (e.start - b) + cut <= d - b
    BY <1>1, <2>1
  <2> HIDE DEF cut
  <2> QED BY <1>1, <2>2, <2>3 DEF IsEdit
<1>4. CASE Cut(b, d, e, c, nb)
  <2> DEFINE cut == (IF e.start + e.removed > d THEN d ELSE e.start + e.removed) - b
  <2>1. c = EditCall(0, cut, 0) /\ e.start <= b /\ b < e.start + e.removed
    BY <1>4 DEF Cut
  <2>2. c.start = 0 /\ c.removed = cut /\ c.added = 0
    BY <2>1, CallFields
  <2>3. cut \in Nat /\ cut <= d - b
    BY <1>1, <2>1
  <2> HIDE DEF cut
  <2> QED BY <2>2, <2>3 DEF IsEdit
<1> QED BY <1>2, <1>3, <1>4 DEF ChildCall

(* What a call does to the node itself.                                    *)
LEMMA CalledType ==
  ASSUME NEW node \in Node, NEW c \in Call, c.call = "edit" => IsEdit(c, Total(node))
  PROVE  /\ Called(node, c) \in Node
         /\ Called(node, c).child_count = node.child_count
         /\ Called(node, c).bytes_scanned = node.bytes_scanned
         /\ Called(node, c).lexedAt = node.lexedAt
         /\ Total(Called(node, c)) = Total(node) + (IF c.call = "edit" THEN c.added - c.removed ELSE 0)
         /\ Called(node, c).has_changes
              <=> \/ node.has_changes \/ c.call = "edit"
                  \/ c.call = "look" /\ c.start < node.bytes_scanned
<1>1. ASSUME NEW m \in Node
      PROVE  /\ [m EXCEPT !.has_changes = TRUE] \in Node
             /\ [m EXCEPT !.has_changes = TRUE].child_count = m.child_count
             /\ [m EXCEPT !.has_changes = TRUE].bytes_scanned = m.bytes_scanned
             /\ [m EXCEPT !.has_changes = TRUE].lexedAt = m.lexedAt
             /\ [m EXCEPT !.has_changes = TRUE].padding = m.padding
             /\ [m EXCEPT !.has_changes = TRUE].size = m.size
             /\ [m EXCEPT !.has_changes = TRUE].has_changes = TRUE
  BY DEF Node
<1>2. ASSUME NEW m \in Node
      PROVE  Total([m EXCEPT !.has_changes = TRUE]) = Total(m)
  BY <1>1 DEF Total
<1>3. CASE c.call = "edit"
  <2> DEFINE m == EditSelf(node, c)
  <2>1. /\ m \in Node /\ Total(m) = Total(node) + c.added - c.removed
        /\ m.child_count = node.child_count /\ m.bytes_scanned = node.bytes_scanned
        /\ m.lexedAt = node.lexedAt
    BY <1>3, EditSelfSpans
  <2>2. Called(node, c) = [m EXCEPT !.has_changes = TRUE]
    BY <1>3 DEF Called
  <2>3. Total(node) \in Nat /\ c.added \in Int /\ c.removed \in Int
    BY NodeType, CallType
  <2> HIDE DEF m
  <2> DEFINE m2 == [m EXCEPT !.has_changes = TRUE]
  <2>4. /\ m2 \in Node /\ m2.child_count = m.child_count /\ m2.bytes_scanned = m.bytes_scanned
        /\ m2.lexedAt = m.lexedAt /\ Total(m2) = Total(m) /\ m2.has_changes = TRUE
    BY <1>1, <1>2, <2>1
  <2> HIDE DEF m2
  <2> QED BY <1>3, <2>1, <2>2, <2>3, <2>4 DEF m2
<1>4. CASE c.call = "look"
  <2>1. Called(node, c) = IF c.start < node.bytes_scanned THEN [node EXCEPT !.has_changes = TRUE] ELSE node
    BY <1>4 DEF Called, Invalidated, LooksAt
  <2>2. Total(node) \in Nat
    BY NodeType
  <2>3. CASE c.start < node.bytes_scanned
    <3> DEFINE m2 == [node EXCEPT !.has_changes = TRUE]
    <3>1. /\ m2 \in Node /\ m2.child_count = node.child_count /\ m2.bytes_scanned = node.bytes_scanned
          /\ m2.lexedAt = node.lexedAt /\ Total(m2) = Total(node) /\ m2.has_changes = TRUE
      BY <1>1, <1>2
    <3>2. Called(node, c) = m2
      BY <2>1, <2>3
    <3> HIDE DEF m2
    <3> QED BY <1>4, <2>2, <2>3, <3>1, <3>2
  <2>4. CASE ~ (c.start < node.bytes_scanned)
    BY <1>4, <2>1, <2>2, <2>4
  <2> QED BY <2>3, <2>4
<1>5. CASE c.call = "none"
  <2>1. Called(node, c) = node /\ Total(node) \in Nat
    BY <1>5, NodeType DEF Called
  <2> QED BY <1>5, <2>1
<1> QED BY <1>3, <1>4, <1>5, CallType

-----------------------------------------------------------------------------
(* An edited tree.                                                         *)
Spans(t) == \A p \in DOMAIN t : t[p].child_count > 0 => Total(t[p]) = TotalOf(Kids(t, p))

(* What is called for on a child of a node that is edited.                 *)
LEMMA CallsOfEdit ==
  ASSUME NEW t, WellFormed(t), Spans(t), NEW p \in DOMAIN t, NEW e, IsEdit(e, Total(t[p])),
         NEW i \in 1 .. t[p].child_count
  PROVE  /\ CallFor(t, p, e, i) \in Call
         /\ ChildCall(ChildStart(t, p, i), ChildStart(t, p, i) + Total(t[Append(p, i)]), e,
                      CallFor(t, p, e, i), EditKids(Kids(t, p), e)[i - 1].right)
         /\ CallFor(t, p, e, i).call = "edit" => IsEdit(CallFor(t, p, e, i), Total(t[Append(p, i)]))
<1> DEFINE nodes == Kids(t, p)
           c == CallFor(t, p, e, i)
           b == Starts(nodes)[i]
           d == Starts(nodes)[i + 1]
           nb == EditKids(nodes, e)[i - 1].right
<1>1. /\ nodes \in Seq(Node) /\ Len(nodes) = t[p].child_count /\ t[p].child_count \in Nat
      /\ nodes[i] = t[Append(p, i)] /\ t[Append(p, i)] \in Node
  BY KidsAre, ChildPath
<1>2. Total(t[p]) = TotalOf(nodes)
  BY <1>1 DEF Spans
<1>3. c = EditKids(nodes, e)[i].call
  BY DEF CallFor, IsEdit
<1>4. b \in Nat /\ d \in Nat /\ d = b + Total(t[Append(p, i)]) /\ Total(t[Append(p, i)]) \in Nat /\ b = ChildStart(t, p, i)
  <2>1. i \in 1 .. Len(nodes) + 1 /\ i + 1 \in 1 .. Len(nodes) + 1 /\ i \in 1 .. Len(nodes)
    BY <1>1
  <2> QED BY <1>1, <2>1, StartsAre, NodeType DEF ChildStart
<1> HIDE DEF nodes
<1>5. c \in Call /\ ChildCall(b, d, e, c, nb)
  BY <1>1, <1>2, <1>3, KidsLoop
<1> HIDE DEF c, b, d, nb
<1>6. ASSUME c.call = "edit" PROVE IsEdit(c, Total(t[Append(p, i)]))
  <2>1. IsEdit(c, d - b)
    BY <1>4, <1>5, <1>6, ChildEdit
  <2>2. d - b = Total(t[Append(p, i)])
    BY <1>4
  <2> QED BY <2>1, <2>2
<1> QED BY <1>4, <1>5, <1>6 DEF c, nb, nodes

(* No child is edited unless its parent is.                                *)
LEMMA CallsOfOther ==
  ASSUME NEW t, WellFormed(t), NEW p \in DOMAIN t, NEW c \in Call, c.call # "edit",
         NEW i \in 1 .. t[p].child_count
  PROVE  CallFor(t, p, c, i).call # "edit"
  BY CallFields, CallType DEF CallFor, LookFor

(* Everything that is edited is edited within its bounds.                  *)
LEMMA CallsValid ==
  ASSUME NEW t, WellFormed(t), Spans(t), NEW e, IsEdit(e, Total(t[<< >>]))
  PROVE  \A p \in DOMAIN t : /\ Calls(t, e)[p] \in Call
                             /\ Calls(t, e)[p].call = "edit" => IsEdit(Calls(t, e)[p], Total(t[p]))
<1> DEFINE C == Calls(t, e)
           T == {p \in DOMAIN t : C[p].call = "edit" => IsEdit(C[p], Total(t[p]))}
<1>1. /\ \A p \in DOMAIN t : C[p] \in Call
      /\ C[<< >>] = e
      /\ \A p \in DOMAIN t : \A i \in 1 .. t[p].child_count : C[Append(p, i)] = CallFor(t, p, C[p], i)
  BY CallsAre DEF IsEdit
<1> HIDE DEF C
<1>2. << >> \in T
  BY <1>1 DEF WellFormed
<1>3. ASSUME NEW p \in T, NEW i \in 1 .. t[p].child_count PROVE Append(p, i) \in T
  <2>1. p \in DOMAIN t /\ Append(p, i) \in DOMAIN t /\ C[Append(p, i)] = CallFor(t, p, C[p], i) /\ C[p] \in Call
    BY <1>1, ChildPath
  <2>2. CASE C[p].call = "edit"
    <3>1. IsEdit(C[p], Total(t[p]))
      BY <2>2
    <3> QED BY <2>1, <3>1, CallsOfEdit
  <2>3. CASE C[p].call # "edit"
    BY <2>1, <2>3, CallsOfOther
  <2> QED BY <2>2, <2>3
<1>4. T \subseteq DOMAIN t
  OBVIOUS
<1> HIDE DEF T
<1>5. T = DOMAIN t
  BY <1>2, <1>3, <1>4, TreeInduct
<1> QED BY <1>1, <1>5 DEF T, C

(* The nodes of an edited tree.                                            *)
LEMMA EditedAre ==
  ASSUME NEW t, WellFormed(t), Spans(t), NEW e, IsEdit(e, Total(t[<< >>]))
  PROVE  /\ DOMAIN Edited(t, e) = DOMAIN t
         /\ \A p \in DOMAIN t :
              /\ Edited(t, e)[p] = Called(t[p], Calls(t, e)[p]) /\ Edited(t, e)[p] \in Node
              /\ Edited(t, e)[p].child_count = t[p].child_count
              /\ Edited(t, e)[p].bytes_scanned = t[p].bytes_scanned
              /\ Edited(t, e)[p].lexedAt = t[p].lexedAt
              /\ Total(Edited(t, e)[p])
                   = Total(t[p]) + (IF Calls(t, e)[p].call = "edit" THEN Calls(t, e)[p].added - Calls(t, e)[p].removed ELSE 0)
              /\ Edited(t, e)[p].has_changes
                   <=> \/ t[p].has_changes \/ Calls(t, e)[p].call = "edit"
                       \/ Calls(t, e)[p].call = "look" /\ Calls(t, e)[p].start < t[p].bytes_scanned
         /\ WellFormed(Edited(t, e))
<1> DEFINE u == Edited(t, e)
           C == Calls(t, e)
<1>1. u = [p \in DOMAIN t |-> Called(t[p], C[p])]
  BY DEF Edited
<1>2. \A p \in DOMAIN t : t[p] \in Node /\ C[p] \in Call /\ (C[p].call = "edit" => IsEdit(C[p], Total(t[p])))
  BY CallsValid DEF WellFormed
<1> HIDE DEF u, C
<1>3. DOMAIN u = DOMAIN t /\ \A p \in DOMAIN t : u[p] = Called(t[p], C[p])
  BY <1>1
<1>4. ASSUME NEW p \in DOMAIN t
      PROVE  /\ u[p] = Called(t[p], C[p]) /\ u[p] \in Node
             /\ u[p].child_count = t[p].child_count
             /\ u[p].bytes_scanned = t[p].bytes_scanned
             /\ u[p].lexedAt = t[p].lexedAt
             /\ Total(u[p]) = Total(t[p]) + (IF C[p].call = "edit" THEN C[p].added - C[p].removed ELSE 0)
             /\ u[p].has_changes
                  <=> \/ t[p].has_changes \/ C[p].call = "edit"
                      \/ C[p].call = "look" /\ C[p].start < t[p].bytes_scanned
  <2> DEFINE node == t[p]
             c == C[p]
  <2>1. u[p] = Called(node, c) /\ node \in Node /\ c \in Call /\ (c.call = "edit" => IsEdit(c, Total(node)))
    BY <1>2, <1>3
  <2> HIDE DEF node, c
  <2>2. /\ Called(node, c) \in Node
        /\ Called(node, c).child_count = node.child_count
        /\ Called(node, c).bytes_scanned = node.bytes_scanned
        /\ Called(node, c).lexedAt = node.lexedAt
        /\ Total(Called(node, c)) = Total(node) + (IF c.call = "edit" THEN c.added - c.removed ELSE 0)
        /\ Called(node, c).has_changes
             <=> \/ node.has_changes \/ c.call = "edit"
                 \/ c.call = "look" /\ c.start < node.bytes_scanned
    BY <2>1, CalledType
  <2> QED BY <2>1, <2>2, Zenon DEF node, c
<1>5. WellFormed(u)
  <2>1. u \in [DOMAIN u -> Node]
    BY <1>1, <1>3, <1>4
  <2>2. \A p \in DOMAIN u : p # << >> => Last(p) \in 1 .. u[Front(p)].child_count
    <3>1. \A p \in DOMAIN t : p # << >> => Last(p) \in 1 .. t[Front(p)].child_count /\ Front(p) \in DOMAIN t
      BY ParentPath
    <3> QED BY <1>3, <1>4, <3>1
  <2>3. \A p \in DOMAIN u : \A i \in 1 .. u[p].child_count : Append(p, i) \in DOMAIN u
    <3>1. \A p \in DOMAIN t : \A i \in 1 .. t[p].child_count : Append(p, i) \in DOMAIN t
      BY DEF WellFormed
    <3> QED BY <1>3, <1>4, <3>1
  <2> QED BY <1>3, <2>1, <2>2, <2>3 DEF WellFormed
<1> QED BY <1>3, <1>4, <1>5 DEF u, C

(* Where the children start, and end, that an edit has reached.            *)
LEMMA EditedKids ==
  ASSUME NEW t, WellFormed(t), Spans(t), NEW e, IsEdit(e, Total(t[<< >>])), NEW p \in DOMAIN t,
         Calls(t, e)[p].call = "edit"
  PROVE  /\ \A i \in 1 .. t[p].child_count :
              ChildStart(Edited(t, e), p, i) = EditKids(Kids(t, p), Calls(t, e)[p])[i - 1].right
         /\ t[p].child_count > 0 =>
              TotalOf(Kids(Edited(t, e), p)) = Total(t[p]) + Calls(t, e)[p].added - Calls(t, e)[p].removed
<1> DEFINE u == Edited(t, e)
           c == Calls(t, e)[p]
           a == Kids(t, p)
           b == Kids(u, p)
           n == t[p].child_count
           K == EditKids(a, c)
           f == [i \in 1 .. n + 1 |-> K[i - 1].right]
<1>1. WellFormed(u) /\ p \in DOMAIN u /\ u[p].child_count = n
  BY EditedAre
<1>2. c \in Call /\ IsEdit(c, Total(t[p]))
  BY CallsValid
<1>3. /\ a \in Seq(Node) /\ Len(a) = n /\ n \in Nat
      /\ \A i \in 1 .. n : a[i] = t[Append(p, i)]
  BY KidsAre
<1>4. /\ b \in Seq(Node) /\ Len(b) = n
      /\ \A i \in 1 .. n : b[i] = u[Append(p, i)]
  BY <1>1, KidsAre
<1>5. n > 0 => Total(t[p]) = TotalOf(a)
  BY DEF Spans
<1>6. \A i \in 1 .. n : u[Append(p, i)] = Called(a[i], K[i].call)
  <2>1. \A i \in 1 .. n : Append(p, i) \in DOMAIN t
    BY ChildPath
  <2>2. ASSUME NEW i \in 1 .. n PROVE Calls(t, e)[Append(p, i)] = K[i].call
    <3>1. e \in Call /\ c.call = "edit"
      BY <1>2 DEF IsEdit
    <3>2. Calls(t, e)[Append(p, i)] = CallFor(t, p, c, i)
      BY <3>1, CallsAre
    <3>3. CallFor(t, p, c, i) = K[i].call
      BY <3>1 DEF CallFor
    <3> QED BY <3>2, <3>3
  <2>3. \A i \in 1 .. n : u[Append(p, i)] = Called(t[Append(p, i)], Calls(t, e)[Append(p, i)])
    BY <2>1, EditedAre
  <2> QED BY <1>3, <2>2, <2>3
<1>7. CASE n > 0
  <2>1. IsEdit(c, TotalOf(a))
    BY <1>2, <1>5, <1>7
  <2> HIDE DEF u, c, a, b
  <2>2. /\ K[0].right = 0
        /\ \A i \in 1 .. n : K[i].right = K[i - 1].right + Total(Called(a[i], K[i].call))
        /\ K[n].right = TotalOf(a) + c.added - c.removed
    BY <1>3, <1>7, <2>1, KidsLoop
  <2> HIDE DEF n, K
  <2>3. f[1] = 0 /\ \A i \in 1 .. n : f[i + 1] = f[i] + Total(b[i])
    <3>1. f[1] = 0
      BY <1>3, <2>2
    <3>2. ASSUME NEW i \in 1 .. n PROVE f[i + 1] = f[i] + Total(b[i])
      <4>1. i \in 1 .. n + 1 /\ i + 1 \in 1 .. n + 1 /\ (i + 1) - 1 = i
        BY <1>3
      <4>2. f[i] = K[i - 1].right /\ f[i + 1] = K[i].right
        BY <4>1
      <4>3. Total(b[i]) = Total(Called(a[i], K[i].call))
        BY <1>4, <1>6
      <4> QED BY <2>2, <4>2, <4>3
    <3> QED BY <3>1, <3>2
  <2>4. \A i \in 1 .. n + 1 : f[i] = K[i - 1].right
    OBVIOUS
  <2> HIDE DEF f
  <2>5. \A i \in 1 .. n + 1 : f[i] = Starts(b)[i]
    BY <1>4, <2>3, StartsOnly
  <2>6. \A i \in 1 .. n : ChildStart(u, p, i) = K[i - 1].right
    <3>1. \A i \in 1 .. n : i \in 1 .. n + 1
      BY <1>3
    <3>2. \A i \in 1 .. n : Starts(b)[i] = K[i - 1].right
      BY <2>4, <2>5, <3>1
    <3> QED BY <3>2 DEF ChildStart, b
  <2>7. TotalOf(b) = TotalOf(a) + c.added - c.removed
    <3>1. n + 1 \in 1 .. n + 1 /\ (n + 1) - 1 = n
      BY <1>3, <1>7
    <3>2. Starts(b)[n + 1] = K[n].right
      BY <2>4, <2>5, <3>1
    <3> QED BY <1>4, <2>2, <3>2 DEF TotalOf
  <2> QED BY <1>5, <1>7, <2>6, <2>7 DEF u, c, a, b, n, K
<1>8. CASE ~ (n > 0)
  BY <1>3, <1>8
<1> QED BY <1>7, <1>8

(* Nothing else moves a node within its parent.                            *)
LEMMA EditedOtherKids ==
  ASSUME NEW t, WellFormed(t), Spans(t), NEW e, IsEdit(e, Total(t[<< >>])), NEW p \in DOMAIN t,
         Calls(t, e)[p].call # "edit"
  PROVE  /\ \A i \in 1 .. t[p].child_count : ChildStart(Edited(t, e), p, i) = ChildStart(t, p, i)
         /\ TotalOf(Kids(Edited(t, e), p)) = TotalOf(Kids(t, p))
<1> DEFINE u == Edited(t, e)
           a == Kids(t, p)
           b == Kids(u, p)
           n == t[p].child_count
<1>1. WellFormed(u) /\ p \in DOMAIN u /\ u[p].child_count = n
  BY EditedAre
<1>2. /\ a \in Seq(Node) /\ Len(a) = n /\ n \in Nat
      /\ \A i \in 1 .. n : a[i] = t[Append(p, i)]
  BY KidsAre
<1>3. /\ b \in Seq(Node) /\ Len(b) = n
      /\ \A i \in 1 .. n : b[i] = u[Append(p, i)]
  BY <1>1, KidsAre
<1>4. ASSUME NEW i \in 1 .. n PROVE Total(a[i]) = Total(b[i])
  <2>1. Append(p, i) \in DOMAIN t /\ t[Append(p, i)] \in Node
    BY ChildPath
  <2>2. Calls(t, e)[Append(p, i)].call # "edit"
    <3>1. e \in Call
      BY DEF IsEdit
    <3>2. Calls(t, e)[Append(p, i)] = CallFor(t, p, Calls(t, e)[p], i) /\ Calls(t, e)[p] \in Call
      BY <3>1, CallsAre
    <3> QED BY <3>2, CallsOfOther
  <2>3. Total(u[Append(p, i)]) = Total(t[Append(p, i)]) + 0 /\ Total(t[Append(p, i)]) \in Nat
    BY <2>1, <2>2, EditedAre, NodeType
  <2> QED BY <1>2, <1>3, <2>3
<1> HIDE DEF u, a, b
<1>5. \A i \in 1 .. n + 1 : Starts(a)[i] = Starts(b)[i]
  BY <1>2, <1>3, <1>4, StartsSame
<1>6. \A i \in 1 .. n : i \in 1 .. n + 1
  BY <1>2
<1>7. n + 1 \in 1 .. n + 1
  BY <1>2
<1>8. \A i \in 1 .. n : ChildStart(u, p, i) = ChildStart(t, p, i)
  BY <1>5, <1>6 DEF ChildStart, a, b
<1>9. TotalOf(b) = TotalOf(a)
  BY <1>2, <1>3, <1>5, <1>7 DEF TotalOf
<1> QED BY <1>8, <1>9 DEF u, a, b

LEMMA EditedSpans ==
  ASSUME NEW t, WellFormed(t), Spans(t), NEW e, IsEdit(e, Total(t[<< >>]))
  PROVE  /\ Spans(Edited(t, e))
         /\ Total(Edited(t, e)[<< >>]) = Total(t[<< >>]) + e.added - e.removed
<1>1. e \in Call /\ e.call = "edit" /\ e.added \in Nat /\ e.removed \in Nat
  BY DEF IsEdit
<1>2. Calls(t, e)[<< >>] = e /\ << >> \in DOMAIN t /\ Total(t[<< >>]) \in Nat
  BY <1>1, CallsAre, NodeType DEF WellFormed
<1>3. ASSUME NEW p \in DOMAIN Edited(t, e), Edited(t, e)[p].child_count > 0
      PROVE  Total(Edited(t, e)[p]) = TotalOf(Kids(Edited(t, e), p))
  <2>1. p \in DOMAIN t /\ t[p].child_count > 0 /\ t[p] \in Node /\ Total(t[p]) \in Nat
    BY <1>3, EditedAre, NodeType DEF WellFormed
  <2>2. Total(t[p]) = TotalOf(Kids(t, p))
    BY <2>1 DEF Spans
  <2>3. CASE Calls(t, e)[p].call = "edit"
    <3>1. /\ Total(Edited(t, e)[p]) = Total(t[p]) + (Calls(t, e)[p].added - Calls(t, e)[p].removed)
          /\ Calls(t, e)[p].added \in Int /\ Calls(t, e)[p].removed \in Int
      BY <2>1, <2>3, EditedAre, CallsValid, CallType
    <3>2. TotalOf(Kids(Edited(t, e), p)) = Total(t[p]) + Calls(t, e)[p].added - Calls(t, e)[p].removed
      BY <2>1, <2>3, EditedKids
    <3> QED BY <2>1, <3>1, <3>2
  <2>4. CASE Calls(t, e)[p].call # "edit"
    <3>1. Total(Edited(t, e)[p]) = Total(t[p]) + 0
      BY <2>1, <2>4, EditedAre
    <3>2. TotalOf(Kids(Edited(t, e), p)) = Total(t[p])
      BY <2>1, <2>2, <2>4, EditedOtherKids
    <3> QED BY <2>1, <3>1, <3>2
  <2> QED BY <2>3, <2>4
<1>4. Total(Edited(t, e)[<< >>]) = Total(t[<< >>]) + (e.added - e.removed)
  BY <1>1, <1>2, EditedAre
<1> QED BY <1>1, <1>2, <1>3, <1>4 DEF Spans

-----------------------------------------------------------------------------
(* Trees that are put together from trees.                                 *)

(* A path that goes on where another one ends.                             *)
LEMMA PathConcat ==
  ASSUME NEW p \in Path, NEW q \in Path
  PROVE  /\ p \o q \in Path /\ Len(p \o q) = Len(p) + Len(q) /\ p \o << >> = p /\ << >> \o q = q
         /\ (p \o q = << >>) <=> (p = << >> /\ q = << >>)
         /\ \A i \in Nat \ {0} : Append(p \o q, i) = p \o Append(q, i)
         /\ q # << >> => Front(p \o q) = p \o Front(q) /\ Last(p \o q) = Last(q)
<1>1. /\ p \o q \in Path /\ Len(p \o q) = Len(p) + Len(q) /\ Len(p) \in Nat /\ Len(q) \in Nat
      /\ p \o << >> = p /\ << >> \o q = q
  BY ConcatProperties, ConcatEmptySeq DEF Path
<1>2. (p \o q = << >>) <=> (p = << >> /\ q = << >>)
  BY ConcatEqualIffEmpty DEF Path
<1>3. ASSUME NEW r \in Path, NEW i \in Nat \ {0} PROVE Append(p \o r, i) = p \o Append(r, i)
  <2>1. Append(p \o r, i) = (p \o r) \o <<i>> /\ Append(r, i) = r \o <<i>>
    BY AppendIsConcat, ConcatProperties DEF Path
  <2>2. (p \o r) \o <<i>> = p \o (r \o <<i>>)
    <3>1. p \in Seq(Nat \ {0}) /\ r \in Seq(Nat \ {0}) /\ <<i>> \in Seq(Nat \ {0})
      BY DEF Path
    <3> QED BY <3>1, ConcatAssociative
  <2> QED BY <2>1, <2>2
<1>4. ASSUME q # << >> PROVE Front(p \o q) = p \o Front(q) /\ Last(p \o q) = Last(q)
  <2>1. Front(q) \in Path /\ Last(q) \in Nat \ {0} /\ q = Append(Front(q), Last(q))
    BY <1>4, PathSplit
  <2>2. p \o q = Append(p \o Front(q), Last(q)) /\ p \o Front(q) \in Path
    BY <1>3, <2>1, ConcatProperties DEF Path
  <2> DEFINE f == p \o Front(q)
             l == Last(q)
  <2>3. f \in Path /\ l \in Nat \ {0} /\ p \o q = Append(f, l)
    BY <2>1, <2>2
  <2> HIDE DEF f, l
  <2>4. Front(p \o q) = f /\ Last(p \o q) = l
    BY <2>3, PathAppend
  <2> QED BY <2>4 DEF f, l
<1> QED BY <1>1, <1>2, <1>3, <1>4

(* Its last step is the last step of what goes on.                         *)
LEMMA PathConcatFront ==
  ASSUME NEW p \in Path, NEW q \in Path, q # << >>
  PROVE  Front(p \o q) = p \o Front(q) /\ Last(p \o q) = Last(q) /\ p \o q # << >>
<1>1. (q # << >> => Front(p \o q) = p \o Front(q) /\ Last(p \o q) = Last(q))
  BY PathConcat
<1>2. (p \o q = << >>) <=> (p = << >> /\ q = << >>)
  BY PathConcat
<1> QED BY <1>1, <1>2, Zenon

LEMMA PathCancel ==
  ASSUME NEW p \in Path, NEW q \in Path, NEW r \in Path, p \o q = p \o r
  PROVE  q = r
  BY ConcatSimplifications DEF Path

LEMMA PathFirst ==
  ASSUME NEW i \in Nat \ {0}, NEW q \in Path
  PROVE  /\ <<i>> \in Path /\ <<i>> # << >> /\ <<i>> \o q \in Path /\ <<i>> \o q # << >>
         /\ Head(<<i>> \o q) = i /\ Tail(<<i>> \o q) = q /\ Append(<< >>, i) = <<i>>
         /\ Front(<<i>>) = << >> /\ Last(<<i>>) = i /\ << >> \in Path
<1>1. <<i>> \in Path /\ <<i>> # << >> /\ << >> \in Path
  BY DEF Path
<1>2. <<i>> \o q \in Path /\ <<i>> \o q # << >>
  BY <1>1, PathConcat
<1>3. Append(<< >>, i) = <<i>>
  BY AppendIsConcat, <1>1, PathConcat DEF Path
<1>4. Front(<<i>>) = << >> /\ Last(<<i>>) = i
  BY <1>1, <1>3, PathAppend
<1> DEFINE r == <<i>> \o q
<1>5. /\ Len(<<i>>) = 1 /\ <<i>>[1] = i /\ Len(q) \in Nat /\ q \in Seq(Nat \ {0})
      /\ r \in Seq(Nat \ {0}) /\ r # << >> /\ Len(r) = 1 + Len(q)
      /\ \A k \in 1 .. 1 + Len(q) : r[k] = IF k <= 1 THEN i ELSE q[k - 1]
  <2>1. Len(<<i>>) = 1 /\ <<i>>[1] = i /\ Len(q) \in Nat /\ q \in Seq(Nat \ {0}) /\ <<i>> \in Seq(Nat \ {0})
    BY DEF Path
  <2>2. \A k \in 1 .. Len(<<i>>) + Len(q) : r[k] = IF k <= Len(<<i>>) THEN <<i>>[k] ELSE q[k - Len(<<i>>)]
    BY <2>1, ConcatProperties
  <2>3. \A k \in 1 .. 1 + Len(q) : r[k] = IF k <= 1 THEN i ELSE q[k - 1]
    BY <2>1, <2>2
  <2>4. Len(r) = 1 + Len(q) /\ r \in Seq(Nat \ {0})
    BY <2>1, ConcatProperties
  <2> QED BY <1>2, <2>1, <2>3, <2>4
<1> HIDE DEF r
<1>6. Head(r) = i
  BY <1>5
<1>7. /\ Tail(r) \in Seq(Nat \ {0}) /\ Len(Tail(r)) = Len(r) - 1
      /\ \A k \in 1 .. Len(Tail(r)) : Tail(r)[k] = r[k + 1]
  BY <1>5, HeadTailProperties
<1>8. Tail(r) = q
  <2>1. Len(Tail(r)) = Len(q) /\ \A k \in 1 .. Len(q) : Tail(r)[k] = q[k]
    <3>1. ASSUME NEW k \in 1 .. Len(q) PROVE Tail(r)[k] = q[k]
      <4>1. k \in 1 .. Len(Tail(r)) /\ k + 1 \in 1 .. 1 + Len(q) /\ ~ (k + 1 <= 1) /\ (k + 1) - 1 = k
        BY <1>5, <1>7
      <4> QED BY <1>5, <1>7, <4>1
    <3> QED BY <1>5, <1>7, <3>1
  <2> QED BY <1>5, <1>7, <2>1, SeqEqual
<1> QED BY <1>1, <1>2, <1>3, <1>4, <1>6, <1>8 DEF r

LEMMA PathBelow ==
  ASSUME NEW i \in Nat \ {0}, NEW q \in Path, NEW j \in Nat \ {0}
  PROVE  Append(<<i>> \o q, j) = <<i>> \o Append(q, j)
<1> DEFINE p == <<i>>
<1>1. p \in Path
  BY PathFirst
<1> HIDE DEF p
<1>2. Append(p \o q, j) = p \o Append(q, j)
  BY <1>1, PathConcat
<1> QED BY <1>2 DEF p

Tree == {t \in UNION {[D -> Node] : D \in SUBSET Path} : WellFormed(t)}

LEMMA TreeIs ==
  ASSUME NEW t
  PROVE  t \in Tree <=> WellFormed(t)
  BY DEF Tree, WellFormed, IsPaths

LEMMA RootIs ==
  ASSUME NEW t \in Tree
  PROVE  WellFormed(t) /\ << >> \in DOMAIN t /\ t[<< >>] \in Node
  BY TreeIs DEF WellFormed

LEMMA RowAre ==
  ASSUME NEW kids \in Seq(Tree)
  PROVE  /\ Len(kids) \in Nat /\ DOMAIN kids = 1 .. Len(kids) /\ Roots(kids) \in Seq(Node)
         /\ Len(Roots(kids)) = Len(kids)
         /\ \A i \in 1 .. Len(kids) : /\ Roots(kids)[i] = kids[i][<< >>] /\ kids[i] \in Tree
                                      /\ WellFormed(kids[i]) /\ i \in Nat \ {0}
<1>1. Len(kids) \in Nat /\ DOMAIN kids = 1 .. Len(kids) /\ \A i \in 1 .. Len(kids) : kids[i] \in Tree
  BY LenProperties, ElementOfSeq
<1>2. \A i \in 1 .. Len(kids) : WellFormed(kids[i]) /\ kids[i][<< >>] \in Node
  BY <1>1, RootIs
<1>3. Roots(kids) = [i \in 1 .. Len(kids) |-> kids[i][<< >>]]
  BY <1>1 DEF Roots
<1> DEFINE n == Len(kids)
           r == Roots(kids)
<1>4. r \in [1 .. n -> Node]
  BY <1>2, <1>3
<1> HIDE DEF r
<1>5. r \in Seq(Node) /\ Len(r) = n
  BY <1>1, <1>4, SeqDef, LenProperties
<1> QED BY <1>1, <1>2, <1>3, <1>5 DEF r

(* The nodes of a tree made of trees: the root, and those of the trees,    *)
(* which stand one after the other.                                        *)
LEMMA GraftNodes ==
  ASSUME NEW kids \in Seq(Tree), NEW root \in Node, root.child_count = Len(kids)
  PROVE  /\ Graft(root, kids)[<< >>] = root /\ << >> \in DOMAIN Graft(root, kids)
         /\ \A i \in 1 .. Len(kids) : \A q \in DOMAIN kids[i] :
              <<i>> \o q \in DOMAIN Graft(root, kids) /\ Graft(root, kids)[<<i>> \o q] = kids[i][q]
         /\ \A p \in DOMAIN Graft(root, kids) :
              p # << >> => \E i \in 1 .. Len(kids) : \E q \in DOMAIN kids[i] : p = <<i>> \o q
<1> DEFINE n == Len(kids)
           D == {<< >>} \cup UNION {{<<i>> \o q : q \in DOMAIN kids[i]} : i \in DOMAIN kids}
           t == Graft(root, kids)
<1>1. t = [p \in D |-> IF p = << >> THEN root ELSE kids[Head(p)][Tail(p)]]
  BY DEF Graft
<1>2. /\ DOMAIN kids = 1 .. n
      /\ \A i \in 1 .. n : i \in Nat \ {0} /\ \A q \in DOMAIN kids[i] : q \in Path
  BY RowAre DEF WellFormed, IsPaths
<1>3. << >> \in D
  OBVIOUS
<1>4. \A i \in 1 .. n : \A q \in DOMAIN kids[i] : <<i>> \o q \in D
  BY <1>2
<1>5. \A p \in D : p # << >> => \E i \in 1 .. n : \E q \in DOMAIN kids[i] : p = <<i>> \o q
  BY <1>2
<1> HIDE DEF D, t
<1>6. DOMAIN t = D /\ t[<< >>] = root
  BY <1>1, <1>3
<1>7. ASSUME NEW i \in 1 .. n, NEW q \in DOMAIN kids[i]
      PROVE  t[<<i>> \o q] = kids[i][q]
  <2>1. <<i>> \o q # << >> /\ Head(<<i>> \o q) = i /\ Tail(<<i>> \o q) = q
    BY <1>2, PathFirst
  <2> QED BY <1>1, <1>4, <2>1
<1> QED BY <1>3, <1>4, <1>5, <1>6, <1>7 DEF t

LEMMA GraftWellFormed ==
  ASSUME NEW kids \in Seq(Tree), NEW root \in Node, root.child_count = Len(kids)
  PROVE  WellFormed(Graft(root, kids)) /\ Graft(root, kids) \in Tree
<1> DEFINE n == Len(kids)
           t == Graft(root, kids)
           Below(p) == \E i \in 1 .. n : \E q \in DOMAIN kids[i] : p = <<i>> \o q
<1>1. /\ t[<< >>] = root /\ << >> \in DOMAIN t
      /\ \A i \in 1 .. n : \A q \in DOMAIN kids[i] : <<i>> \o q \in DOMAIN t /\ t[<<i>> \o q] = kids[i][q]
      /\ \A p \in DOMAIN t : p # << >> => Below(p)
  BY GraftNodes
<1>2. /\ n \in Nat /\ \A i \in 1 .. n : i \in Nat \ {0} /\ WellFormed(kids[i])
      /\ \A i \in 1 .. n : << >> \in DOMAIN kids[i] /\ \A q \in DOMAIN kids[i] : q \in Path /\ kids[i][q] \in Node
  BY RowAre DEF WellFormed, IsPaths
<1>3. t = [p \in DOMAIN t |-> t[p]]
  BY DEF Graft
<1> HIDE DEF t, n
<1>4. ASSUME NEW p \in DOMAIN t PROVE p \in Path /\ t[p] \in Node
  <2>1. CASE p = << >>
    BY <1>1, <2>1, EmptySeq DEF Path
  <2>2. CASE p # << >>
    <3>0. PICK i \in 1 .. n : \E q \in DOMAIN kids[i] : p = <<i>> \o q
      BY <1>1, <2>2
    <3>1. PICK q \in DOMAIN kids[i] : p = <<i>> \o q
      BY <3>0
    <3> QED BY <1>1, <1>2, <3>1, PathFirst
  <2> QED BY <2>1, <2>2
<1>5. ASSUME NEW p \in DOMAIN t, p # << >>
      PROVE  Front(p) \in DOMAIN t /\ Last(p) \in 1 .. t[Front(p)].child_count
  <2>0. PICK i \in 1 .. n : \E q \in DOMAIN kids[i] : p = <<i>> \o q
    BY <1>1, <1>5
  <2>1. PICK q \in DOMAIN kids[i] : p = <<i>> \o q
    BY <2>0
  <2>2. i \in Nat \ {0} /\ q \in Path /\ <<i>> \in Path /\ WellFormed(kids[i])
    BY <1>2, PathFirst
  <2>3. CASE q = << >>
    <3>1. p = <<i>>
      BY <2>1, <2>2, <2>3, PathConcat
    <3> QED BY <1>1, <2>2, <3>1, PathFirst DEF n
  <2>4. CASE q # << >>
    <3>1. Front(p) = <<i>> \o Front(q) /\ Last(p) = Last(q)
      <4>1. Front(<<i>> \o q) = <<i>> \o Front(q) /\ Last(<<i>> \o q) = Last(q)
        BY <2>2, <2>4, PathConcatFront, Zenon
      <4> QED BY <2>1, <4>1
    <3>2. Front(q) \in DOMAIN kids[i] /\ Last(q) \in 1 .. kids[i][Front(q)].child_count
      BY <2>2, <2>4, ParentPath
    <3> QED BY <1>1, <3>1, <3>2
  <2> QED BY <2>3, <2>4
<1>6. ASSUME NEW p \in DOMAIN t, NEW j \in 1 .. t[p].child_count
      PROVE  Append(p, j) \in DOMAIN t
  <2>1. CASE p = << >>
    <3>1. j \in 1 .. n /\ j \in Nat \ {0}
      BY <1>1, <1>2, <2>1 DEF n
    <3>2. Append(p, j) = <<j>> \o << >>
      BY <2>1, <3>1, PathFirst, PathConcat
    <3>3. << >> \in DOMAIN kids[j]
      BY <1>2, <3>1
    <3>4. <<j>> \o << >> \in DOMAIN t
      BY <1>1, <3>1, <3>3
    <3> QED BY <3>2, <3>4
  <2>2. CASE p # << >>
    <3>0. PICK i \in 1 .. n : \E q \in DOMAIN kids[i] : p = <<i>> \o q
      BY <1>1, <2>2
    <3>1. PICK q \in DOMAIN kids[i] : p = <<i>> \o q
      BY <3>0
    <3>2. i \in Nat \ {0} /\ q \in Path /\ <<i>> \in Path /\ WellFormed(kids[i]) /\ j \in 1 .. kids[i][q].child_count
      BY <1>1, <1>2, <3>1, PathFirst
    <3>3. Append(q, j) \in DOMAIN kids[i] /\ j \in Nat \ {0}
      BY <3>2, ChildPath
    <3>4. Append(p, j) = <<i>> \o Append(q, j)
      BY <3>1, <3>2, <3>3, PathConcat
    <3> QED BY <1>1, <3>3, <3>4
  <2> QED BY <2>1, <2>2
<1>7. WellFormed(t)
  <2>1. t \in [DOMAIN t -> Node]
    BY <1>3, <1>4
  <2> QED BY <1>1, <1>4, <1>5, <1>6, <2>1 DEF WellFormed, IsPaths
<1> QED BY <1>7, TreeIs DEF t

LEMMA GraftKids ==
  ASSUME NEW kids \in Seq(Tree), NEW root \in Node, root.child_count = Len(kids)
  PROVE  /\ Kids(Graft(root, kids), << >>) = Roots(kids)
         /\ \A i \in 1 .. Len(kids) : \A q \in DOMAIN kids[i] :
              Kids(Graft(root, kids), <<i>> \o q) = Kids(kids[i], q)
<1> DEFINE n == Len(kids)
           t == Graft(root, kids)
<1>1. /\ t[<< >>] = root /\ << >> \in DOMAIN t
      /\ \A i \in 1 .. n : \A q \in DOMAIN kids[i] : <<i>> \o q \in DOMAIN t /\ t[<<i>> \o q] = kids[i][q]
  BY GraftNodes
<1>2. n \in Nat /\ \A i \in 1 .. n : i \in Nat \ {0} /\ WellFormed(kids[i]) /\ << >> \in DOMAIN kids[i]
  BY RowAre DEF WellFormed
<1> HIDE DEF t
<1>3. Kids(t, << >>) = Roots(kids)
  <2>1. \A i \in 1 .. n : t[Append(<< >>, i)] = kids[i][<< >>]
    <3>1. \A i \in 1 .. n : Append(<< >>, i) = <<i>> \o << >>
      BY <1>2, PathFirst, PathConcat
    <3> QED BY <1>1, <1>2, <3>1
  <2>2. DOMAIN kids = 1 .. n /\ t[<< >>].child_count = n
    BY <1>1, RowAre
  <2> QED BY <2>1, <2>2 DEF Kids, Roots
<1>4. ASSUME NEW i \in 1 .. n, NEW q \in DOMAIN kids[i]
      PROVE  Kids(t, <<i>> \o q) = Kids(kids[i], q)
  <2>1. t[<<i>> \o q].child_count = kids[i][q].child_count /\ q \in Path /\ <<i>> \in Path
    BY <1>1, <1>2, PathFirst DEF WellFormed, IsPaths
  <2>2. ASSUME NEW j \in 1 .. kids[i][q].child_count
        PROVE  t[Append(<<i>> \o q, j)] = kids[i][Append(q, j)]
    <3>1. Append(q, j) \in DOMAIN kids[i] /\ j \in Nat \ {0}
      BY <1>2, ChildPath
    <3>2. Append(<<i>> \o q, j) = <<i>> \o Append(q, j)
      BY <1>2, <2>1, <3>1, PathBelow
    <3> QED BY <1>1, <3>1, <3>2
  <2> QED BY <2>1, <2>2 DEF Kids
<1> QED BY <1>3, <1>4 DEF t

LEMMA GraftBegins ==
  ASSUME NEW kids \in Seq(Tree), NEW root \in Node, root.child_count = Len(kids)
  PROVE  \A i \in 1 .. Len(kids) : \A q \in DOMAIN kids[i] :
           Begins(Graft(root, kids))[<<i>> \o q] = Starts(Roots(kids))[i] + Begins(kids[i])[q]
<1> DEFINE n == Len(kids)
           t == Graft(root, kids)
<1> TAKE i \in 1 .. n
<1>1. /\ WellFormed(t) /\ WellFormed(kids[i]) /\ << >> \in DOMAIN t /\ t[<< >>].child_count = n
      /\ i \in Nat \ {0} /\ << >> \in DOMAIN kids[i] /\ n \in Nat
  BY GraftWellFormed, GraftNodes, RowAre DEF WellFormed
<1>2. /\ Kids(t, << >>) = Roots(kids) /\ \A q \in DOMAIN kids[i] : Kids(t, <<i>> \o q) = Kids(kids[i], q)
      /\ \A q \in DOMAIN kids[i] : <<i>> \o q \in DOMAIN t /\ t[<<i>> \o q] = kids[i][q]
  BY GraftKids, GraftNodes
<1> HIDE DEF t
<1> DEFINE at == Starts(Roots(kids))[i]
           T == {q \in DOMAIN kids[i] : Begins(t)[<<i>> \o q] = at + Begins(kids[i])[q]}
<1>3. at \in Nat
  <2>1. i \in 1 .. Len(Roots(kids)) + 1
    BY <1>1, RowAre
  <2>2. Starts(Roots(kids)) \in [1 .. Len(Roots(kids)) + 1 -> Nat]
    BY RowAre, StartsAre
  <2> QED BY <2>1, <2>2
<1> HIDE DEF at
<1>4. << >> \in T
  <2>1. Begins(t)[Append(<< >>, i)] = Begins(t)[<< >>] + ChildStart(t, << >>, i)
    BY <1>1, BeginsAre
  <2>2. Append(<< >>, i) = <<i>> \o << >>
    BY <1>1, PathFirst, PathConcat
  <2>3. Begins(t)[<< >>] = 0 /\ Begins(kids[i])[<< >>] = 0
    BY <1>1, BeginsAre
  <2>4. ChildStart(t, << >>, i) = at
    BY <1>2 DEF ChildStart, at
  <2> QED BY <1>1, <1>3, <2>1, <2>2, <2>3, <2>4
<1>5. ASSUME NEW q \in T, NEW j \in 1 .. kids[i][q].child_count PROVE Append(q, j) \in T
  <2>1. q \in DOMAIN kids[i] /\ Append(q, j) \in DOMAIN kids[i] /\ j \in Nat \ {0} /\ q \in Path /\ <<i>> \in Path
    BY <1>1, ChildPath, PathFirst
  <2>2. Append(<<i>> \o q, j) = <<i>> \o Append(q, j)
    BY <1>1, <2>1, PathBelow
  <2>3. Begins(t)[Append(<<i>> \o q, j)] = Begins(t)[<<i>> \o q] + ChildStart(t, <<i>> \o q, j)
    BY <1>1, <1>2, <2>1, BeginsAre
  <2>4. Begins(kids[i])[Append(q, j)] = Begins(kids[i])[q] + ChildStart(kids[i], q, j)
    BY <1>1, <2>1, BeginsAre
  <2>5. ChildStart(t, <<i>> \o q, j) = ChildStart(kids[i], q, j)
    BY <1>2, <2>1 DEF ChildStart
  <2>6. Begins(kids[i])[q] \in Nat /\ ChildStart(kids[i], q, j) \in Nat
    BY <1>1, <2>1, BeginsAre, ChildStartType
  <2>7. Begins(t)[<<i>> \o q] = at + Begins(kids[i])[q]
    OBVIOUS
  <2>8. Begins(t)[<<i>> \o Append(q, j)] = at + Begins(kids[i])[Append(q, j)]
    <3> DEFINE x == Begins(kids[i])[q]
               y == ChildStart(kids[i], q, j)
    <3>1. Begins(t)[<<i>> \o Append(q, j)] = (at + x) + y /\ Begins(kids[i])[Append(q, j)] = x + y
      BY <2>2, <2>3, <2>4, <2>5, <2>7, Zenon
    <3>2. x \in Nat /\ y \in Nat
      BY <2>6
    <3> HIDE DEF x, y
    <3>3. (at + x) + y = at + (x + y)
      BY <1>3, <3>2
    <3> QED BY <3>1, <3>3, Zenon
  <2> QED BY <2>1, <2>8
<1>6. T \subseteq DOMAIN kids[i]
  OBVIOUS
<1> HIDE DEF T
<1>7. T = DOMAIN kids[i]
  BY <1>1, <1>4, <1>5, <1>6, TreeInduct
<1> QED BY <1>7 DEF T, at, t

-----------------------------------------------------------------------------
(* What a parse makes: nothing is marked, and a node depends on all that   *)
(* its children depend on.                                                 *)
Covers(t, p) ==
  \A i \in 1 .. t[p].child_count : ChildStart(t, p, i) + t[Append(p, i)].bytes_scanned <= t[p].bytes_scanned

Clean(t) ==
  /\ WellFormed(t) /\ Spans(t) /\ IsFiniteSet(DOMAIN t)
  /\ \A p \in DOMAIN t : ~ t[p].has_changes /\ Covers(t, p)

(* The tree stands where its leaves were lexed.                            *)
LexedFrom(t, at) == \A p \in DOMAIN t : t[p].child_count = 0 => t[p].lexedAt = at + Begins(t)[p]

RootOf(kids) ==
  LET nodes == Roots(kids)
      ends  == {Starts(nodes)[i] + nodes[i].bytes_scanned : i \in DOMAIN nodes}
  IN  [padding |-> nodes[1].padding, size |-> TotalOf(nodes) - nodes[1].padding,
       bytes_scanned |-> CHOOSE e \in ends : \A f \in ends : f <= e,
       has_changes |-> FALSE, child_count |-> Len(kids), lexedAt |-> 0]

LEMMA MakeNodeIs ==
  ASSUME NEW kids
  PROVE  MakeNode(kids) = Graft(RootOf(kids), kids)
  BY DEF MakeNode, RootOf

LEMMA RowMax ==
  ASSUME NEW n \in Nat \ {0}, NEW f \in [1 .. n -> Nat]
  PROVE  \E i \in 1 .. n : \A j \in 1 .. n : f[j] <= f[i]
<1> DEFINE T == {k \in Nat : k + 1 <= n => \E i \in 1 .. k + 1 : \A j \in 1 .. k + 1 : f[j] <= f[i]}
<1>1. 0 \in T
  <2>1. 0 + 1 = 1 /\ 1 .. 1 = {1} /\ f[1] \in Nat
    OBVIOUS
  <2> QED BY <2>1
<1>2. ASSUME NEW k \in T PROVE k + 1 \in T
  <2>1. CASE (k + 1) + 1 <= n
    <3>1. k \in Nat /\ k + 1 <= n
      BY <2>1
    <3>2. PICK i \in 1 .. k + 1 : \A j \in 1 .. k + 1 : f[j] <= f[i]
      BY <3>1
    <3>3. \A j \in 1 .. (k + 1) + 1 : f[j] \in Nat /\ (j \in 1 .. k + 1 \/ j = (k + 1) + 1)
      BY <2>1, <3>1
    <3>4. CASE f[(k + 1) + 1] <= f[i]
      <4>1. i \in 1 .. (k + 1) + 1 /\ \A j \in 1 .. (k + 1) + 1 : f[j] <= f[i]
        BY <3>1, <3>2, <3>3, <3>4
      <4> QED BY <3>1, <4>1
    <3>5. CASE ~ (f[(k + 1) + 1] <= f[i])
      <4>1. (k + 1) + 1 \in 1 .. (k + 1) + 1 /\ \A j \in 1 .. (k + 1) + 1 : f[j] <= f[(k + 1) + 1]
        <5>1. (k + 1) + 1 \in 1 .. (k + 1) + 1 /\ i \in 1 .. (k + 1) + 1
          BY <3>1
        <5>2. f[i] <= f[(k + 1) + 1] /\ f[i] \in Nat /\ f[(k + 1) + 1] \in Nat
          BY <3>3, <3>5, <5>1
        <5> QED BY <3>2, <3>3, <5>1, <5>2
      <4> QED BY <3>1, <4>1
    <3> QED BY <3>4, <3>5
  <2> QED BY <2>1
<1>3. T \in SUBSET Nat
  OBVIOUS
<1> HIDE DEF T
<1>4. T = Nat
  BY <1>1, <1>2, <1>3, Induct
<1>5. n - 1 \in T /\ (n - 1) + 1 = n
  BY <1>4
<1> QED BY <1>5 DEF T

(* ts_tree_set_children: what the new node spans and depends on.           *)
LEMMA RootOfIs ==
  ASSUME NEW kids \in Seq(Tree), Len(kids) > 0
  PROVE  /\ RootOf(kids) \in Node /\ RootOf(kids).child_count = Len(kids) /\ ~ RootOf(kids).has_changes
         /\ Total(RootOf(kids)) = TotalOf(Roots(kids)) /\ Roots(kids)[1].size <= RootOf(kids).size
         /\ \A i \in 1 .. Len(kids) : Starts(Roots(kids))[i] + Roots(kids)[i].bytes_scanned <= RootOf(kids).bytes_scanned
<1> DEFINE nodes == Roots(kids)
           n == Len(kids)
           f == [i \in 1 .. n |-> Starts(nodes)[i] + nodes[i].bytes_scanned]
           ends == {Starts(nodes)[i] + nodes[i].bytes_scanned : i \in DOMAIN nodes}
           max == CHOOSE e \in ends : \A g \in ends : g <= e
           size == TotalOf(nodes) - nodes[1].padding
<1>1. nodes \in Seq(Node) /\ Len(nodes) = n /\ n \in Nat \ {0} /\ DOMAIN nodes = 1 .. n
  BY RowAre, LenProperties
<1>2. /\ Starts(nodes) \in [1 .. n + 1 -> Nat] /\ Starts(nodes)[1] = 0
      /\ Starts(nodes)[1 + 1] = Starts(nodes)[1] + Total(nodes[1]) /\ TotalOf(nodes) = Starts(nodes)[n + 1]
  <2>1. 1 \in 1 .. Len(nodes)
    BY <1>1
  <2> QED BY <1>1, <2>1, StartsAre DEF TotalOf
<1>3. \A i \in 1 .. n : nodes[i] \in Node /\ nodes[i].bytes_scanned \in Nat
  BY <1>1, ElementOfSeq, NodeType
<1> HIDE DEF nodes, n
<1>4. f \in [1 .. n -> Nat]
  <2>1. \A i \in 1 .. n : Starts(nodes)[i] \in Nat
    BY <1>1, <1>2
  <2> QED BY <1>3, <2>1
<1>5. ends = {f[i] : i \in 1 .. n}
  BY <1>1
<1> HIDE DEF f, ends
<1>6. \E e \in ends : \A g \in ends : g <= e
  <2>1. PICK i \in 1 .. n : \A j \in 1 .. n : f[j] <= f[i]
    BY <1>1, <1>4, RowMax
  <2> QED BY <1>5, <2>1
<1>7. max \in ends /\ \A g \in ends : g <= max
  BY <1>6
<1> HIDE DEF max
<1>8. max \in Nat /\ \A i \in 1 .. n : f[i] <= max
  BY <1>4, <1>5, <1>7
<1>9. size \in Nat /\ nodes[1].padding \in Nat /\ nodes[1].padding + size = TotalOf(nodes) /\ nodes[1].size <= size
  <2>1. 1 \in 1 .. n /\ 1 + 1 \in 1 .. Len(nodes) + 1 /\ n + 1 \in 1 .. Len(nodes) + 1 /\ 1 + 1 <= n + 1
    BY <1>1
  <2>2. Starts(nodes)[1 + 1] <= Starts(nodes)[n + 1]
    BY <1>1, <2>1, StartsGrow
  <2>3. nodes[1].padding \in Nat /\ nodes[1].size \in Nat /\ Total(nodes[1]) = nodes[1].padding + nodes[1].size
    BY <1>3, <2>1, NodeType DEF Total
  <2>4. Starts(nodes)[n + 1] \in Nat
    BY <1>1, <1>2
  <2> QED BY <1>2, <2>2, <2>3, <2>4
<1> HIDE DEF size
<1>10. RootOf(kids) = [padding |-> nodes[1].padding, size |-> size, bytes_scanned |-> max,
                       has_changes |-> FALSE, child_count |-> n, lexedAt |-> 0]
  BY DEF RootOf, nodes, n, size, max, ends
<1>11. RootOf(kids) \in Node
  BY <1>1, <1>8, <1>9, <1>10 DEF Node
<1>12. /\ RootOf(kids).child_count = n /\ ~ RootOf(kids).has_changes /\ RootOf(kids).bytes_scanned = max
       /\ Total(RootOf(kids)) = TotalOf(nodes) /\ nodes[1].size <= RootOf(kids).size
  BY <1>9, <1>10 DEF Total
<1>13. \A i \in 1 .. n : Starts(nodes)[i] + nodes[i].bytes_scanned <= max
  BY <1>8 DEF f
<1> QED BY <1>11, <1>12, <1>13 DEF nodes, n

LEMMA ImageFinite ==
  ASSUME NEW S, IsFiniteSet(S), NEW f, f = [x \in S |-> f[x]]
  PROVE  IsFiniteSet({f[x] : x \in S})
<1> DEFINE T == {f[x] : x \in S}
<1>1. f \in Surjection(S, T)
  BY DEF Surjection
<1> HIDE DEF T
<1> QED BY <1>1, FS_Surjection DEF T

(* Finitely many nodes stay finitely many under one root.                  *)
LEMMA GraftFinite ==
  ASSUME NEW kids \in Seq(Tree), NEW root, \A i \in 1 .. Len(kids) : IsFiniteSet(DOMAIN kids[i])
  PROVE  IsFiniteSet(DOMAIN Graft(root, kids))
<1> DEFINE n == Len(kids)
           below == [i \in 1 .. n |-> {<<i>> \o q : q \in DOMAIN kids[i]}]
<1>1. n \in Nat /\ DOMAIN kids = 1 .. n
  BY RowAre
<1>2. ASSUME NEW i \in 1 .. n PROVE IsFiniteSet(below[i])
  <2> DEFINE D == DOMAIN kids[i]
             f == [q \in D |-> <<i>> \o q]
  <2>1. IsFiniteSet(D)
    OBVIOUS
  <2>2. f = [q \in D |-> f[q]]
    OBVIOUS
  <2>3. below[i] = {f[q] : q \in D}
    OBVIOUS
  <2> HIDE DEF f, D, below
  <2> QED BY <2>1, <2>2, <2>3, ImageFinite
<1>3. IsFiniteSet(1 .. n)
  BY <1>1, FS_Interval
<1>4. DOMAIN Graft(root, kids) = {<< >>} \cup UNION {below[i] : i \in 1 .. n}
  BY <1>1 DEF Graft
<1>5. below = [i \in 1 .. n |-> below[i]]
  OBVIOUS
<1> HIDE DEF below, n
<1>6. IsFiniteSet({below[i] : i \in 1 .. n})
  <2> DEFINE K == 1 .. n
  <2>1. IsFiniteSet(K) /\ below = [i \in K |-> below[i]]
    BY <1>3, <1>5
  <2> HIDE DEF K
  <2>2. IsFiniteSet({below[i] : i \in K})
    BY <2>1, ImageFinite
  <2> QED BY <2>2 DEF K
<1>7. IsFiniteSet(UNION {below[i] : i \in 1 .. n})
  <2>1. \A T \in {below[i] : i \in 1 .. n} : IsFiniteSet(T)
    BY <1>2
  <2> QED BY <1>6, <2>1, FS_UNION
<1>8. IsFiniteSet({<< >>})
  BY FS_Singleton
<1> DEFINE U == UNION {below[i] : i \in 1 .. n}
           E == {<< >>}
<1>9. IsFiniteSet(U) /\ IsFiniteSet(E) /\ DOMAIN Graft(root, kids) = E \cup U
  BY <1>4, <1>7, <1>8
<1> HIDE DEF U, E
<1>10. IsFiniteSet(E \cup U)
  BY <1>9, FS_Union
<1> QED BY <1>9, <1>10

LEMMA MakeNodeClean ==
  ASSUME NEW kids \in Seq(Tree), Len(kids) > 0, \A i \in 1 .. Len(kids) : Clean(kids[i])
  PROVE  /\ Clean(MakeNode(kids)) /\ MakeNode(kids) \in Tree
         /\ MakeNode(kids)[<< >>].child_count = Len(kids)
         /\ Total(MakeNode(kids)[<< >>]) = TotalOf(Roots(kids))
<1> DEFINE n == Len(kids)
           root == RootOf(kids)
           t == MakeNode(kids)
<1>1. /\ root \in Node /\ root.child_count = n /\ ~ root.has_changes /\ Total(root) = TotalOf(Roots(kids))
      /\ \A i \in 1 .. n : Starts(Roots(kids))[i] + Roots(kids)[i].bytes_scanned <= root.bytes_scanned
  BY RootOfIs
<1>2. t = Graft(root, kids)
  BY MakeNodeIs
<1> HIDE DEF root, t
<1>3. /\ WellFormed(t) /\ t \in Tree /\ t[<< >>] = root /\ << >> \in DOMAIN t
      /\ \A i \in 1 .. n : \A q \in DOMAIN kids[i] : <<i>> \o q \in DOMAIN t /\ t[<<i>> \o q] = kids[i][q]
      /\ \A p \in DOMAIN t : p # << >> => \E i \in 1 .. n : \E q \in DOMAIN kids[i] : p = <<i>> \o q
      /\ Kids(t, << >>) = Roots(kids)
      /\ \A i \in 1 .. n : \A q \in DOMAIN kids[i] : Kids(t, <<i>> \o q) = Kids(kids[i], q)
  <2>1. kids \in Seq(Tree) /\ root \in Node /\ root.child_count = Len(kids)
    BY <1>1
  <2>2. WellFormed(t) /\ t \in Tree
    BY <1>2, <2>1, GraftWellFormed, Zenon
  <2>3. /\ Kids(t, << >>) = Roots(kids)
        /\ \A i \in 1 .. n : \A q \in DOMAIN kids[i] : Kids(t, <<i>> \o q) = Kids(kids[i], q)
    BY <1>2, <2>1, GraftKids, Zenon
  <2>4. /\ t[<< >>] = root /\ << >> \in DOMAIN t
        /\ \A i \in 1 .. n : \A q \in DOMAIN kids[i] : <<i>> \o q \in DOMAIN t /\ t[<<i>> \o q] = kids[i][q]
        /\ \A p \in DOMAIN t : p # << >> => \E i \in 1 .. n : \E q \in DOMAIN kids[i] : p = <<i>> \o q
    BY <1>2, <2>1, GraftNodes, Zenon
  <2> QED BY <2>2, <2>3, <2>4, Zenon
<1>4. ASSUME NEW p \in DOMAIN t
      PROVE  /\ ~ t[p].has_changes /\ Covers(t, p)
             /\ t[p].child_count > 0 => Total(t[p]) = TotalOf(Kids(t, p))
  <2>1. CASE p = << >>
    <3>1. ASSUME NEW i \in 1 .. n PROVE ChildStart(t, << >>, i) + t[Append(<< >>, i)].bytes_scanned <= root.bytes_scanned
      <4>1. ChildStart(t, << >>, i) = Starts(Roots(kids))[i]
        BY <1>3 DEF ChildStart
      <4>2. t[Append(<< >>, i)] = Roots(kids)[i]
        <5>1. i \in 1 .. t[<< >>].child_count
          BY <1>1, <1>3
        <5>2. ASSUME NEW r \in DOMAIN t, r = << >> PROVE Kids(t, r)[i] = t[Append(r, i)]
          <6>1. WellFormed(t) /\ i \in 1 .. t[r].child_count
            BY <1>3, <5>1, <5>2
          <6> QED BY <6>1, KidsAre
        <5>3. << >> \in DOMAIN t /\ Kids(t, << >>) = Roots(kids)
          BY <1>3
        <5> QED BY <5>2, <5>3, Zenon
      <4> QED BY <1>1, <4>1, <4>2
    <3>2. Covers(t, << >>)
      BY <1>1, <1>3, <3>1 DEF Covers
    <3> QED BY <1>1, <1>3, <2>1, <3>2
  <2>2. CASE p # << >>
    <3>0. PICK i \in 1 .. n : \E q \in DOMAIN kids[i] : p = <<i>> \o q
      BY <1>3, <2>2
    <3>1. PICK q \in DOMAIN kids[i] : p = <<i>> \o q
      BY <3>0
    <3>2. Clean(kids[i]) /\ WellFormed(kids[i]) /\ t[p] = kids[i][q] /\ Kids(t, p) = Kids(kids[i], q)
      BY <1>3, <3>1 DEF Clean
    <3>3. ASSUME NEW j \in 1 .. t[p].child_count PROVE ChildStart(t, p, j) + t[Append(p, j)].bytes_scanned <= t[p].bytes_scanned
      <4>1. ChildStart(t, p, j) = ChildStart(kids[i], q, j)
        BY <3>2 DEF ChildStart
      <4>2. t[Append(p, j)] = Kids(t, p)[j]
        BY <1>3, KidsAre
      <4>3. kids[i][Append(q, j)] = Kids(kids[i], q)[j]
        BY <3>2, KidsAre
      <4>4. ChildStart(kids[i], q, j) + kids[i][Append(q, j)].bytes_scanned <= kids[i][q].bytes_scanned
        BY <3>2 DEF Clean, Covers
      <4> QED BY <3>2, <4>1, <4>2, <4>3, <4>4
    <3>4. ~ t[p].has_changes /\ (t[p].child_count > 0 => Total(t[p]) = TotalOf(Kids(t, p)))
      BY <3>2 DEF Clean, Spans
    <3> QED BY <3>3, <3>4 DEF Covers
  <2> QED BY <2>1, <2>2
<1>5. IsFiniteSet(DOMAIN t)
  <2>1. \A i \in 1 .. n : IsFiniteSet(DOMAIN kids[i])
    BY DEF Clean
  <2> QED BY <1>2, <2>1, GraftFinite
<1>6. Clean(t)
  BY <1>3, <1>4, <1>5 DEF Clean, Spans
<1> QED BY <1>1, <1>3, <1>6 DEF t

LEMMA MakeNodeLexed ==
  ASSUME NEW kids \in Seq(Tree), Len(kids) > 0, NEW at \in Int,
         \A i \in 1 .. Len(kids) : LexedFrom(kids[i], at + Starts(Roots(kids))[i])
  PROVE  LexedFrom(MakeNode(kids), at)
<1> DEFINE n == Len(kids)
           root == RootOf(kids)
           t == MakeNode(kids)
<1>1. root \in Node /\ root.child_count = n
  BY RootOfIs
<1>2. t = Graft(root, kids)
  BY MakeNodeIs
<1> HIDE DEF root, t
<1>3. t[<< >>] = root /\ \A p \in DOMAIN t : p # << >> => \E i \in 1 .. n : \E q \in DOMAIN kids[i] : p = <<i>> \o q
  BY <1>1, <1>2, GraftNodes
<1>5. ASSUME NEW i \in 1 .. n, NEW q \in DOMAIN kids[i]
      PROVE  t[<<i>> \o q] = kids[i][q] /\ Begins(t)[<<i>> \o q] = Starts(Roots(kids))[i] + Begins(kids[i])[q]
  <2>1. t[<<i>> \o q] = kids[i][q]
    BY <1>1, <1>2, GraftNodes
  <2>2. Begins(t)[<<i>> \o q] = Starts(Roots(kids))[i] + Begins(kids[i])[q]
    BY <1>1, <1>2, GraftBegins
  <2> QED BY <2>1, <2>2
<1>4. ASSUME NEW p \in DOMAIN t, t[p].child_count = 0 PROVE t[p].lexedAt = at + Begins(t)[p]
  <2>1. p # << >>
    BY <1>1, <1>3, <1>4
  <2>2. PICK i \in 1 .. n : \E q \in DOMAIN kids[i] : p = <<i>> \o q
    BY <1>3, <2>1
  <2>3. PICK q \in DOMAIN kids[i] : p = <<i>> \o q
    BY <2>2
  <2>4. t[p] = kids[i][q] /\ Begins(t)[p] = Starts(Roots(kids))[i] + Begins(kids[i])[q]
    BY <1>5, <2>3
  <2>5. kids[i][q].lexedAt = (at + Starts(Roots(kids))[i]) + Begins(kids[i])[q]
    BY <1>4, <2>4 DEF LexedFrom
  <2>6. Starts(Roots(kids))[i] \in Nat /\ Begins(kids[i])[q] \in Nat
    <3>1. i \in 1 .. Len(Roots(kids)) + 1
      BY RowAre
    <3> QED BY <3>1, RowAre, StartsAre, BeginsAre
  <2> QED BY <2>4, <2>5, <2>6
<1> QED BY <1>4 DEF LexedFrom, t

-----------------------------------------------------------------------------
(* The trees a text has before it is edited.                               *)
IsLeaf(node) ==
  \E s \in Shapes : /\ node.padding = s.padding /\ node.size = s.size
                    /\ node.bytes_scanned = s.padding + s.size + s.lookahead

Leaves(t) == {p \in DOMAIN t : t[p].child_count = 0}

Solid(t) == \A p \in DOMAIN t : t[p].size > 0
InRow(t, at) ==
  /\ Clean(t) /\ LexedFrom(t, at) /\ \A p \in Leaves(t) : IsLeaf(t[p])
  /\ 0 \notin Sizes => Solid(t)

Row == {row \in Seq(Tree) : /\ Len(row) > 0
                            /\ \A i \in 1 .. Len(row) : InRow(row[i], Starts(Roots(row))[i])}

LEMMA LeafAre ==
  ASSUME NEW padding \in Nat, NEW size \in Nat, NEW lookahead \in Nat, NEW at \in Int
  PROVE  /\ MakeLeaf(padding, size, lookahead, at) \in Tree
         /\ Clean(MakeLeaf(padding, size, lookahead, at))
         /\ LexedFrom(MakeLeaf(padding, size, lookahead, at), at)
         /\ DOMAIN MakeLeaf(padding, size, lookahead, at) = {<< >>}
         /\ MakeLeaf(padding, size, lookahead, at)[<< >>]
              = [padding |-> padding, size |-> size, bytes_scanned |-> padding + size + lookahead,
                 has_changes |-> FALSE, child_count |-> 0, lexedAt |-> at]
<1> DEFINE t == MakeLeaf(padding, size, lookahead, at)
           node == [padding |-> padding, size |-> size, bytes_scanned |-> padding + size + lookahead,
                    has_changes |-> FALSE, child_count |-> 0, lexedAt |-> at]
<1>1. t = [p \in {<< >>} |-> node]
  BY DEF MakeLeaf
<1>2. node \in Node /\ node.child_count = 0 /\ ~ node.has_changes /\ node.lexedAt = at
  <2>1. padding + size + lookahead \in Nat
    OBVIOUS
  <2> QED BY <2>1 DEF Node
<1> HIDE DEF t, node
<1>3. DOMAIN t = {<< >>} /\ t[<< >>] = node
  BY <1>1
<1>4. WellFormed(t)
  <2>1. IsPaths(DOMAIN t)
    <3>1. << >> \in Path
      BY EmptySeq DEF Path
    <3> QED BY <1>3, <3>1 DEF IsPaths
  <2>2. t \in [DOMAIN t -> Node]
    BY <1>1, <1>2, <1>3
  <2> QED BY <1>2, <1>3, <2>1, <2>2 DEF WellFormed
<1>5. Clean(t)
  <2>1. IsFiniteSet(DOMAIN t)
    BY <1>3, FS_Singleton
  <2> QED BY <1>2, <1>3, <1>4, <2>1 DEF Clean, Spans, Covers
<1>6. LexedFrom(t, at)
  <2>1. Begins(t)[<< >>] = 0
    BY <1>4, BeginsAre
  <2> QED BY <1>2, <1>3, <2>1 DEF LexedFrom
<1> QED BY <1>3, <1>4, <1>5, <1>6, TreeIs DEF t, node

LEMMA LeafOfShape ==
  ASSUME NEW s \in Shapes, NEW x \in Int, NEW t, t = MakeLeaf(s.padding, s.size, s.lookahead, x)
  PROVE  /\ t \in Tree /\ Clean(t) /\ LexedFrom(t, x) /\ \A p \in Leaves(t) : IsLeaf(t[p])
         /\ Total(t[<< >>]) = s.padding + s.size
         /\ t[<< >>].padding = s.padding /\ t[<< >>].size = s.size
         /\ t[<< >>].bytes_scanned = s.padding + s.size + s.lookahead
         /\ DOMAIN t = {<< >>} /\ t[<< >>].child_count = 0 /\ t[<< >>].lexedAt = x
<1> DEFINE p == s.padding
           z == s.size
           l == s.lookahead
<1>1. p \in Nat /\ z \in Nat /\ l \in Nat
  BY TreeEditAssumption DEF Shapes
<1>2. t = MakeLeaf(p, z, l, x)
  OBVIOUS
<1> HIDE DEF p, z, l
<1> DEFINE leaf == [padding |-> p, size |-> z, bytes_scanned |-> p + z + l,
                    has_changes |-> FALSE, child_count |-> 0, lexedAt |-> x]
<1>3. t \in Tree /\ Clean(t) /\ LexedFrom(t, x) /\ DOMAIN t = {<< >>} /\ t[<< >>] = leaf
  <2>1. /\ MakeLeaf(p, z, l, x) \in Tree /\ Clean(MakeLeaf(p, z, l, x)) /\ LexedFrom(MakeLeaf(p, z, l, x), x)
        /\ DOMAIN MakeLeaf(p, z, l, x) = {<< >>} /\ MakeLeaf(p, z, l, x)[<< >>] = leaf
    BY <1>1, LeafAre
  <2> HIDE DEF leaf
  <2> QED BY <1>2, <2>1, Zenon
<1>4. /\ t[<< >>].padding = p /\ t[<< >>].size = z /\ t[<< >>].bytes_scanned = p + z + l
      /\ t[<< >>].child_count = 0 /\ t[<< >>].lexedAt = x
  BY <1>3
<1> HIDE DEF leaf
<1>5. IsLeaf(t[<< >>])
  BY <1>4 DEF IsLeaf, p, z, l
<1> QED BY <1>3, <1>4, <1>5 DEF Total, Leaves, p, z, l

(* Leaves next to each other.                                              *)
LEMMA LeafRowIs ==
  ASSUME NEW n \in Nat \ {0}, NEW shapes \in [1 .. n -> Shapes]
  PROVE  LeafRow(shapes) \in Row
<1> DEFINE row(f) == [i \in 1 .. n |-> MakeLeaf(shapes[i].padding, shapes[i].size, shapes[i].lookahead, f[i])]
           zero == [i \in 1 .. n |-> 0]
           a == row(zero)
           from == Starts(Roots(a))
           b == row(from)
<1>1. ASSUME NEW i \in 1 .. n
      PROVE  /\ shapes[i] \in Shapes /\ shapes[i].padding \in Nat /\ shapes[i].size \in Nat
             /\ shapes[i].lookahead \in Nat
  BY TreeEditAssumption DEF Shapes
<1>2. ASSUME NEW w \in [1 .. n -> Int]
      PROVE  /\ row(w) \in Seq(Tree) /\ Len(row(w)) = n
             /\ \A i \in 1 .. n : row(w)[i] = MakeLeaf(shapes[i].padding, shapes[i].size, shapes[i].lookahead, w[i])
             /\ \A i \in 1 .. n : Clean(row(w)[i]) /\ LexedFrom(row(w)[i], w[i]) /\ \A p \in Leaves(row(w)[i]) : IsLeaf(row(w)[i][p])
             /\ \A i \in 1 .. n : Total(Roots(row(w))[i]) = shapes[i].padding + shapes[i].size
  <2> DEFINE r == row(w)
  <2>1. \A i \in 1 .. n : r[i] = MakeLeaf(shapes[i].padding, shapes[i].size, shapes[i].lookahead, w[i])
    OBVIOUS
  <2>2. ASSUME NEW i \in 1 .. n
        PROVE  /\ r[i] \in Tree /\ Clean(r[i]) /\ LexedFrom(r[i], w[i]) /\ \A p \in Leaves(r[i]) : IsLeaf(r[i][p])
               /\ Total(r[i][<< >>]) = shapes[i].padding + shapes[i].size
    <3>1. shapes[i] \in Shapes /\ w[i] \in Int
      BY <1>1
    <3> HIDE DEF r
    <3>2. r[i] = MakeLeaf(shapes[i].padding, shapes[i].size, shapes[i].lookahead, w[i])
      BY <2>1
    <3>3. ASSUME NEW s, s = shapes[i], NEW x, x = w[i], NEW t, t = r[i]
          PROVE  /\ t \in Tree /\ Clean(t) /\ LexedFrom(t, x) /\ \A p \in Leaves(t) : IsLeaf(t[p])
                 /\ Total(t[<< >>]) = s.padding + s.size
      <4>1. s \in Shapes /\ x \in Int /\ t = MakeLeaf(s.padding, s.size, s.lookahead, x)
        BY <3>1, <3>2, <3>3
      <4>2. t \in Tree /\ Clean(t) /\ LexedFrom(t, x)
        BY <4>1, LeafOfShape
      <4>3. \A p \in Leaves(t) : IsLeaf(t[p])
        BY <4>1, LeafOfShape
      <4>4. Total(t[<< >>]) = s.padding + s.size
        BY <4>1, LeafOfShape
      <4> QED BY <4>2, <4>3, <4>4
    <3> QED BY <3>3, Zenon
  <2>3. r = [i \in 1 .. n |-> r[i]]
    OBVIOUS
  <2> HIDE DEF r
  <2>4. r \in [1 .. n -> Tree]
    BY <2>2, <2>3
  <2>5. r \in Seq(Tree) /\ Len(r) = n
    BY <2>4, SeqDef, LenProperties
  <2>6. \A i \in 1 .. n : Roots(r)[i] = r[i][<< >>]
    BY <2>5, RowAre
  <2> QED BY <2>1, <2>2, <2>5, <2>6 DEF r
<1>3. LeafRow(shapes) = b
  BY DEF LeafRow
<1>4. zero \in [1 .. n -> Int]
  OBVIOUS
<1> HIDE DEF row, zero
<1>5. a \in Seq(Tree) /\ Len(a) = n /\ \A i \in 1 .. n : Total(Roots(a)[i]) = shapes[i].padding + shapes[i].size
  BY <1>2, <1>4
<1>6. Roots(a) \in Seq(Node) /\ Len(Roots(a)) = n
  BY <1>5, RowAre
<1> HIDE DEF a
<1> DEFINE w == [i \in 1 .. n |-> from[i]]
<1>7. w \in [1 .. n -> Int] /\ \A i \in 1 .. n : w[i] = from[i]
  <2>1. \A i \in 1 .. n : i \in 1 .. n + 1
    OBVIOUS
  <2>2. \A i \in 1 .. n : from[i] \in Nat
    BY <1>6, <2>1, StartsAre
  <2> QED BY <2>2
<1>8. b = row(w)
  BY <1>7 DEF row
<1> HIDE DEF from, w
<1>9. /\ b \in Seq(Tree) /\ Len(b) = n
      /\ \A i \in 1 .. n : Clean(b[i]) /\ LexedFrom(b[i], from[i]) /\ \A p \in Leaves(b[i]) : IsLeaf(b[i][p])
      /\ \A i \in 1 .. n : Total(Roots(b)[i]) = shapes[i].padding + shapes[i].size
  <2>1. /\ row(w) \in Seq(Tree) /\ Len(row(w)) = n
        /\ \A i \in 1 .. n : Clean(row(w)[i]) /\ LexedFrom(row(w)[i], w[i]) /\ \A p \in Leaves(row(w)[i]) : IsLeaf(row(w)[i][p])
        /\ \A i \in 1 .. n : Total(Roots(row(w))[i]) = shapes[i].padding + shapes[i].size
    BY <1>2, <1>7, Zenon
  <2> QED BY <1>7, <1>8, <2>1, Zenon
<1>13. \A i \in 1 .. n : b[i] = MakeLeaf(shapes[i].padding, shapes[i].size, shapes[i].lookahead, from[i])
  <2>1. \A i \in 1 .. n : row(w)[i] = MakeLeaf(shapes[i].padding, shapes[i].size, shapes[i].lookahead, w[i])
    BY <1>2, <1>7, Zenon
  <2> QED BY <1>7, <1>8, <2>1, Zenon
<1> HIDE DEF b
<1>12. \A i \in 1 .. n : 0 \notin Sizes => Solid(b[i])
  <2> SUFFICES ASSUME NEW i \in 1 .. n, 0 \notin Sizes PROVE Solid(b[i])
    OBVIOUS
  <2>1. b[i] = MakeLeaf(shapes[i].padding, shapes[i].size, shapes[i].lookahead, from[i])
    BY <1>13
  <2> DEFINE z == shapes[i].size
  <2>2. z \in Sizes /\ z \in Nat
    <3>1. shapes[i] \in Shapes
      BY <1>1
    <3> QED BY <1>1, <3>1 DEF Shapes
  <2>3. z > 0
    BY <2>2
  <2> HIDE DEF z
  <2>4. DOMAIN b[i] = {<< >>} /\ b[i][<< >>].size = z
    BY <2>1 DEF MakeLeaf, z
  <2> QED BY <2>3, <2>4 DEF Solid
<1>10. \A i \in 1 .. n + 1 : Starts(Roots(a))[i] = Starts(Roots(b))[i]
  <2>1. Roots(b) \in Seq(Node) /\ Len(Roots(b)) = n
    BY <1>9, RowAre
  <2> QED BY <1>5, <1>6, <1>9, <2>1, StartsSame, SMTT(30)
<1>11. \A i \in 1 .. n : from[i] = Starts(Roots(b))[i]
  <2>1. \A i \in 1 .. n : i \in 1 .. n + 1
    OBVIOUS
  <2> QED BY <1>10, <2>1 DEF from
<1> QED BY <1>3, <1>9, <1>11, <1>12 DEF Row, InRow

LEMMA MakeNodeLeaves ==
  ASSUME NEW kids \in Seq(Tree), Len(kids) > 0, \A i \in 1 .. Len(kids) : \A p \in Leaves(kids[i]) : IsLeaf(kids[i][p])
  PROVE  \A p \in Leaves(MakeNode(kids)) : IsLeaf(MakeNode(kids)[p])
<1> DEFINE n == Len(kids)
           root == RootOf(kids)
           t == MakeNode(kids)
<1>1. root \in Node /\ root.child_count = n
  BY RootOfIs
<1>2. t = Graft(root, kids)
  BY MakeNodeIs
<1> HIDE DEF root, t
<1>3. /\ t[<< >>] = root
      /\ \A i \in 1 .. n : \A q \in DOMAIN kids[i] : t[<<i>> \o q] = kids[i][q]
      /\ \A p \in DOMAIN t : p # << >> => \E i \in 1 .. n : \E q \in DOMAIN kids[i] : p = <<i>> \o q
  <2>1. kids \in Seq(Tree) /\ root \in Node /\ root.child_count = Len(kids)
    BY <1>1
  <2>2. /\ t[<< >>] = root
        /\ \A i \in 1 .. Len(kids) : \A q \in DOMAIN kids[i] : <<i>> \o q \in DOMAIN t /\ t[<<i>> \o q] = kids[i][q]
        /\ \A p \in DOMAIN t : p # << >> => \E i \in 1 .. Len(kids) : \E q \in DOMAIN kids[i] : p = <<i>> \o q
    BY <1>2, <2>1, GraftNodes, Zenon
  <2> QED BY <2>2
<1>4. ASSUME NEW p \in Leaves(t) PROVE IsLeaf(t[p])
  <2>1. p \in DOMAIN t /\ p # << >>
    BY <1>1, <1>3 DEF Leaves
  <2>2. PICK i \in 1 .. n : \E q \in DOMAIN kids[i] : p = <<i>> \o q
    BY <1>3, <2>1
  <2>3. PICK q \in DOMAIN kids[i] : p = <<i>> \o q
    BY <2>2
  <2>4. t[p] = kids[i][q]
    BY <1>3, <2>3
  <2>5. q \in Leaves(kids[i])
    BY <2>4 DEF Leaves
  <2> QED BY <2>4, <2>5
<1> QED BY <1>4 DEF t

LEMMA MakeNodeSolid ==
  ASSUME NEW kids \in Seq(Tree), Len(kids) > 0, \A i \in 1 .. Len(kids) : Solid(kids[i])
  PROVE  Solid(MakeNode(kids))
<1> DEFINE n == Len(kids)
           root == RootOf(kids)
           t == MakeNode(kids)
<1>1. root \in Node /\ root.child_count = n /\ Roots(kids)[1].size <= root.size
  BY RootOfIs
<1>2. t = Graft(root, kids)
  BY MakeNodeIs
<1>0. root.size > 0
  <2>1. 1 \in 1 .. n /\ Roots(kids)[1] = kids[1][<< >>] /\ kids[1] \in Tree
    BY RowAre
  <2>2. << >> \in DOMAIN kids[1] /\ kids[1][<< >>] \in Node
    BY <2>1, RootIs
  <2>3. kids[1][<< >>].size \in Nat /\ kids[1][<< >>].size > 0
    BY <2>1, <2>2, NodeType DEF Solid
  <2>4. root.size \in Nat
    BY <1>1, NodeType
  <2> QED BY <1>1, <2>1, <2>3, <2>4
<1> HIDE DEF root, t
<1>3. /\ t[<< >>] = root
      /\ \A i \in 1 .. n : \A q \in DOMAIN kids[i] : t[<<i>> \o q] = kids[i][q]
      /\ \A p \in DOMAIN t : p # << >> => \E i \in 1 .. n : \E q \in DOMAIN kids[i] : p = <<i>> \o q
  BY <1>1, <1>2, GraftNodes
<1>4. ASSUME NEW p \in DOMAIN t, p # << >> PROVE t[p].size > 0
  <2>2. PICK i \in 1 .. n : \E q \in DOMAIN kids[i] : p = <<i>> \o q
    BY <1>3, <1>4
  <2>3. PICK q \in DOMAIN kids[i] : p = <<i>> \o q
    BY <2>2
  <2> QED BY <1>3, <2>3 DEF Solid
<1> QED BY <1>0, <1>3, <1>4 DEF Solid, t

(* A stretch of a sequence replaced by one element.                        *)
Splice(row, a, b, x) == SubSeq(row, 1, a - 1) \o <<x>> \o SubSeq(row, b + 1, Len(row))

LEMMA Spliced ==
  ASSUME NEW S, NEW row \in Seq(S), NEW x \in S, NEW a \in 1 .. Len(row), NEW b \in a .. Len(row)
  PROVE  /\ Splice(row, a, b, x) \in Seq(S) /\ Len(Splice(row, a, b, x)) = Len(row) - (b - a)
         /\ \A k \in 1 .. Len(Splice(row, a, b, x)) :
              Splice(row, a, b, x)[k] = IF k < a THEN row[k] ELSE IF k = a THEN x ELSE row[k + (b - a)]
<1> DEFINE n == Len(row)
           p == SubSeq(row, 1, a - 1)
           q == p \o <<x>>
           r == SubSeq(row, b + 1, n)
           new == Splice(row, a, b, x)
<1>1. n \in Nat /\ \A i \in 1 .. n : row[i] \in S
  BY ElementOfSeq
<1>7. a \in Nat \ {0} /\ b \in Nat /\ a <= b /\ b <= n /\ n - b \in Nat
  BY <1>1
<1>2. p \in Seq(S) /\ Len(p) = a - 1 /\ \A k \in 1 .. a - 1 : p[k] = row[k]
  <2>1. \A i \in 1 .. a - 1 : row[i] \in S
    BY <1>1
  <2>2. 1 \in Int /\ a - 1 \in Int
    BY <1>1
  <2>3. p \in Seq(S) /\ Len(p) = (IF 1 <= a - 1 THEN (a - 1) - 1 + 1 ELSE 0) /\ \A k \in 1 .. (a - 1) - 1 + 1 : p[k] = row[1 + k - 1]
    BY <2>1, <2>2, SubSeqProperties
  <2> HIDE DEF p
  <2> QED BY <1>1, <2>3
<1>3. r \in Seq(S) /\ Len(r) = n - b /\ \A k \in 1 .. n - b : r[k] = row[b + k]
  <2>1. \A i \in b + 1 .. n : row[i] \in S
    BY <1>1
  <2>2. b + 1 \in Int /\ n \in Int
    BY <1>1
  <2>3. r \in Seq(S) /\ Len(r) = (IF b + 1 <= n THEN n - (b + 1) + 1 ELSE 0) /\ \A k \in 1 .. n - (b + 1) + 1 : r[k] = row[(b + 1) + k - 1]
    BY <2>1, <2>2, SubSeqProperties
  <2>4. \A k \in 1 .. n - b : (b + 1) + k - 1 = b + k /\ k \in 1 .. n - (b + 1) + 1
    BY <1>1, <1>7
  <2> HIDE DEF r, n, p, q, new
  <2>5. Len(r) = n - b
    BY <1>1, <1>7, <2>3
  <2>6. ASSUME NEW k \in 1 .. n - b PROVE r[k] = row[b + k]
    BY <2>3, <2>4
  <2> QED BY <2>3, <2>5, <2>6
<1> HIDE DEF p, r
<1>4. q \in Seq(S) /\ Len(q) = a /\ \A k \in 1 .. a : q[k] = IF k <= a - 1 THEN row[k] ELSE x
  <2>1. <<x>> \in Seq(S) /\ Len(<<x>>) = 1 /\ <<x>>[1] = x
    OBVIOUS
  <2> DEFINE y == <<x>>
  <2>2. y \in Seq(S) /\ Len(y) = 1 /\ y[1] = x
    BY <2>1
  <2> HIDE DEF y
  <2>3. p \o y \in Seq(S) /\ Len(p \o y) = Len(p) + Len(y) /\ \A k \in 1 .. Len(p) + Len(y) : (p \o y)[k] = IF k <= Len(p) THEN p[k] ELSE y[k - Len(p)]
    BY <1>2, <2>2, ConcatProperties
  <2>4. a \in Nat \ {0}
    BY <1>1
  <2>5. ASSUME NEW k \in 1 .. a PROVE (p \o y)[k] = IF k <= a - 1 THEN row[k] ELSE x
    <3>1. CASE k <= a - 1
      BY <1>2, <2>2, <2>3, <2>4, <3>1
    <3>2. CASE ~ (k <= a - 1)
      <4>1. k - Len(p) = 1 /\ k \in 1 .. Len(p) + Len(y) /\ ~ (k <= Len(p))
        BY <1>2, <2>2, <2>4, <3>2
      <4> QED BY <2>2, <2>3, <3>2, <4>1
    <3> QED BY <3>1, <3>2
  <2>6. p \o y \in Seq(S) /\ Len(p \o y) = a
    BY <1>2, <2>2, <2>3, <2>4
  <2> QED BY <2>5, <2>6 DEF y
<1>6. new = q \o r
  BY DEF Splice, p, r
<1> HIDE DEF q, n, new
<1>5. q \o r \in Seq(S) /\ Len(q \o r) = a + (n - b) /\ \A k \in 1 .. a + (n - b) : (q \o r)[k] = IF k <= a THEN q[k] ELSE r[k - a]
  <2>1. q \o r \in Seq(S) /\ Len(q \o r) = Len(q) + Len(r) /\ \A k \in 1 .. Len(q) + Len(r) : (q \o r)[k] = IF k <= Len(q) THEN q[k] ELSE r[k - Len(q)]
    BY <1>3, <1>4, ConcatProperties
  <2> QED BY <1>3, <1>4, <2>1
<1>8. Len(new) = n - (b - a)
  <2>1. a + (n - b) = n - (b - a)
    BY <1>1, <1>7
  <2> QED BY <1>5, <1>6, <2>1
<1>9. ASSUME NEW k \in 1 .. a + (n - b) PROVE new[k] = IF k < a THEN row[k] ELSE IF k = a THEN x ELSE row[k + (b - a)]
  <2>0. k \in Int /\ new[k] = IF k <= a THEN q[k] ELSE r[k - a]
    BY <1>5, <1>6, <1>7
  <2>1. CASE k < a
    <3>1. k <= a /\ k \in 1 .. a /\ k <= a - 1 /\ k # a
      BY <1>7, <2>0, <2>1
    <3> QED BY <1>4, <2>0, <2>1, <3>1
  <2>2. CASE k = a
    <3>1. k <= a /\ k \in 1 .. a /\ ~ (k <= a - 1) /\ ~ (k < a)
      BY <1>7, <2>2
    <3> QED BY <1>4, <2>0, <2>2, <3>1
  <2>3. CASE k > a
    <3>1. k - a \in 1 .. n - b /\ b + (k - a) = k + (b - a) /\ ~ (k <= a) /\ ~ (k < a) /\ k # a
      BY <1>1, <1>7, <2>3
    <3>3. r[k - a] = row[k + (b - a)]
      BY <1>3, <3>1
    <3> QED BY <2>0, <3>1, <3>3
  <2> QED BY <1>7, <2>0, <2>1, <2>2, <2>3
<1>10. \A k \in 1 .. Len(new) : new[k] = IF k < a THEN row[k] ELSE IF k = a THEN x ELSE row[k + (b - a)]
  BY <1>5, <1>6, <1>9
<1>11. new \in Seq(S)
  BY <1>5, <1>6
<1> QED BY <1>8, <1>10, <1>11 DEF n, new

(* A stretch of a row, by itself.                                          *)
LEMMA Stretch ==
  ASSUME NEW row \in Seq(Tree), NEW a \in 1 .. Len(row), NEW b \in a .. Len(row)
  PROVE  /\ SubSeq(row, a, b) \in Seq(Tree) /\ Len(SubSeq(row, a, b)) = b - a + 1
         /\ \A k \in 1 .. b - a + 1 : SubSeq(row, a, b)[k] = row[a + k - 1]
         /\ \A k \in 1 .. b - a + 2 :
              Starts(Roots(SubSeq(row, a, b)))[k] = Starts(Roots(row))[a + k - 1] - Starts(Roots(row))[a]
<1> DEFINE n == Len(row)
           m == SubSeq(row, a, b)
           S == Starts(Roots(row))
           f == [k \in 1 .. b - a + 2 |-> S[a + k - 1] - S[a]]
<1>1. n \in Nat /\ a \in Nat \ {0} /\ b \in Nat /\ a <= b /\ b <= n /\ \A i \in 1 .. n : row[i] \in Tree
  BY ElementOfSeq
<1>2. m \in Seq(Tree) /\ Len(m) = b - a + 1 /\ \A k \in 1 .. b - a + 1 : m[k] = row[a + k - 1]
  <2>1. a \in Int /\ b \in Int /\ \A i \in a .. b : row[i] \in Tree
    BY <1>1
  <2>2. /\ m \in Seq(Tree) /\ Len(m) = (IF a <= b THEN b - a + 1 ELSE 0)
        /\ \A k \in 1 .. b - a + 1 : m[k] = row[a + k - 1]
    BY <2>1, SubSeqProperties
  <2> HIDE DEF m
  <2> QED BY <1>1, <2>2
<1> HIDE DEF m
<1>3. Roots(m) \in Seq(Node) /\ Len(Roots(m)) = b - a + 1 /\ \A k \in 1 .. b - a + 1 : Roots(m)[k] = row[a + k - 1][<< >>]
  <2>1. Roots(m) \in Seq(Node) /\ Len(Roots(m)) = Len(m) /\ \A k \in 1 .. Len(m) : Roots(m)[k] = m[k][<< >>]
    BY <1>2, RowAre
  <2> QED BY <1>2, <2>1
<1>4. /\ Roots(row) \in Seq(Node) /\ Len(Roots(row)) = n /\ \A i \in 1 .. n : Roots(row)[i] = row[i][<< >>]
  BY RowAre
<1> DEFINE R == Roots(row)
<1>5. /\ S \in [1 .. n + 1 -> Nat] /\ \A i \in 1 .. n : S[i + 1] = S[i] + Total(R[i]) /\ Total(R[i]) \in Nat
  <2>1. R \in Seq(Node) /\ Len(R) = n
    BY <1>4
  <2> HIDE DEF R
  <2>2. \A i \in 1 .. n : R[i] \in Node
    BY <2>1, ElementOfSeq
  <2>3. \A i \in 1 .. n : Total(R[i]) \in Nat
    BY <2>2, NodeType
  <2>4. Starts(R) \in [1 .. n + 1 -> Nat] /\ \A i \in 1 .. n : Starts(R)[i + 1] = Starts(R)[i] + Total(R[i])
    BY <2>1, StartsAre
  <2> QED BY <2>3, <2>4 DEF R
<1> HIDE DEF S, n
<1>6. f[1] = 0
  <2>1. 1 \in 1 .. b - a + 2 /\ a + 1 - 1 = a /\ a \in 1 .. n + 1
    BY <1>1
  <2>2. S[a] \in Nat
    BY <1>5, <2>1
  <2> QED BY <2>1, <2>2
<1>7. ASSUME NEW k \in 1 .. b - a + 1 PROVE f[k + 1] = f[k] + Total(Roots(m)[k])
  <2>1. /\ k \in 1 .. b - a + 2 /\ k + 1 \in 1 .. b - a + 2 /\ a + (k + 1) - 1 = (a + k - 1) + 1
        /\ a + k - 1 \in 1 .. n /\ a + k - 1 \in 1 .. n + 1 /\ a \in 1 .. n + 1
    BY <1>1
  <2>2. f[k] = S[a + k - 1] - S[a] /\ f[k + 1] = S[(a + k - 1) + 1] - S[a]
    BY <2>1
  <2>3. Roots(m)[k] = R[a + k - 1]
    BY <1>3, <1>4, <2>1
  <2>4. /\ S[(a + k - 1) + 1] = S[a + k - 1] + Total(R[a + k - 1])
        /\ S[a + k - 1] \in Nat /\ S[a] \in Nat /\ Total(R[a + k - 1]) \in Nat
    BY <1>5, <2>1
  <2> HIDE DEF f
  <2> QED BY <2>2, <2>3, <2>4
<1>8. \A k \in 1 .. b - a + 2 : f[k] = S[a + k - 1] - S[a]
  OBVIOUS
<1> HIDE DEF f
<1>9. \A k \in 1 .. Len(Roots(m)) + 1 : f[k] = Starts(Roots(m))[k]
  BY <1>3, <1>6, <1>7, StartsOnly
<1>10. \A k \in 1 .. b - a + 2 : Starts(Roots(m))[k] = S[a + k - 1] - S[a]
  <2>1. Len(Roots(m)) + 1 = b - a + 2
    BY <1>1, <1>3
  <2> QED BY <1>8, <1>9, <2>1
<1> QED BY <1>2, <1>10 DEF m, S

(* Where the trees stand when neighbours are put under one node.           *)
LEMMA ReducedStarts ==
  ASSUME NEW row \in Seq(Tree), NEW a \in 1 .. Len(row), NEW b \in a .. Len(row), NEW x \in Tree,
         Total(x[<< >>]) = Starts(Roots(row))[b + 1] - Starts(Roots(row))[a],
         NEW new \in Seq(Tree), Len(new) = Len(row) - (b - a),
         \A k \in 1 .. Len(new) : new[k] = IF k < a THEN row[k] ELSE IF k = a THEN x ELSE row[k + (b - a)]
  PROVE  \A k \in 1 .. Len(new) + 1 :
           Starts(Roots(new))[k] = IF k <= a THEN Starts(Roots(row))[k] ELSE Starts(Roots(row))[k + (b - a)]
<1> DEFINE n == Len(row)
           m == Len(new)
           S == Starts(Roots(row))
           f == [k \in 1 .. m + 1 |-> IF k <= a THEN S[k] ELSE S[k + (b - a)]]
<1>1. n \in Nat /\ m \in Nat /\ a \in Nat \ {0} /\ b \in Nat /\ a <= b /\ b <= n /\ m = n - (b - a) /\ a <= m
  BY RowAre
<1>2. /\ Roots(row) \in Seq(Node) /\ Len(Roots(row)) = n /\ \A i \in 1 .. n : Roots(row)[i] = row[i][<< >>]
      /\ Roots(new) \in Seq(Node) /\ Len(Roots(new)) = m /\ \A i \in 1 .. m : Roots(new)[i] = new[i][<< >>]
  BY RowAre
<1>3. /\ S \in [1 .. n + 1 -> Nat] /\ S[1] = 0
      /\ \A i \in 1 .. n : S[i + 1] = S[i] + Total(row[i][<< >>])
  <2> DEFINE nodes == Roots(row)
  <2>1. nodes \in Seq(Node)
    BY <1>2
  <2>2. /\ Starts(nodes) \in [1 .. Len(nodes) + 1 -> Nat] /\ Starts(nodes)[1] = 0
        /\ \A i \in 1 .. Len(nodes) : Starts(nodes)[i + 1] = Starts(nodes)[i] + Total(nodes[i])
    <3> HIDE DEF nodes
    <3> QED BY <2>1, StartsAre
  <2>3. Len(nodes) = n /\ \A i \in 1 .. n : nodes[i] = row[i][<< >>]
    BY <1>2
  <2>4. S = Starts(nodes)
    OBVIOUS
  <2> HIDE DEF nodes, S, n
  <2> QED BY <2>2, <2>3, <2>4
<1>4. Total(x[<< >>]) = S[b + 1] - S[a]
  OBVIOUS
<1> HIDE DEF S, n, m
<1>5. f[1] = 0
  BY <1>1, <1>3
<1>6. ASSUME NEW k \in 1 .. m PROVE f[k + 1] = f[k] + Total(Roots(new)[k])
  <2>1. k \in 1 .. m + 1 /\ k + 1 \in 1 .. m + 1 /\ Roots(new)[k] = new[k][<< >>]
    BY <1>1, <1>2
  <2>2. CASE k < a
    <3>1. f[k] = S[k] /\ f[k + 1] = S[k + 1]
      BY <1>1, <2>1, <2>2
    <3>2. new[k] = row[k] /\ k \in 1 .. n
      BY <1>1, <2>2 DEF m
    <3> HIDE DEF f
    <3> QED BY <1>3, <2>1, <3>1, <3>2
  <2>3. CASE k = a
    <3>1. f[k] = S[a] /\ f[k + 1] = S[b + 1]
      <4>1. ~ (k + 1 <= a) /\ (k + 1) + (b - a) = b + 1 /\ k <= a
        BY <1>1, <2>3
      <4> QED BY <2>1, <2>3, <4>1
    <3>2. new[k] = x
      BY <1>1, <2>3 DEF m
    <3>3. S[a] \in Nat /\ S[b + 1] \in Nat
      <4>1. a \in 1 .. n + 1 /\ b + 1 \in 1 .. n + 1
        BY <1>1
      <4> QED BY <1>3, <4>1
    <3> HIDE DEF f
    <3> QED BY <1>4, <2>1, <3>1, <3>2, <3>3
  <2>4. CASE k > a
    <3>1. ~ (k <= a) /\ ~ (k + 1 <= a) /\ (k + 1) + (b - a) = (k + (b - a)) + 1 /\ k + (b - a) \in 1 .. n /\ ~ (k < a) /\ k # a
      BY <1>1, <2>4
    <3>2. f[k] = S[k + (b - a)] /\ f[k + 1] = S[(k + (b - a)) + 1]
      BY <2>1, <3>1
    <3>3. new[k] = row[k + (b - a)]
      BY <3>1 DEF m
    <3> HIDE DEF f
    <3> QED BY <1>3, <2>1, <3>1, <3>2, <3>3
  <2> QED BY <1>1, <2>2, <2>3, <2>4
<1>7. \A k \in 1 .. m + 1 : f[k] = IF k <= a THEN S[k] ELSE S[k + (b - a)]
  OBVIOUS
<1> HIDE DEF f
<1>8. \A k \in 1 .. Len(Roots(new)) + 1 : f[k] = Starts(Roots(new))[k]
  BY <1>2, <1>5, <1>6, StartsOnly
<1> QED BY <1>2, <1>7, <1>8 DEF S, m

(* What a reduction leaves is again a row of clean trees.                  *)
LEMMA ReducedRow ==
  ASSUME NEW row \in Row, NEW a \in 1 .. Len(row), NEW b \in a .. Len(row)
  PROVE  Splice(row, a, b, MakeNode(SubSeq(row, a, b))) \in Row
<1> DEFINE S == Starts(Roots(row))
           m == SubSeq(row, a, b)
           x == MakeNode(m)
           new == Splice(row, a, b, x)
           n == Len(row)
<1>1. row \in Seq(Tree) /\ \A i \in 1 .. n : InRow(row[i], S[i])
  BY DEF Row
<1>2. n \in Nat /\ a \in Nat \ {0} /\ b \in Nat /\ a <= b /\ b <= n
  BY <1>1, RowAre
<1>3. /\ m \in Seq(Tree) /\ Len(m) = b - a + 1
      /\ \A k \in 1 .. b - a + 1 : m[k] = row[a + k - 1]
      /\ \A k \in 1 .. b - a + 2 : Starts(Roots(m))[k] = S[a + k - 1] - S[a]
  BY <1>1, Stretch
<1>4. S \in [1 .. n + 1 -> Nat]
  <2>1. Roots(row) \in Seq(Node) /\ Len(Roots(row)) = n
    BY <1>1, RowAre
  <2> QED BY <2>1, StartsAre
<1> HIDE DEF S, m, n
<1>5. Len(m) > 0 /\ Len(m) \in Nat
  BY <1>2, <1>3
<1>6. ASSUME NEW k \in 1 .. Len(m)
      PROVE  /\ Clean(m[k]) /\ LexedFrom(m[k], S[a] + Starts(Roots(m))[k])
             /\ \A p \in Leaves(m[k]) : IsLeaf(m[k][p])
             /\ 0 \notin Sizes => Solid(m[k])
  <2>1. /\ k \in 1 .. b - a + 1 /\ k \in 1 .. b - a + 2 /\ a + k - 1 \in 1 .. n
        /\ a + k - 1 \in 1 .. n + 1 /\ a \in 1 .. n + 1
    BY <1>2, <1>3, <1>5
  <2>2. m[k] = row[a + k - 1] /\ Starts(Roots(m))[k] = S[a + k - 1] - S[a]
    BY <1>3, <2>1
  <2>3. S[a] + (S[a + k - 1] - S[a]) = S[a + k - 1]
    BY <1>4, <2>1
  <2>4. InRow(row[a + k - 1], S[a + k - 1])
    BY <1>1, <2>1
  <2> QED BY <2>2, <2>3, <2>4 DEF InRow
<1>7. S[a] \in Int /\ S[b + 1] \in Int
  <2>1. a \in 1 .. n + 1 /\ b + 1 \in 1 .. n + 1
    BY <1>2
  <2> QED BY <1>4, <2>1
<1>8. Clean(x) /\ x \in Tree /\ Total(x[<< >>]) = TotalOf(Roots(m))
  BY <1>3, <1>5, <1>6, MakeNodeClean
<1>9. LexedFrom(x, S[a])
  BY <1>3, <1>5, <1>6, <1>7, MakeNodeLexed
<1>10. \A p \in Leaves(x) : IsLeaf(x[p])
  BY <1>3, <1>5, <1>6, MakeNodeLeaves
<1>17. 0 \notin Sizes => Solid(x)
  BY <1>3, <1>5, <1>6, MakeNodeSolid
<1>11. Total(x[<< >>]) = S[b + 1] - S[a]
  <2>1. Len(Roots(m)) = Len(m)
    BY <1>3, RowAre
  <2>2. Len(Roots(m)) + 1 = b - a + 2 /\ b - a + 2 \in 1 .. b - a + 2 /\ a + (b - a + 2) - 1 = b + 1
    BY <1>2, <1>3, <2>1
  <2>3. TotalOf(Roots(m)) = Starts(Roots(m))[b - a + 2]
    BY <2>2 DEF TotalOf
  <2>4. Starts(Roots(m))[b - a + 2] = S[a + (b - a + 2) - 1] - S[a]
    BY <1>3, <2>2
  <2> QED BY <1>8, <2>2, <2>3, <2>4
<1> HIDE DEF x
<1>12. /\ new \in Seq(Tree) /\ Len(new) = n - (b - a)
       /\ \A k \in 1 .. Len(new) : new[k] = IF k < a THEN row[k] ELSE IF k = a THEN x ELSE row[k + (b - a)]
  BY <1>1, <1>8, Spliced DEF n
<1> HIDE DEF new
<1>13. \A k \in 1 .. Len(new) + 1 : Starts(Roots(new))[k] = IF k <= a THEN S[k] ELSE S[k + (b - a)]
  BY <1>1, <1>8, <1>11, <1>12, ReducedStarts DEF S, n
<1>14. Len(new) \in Nat /\ Len(new) > 0
  BY <1>2, <1>12
<1>15. ASSUME NEW k \in 1 .. Len(new) PROVE InRow(new[k], Starts(Roots(new))[k])
  <2>0. k \in 1 .. Len(new) + 1 /\ k \in Int
    BY <1>14
  <2>1. CASE k < a
    <3>1. k <= a /\ k \in 1 .. n
      BY <1>2, <2>0, <2>1
    <3>2. new[k] = row[k] /\ Starts(Roots(new))[k] = S[k]
      BY <1>12, <1>13, <2>0, <2>1, <3>1
    <3> QED BY <1>1, <3>1, <3>2
  <2>2. CASE k = a
    <3>1. k <= a /\ ~ (k < a)
      BY <1>2, <2>2
    <3>2. new[k] = x /\ Starts(Roots(new))[k] = S[a]
      BY <1>12, <1>13, <2>0, <2>2, <3>1
    <3> QED BY <1>8, <1>9, <1>10, <1>17, <3>2 DEF InRow
  <2>3. CASE k > a
    <3>1. ~ (k <= a) /\ ~ (k < a) /\ k # a /\ k + (b - a) \in 1 .. n
      BY <1>2, <1>12, <2>0, <2>3
    <3>2. new[k] = row[k + (b - a)] /\ Starts(Roots(new))[k] = S[k + (b - a)]
      BY <1>12, <1>13, <2>0, <3>1
    <3> QED BY <1>1, <3>1, <3>2
  <2> QED BY <1>2, <2>0, <2>1, <2>2, <2>3
<1>16. new \in Row
  BY <1>12, <1>14, <1>15 DEF Row
<1> QED BY <1>16 DEF new, x, m

LEMMA ReducedRows ==
  ASSUME NEW row \in Row
  PROVE  Reduced(row) \subseteq Row
<1> SUFFICES ASSUME NEW new \in Reduced(row) PROVE new \in Row
  OBVIOUS
<1>1. row \in Seq(Tree) /\ Len(row) \in Nat
  BY RowAre DEF Row
<1>2. PICK g \in {p \in (1 .. Len(row)) \X (1 .. Len(row)) : p[1] <= p[2]} :
        new = SubSeq(row, 1, g[1] - 1) \o <<MakeNode(SubSeq(row, g[1], g[2]))>> \o SubSeq(row, g[2] + 1, Len(row))
  BY Zenon DEF Reduced
<1>3. g[1] \in 1 .. Len(row) /\ g[2] \in g[1] .. Len(row)
  BY <1>1
<1>4. new = Splice(row, g[1], g[2], MakeNode(SubSeq(row, g[1], g[2])))
  BY <1>2, Zenon DEF Splice
<1> QED BY <1>3, <1>4, ReducedRow, Zenon

LEMMA LeafRowsAre == LeafRows \subseteq Row
<1> SUFFICES ASSUME NEW row \in LeafRows PROVE row \in Row
  OBVIOUS
<1>1. PICK s \in UNION {[1 .. n -> Shapes] : n \in 1 .. MaxLeaves} : row = LeafRow(s)
  BY Zenon DEF LeafRows
<1>2. PICK n \in 1 .. MaxLeaves : s \in [1 .. n -> Shapes]
  BY <1>1
<1>3. n \in Nat \ {0}
  BY TreeEditAssumption
<1> QED BY <1>1, <1>2, <1>3, LeafRowIs

(* Every row a parse may end with is a row of clean trees.                 *)
LEMMA RowsAre == Rows \subseteq Row
<1> DEFINE B(f) == [n \in 0 .. MaxReductions |->
                      IF n = 0 THEN LeafRows ELSE f[n - 1] \cup UNION {Reduced(row) : row \in f[n - 1]}]
           step == [n \in 0 .. MaxReductions |->
                      [R \in SUBSET Row |-> R \cup UNION {Reduced(row) : row \in R}]]
           rows == CHOOSE f : f = B(f)
<1>1. MaxReductions \in Nat /\ 0 \in Nat
  BY TreeEditAssumption
<1>2. \A R \in SUBSET Row : R \cup UNION {Reduced(row) : row \in R} \in SUBSET Row
  BY ReducedRows
<1>3. step \in [0 .. MaxReductions -> [SUBSET Row -> SUBSET Row]]
  BY <1>2
<1>4. LeafRows \in SUBSET Row
  BY LeafRowsAre
<1>5. PICK g : IsRecursion(g, SUBSET Row, LeafRows, 0, MaxReductions, step)
  <2> HIDE DEF step
  <2> QED BY <1>1, <1>3, <1>4, Recursion
<1>6. /\ g \in [0 .. MaxReductions -> SUBSET Row]
      /\ g = [n \in 0 .. MaxReductions |-> IF n = 0 THEN LeafRows ELSE step[n][g[n - 1]]]
  BY <1>5 DEF IsRecursion
<1>7. g = B(g)
  <2>1. ASSUME NEW n \in 0 .. MaxReductions PROVE g[n] = B(g)[n]
    <3>1. CASE n = 0
      <4>1. g[n] = LeafRows
        BY <1>6, <3>1
      <4>2. B(g)[n] = LeafRows
        BY <3>1
      <4> QED BY <4>1, <4>2
    <3>2. CASE n # 0
      <4>1. n - 1 \in 0 .. MaxReductions /\ g[n - 1] \in SUBSET Row
        <5>1. n - 1 \in 0 .. MaxReductions
          BY <1>1, <3>2
        <5> HIDE DEF step, B
        <5> QED BY <1>6, <5>1
      <4>2. g[n] = step[n][g[n - 1]]
        <5> HIDE DEF step
        <5> QED BY <1>6, <3>2
      <4>3. step[n][g[n - 1]] = g[n - 1] \cup UNION {Reduced(row) : row \in g[n - 1]}
        BY <4>1
      <4>4. B(g)[n] = g[n - 1] \cup UNION {Reduced(row) : row \in g[n - 1]}
        BY <3>2
      <4> QED BY <4>2, <4>3, <4>4
    <3> QED BY <3>1, <3>2
  <2>2. g = [n \in 0 .. MaxReductions |-> g[n]] /\ B(g) = [n \in 0 .. MaxReductions |-> B(g)[n]]
    <3>1. g = [n \in 0 .. MaxReductions |-> g[n]]
      <4> HIDE DEF step
      <4> QED BY <1>6
    <3> QED BY <3>1
  <2> HIDE DEF B, step
  <2> QED BY <2>1, <2>2, Zenon
<1>8. Rows = rows[MaxReductions]
  BY Zenon DEF Rows
<1> HIDE DEF B, step
<1>9. rows = B(rows)
  BY <1>7, Zenon
<1>10. \A n \in 0 .. MaxReductions : n = 0 \/ rows[n - 1] \in SUBSET Row => rows[n] \in SUBSET Row
  <2> SUFFICES ASSUME NEW n \in 0 .. MaxReductions, n = 0 \/ rows[n - 1] \in SUBSET Row PROVE rows[n] \in SUBSET Row
    OBVIOUS
  <2> HIDE DEF rows
  <2>1. rows[n] = IF n = 0 THEN LeafRows ELSE rows[n - 1] \cup UNION {Reduced(row) : row \in rows[n - 1]}
    BY <1>9 DEF B
  <2> QED BY <1>2, <1>4, <2>1
<1> HIDE DEF rows
<1> DEFINE T == {n \in Nat : n \in 0 .. MaxReductions => rows[n] \in SUBSET Row}
<1>11. 0 \in T
  BY <1>1, <1>10
<1>12. ASSUME NEW n \in T PROVE n + 1 \in T
  <2>1. n \in Nat /\ (n + 1) - 1 = n
    OBVIOUS
  <2>2. CASE n + 1 \in 0 .. MaxReductions
    <3>1. n \in 0 .. MaxReductions
      BY <1>1, <2>1, <2>2
    <3> QED BY <1>10, <2>1, <2>2, <3>1
  <2> QED BY <2>1, <2>2
<1>13. T \subseteq Nat
  OBVIOUS
<1> HIDE DEF T
<1>14. T = Nat
  BY <1>11, <1>12, <1>13, Induct
<1>15. MaxReductions \in T /\ MaxReductions \in 0 .. MaxReductions
  BY <1>1, <1>14
<1> QED BY <1>8, <1>15 DEF T

(* What a parse leaves is clean, and its leaves stand where they were      *)
(* lexed.                                                                  *)
LEMMA TreesAre ==
  ASSUME NEW t \in Trees
  PROVE  t \in Tree /\ Clean(t) /\ LexedFrom(t, 0) /\ \A p \in Leaves(t) : IsLeaf(t[p])
<1>1. PICK row \in Rows : t = MakeNode(row)
  BY DEF Trees
<1>2. row \in Row
  BY RowsAre
<1>3. row \in Seq(Tree) /\ Len(row) > 0 /\ \A i \in 1 .. Len(row) : InRow(row[i], Starts(Roots(row))[i])
  BY <1>2 DEF Row
<1>4. \A i \in 1 .. Len(row) : Starts(Roots(row))[i] \in Nat
  <2>1. Roots(row) \in Seq(Node) /\ Len(Roots(row)) = Len(row) /\ Len(row) \in Nat
    BY <1>3, RowAre
  <2>2. Starts(Roots(row)) \in [1 .. Len(row) + 1 -> Nat]
    BY <2>1, StartsAre
  <2> QED BY <2>1, <2>2
<1>5. \A i \in 1 .. Len(row) : LexedFrom(row[i], 0 + Starts(Roots(row))[i])
  <2> SUFFICES ASSUME NEW i \in 1 .. Len(row) PROVE LexedFrom(row[i], 0 + Starts(Roots(row))[i])
    OBVIOUS
  <2>1. 0 + Starts(Roots(row))[i] = Starts(Roots(row))[i]
    BY <1>4
  <2> QED BY <1>3, <2>1 DEF InRow
<1>6. Clean(t) /\ t \in Tree
  BY <1>1, <1>3, MakeNodeClean DEF InRow
<1>7. LexedFrom(t, 0)
  BY <1>1, <1>3, <1>5, MakeNodeLexed
<1>8. \A p \in Leaves(t) : IsLeaf(t[p])
  BY <1>1, <1>3, MakeNodeLeaves DEF InRow
<1> QED BY <1>6, <1>7, <1>8

-----------------------------------------------------------------------------
(* Where the nodes stand after an edit, seen from the root: b and d are    *)
(* where a node began and ended, nb is where it begins now, and c is what  *)
(* is called for on it.                                                    *)
Before(b, d, e, c, nb) == d < e.start /\ nb = b /\ c.call # "edit"
After(b, e, c, nb) == e.start + e.removed <= b /\ nb = b + e.added - e.removed /\ c.call # "edit"
Empty(b, d, c) == b = d /\ c.call # "edit"

(* What came before the edit and is not asked about it did not look so far.*)
Asked(b, scanned, e, c) ==
  \/ c = LookCall(e.start - b)
  \/ c = NoCall /\ b + scanned <= e.start

Placed(b, d, scanned, e, c, nb, covers) ==
  \/ Touched(b, d, e, c, nb) \/ Cut(b, d, e, c, nb) \/ After(b, e, c, nb) \/ Empty(b, d, c)
  \/ Before(b, d, e, c, nb) /\ (covers => Asked(b, scanned, e, c))

LEMMA TouchedFields ==
  ASSUME NEW b, NEW d, NEW e, NEW c, NEW nb, Touched(b, d, e, c, nb)
  PROVE  /\ b <= e.start /\ e.start <= d /\ nb = b
         /\ c.call = "edit" /\ c.start = e.start - b /\ c.added = e.added
         /\ c.removed = (IF e.start + e.removed > d THEN d ELSE e.start + e.removed) - e.start
  BY DEF Touched, EditCall

LEMMA CutFields ==
  ASSUME NEW b, NEW d, NEW e, NEW c, NEW nb, Cut(b, d, e, c, nb)
  PROVE  /\ e.start <= b /\ b < e.start + e.removed /\ nb = e.start + e.added
         /\ c.call = "edit" /\ c.start = 0 /\ c.added = 0
         /\ c.removed = (IF e.start + e.removed > d THEN d ELSE e.start + e.removed) - b
  BY DEF Cut, EditCall

(* The children of a node that the insertion went to.                      *)
LEMMA ChildOfTouched ==
  ASSUME NEW P \in Nat, NEW Q \in Nat, NEW e, NEW length, IsEdit(e, length), e.start < Word,
         NEW c, NEW nP, Touched(P, Q, e, c, nP),
         NEW b \in Nat, NEW d \in Nat, b <= d, P + d <= Q, NEW cc \in Call, NEW nb \in Int, ChildCall(b, d, c, cc, nb),
         NEW scanned, NEW covers
  PROVE  Placed(P + b, P + d, scanned, e, cc, nP + nb, covers)
<1>1. /\ P <= e.start /\ e.start <= Q /\ nP = P
      /\ c.start = e.start - P /\ c.added = e.added
      /\ c.removed = (IF e.start + e.removed > Q THEN Q ELSE e.start + e.removed) - e.start
  BY TouchedFields
<1>2. e.start \in Nat /\ e.removed \in Nat /\ e.added \in Nat /\ Word \in Nat \ {0}
  BY TreeEditAssumption DEF IsEdit
<1>3. CASE LeftOf(b, d, c, cc, nb)
  <2>1. d < c.start /\ cc = LookCall((c.start - b) % Word) /\ nb = b
    BY <1>3 DEF LeftOf
  <2>2. P + d < e.start /\ c.start - b = e.start - (P + b) /\ nP + nb = P + b
    BY <1>1, <1>2, <2>1
  <2>3. e.start - (P + b) \in 0 .. Word - 1
    BY <1>2, <2>2
  <2>4. (e.start - (P + b)) % Word = e.start - (P + b)
    BY <1>2, <2>3
  <2>5. cc = LookCall(e.start - (P + b)) /\ cc.call # "edit"
    BY <2>1, <2>2, <2>4 DEF LookCall
  <2> QED BY <2>2, <2>5 DEF Placed, Before, Asked
<1>4. CASE Touched(b, d, c, cc, nb)
  <2>1. /\ b <= c.start /\ c.start <= d /\ nb = b
        /\ cc = EditCall(c.start - b, (IF c.start + c.removed > d THEN d ELSE c.start + c.removed) - c.start, c.added)
    BY <1>4 DEF Touched
  <2>2. P + b <= e.start /\ e.start <= P + d /\ nP + nb = P + b
    BY <1>1, <1>2, <2>1
  <2>3. c.start - b = e.start - (P + b)
    BY <1>1, <1>2
  <2>4. (IF c.start + c.removed > d THEN d ELSE c.start + c.removed) - c.start
          = (IF e.start + e.removed > P + d THEN P + d ELSE e.start + e.removed) - e.start
    BY <1>1, <1>2
  <2>5. Touched(P + b, P + d, e, cc, nP + nb)
    BY <1>1, <2>1, <2>2, <2>3, <2>4, Zenon DEF Touched
  <2> QED BY <2>5 DEF Placed
<1>5. CASE Cut(b, d, c, cc, nb)
  <2>1. /\ c.start <= b /\ b < c.start + c.removed /\ nb = c.start + c.added
        /\ cc = EditCall(0, (IF c.start + c.removed > d THEN d ELSE c.start + c.removed) - b, 0)
    BY <1>5 DEF Cut
  <2>2. e.start <= P + b /\ P + b < e.start + e.removed /\ nP + nb = e.start + e.added
    BY <1>1, <1>2, <2>1
  <2>3. (IF c.start + c.removed > d THEN d ELSE c.start + c.removed) - b
          = (IF e.start + e.removed > P + d THEN P + d ELSE e.start + e.removed) - (P + b)
    BY <1>1, <1>2
  <2>4. Cut(P + b, P + d, e, cc, nP + nb)
    BY <2>1, <2>2, <2>3, Zenon DEF Cut
  <2> QED BY <2>4 DEF Placed
<1>6. CASE RightOf(b, c, cc, nb)
  <2>1. c.start + c.removed <= b /\ nb = b + c.added - c.removed /\ cc.call # "edit"
    BY <1>6 DEF RightOf, LookCall
  <2>2. CASE e.start + e.removed > Q
    <3>1. P + b = P + d
      BY <1>1, <1>2, <2>1, <2>2
    <3> QED BY <2>1, <3>1 DEF Placed, Empty
  <2>3. CASE ~ (e.start + e.removed > Q)
    <3>1. e.start + e.removed <= P + b /\ nP + nb = (P + b) + e.added - e.removed
      BY <1>1, <1>2, <2>1, <2>3
    <3> QED BY <2>1, <3>1 DEF Placed, After
  <2> QED BY <2>2, <2>3
<1> QED BY <1>3, <1>4, <1>5, <1>6 DEF ChildCall

(* The children of a node that the deletion went through.                  *)
LEMMA ChildOfCut ==
  ASSUME NEW P \in Nat, NEW Q \in Nat, NEW e, NEW length, IsEdit(e, length),
         NEW c, NEW nP, Cut(P, Q, e, c, nP),
         NEW b \in Nat, NEW d \in Nat, b <= d, P + d <= Q, NEW cc \in Call, NEW nb \in Int, ChildCall(b, d, c, cc, nb),
         NEW scanned, NEW covers
  PROVE  Placed(P + b, P + d, scanned, e, cc, nP + nb, covers)
<1>1. /\ e.start <= P /\ P < e.start + e.removed /\ nP = e.start + e.added
      /\ c.start = 0 /\ c.added = 0
      /\ c.removed = (IF e.start + e.removed > Q THEN Q ELSE e.start + e.removed) - P
  BY CutFields
<1>2. e.start \in Nat /\ e.removed \in Nat /\ e.added \in Nat
  BY DEF IsEdit
<1>3. CASE LeftOf(b, d, c, cc, nb)
  BY <1>1, <1>3 DEF LeftOf
<1>4. CASE Touched(b, d, c, cc, nb)
  <2>1. /\ b = 0 /\ nb = 0
        /\ cc = EditCall(c.start - b, (IF c.start + c.removed > d THEN d ELSE c.start + c.removed) - c.start, c.added)
    BY <1>1, <1>4 DEF Touched
  <2>2. e.start <= P + b /\ P + b < e.start + e.removed /\ nP + nb = e.start + e.added
    BY <1>1, <1>2, <2>1
  <2>3. c.start - b = 0 /\ c.added = 0
    BY <1>1, <2>1
  <2>4. (IF c.start + c.removed > d THEN d ELSE c.start + c.removed) - c.start
          = (IF e.start + e.removed > P + d THEN P + d ELSE e.start + e.removed) - (P + b)
    BY <1>1, <1>2, <2>1
  <2>5. Cut(P + b, P + d, e, cc, nP + nb)
    BY <2>1, <2>2, <2>3, <2>4, Zenon DEF Cut
  <2> QED BY <2>5 DEF Placed
<1>5. CASE Cut(b, d, c, cc, nb)
  <2>1. /\ c.start <= b /\ b < c.start + c.removed /\ nb = c.start + c.added
        /\ cc = EditCall(0, (IF c.start + c.removed > d THEN d ELSE c.start + c.removed) - b, 0)
    BY <1>5 DEF Cut
  <2>2. e.start <= P + b /\ P + b < e.start + e.removed /\ nP + nb = e.start + e.added
    BY <1>1, <1>2, <2>1
  <2>3. (IF c.start + c.removed > d THEN d ELSE c.start + c.removed) - b
          = (IF e.start + e.removed > P + d THEN P + d ELSE e.start + e.removed) - (P + b)
    BY <1>1, <1>2
  <2>4. Cut(P + b, P + d, e, cc, nP + nb)
    BY <2>1, <2>2, <2>3, Zenon DEF Cut
  <2> QED BY <2>4 DEF Placed
<1>6. CASE RightOf(b, c, cc, nb)
  <2>1. c.start + c.removed <= b /\ nb = b + c.added - c.removed /\ cc.call # "edit"
    BY <1>6 DEF RightOf, LookCall
  <2>2. CASE e.start + e.removed > Q
    <3>1. P + b = P + d
      BY <1>1, <1>2, <2>1, <2>2
    <3> QED BY <2>1, <3>1 DEF Placed, Empty
  <2>3. CASE ~ (e.start + e.removed > Q)
    <3>1. e.start + e.removed <= P + b /\ nP + nb = (P + b) + e.added - e.removed
      BY <1>1, <1>2, <2>1, <2>3
    <3> QED BY <2>1, <3>1 DEF Placed, After
  <2> QED BY <2>2, <2>3
<1> QED BY <1>3, <1>4, <1>5, <1>6 DEF ChildCall

(* No child ends behind its parent.                                        *)
LEMMA ChildEnds ==
  ASSUME NEW t, WellFormed(t), Spans(t), NEW p \in DOMAIN t, NEW i \in 1 .. t[p].child_count
  PROVE  ChildStart(t, p, i) + Total(t[Append(p, i)]) <= Total(t[p])
<1> DEFINE kids == Kids(t, p)
           n == t[p].child_count
<1>1. kids \in Seq(Node) /\ Len(kids) = n /\ n \in Nat /\ kids[i] = t[Append(p, i)]
  BY KidsAre
<1>2. Total(t[p]) = Starts(kids)[n + 1]
  <2>1. Total(t[p]) = TotalOf(kids)
    BY <1>1 DEF Spans
  <2> QED BY <1>1, <2>1 DEF TotalOf
<1>3. ChildStart(t, p, i) = Starts(kids)[i]
  BY DEF ChildStart
<1> HIDE DEF kids, n
<1>4. i \in 1 .. n
  BY DEF n
<1>5. i + 1 \in 1 .. n + 1 /\ n + 1 \in 1 .. n + 1 /\ i + 1 <= n + 1
  BY <1>1, <1>4
<1>6. Starts(kids)[i + 1] <= Starts(kids)[n + 1]
  BY <1>1, <1>5, StartsGrow
<1>7. Starts(kids)[i + 1] = Starts(kids)[i] + Total(kids[i])
  BY <1>1, <1>4, StartsAre
<1> QED BY <1>1, <1>2, <1>3, <1>6, <1>7

(* The children of a node that is not edited itself.                       *)
LEMMA ChildOfOther ==
  ASSUME NEW t, WellFormed(t), Spans(t), NEW p \in DOMAIN t, NEW i \in 1 .. t[p].child_count,
         NEW e, NEW length, IsEdit(e, length), NEW c \in Call, c.call # "edit",
         NEW P \in Nat, NEW nP \in Int, NEW covers \in BOOLEAN, covers => Covers(t, p),
         Placed(P, P + Total(t[p]), t[p].bytes_scanned, e, c, nP, covers),
         NEW b, b = ChildStart(t, p, i), NEW k, k = t[Append(p, i)]
  PROVE  Placed(P + b, P + (b + Total(k)), k.bytes_scanned, e, CallFor(t, p, c, i), nP + b, covers)
<1> DEFINE T == Total(t[p])
           d == b + Total(k)
           cc == CallFor(t, p, c, i)
<1>1. b \in Nat /\ k \in Node /\ Total(k) \in Nat /\ k.bytes_scanned \in Nat /\ T \in Nat /\ t[p].bytes_scanned \in Nat
  BY ChildStartType, ChildPath, NodeType
<1>2. d <= T
  BY ChildEnds
<1>3. e.start \in Nat /\ e.removed \in Nat /\ e.added \in Nat
  BY DEF IsEdit
<1>4. cc.call # "edit"
  BY CallsOfOther
<1>5. c.call = "look" => cc = LookFor(t, p, c.start, i)
  BY DEF CallFor
<1>6. c.call = "none" => cc = NoCall
  BY DEF CallFor
<1>7. /\ ~ Touched(P, P + T, e, c, nP)
      /\ ~ Cut(P, P + T, e, c, nP)
  BY TouchedFields, CutFields
<1>8. \/ After(P, e, c, nP)
      \/ Empty(P, P + T, c)
      \/ Before(P, P + T, e, c, nP) /\ (covers => Asked(P, t[p].bytes_scanned, e, c))
  BY <1>7, Zenon DEF Placed
<1>9. covers => b + k.bytes_scanned <= t[p].bytes_scanned
  BY DEF Covers
<1>10. LookFor(t, p, c.start, i) = IF c.start < t[p].bytes_scanned /\ b <= c.start THEN LookCall(c.start - b) ELSE NoCall
  BY DEF LookFor, LooksAt
<1> HIDE DEF T, cc
<1>11. CASE After(P, e, c, nP)
  <2>1. e.start + e.removed <= P + b /\ nP + b = (P + b) + e.added - e.removed
    BY <1>1, <1>3, <1>11 DEF After
  <2>2. After(P + b, e, cc, nP + b)
    BY <1>4, <2>1 DEF After
  <2> QED BY <2>2 DEF Placed, cc
<1>12. CASE Empty(P, P + T, c)
  <2>1. T = 0
    BY <1>1, <1>12 DEF Empty
  <2>2. P + b = P + d
    BY <1>1, <1>2, <2>1
  <2>3. Empty(P + b, P + d, cc)
    BY <1>4, <2>2 DEF Empty
  <2> QED BY <2>3 DEF Placed, cc
<1>13. CASE Before(P, P + T, e, c, nP) /\ (covers => Asked(P, t[p].bytes_scanned, e, c))
  <2>1. P + T < e.start /\ nP = P
    BY <1>13 DEF Before
  <2>2. P + d < e.start /\ nP + b = P + b
    BY <1>1, <1>2, <1>3, <2>1
  <2>3. Before(P + b, P + d, e, cc, nP + b)
    BY <1>4, <2>2 DEF Before
  <2>4. ASSUME covers PROVE Asked(P + b, k.bytes_scanned, e, cc)
    <3>1. CASE c = LookCall(e.start - P)
      <4>1. c.call = "look" /\ c.start = e.start - P
        BY <3>1, CallFields
      <4>2. b <= c.start /\ c.start - b = e.start - (P + b)
        BY <1>1, <1>2, <1>3, <2>1, <4>1
      <4>3. cc = IF c.start < t[p].bytes_scanned THEN LookCall(e.start - (P + b)) ELSE NoCall
        BY <1>5, <1>10, <4>1, <4>2
      <4>4. CASE c.start < t[p].bytes_scanned
        BY <4>3, <4>4 DEF Asked
      <4>5. CASE ~ (c.start < t[p].bytes_scanned)
        <5>1. (P + b) + k.bytes_scanned <= e.start
          BY <1>1, <1>3, <1>9, <2>4, <4>1, <4>5
        <5> QED BY <4>3, <4>5, <5>1 DEF Asked
      <4> QED BY <4>4, <4>5
    <3>2. CASE c = NoCall /\ P + t[p].bytes_scanned <= e.start
      <4>1. cc = NoCall
        BY <1>6, <3>2, CallFields
      <4>2. (P + b) + k.bytes_scanned <= e.start
        BY <1>1, <1>3, <1>9, <2>4, <3>2
      <4> QED BY <4>1, <4>2 DEF Asked
    <3> QED BY <1>13, <2>4, <3>1, <3>2 DEF Asked
  <2> QED BY <2>3, <2>4 DEF Placed, cc
<1> QED BY <1>8, <1>11, <1>12, <1>13

(* Where every node stands after an edit.                                  *)
LEMMA EditedPlaces ==
  ASSUME NEW t, WellFormed(t), Spans(t), NEW e, IsEdit(e, Total(t[<< >>])), Total(t[<< >>]) < Word,
         NEW covers \in BOOLEAN, covers => \A p \in DOMAIN t : Covers(t, p)
  PROVE  \A p \in DOMAIN t :
           Placed(Begins(t)[p], Begins(t)[p] + Total(t[p]), t[p].bytes_scanned, e,
                  Calls(t, e)[p], Begins(Edited(t, e))[p], covers)
<1> DEFINE n == Edited(t, e)
           C == Calls(t, e)
           B == Begins(t)
           N == Begins(n)
           In(p) == Placed(B[p], B[p] + Total(t[p]), t[p].bytes_scanned, e, C[p], N[p], covers)
           T == {p \in DOMAIN t : In(p)}
<1>1. /\ DOMAIN n = DOMAIN t /\ WellFormed(n)
      /\ \A p \in DOMAIN t : n[p].child_count = t[p].child_count
  BY EditedAre
<1>2. /\ e.start \in Nat /\ e.removed \in Nat /\ e.added \in Nat /\ e \in Call /\ e.call = "edit"
      /\ e.start + e.removed <= Total(t[<< >>]) /\ Word \in Nat
  BY TreeEditAssumption DEF IsEdit
<1>3. /\ B \in [DOMAIN t -> Nat] /\ B[<< >>] = 0
      /\ \A p \in DOMAIN t : \A i \in 1 .. t[p].child_count : B[Append(p, i)] = B[p] + ChildStart(t, p, i)
  BY BeginsAre
<1>4. N \in [DOMAIN n -> Nat] /\ N[<< >>] = 0
  BY <1>1, BeginsAre
<1>5. \A p \in DOMAIN t : \A i \in 1 .. t[p].child_count : N[Append(p, i)] = N[p] + ChildStart(n, p, i)
  <2>1. \A p \in DOMAIN n : \A i \in 1 .. n[p].child_count : N[Append(p, i)] = N[p] + ChildStart(n, p, i)
    BY <1>1, BeginsAre
  <2> HIDE DEF n, N
  <2> QED BY <1>1, <2>1
<1>6. /\ C[<< >>] = e
      /\ \A p \in DOMAIN t : \A i \in 1 .. t[p].child_count : C[Append(p, i)] = CallFor(t, p, C[p], i)
  BY <1>2, CallsAre
<1>7. \A p \in DOMAIN t : C[p] \in Call /\ (C[p].call = "edit" => IsEdit(C[p], Total(t[p])))
  BY CallsValid
<1>8. \A p \in DOMAIN t : t[p] \in Node /\ Total(t[p]) \in Nat
  BY NodeType DEF WellFormed
<1>9. << >> \in DOMAIN t
  BY DEF WellFormed
<1>10. \A p \in DOMAIN t : C[p].call = "edit" =>
         \A i \in 1 .. t[p].child_count : ChildStart(n, p, i) = EditKids(Kids(t, p), C[p])[i - 1].right
  BY EditedKids
<1>11. \A p \in DOMAIN t : C[p].call # "edit" =>
         \A i \in 1 .. t[p].child_count : ChildStart(n, p, i) = ChildStart(t, p, i)
  BY EditedOtherKids
<1> HIDE DEF n, C, B, N
<1>12. << >> \in T
  <2>1. e.start < Word
    BY <1>2, <1>8, <1>9
  <2>2. e = EditCall(e.start - 0, (IF e.start + e.removed > Total(t[<< >>]) THEN Total(t[<< >>]) ELSE e.start + e.removed) - e.start, e.added)
    <3>1. e.start - 0 = e.start
      BY <1>2
    <3>2. (IF e.start + e.removed > Total(t[<< >>]) THEN Total(t[<< >>]) ELSE e.start + e.removed) - e.start = e.removed
      BY <1>2, <1>8, <1>9
    <3>3. e = EditCall(e.start, e.removed, e.added)
      BY <1>2 DEF EditCall, Call
    <3> QED BY <3>1, <3>2, <3>3
  <2>3. B[<< >>] + Total(t[<< >>]) = Total(t[<< >>]) /\ 0 <= e.start /\ e.start <= Total(t[<< >>])
    BY <1>2, <1>3, <1>8, <1>9
  <2>4. Touched(B[<< >>], B[<< >>] + Total(t[<< >>]), e, C[<< >>], N[<< >>])
    BY <1>3, <1>4, <1>6, <2>2, <2>3 DEF Touched
  <2> QED BY <1>9, <2>4 DEF Placed
<1>13. ASSUME NEW p \in T, NEW i \in 1 .. t[p].child_count PROVE Append(p, i) \in T
  <2> DEFINE q == Append(p, i)
             b == ChildStart(t, p, i)
             d == b + Total(t[q])
  <2>1. p \in DOMAIN t /\ In(p)
    OBVIOUS
  <2>2. q \in DOMAIN t /\ b \in Nat
    BY <2>1, ChildPath, ChildStartType
  <2>3. Total(t[q]) \in Nat /\ B[p] \in Nat /\ Total(t[p]) \in Nat /\ N[p] \in Nat
    BY <1>1, <1>3, <1>4, <1>8, <2>1, <2>2
  <2>4. d <= Total(t[p])
    BY <2>1, ChildEnds
  <2>5. B[q] = B[p] + b /\ C[q] = CallFor(t, p, C[p], i) /\ N[q] = N[p] + ChildStart(n, p, i)
    BY <1>3, <1>5, <1>6, <2>1
  <2>6. B[q] + Total(t[q]) = B[p] + d
    BY <2>2, <2>3, <2>5
  <2>7. d \in Nat /\ b <= d /\ B[p] + d <= B[p] + Total(t[p])
    BY <2>2, <2>3, <2>4
  <2>8. CASE C[p].call = "edit"
    <3> DEFINE nb == EditKids(Kids(t, p), C[p])[i - 1].right
    <3>1. IsEdit(C[p], Total(t[p]))
      BY <1>7, <2>1, <2>8
    <3>2. C[q] \in Call /\ ChildCall(b, d, C[p], C[q], nb)
      BY <2>1, <2>5, <3>1, CallsOfEdit
    <3>3. N[q] = N[p] + nb
      BY <1>10, <2>1, <2>5, <2>8
    <3>4. nb \in Int
      <4>1. Kids(t, p) \in Seq(Node) /\ Len(Kids(t, p)) = t[p].child_count /\ t[p].child_count \in Nat
        BY <2>1, KidsAre
      <4>2. i - 1 \in 0 .. Len(Kids(t, p))
        BY <4>1
      <4>3. EditKids(Kids(t, p), C[p]) \in [0 .. Len(Kids(t, p)) -> KidState]
        BY <1>7, <2>1, <4>1, KidStates
      <4>4. EditKids(Kids(t, p), C[p])[i - 1] \in KidState
        BY <4>2, <4>3
      <4> QED BY <4>4 DEF KidState
    <3>5. e.start < Word
      BY <1>2, <1>8, <1>9
    <3>6. Touched(B[p], B[p] + Total(t[p]), e, C[p], N[p]) \/ Cut(B[p], B[p] + Total(t[p]), e, C[p], N[p])
      BY <2>1, <2>8, Zenon DEF Placed, After, Empty, Before
    <3> HIDE DEF nb, q, b, d, In
    <3>7. Placed(B[p] + b, B[p] + d, t[q].bytes_scanned, e, C[q], N[p] + nb, covers)
      <4>1. B[p] + Total(t[p]) \in Nat
        BY <2>3
      <4>2. CASE Touched(B[p], B[p] + Total(t[p]), e, C[p], N[p])
        BY <2>2, <2>3, <2>7, <3>2, <3>4, <3>5, <4>1, <4>2, ChildOfTouched
      <4>3. CASE Cut(B[p], B[p] + Total(t[p]), e, C[p], N[p])
        BY <2>2, <2>3, <2>7, <3>2, <3>4, <4>1, <4>3, ChildOfCut
      <4> QED BY <3>6, <4>2, <4>3
    <3>8. In(q)
      BY <2>5, <2>6, <3>3, <3>7 DEF In
    <3> QED BY <2>2, <3>8 DEF q
  <2>9. CASE C[p].call # "edit"
    <3>1. N[q] = N[p] + b
      BY <1>11, <2>1, <2>5, <2>9
    <3>2. C[p] \in Call /\ (covers => Covers(t, p))
      BY <1>7, <2>1
    <3>3. Placed(B[p] + b, B[p] + (b + Total(t[q])), t[q].bytes_scanned, e, CallFor(t, p, C[p], i), N[p] + b, covers)
      <4>1. N[p] \in Int
        BY <2>3
      <4> QED BY <2>1, <2>3, <2>9, <3>2, <4>1, ChildOfOther
    <3> HIDE DEF q, b
    <3>4. In(q)
      BY <2>5, <2>6, <3>1, <3>3
    <3> QED BY <2>2, <3>4 DEF q
  <2> QED BY <2>8, <2>9
<1>14. T \subseteq DOMAIN t
  OBVIOUS
<1> HIDE DEF T
<1>15. T = DOMAIN t
  BY <1>12, <1>13, <1>14, TreeInduct
<1> QED BY <1>15 DEF T, B, C, N, n

-----------------------------------------------------------------------------
(* The text after an edit.                                                 *)
Replace(txt, start, removed, added) ==
  SubSeq(txt, 1, start) \o [i \in 1 .. added |-> 0] \o SubSeq(txt, start + removed + 1, Len(txt))

LEMMA Replaced ==
  ASSUME NEW txt \in Seq(Nat), NEW start \in Nat, NEW removed \in Nat, NEW added \in Nat,
         start + removed <= Len(txt)
  PROVE  /\ Replace(txt, start, removed, added) \in Seq(Nat)
         /\ Len(Replace(txt, start, removed, added)) = Len(txt) + added - removed
         /\ \A i \in 1 .. start : Replace(txt, start, removed, added)[i] = txt[i]
         /\ \A i \in start + removed + 1 .. Len(txt) :
              Replace(txt, start, removed, added)[i + added - removed] = txt[i]
<1> DEFINE n == Len(txt)
           p == SubSeq(txt, 1, start)
           z == [i \in 1 .. added |-> 0]
           q == p \o z
           r == SubSeq(txt, start + removed + 1, n)
           new == Replace(txt, start, removed, added)
<1>1. n \in Nat /\ \A i \in 1 .. n : txt[i] \in Nat
  BY ElementOfSeq
<1>2. p \in Seq(Nat) /\ Len(p) = start /\ \A k \in 1 .. start : p[k] = txt[k]
  <2>1. \A i \in 1 .. start : txt[i] \in Nat
    BY <1>1
  <2>2. p \in Seq(Nat) /\ Len(p) = (IF 1 <= start THEN start - 1 + 1 ELSE 0) /\ \A k \in 1 .. start - 1 + 1 : p[k] = txt[1 + k - 1]
    BY <2>1, SubSeqProperties
  <2> HIDE DEF p, q, r, z, new
  <2>3. start - 1 + 1 = start /\ \A k \in 1 .. start : 1 + k - 1 = k
    OBVIOUS
  <2>4. Len(p) = start
    BY <2>2
  <2>5. \A k \in 1 .. start : p[k] = txt[k]
    BY <2>2, <2>3
  <2> QED BY <2>2, <2>4, <2>5
<1>3. z \in Seq(Nat) /\ Len(z) = added
  OBVIOUS
<1>4. r \in Seq(Nat) /\ Len(r) = n - (start + removed) /\ \A k \in 1 .. n - (start + removed) : r[k] = txt[(start + removed) + k]
  <2> DEFINE a == start + removed + 1
  <2>0. a \in Int /\ a = start + removed + 1
    OBVIOUS
  <2>1. \A i \in a .. n : txt[i] \in Nat
    BY <1>1
  <2> HIDE DEF a
  <2>2. SubSeq(txt, a, n) \in Seq(Nat) /\ Len(SubSeq(txt, a, n)) = (IF a <= n THEN n - a + 1 ELSE 0) /\ \A k \in 1 .. n - a + 1 : SubSeq(txt, a, n)[k] = txt[a + k - 1]
    BY <1>1, <2>0, <2>1, SubSeqProperties
  <2>3. r = SubSeq(txt, a, n)
    BY <2>0
  <2> HIDE DEF p, q, r, z, new, n
  <2>4. n - a + 1 = n - (start + removed) /\ \A k \in Int : a + k - 1 = (start + removed) + k
    BY <1>1, <2>0
  <2>5. (IF a <= n THEN n - a + 1 ELSE 0) = n - (start + removed)
    BY <1>1, <2>0 DEF n
  <2>6. Len(r) = n - (start + removed)
    BY <2>2, <2>3, <2>5
  <2>7. ASSUME NEW k \in 1 .. n - (start + removed) PROVE r[k] = txt[(start + removed) + k]
    <3>1. k \in Int /\ k \in 1 .. n - a + 1
      BY <1>1, <2>4
    <3> QED BY <2>2, <2>3, <2>4, <3>1
  <2> QED BY <2>2, <2>3, <2>6, <2>7
<1>5. new = q \o r
  BY Zenon DEF Replace
<1> HIDE DEF p, r, z
<1>6. q \in Seq(Nat) /\ Len(q) = start + added /\ \A k \in 1 .. start : q[k] = txt[k]
  <2>1. q \in Seq(Nat) /\ Len(q) = Len(p) + Len(z) /\ \A k \in 1 .. Len(p) + Len(z) : q[k] = IF k <= Len(p) THEN p[k] ELSE z[k - Len(p)]
    BY <1>2, <1>3, ConcatProperties
  <2>2. \A k \in 1 .. start : k \in 1 .. start + added /\ k <= start
    OBVIOUS
  <2> QED BY <1>2, <1>3, <2>1, <2>2
<1> HIDE DEF q, new
<1>7. /\ new \in Seq(Nat) /\ Len(new) = Len(q) + Len(r)
      /\ \A k \in 1 .. Len(q) + Len(r) : new[k] = IF k <= Len(q) THEN q[k] ELSE r[k - Len(q)]
  BY <1>4, <1>5, <1>6, ConcatProperties
<1> HIDE DEF n
<1>8. start + removed <= n
  BY DEF n
<1>9. Len(q) + Len(r) = n + added - removed /\ Len(q) + Len(r) \in Nat
  BY <1>1, <1>4, <1>6, <1>8
<1>10. ASSUME NEW i \in 1 .. start PROVE new[i] = txt[i]
  <2>1. i \in 1 .. Len(q) + Len(r) /\ i <= Len(q)
    BY <1>1, <1>4, <1>6, <1>8
  <2> QED BY <1>6, <1>7, <2>1
<1>11. ASSUME NEW i \in start + removed + 1 .. n PROVE new[i + added - removed] = txt[i]
  <2> DEFINE j == i + added - removed
             k == i - (start + removed)
  <2>1. j \in 1 .. Len(q) + Len(r) /\ ~ (j <= Len(q)) /\ j - Len(q) = k /\ k \in 1 .. n - (start + removed) /\ (start + removed) + k = i
    BY <1>1, <1>4, <1>6, <1>8
  <2> HIDE DEF j, k
  <2>2. new[j] = r[k]
    BY <1>7, <2>1
  <2>3. r[k] = txt[i]
    BY <1>4, <2>1
  <2> QED BY <2>2, <2>3 DEF j
<1> QED BY <1>7, <1>9, <1>10, <1>11 DEF n, new

SameWindow(txt, at, new, to, len) == Window(new, to, len) = Window(txt, at, len)

(* The bytes in a leaf's window are still there after an edit that is      *)
(* behind them, or in front of the leaf.                                   *)
LEMMA WindowKept ==
  ASSUME NEW txt \in Seq(Nat), NEW S \in Nat, NEW R \in Nat, NEW A \in Nat, S + R <= Len(txt),
         NEW at \in Nat, NEW to \in Int, NEW len \in Nat,
         (at + len <= S /\ to = at) \/ (S + R <= at /\ to = at + A - R)
  PROVE  SameWindow(txt, at, Replace(txt, S, R, A), to, len)
<1> DEFINE n == Len(txt)
           new == Replace(txt, S, R, A)
<1>1. n \in Nat /\ S + R <= n
  OBVIOUS
<1>2. /\ Len(new) = n + A - R
      /\ \A i \in 1 .. S : new[i] = txt[i]
      /\ \A i \in S + R + 1 .. n : new[i + A - R] = txt[i]
  BY Replaced
<1>0. \/ at + len <= S /\ to = at
      \/ S + R <= at /\ to = at + A - R
  OBVIOUS
<1> HIDE DEF n, new
<1>3. ASSUME NEW i \in 1 .. len
      PROVE  (IF to + i <= Len(new) THEN new[to + i] ELSE EndOfText) = (IF at + i <= Len(txt) THEN txt[at + i] ELSE EndOfText)
  <2>1. CASE at + len <= S /\ to = at
    <3>1. at + i \in 1 .. S /\ at + i <= n /\ to + i = at + i /\ to + i <= Len(new)
      BY <1>1, <1>2, <2>1
    <3> QED BY <1>2, <3>1 DEF n
  <2>2. CASE S + R <= at /\ to = at + A - R
    <3>0. to + i = (at + i) + A - R
      BY <1>1, <2>2
    <3>1. to + i = (at + i) + A - R /\ (to + i <= Len(new) <=> at + i <= n)
      <4>1. Len(new) = n + A - R
        BY <1>2
      <4> DEFINE L == Len(new)
      <4>2. L = n + A - R
        BY <4>1
      <4> HIDE DEF L
      <4>3. to + i <= L <=> at + i <= n
        BY <1>1, <2>2, <4>2
      <4> QED BY <3>0, <4>3 DEF L
    <3>2. CASE at + i <= n
      <4>1. at + i \in S + R + 1 .. n
        BY <1>1, <2>2, <3>2
      <4>2. new[to + i] = txt[at + i]
        BY <1>2, <3>1, <4>1
      <4> QED BY <3>1, <3>2, <4>2 DEF n
    <3>3. CASE ~ (at + i <= n)
      BY <3>1, <3>3 DEF n
    <3> QED BY <3>2, <3>3
  <2> QED BY <1>0, <2>1, <2>2
<1>4. Window(new, to, len) = [i \in 1 .. len |-> IF to + i <= Len(new) THEN new[to + i] ELSE EndOfText]
  BY Zenon DEF Window
<1>5. Window(txt, at, len) = [i \in 1 .. len |-> IF at + i <= Len(txt) THEN txt[at + i] ELSE EndOfText]
  BY Zenon DEF Window
<1> QED BY <1>3, <1>4, <1>5, Zenon DEF new, SameWindow

(* A node that no edit marks has the bytes it looked at in front of it as  *)
(* before, if the marks tell so: either every node still depends on what   *)
(* its children depend on, or this one looked no further than one byte.    *)
LEMMA NodeKept ==
  ASSUME NEW t, WellFormed(t), Spans(t), NEW S \in Nat, NEW R \in Nat, NEW A \in Nat,
         S + R <= Total(t[<< >>]), Total(t[<< >>]) < Word,
         NEW txt \in Seq(Nat), Len(txt) = Total(t[<< >>]),
         NEW covers \in BOOLEAN, covers => \A q \in DOMAIN t : Covers(t, q),
         NEW p \in DOMAIN t, NEW new, new = Edited(t, EditCall(S, R, A)),
         ~ new[p].has_changes, Total(new[p]) > 0,
         covers \/ t[p].bytes_scanned <= Total(t[p]) + 1
  PROVE  /\ SameWindow(txt, Begins(t)[p], Replace(txt, S, R, A), Begins(new)[p], t[p].bytes_scanned)
         /\ ~ t[p].has_changes /\ Total(new[p]) = Total(t[p])
<1> DEFINE e == EditCall(S, R, A)
           c == Calls(t, e)[p]
           b == Begins(t)[p]
           nb == Begins(new)[p]
           scanned == t[p].bytes_scanned
           T == Total(t[p])
<1>1. e.call = "edit" /\ e.start = S /\ e.removed = R /\ e.added = A
  BY CallFields
<1>2. IsEdit(e, Total(t[<< >>]))
  <2>1. S \in Int /\ R \in Int /\ A \in Int
    OBVIOUS
  <2>2. e \in Call
    BY <2>1, CallTypes
  <2> HIDE DEF e
  <2> QED BY <1>1, <2>2 DEF IsEdit
<1> HIDE DEF e
<1>3. new = Edited(t, e)
  BY DEF e
<1>4. /\ WellFormed(new) /\ DOMAIN new = DOMAIN t
      /\ Total(new[p]) = T + (IF c.call = "edit" THEN c.added - c.removed ELSE 0)
      /\ new[p].has_changes <=> \/ t[p].has_changes \/ c.call = "edit"
                                \/ c.call = "look" /\ c.start < scanned
  BY <1>2, <1>3, EditedAre
<1>5. T \in Nat /\ scanned \in Nat
  <2>1. t[p] \in Node
    BY DEF WellFormed
  <2> QED BY <2>1, NodeType
<1>6. b \in Nat /\ nb \in Int
  BY <1>4, BeginsAre
<1>7. Placed(b, b + T, scanned, e, c, nb, covers)
  BY <1>2, <1>3, EditedPlaces
<1> HIDE DEF c, b, nb, scanned, T
<1>8. ~ t[p].has_changes /\ c.call # "edit" /\ ~ (c.call = "look" /\ c.start < scanned)
  BY <1>4
<1>9. T > 0 /\ Total(new[p]) = T
  BY <1>4, <1>5, <1>8
<1>10. \/ After(b, e, c, nb)
       \/ Before(b, b + T, e, c, nb) /\ (covers => Asked(b, scanned, e, c))
  <2>1. ~ Touched(b, b + T, e, c, nb)
    BY <1>8, TouchedFields
  <2>2. ~ Cut(b, b + T, e, c, nb)
    BY <1>8, CutFields
  <2>3. ~ Empty(b, b + T, c)
    BY <1>5, <1>6, <1>9 DEF Empty
  <2> QED BY <1>7, <2>1, <2>2, <2>3, Zenon DEF Placed
<1>11. \/ b + scanned <= S /\ nb = b
       \/ S + R <= b /\ nb = b + A - R
  <2>1. CASE After(b, e, c, nb)
    BY <1>1, <2>1 DEF After
  <2>2. CASE Before(b, b + T, e, c, nb) /\ (covers => Asked(b, scanned, e, c))
    <3>1. b + T < S /\ nb = b
      BY <1>1, <2>2 DEF Before
    <3>2. b + scanned <= S
      <4>1. CASE covers
        <5>1. CASE c = LookCall(S - b)
          <6>1. c.call = "look" /\ c.start = S - b
            BY <5>1, CallFields
          <6>2. ~ (S - b < scanned)
            BY <1>8, <6>1
          <6> QED BY <1>5, <1>6, <6>2
        <5>2. CASE c = NoCall /\ b + scanned <= S
          BY <5>2
        <5> QED BY <1>1, <2>2, <4>1, <5>1, <5>2 DEF Asked
      <4>2. CASE ~ covers
        <5>1. scanned <= T + 1
          BY <4>2 DEF scanned, T
        <5> QED BY <1>5, <1>6, <3>1, <5>1
      <4> QED BY <4>1, <4>2
    <3> QED BY <3>1, <3>2
  <2> QED BY <1>10, <2>1, <2>2
<1>12. SameWindow(txt, b, Replace(txt, S, R, A), nb, scanned)
  <2>1. S + R <= Len(txt)
    OBVIOUS
  <2>2. \A at \in Nat, to \in Int, len \in Nat :
          (at + len <= S /\ to = at) \/ (S + R <= at /\ to = at + A - R)
            => SameWindow(txt, at, Replace(txt, S, R, A), to, len)
    BY <2>1, WindowKept
  <2> QED BY <1>5, <1>6, <1>11, <2>2
<1> QED BY <1>8, <1>9, <1>12 DEF nb, b, scanned, T

(* A mark below a node is a mark on the node: an edit that reaches a child *)
(* has marked the parent.                                                  *)
Marks(t) ==
  \A p \in DOMAIN t :
    ~ t[p].has_changes => \A i \in DOMAIN Kids(t, p) : ~ Kids(t, p)[i].has_changes

LEMMA EditedMarks ==
  ASSUME NEW t, WellFormed(t), Spans(t), Marks(t), NEW e, IsEdit(e, Total(t[<< >>]))
  PROVE  Marks(Edited(t, e))
<1> DEFINE n == Edited(t, e)
           C == Calls(t, e)
<1>1. /\ DOMAIN n = DOMAIN t /\ WellFormed(n)
      /\ \A p \in DOMAIN t :
           /\ n[p].child_count = t[p].child_count
           /\ n[p].has_changes
                <=> \/ t[p].has_changes \/ C[p].call = "edit"
                    \/ C[p].call = "look" /\ C[p].start < t[p].bytes_scanned
  BY EditedAre
<1>2. \A p \in DOMAIN t : C[p] \in Call
  BY CallsValid
<1>3. \A p \in DOMAIN t : \A i \in 1 .. t[p].child_count : C[Append(p, i)] = CallFor(t, p, C[p], i)
  <2>1. e \in Call
    BY DEF IsEdit
  <2> QED BY <2>1, CallsAre
<1> HIDE DEF n, C
<1>4. ASSUME NEW p \in DOMAIN n, ~ n[p].has_changes, NEW i \in DOMAIN Kids(n, p)
      PROVE  ~ Kids(n, p)[i].has_changes
  <2> DEFINE q == Append(p, i)
  <2>1. p \in DOMAIN t /\ i \in 1 .. n[p].child_count /\ i \in 1 .. t[p].child_count
    BY <1>1, KidsAre
  <2>2. Kids(n, p)[i] = n[q]
    BY <1>1, <2>1, KidsAre
  <2>3. q \in DOMAIN t /\ Kids(t, p)[i] = t[q] /\ i \in DOMAIN Kids(t, p)
    BY <2>1, ChildPath, KidsAre
  <2>4. ~ t[p].has_changes /\ C[p].call # "edit" /\ ~ (C[p].call = "look" /\ C[p].start < t[p].bytes_scanned)
    BY <1>1, <1>4, <2>1
  <2>5. ~ t[q].has_changes
    BY <2>1, <2>3, <2>4 DEF Marks
  <2>6. C[q] = NoCall
    <3>1. C[q] = CallFor(t, p, C[p], i)
      BY <1>3, <2>1
    <3>2. C[p].call \in {"edit", "look", "none"}
      BY <1>2, <2>1, CallType
    <3>3. CASE C[p].call = "look"
      <4>1. CallFor(t, p, C[p], i) = LookFor(t, p, C[p].start, i)
        BY <3>3 DEF CallFor
      <4>2. ~ LooksAt(t[p], C[p].start)
        BY <2>4, <3>3 DEF LooksAt
      <4> QED BY <3>1, <4>1, <4>2 DEF LookFor
    <3>4. CASE C[p].call = "none"
      BY <3>1, <3>4 DEF CallFor
    <3> QED BY <2>4, <3>2, <3>3, <3>4
  <2>7. C[q].call = "none"
    BY <2>6, CallFields
  <2>8. ~ n[q].has_changes
    BY <1>1, <2>3, <2>5, <2>7
  <2> QED BY <2>2, <2>8
<1> QED BY <1>4 DEF Marks, n

(* ts_document_edit is ts_tree_edit if the edit is within the text.        *)
LEMMA DocumentEdited ==
  ASSUME NEW t, NEW S \in Nat, NEW R \in Nat, NEW A \in Nat, Total(t[<< >>]) \in Nat, S + R <= Total(t[<< >>])
  PROVE  /\ DocumentEdit(t, S, R, A) = Edited(t, EditCall(S, R, A))
         /\ IsEdit(EditCall(S, R, A), Total(t[<< >>]))
<1> DEFINE length == Total(t[<< >>])
           e == EditCall(S, R, A)
<1>1. ~ (S > length) /\ (IF R > length - S THEN length - S ELSE R) = R
  OBVIOUS
<1>2. DocumentEdit(t, S, R, A) = IF S > length THEN t ELSE Edited(t, EditCall(S, IF R > length - S THEN length - S ELSE R, A))
  BY Zenon DEF DocumentEdit
<1>3. e \in Call
  BY CallTypes
<1>4. e.call = "edit" /\ e.start = S /\ e.removed = R /\ e.added = A
  BY CallFields
<1> HIDE DEF e
<1>5. IsEdit(e, length)
  BY <1>3, <1>4 DEF IsEdit
<1>6. DocumentEdit(t, S, R, A) = Edited(t, EditCall(S, R, A))
  BY <1>1, <1>2, Zenon
<1> QED BY <1>5, <1>6 DEF e

-----------------------------------------------------------------------------
(* What holds of the tree and of the text between two parses.              *)
SizesAgree ==
  /\ WellFormed(tree) /\ Spans(tree)
  /\ text \in Seq(Nat) /\ Total(tree[<< >>]) = Len(text) /\ Len(text) < Word
  /\ parsed \in Nat /\ edits \in Nat

(* A tree that has not been edited is as the parse left it.                *)
AsParsed ==
  edits = 0 =>
    /\ Clean(tree) /\ LexedFrom(tree, 0)
    /\ text = [i \in 1 .. parsed |-> i]

(* The tree spans the text, and no mark is without one above it.           *)
TreeInv == SizesAgree /\ AsParsed /\ Marks(tree)

LEMMA Numbers ==
  ASSUME NEW n \in Nat
  PROVE  [i \in 1 .. n |-> i] \in Seq(Nat) /\ Len([i \in 1 .. n |-> i]) = n
  OBVIOUS

LEMMA CleanMarks ==
  ASSUME NEW t, Clean(t)
  PROVE  Marks(t)
<1>1. WellFormed(t) /\ \A p \in DOMAIN t : ~ t[p].has_changes
  BY DEF Clean
<1>2. ASSUME NEW p \in DOMAIN t, NEW i \in DOMAIN Kids(t, p) PROVE ~ Kids(t, p)[i].has_changes
  <2>1. i \in 1 .. t[p].child_count
    BY <1>1, KidsAre
  <2>2. Kids(t, p)[i] = t[Append(p, i)] /\ Append(p, i) \in DOMAIN t
    BY <1>1, <2>1, KidsAre, ChildPath
  <2> QED BY <1>1, <2>2
<1> QED BY <1>2 DEF Marks

LEMMA TreeInvInit == Init => TreeInv
<1> SUFFICES ASSUME Init PROVE TreeInv
  OBVIOUS
<1>1. tree \in Tree /\ Clean(tree) /\ LexedFrom(tree, 0)
  BY TreesAre DEF Init
<1>2. WellFormed(tree) /\ Spans(tree) /\ << >> \in DOMAIN tree
  BY <1>1 DEF Clean, WellFormed
<1>3. Total(tree[<< >>]) \in Nat
  BY <1>2, NodeType DEF WellFormed
<1> DEFINE n == Total(tree[<< >>])
<1>4. /\ text = [i \in 1 .. n |-> i] /\ parsed = n /\ edits = 0 /\ n < Word
  BY DEF Init
<1>5. n \in Nat
  BY <1>3
<1> HIDE DEF n
<1>6. text \in Seq(Nat) /\ Len(text) = n
  BY <1>4, <1>5, Numbers
<1>7. SizesAgree
  BY <1>2, <1>4, <1>5, <1>6 DEF SizesAgree, n
<1>8. AsParsed
  BY <1>1, <1>4 DEF AsParsed
<1> QED BY <1>1, <1>7, <1>8, CleanMarks DEF TreeInv

(* An edit of the text, and what it makes of the tree.                     *)
LEMMA EditIs ==
  ASSUME SizesAgree, NEW S \in Nat, NEW R \in Nat, NEW A \in Nat, Edit(S, R, A)
  PROVE  /\ S + R <= Total(tree[<< >>]) /\ Total(tree[<< >>]) < Word /\ Len(text) = Total(tree[<< >>])
         /\ text' = Replace(text, S, R, A) /\ tree' = Edited(tree, EditCall(S, R, A))
         /\ IsEdit(EditCall(S, R, A), Total(tree[<< >>]))
         /\ parsed' = parsed /\ edits' = edits + 1 /\ Len(text) - R + A < Word
<1>1. Total(tree[<< >>]) = Len(text) /\ Len(text) \in Nat /\ Len(text) < Word
  BY DEF SizesAgree
<1>2. /\ S + R <= Len(text) /\ parsed' = parsed /\ edits' = edits + 1
      /\ tree' = DocumentEdit(tree, S, R, A) /\ Len(text) - R + A < Word
  BY DEF Edit
<1>3. text' = Replace(text, S, R, A)
  BY Zenon DEF Edit, Replace
<1>4. S + R <= Total(tree[<< >>]) /\ Total(tree[<< >>]) \in Nat /\ Total(tree[<< >>]) < Word
  BY <1>1, <1>2
<1>5. /\ DocumentEdit(tree, S, R, A) = Edited(tree, EditCall(S, R, A))
      /\ IsEdit(EditCall(S, R, A), Total(tree[<< >>]))
  BY <1>4, DocumentEdited
<1> QED BY <1>1, <1>2, <1>3, <1>4, <1>5

LEMMA EditKeeps ==
  ASSUME SizesAgree, Marks(tree), NEW S \in Nat, NEW R \in Nat, NEW A \in Nat, Edit(S, R, A)
  PROVE  SizesAgree' /\ Marks(tree') /\ edits' # 0
<1> DEFINE e == EditCall(S, R, A)
<1>1. /\ S + R <= Total(tree[<< >>]) /\ Len(text) = Total(tree[<< >>])
      /\ text' = Replace(text, S, R, A) /\ tree' = Edited(tree, e)
      /\ IsEdit(e, Total(tree[<< >>]))
      /\ parsed' = parsed /\ edits' = edits + 1 /\ Len(text) - R + A < Word
  BY EditIs
<1>2. WellFormed(tree) /\ Spans(tree) /\ text \in Seq(Nat) /\ parsed \in Nat /\ edits \in Nat
  BY DEF SizesAgree
<1>3. e.removed = R /\ e.added = A
  BY CallFields
<1> HIDE DEF e
<1>4. WellFormed(tree')
  BY <1>1, <1>2, EditedAre
<1>5. Spans(tree') /\ Total(tree'[<< >>]) = Total(tree[<< >>]) + A - R
  BY <1>1, <1>2, <1>3, EditedSpans
<1>6. Marks(tree')
  BY <1>1, <1>2, EditedMarks
<1>7. text' \in Seq(Nat) /\ Len(text') = Len(text) + A - R
  <2>1. S + R <= Len(text)
    BY <1>1
  <2>2. Replace(text, S, R, A) \in Seq(Nat) /\ Len(Replace(text, S, R, A)) = Len(text) + A - R
    BY <1>2, <2>1, Replaced
  <2> QED BY <1>1, <2>2
<1>8. Len(text) \in Nat
  BY <1>2
<1>9. Total(tree'[<< >>]) = Len(text')
  BY <1>1, <1>5, <1>7
<1>10. Len(text') < Word
  <2>1. Word \in Nat
    BY TreeEditAssumption
  <2> DEFINE n == Len(text)
             m == Len(text')
  <2>2. m = n + A - R /\ n - R + A < Word /\ n \in Nat
    BY <1>1, <1>7, <1>8
  <2> HIDE DEF n, m
  <2>3. m < Word
    BY <2>1, <2>2
  <2> QED BY <2>3 DEF m
<1>11. parsed' \in Nat /\ edits' \in Nat /\ edits' # 0
  BY <1>1, <1>2
<1> QED BY <1>4, <1>5, <1>6, <1>7, <1>9, <1>10, <1>11 DEF SizesAgree

LEMMA TreeInvNext == TreeInv /\ [Next]_vars => TreeInv'
<1> SUFFICES ASSUME TreeInv, [Next]_vars PROVE TreeInv'
  OBVIOUS
<1>1. CASE Next
  <2>1. PICK S \in 0 .. Len(text) : \E R \in 0 .. Len(text), A \in 0 .. MaxAdded : Edit(S, R, A)
    BY <1>1, Zenon DEF Next
  <2>2. PICK R \in 0 .. Len(text) : \E A \in 0 .. MaxAdded : Edit(S, R, A)
    BY <2>1, Zenon
  <2>3. PICK A \in 0 .. MaxAdded : Edit(S, R, A)
    BY <2>2, Zenon
  <2>4. SizesAgree /\ Marks(tree)
    BY DEF TreeInv
  <2>5. S \in Nat /\ R \in Nat /\ A \in Nat
    <3>1. Len(text) \in Nat /\ MaxAdded \in Nat
      BY <2>4, TreeEditAssumption DEF SizesAgree
    <3> QED BY <3>1
  <2>6. SizesAgree' /\ Marks(tree') /\ edits' # 0
    BY <2>3, <2>4, <2>5, EditKeeps
  <2> QED BY <2>6 DEF TreeInv, AsParsed, Marks
<1>2. CASE UNCHANGED vars
  <2>1. tree' = tree /\ text' = text /\ parsed' = parsed /\ edits' = edits
    BY <1>2 DEF vars
  <2>2. SizesAgree'
    BY <2>1 DEF TreeInv, SizesAgree
  <2>3. AsParsed'
    BY <2>1 DEF TreeInv, AsParsed
  <2>4. Marks(tree)'
    BY <2>1 DEF TreeInv
  <2> QED BY <2>2, <2>3, <2>4 DEF TreeInv
<1> QED BY <1>1, <1>2

THEOREM TreeInvariant == Spec => []TreeInv
<1>1. Init => TreeInv
  BY TreeInvInit
<1>2. TreeInv /\ [Next]_vars => TreeInv'
  BY TreeInvNext
<1> QED BY <1>1, <1>2, PTL DEF Spec

(* ts_tree_edit loses no length on the way down: the tree always spans the *)
(* text.                                                                   *)
THEOREM TreeSpansText == Spec => []SpansText
<1>1. TreeInv => SpansText
  BY DEF TreeInv, SizesAgree, SpansText, Spans
<1> QED BY <1>1, TreeInvariant, PTL

(* A node without a mark has no marks below it.                            *)
THEOREM MarksReach == Spec => []MarksReachTheRoot
<1>1. TreeInv => MarksReachTheRoot
  BY DEF TreeInv, Marks, MarksReachTheRoot
<1> QED BY <1>1, TreeInvariant, PTL

(* Before the first edit every leaf stands where it was lexed.             *)
LEMMA IntactAsParsed ==
  ASSUME TreeInv, edits = 0
  PROVE  IntactAfterOneEdit
<1> SUFFICES ASSUME NEW p \in DOMAIN tree, tree[p].child_count = 0
             PROVE  Intact(tree[p], Begins(tree)[p])
  BY DEF IntactAfterOneEdit
<1>1. WellFormed(tree) /\ LexedFrom(tree, 0) /\ text = [i \in 1 .. parsed |-> i]
  BY DEF TreeInv, AsParsed, SizesAgree
<1>2. Begins(tree)[p] \in Nat
  BY <1>1, BeginsAre
<1>3. tree[p].lexedAt = 0 + Begins(tree)[p]
  BY <1>1 DEF LexedFrom
<1>4. tree[p].lexedAt = Begins(tree)[p]
  BY <1>2, <1>3
<1> QED BY <1>1, <1>4, Zenon DEF Intact

(* The first edit marks every leaf whose bytes, or whose lookahead, it     *)
(* changes: in a tree that has not been edited every node depends on what  *)
(* its children depend on, so that asking from the root down misses none.  *)
LEMMA IntactAfterFirst ==
  ASSUME TreeInv, edits = 0, NEW S \in Nat, NEW R \in Nat, NEW A \in Nat, Edit(S, R, A)
  PROVE  IntactAfterOneEdit'
<1> DEFINE e == EditCall(S, R, A)
<1>1. /\ S + R <= Total(tree[<< >>]) /\ Total(tree[<< >>]) < Word /\ Len(text) = Total(tree[<< >>])
      /\ text' = Replace(text, S, R, A) /\ tree' = Edited(tree, e) /\ IsEdit(e, Total(tree[<< >>]))
      /\ parsed' = parsed
  BY EditIs DEF TreeInv
<1>2. /\ WellFormed(tree) /\ Spans(tree) /\ text \in Seq(Nat)
      /\ Clean(tree) /\ LexedFrom(tree, 0) /\ text = [i \in 1 .. parsed |-> i]
  BY DEF TreeInv, AsParsed, SizesAgree
<1>3. \A q \in DOMAIN tree : Covers(tree, q)
  BY <1>2 DEF Clean
<1>4. /\ DOMAIN tree' = DOMAIN tree
      /\ \A p \in DOMAIN tree : /\ tree'[p].child_count = tree[p].child_count
                                /\ tree'[p].bytes_scanned = tree[p].bytes_scanned
                                /\ tree'[p].lexedAt = tree[p].lexedAt
  BY <1>1, <1>2, EditedAre
<1>5. ASSUME NEW p \in DOMAIN tree', tree'[p].child_count = 0, ~ tree'[p].has_changes, Total(tree'[p]) > 0
      PROVE  Intact(tree[p], Begins(tree)[p])'
  <2> DEFINE at == Begins(tree)[p]
             to == Begins(tree')[p]
             len == tree[p].bytes_scanned
  <2>1. p \in DOMAIN tree /\ tree[p].child_count = 0 /\ tree'[p].bytes_scanned = len /\ tree'[p].lexedAt = tree[p].lexedAt
    BY <1>4, <1>5
  <2>2. Window(Replace(text, S, R, A), to, len) = Window(text, at, len)
    <3>1. SameWindow(text, Begins(tree)[p], Replace(text, S, R, A), Begins(tree')[p], tree[p].bytes_scanned)
      BY <1>1, <1>2, <1>3, <1>5, <2>1, NodeKept
    <3> QED BY <3>1, Zenon DEF SameWindow
  <2>3. tree[p].lexedAt = at
    <3>1. at \in Nat
      BY <1>2, <2>1, BeginsAre
    <3>2. tree[p].lexedAt = 0 + at
      BY <1>2, <2>1 DEF LexedFrom
    <3> QED BY <3>1, <3>2
  <2>4. Window(text', to, len) = Window([i \in 1 .. parsed |-> i], tree[p].lexedAt, len)
    BY <1>1, <1>2, <2>2, <2>3, Zenon
  <2> HIDE DEF at, to, len
  <2>5. Window(text', to, tree'[p].bytes_scanned) = Window([i \in 1 .. parsed' |-> i], tree'[p].lexedAt, tree'[p].bytes_scanned)
    BY <1>1, <2>1, <2>4, Zenon
  <2> QED BY <2>5, Zenon DEF Intact, to
<1> QED BY <1>5, Zenon DEF IntactAfterOneEdit

(* tree_test.cc:317, "edits within a tree's range of scanned bytes mark    *)
(* preceding trees as changed": after one edit a leaf that has no mark and *)
(* is not empty would be lexed from the bytes it was lexed from.           *)
THEOREM IntactAfterEdit == Spec => []IntactAfterOneEdit
<1>1. Init => TreeInv /\ IntactAfterOneEdit
  <2> SUFFICES ASSUME Init PROVE TreeInv /\ IntactAfterOneEdit
    OBVIOUS
  <2>1. TreeInv /\ edits = 0
    BY TreeInvInit DEF Init
  <2> QED BY <2>1, IntactAsParsed
<1>2. TreeInv /\ IntactAfterOneEdit /\ [Next]_vars => (TreeInv /\ IntactAfterOneEdit)'
  <2> SUFFICES ASSUME TreeInv, IntactAfterOneEdit, [Next]_vars
               PROVE  IntactAfterOneEdit'
    BY TreeInvNext
  <2>1. CASE Next
    <3>1. PICK S \in 0 .. Len(text) : \E R \in 0 .. Len(text), A \in 0 .. MaxAdded : Edit(S, R, A)
      BY <2>1, Zenon DEF Next
    <3>2. PICK R \in 0 .. Len(text) : \E A \in 0 .. MaxAdded : Edit(S, R, A)
      BY <3>1, Zenon
    <3>3. PICK A \in 0 .. MaxAdded : Edit(S, R, A)
      BY <3>2, Zenon
    <3>4. S \in Nat /\ R \in Nat /\ A \in Nat /\ edits \in Nat
      <4>1. Len(text) \in Nat /\ MaxAdded \in Nat /\ edits \in Nat
        BY TreeEditAssumption DEF TreeInv, SizesAgree
      <4> QED BY <4>1
    <3>5. CASE edits = 0
      BY <3>3, <3>4, <3>5, IntactAfterFirst
    <3>6. CASE edits # 0
      <4>1. edits' = edits + 1
        BY <3>3 DEF Edit
      <4>2. ~ (edits' <= 1)
        BY <3>4, <3>6, <4>1
      <4> QED BY <4>2, Zenon DEF IntactAfterOneEdit
    <3> QED BY <3>5, <3>6
  <2>2. CASE UNCHANGED vars
    <3>1. tree' = tree /\ text' = text /\ parsed' = parsed /\ edits' = edits
      BY <2>2 DEF vars
    <3> QED BY <3>1 DEF IntactAfterOneEdit, Intact
  <2> QED BY <2>1, <2>2
<1> QED BY <1>1, <1>2, PTL DEF Spec

-----------------------------------------------------------------------------
(* Parts of a tree as trees of their own.                                  *)

(* A path that starts with another one, and how it goes on.                *)
LEMMA PathAfter ==
  ASSUME NEW p \in Path, NEW r \in Path, IsPrefix(p, r)
  PROVE  SubSeq(r, Len(p) + 1, Len(r)) \in Path /\ r = p \o SubSeq(r, Len(p) + 1, Len(r))
<1>1. /\ Len(p) \in Nat /\ Len(r) \in Nat /\ Len(p) <= Len(r)
      /\ SubSeq(p, 1, Len(p)) = SubSeq(r, 1, Len(p))
  BY LenProperties DEF IsPrefix, Path
<1>2. SubSeq(p, 1, Len(p)) = p /\ SubSeq(r, 1, Len(r)) = r
  BY SubSeqFull DEF Path
<1>3. SubSeq(r, 1, Len(p)) \o SubSeq(r, Len(p) + 1, Len(r)) = SubSeq(r, 1, Len(r))
  <2>1. r \in Seq(Nat \ {0}) /\ 1 \in 1 .. Len(r) + 1 /\ Len(p) \in 1 - 1 .. Len(r) /\ Len(r) \in Len(p) .. Len(r)
    BY <1>1 DEF Path
  <2> QED BY <2>1, ConcatAdjacentSubSeq
<1>4. SubSeq(r, Len(p) + 1, Len(r)) \in Path
  <2>1. \A i \in Len(p) + 1 .. Len(r) : r[i] \in Nat \ {0}
    BY <1>1 DEF Path
  <2> QED BY <1>1, <2>1, SubSeqProperties DEF Path
<1> QED BY <1>1, <1>2, <1>3, <1>4

LEMMA PathStarts ==
  ASSUME NEW p \in Path, NEW q \in Path
  PROVE  IsPrefix(p, p \o q) /\ SubSeq(p \o q, Len(p) + 1, Len(p \o q)) = q
<1>1. Len(p) \in Nat /\ Len(q) \in Nat /\ p \o q \in Path /\ Len(p \o q) = Len(p) + Len(q)
  BY PathConcat, LenProperties DEF Path
<1>2. \A i \in 1 .. Len(p) + Len(q) : (p \o q)[i] = IF i <= Len(p) THEN p[i] ELSE q[i - Len(p)]
  BY ConcatProperties DEF Path
<1>3. SubSeq(p, 1, Len(p)) = SubSeq(p \o q, 1, Len(p))
  <2> DEFINE r == p \o q
  <2>1. \A i \in 1 .. Len(p) : p[i] \in Nat \ {0} /\ r[i] = p[i]
    BY <1>1, <1>2 DEF Path
  <2> HIDE DEF r
  <2>2. /\ SubSeq(r, 1, Len(p)) \in Seq(Nat \ {0}) /\ Len(SubSeq(r, 1, Len(p))) = Len(p)
        /\ \A i \in 1 .. Len(p) : SubSeq(r, 1, Len(p))[i] = r[i]
    <3>1. \A i \in 1 .. Len(p) : r[i] \in Nat \ {0}
      BY <2>1
    <3> QED BY <1>1, <3>1, SubSeqProperties
  <2>3. SubSeq(r, 1, Len(p)) = p
    <3>1. p \in Seq(Nat \ {0})
      BY DEF Path
    <3> QED BY <2>1, <2>2, <3>1, SeqEqual
  <2>4. SubSeq(p, 1, Len(p)) = p
    BY SubSeqFull DEF Path
  <2> QED BY <2>3, <2>4 DEF r
<1>4. IsPrefix(p, p \o q)
  BY <1>1, <1>3 DEF IsPrefix
<1> DEFINE r == p \o q
           rest == SubSeq(r, Len(p) + 1, Len(r))
<1>5. rest \in Path /\ r = p \o rest
  BY <1>1, <1>4, PathAfter
<1>6. rest = q
  <2>1. p \o rest = p \o q
    BY <1>5
  <2> HIDE DEF rest
  <2> QED BY <1>5, <2>1, PathCancel
<1> QED BY <1>4, <1>6

LEMMA PathFurther ==
  ASSUME NEW p \in Path, NEW q \in Path, NEW j \in Nat \ {0}
  PROVE  Append(p \o q, j) = p \o Append(q, j)
<1>1. \A i \in Nat \ {0} : Append(p \o q, i) = p \o Append(q, i)
  BY PathConcat
<1> QED BY <1>1

(* The nodes of a subtree.                                                 *)
LEMMA SubtreeNodes ==
  ASSUME NEW t, WellFormed(t), NEW p \in DOMAIN t
  PROVE  /\ DOMAIN Subtree(t, p) = {q \in Path : p \o q \in DOMAIN t}
         /\ Subtree(t, p) = [q \in {q \in Path : p \o q \in DOMAIN t} |-> t[p \o q]]
         /\ \A q \in DOMAIN Subtree(t, p) : q \in Path /\ p \o q \in DOMAIN t /\ Subtree(t, p)[q] = t[p \o q]
<1> DEFINE Q == {SubSeq(r, Len(p) + 1, Len(r)) : r \in {r \in DOMAIN t : IsPrefix(p, r)}}
           R == {q \in Path : p \o q \in DOMAIN t}
<1>1. p \in Path /\ \A r \in DOMAIN t : r \in Path
  BY DEF WellFormed, IsPaths
<1>2. Q \subseteq R
  <2>1. SUFFICES ASSUME NEW r \in DOMAIN t, IsPrefix(p, r) PROVE SubSeq(r, Len(p) + 1, Len(r)) \in R
    OBVIOUS
  <2> QED BY <1>1, <2>1, PathAfter
<1>3. R \subseteq Q
  <2>1. SUFFICES ASSUME NEW q \in Path, p \o q \in DOMAIN t PROVE q \in Q
    OBVIOUS
  <2> DEFINE r == p \o q
  <2>2. r \in DOMAIN t /\ IsPrefix(p, r) /\ SubSeq(r, Len(p) + 1, Len(r)) = q
    BY <1>1, <2>1, PathStarts
  <2> HIDE DEF r
  <2> QED BY <2>2
<1>4. Q = R
  BY <1>2, <1>3
<1>5. Subtree(t, p) = [q \in Q |-> t[p \o q]]
  BY DEF Subtree
<1> HIDE DEF Q
<1> QED BY <1>4, <1>5

LEMMA SubtreeWellFormed ==
  ASSUME NEW t, WellFormed(t), NEW p \in DOMAIN t
  PROVE  /\ WellFormed(Subtree(t, p)) /\ Subtree(t, p) \in Tree
         /\ << >> \in DOMAIN Subtree(t, p) /\ Subtree(t, p)[<< >>] = t[p]
<1> DEFINE s == Subtree(t, p)
<1>1. /\ DOMAIN s = {q \in Path : p \o q \in DOMAIN t} /\ s = [q \in DOMAIN s |-> s[q]]
      /\ \A q \in DOMAIN s : q \in Path /\ p \o q \in DOMAIN t /\ s[q] = t[p \o q]
  BY SubtreeNodes
<1>2. /\ p \in Path /\ << >> \in Path /\ p \o << >> = p
      /\ \A r \in DOMAIN t : r \in Path /\ t[r] \in Node
  <2>1. p \in Path /\ << >> \in Path /\ \A r \in DOMAIN t : r \in Path /\ t[r] \in Node
    BY DEF WellFormed, IsPaths
  <2> QED BY <2>1, PathConcat
<1> HIDE DEF s
<1>3. << >> \in DOMAIN s /\ s[<< >>] = t[p]
  BY <1>1, <1>2
<1>4. s \in [DOMAIN s -> Node]
  BY <1>1, <1>2
<1>5. ASSUME NEW q \in DOMAIN s, q # << >>
      PROVE  Front(q) \in DOMAIN s /\ Last(q) \in 1 .. s[Front(q)].child_count
  <2>1. q \in Path /\ Front(q) \in Path /\ Front(p \o q) = p \o Front(q) /\ Last(p \o q) = Last(q) /\ p \o q # << >>
    <3>1. q \in Path
      BY <1>1, <1>5, Zenon
    <3>2. Front(q) \in Path
      BY <1>5, <3>1, PathSplit, Zenon
    <3>3. p \in Path
      BY <1>2
    <3>4. Front(p \o q) = p \o Front(q) /\ Last(p \o q) = Last(q)
      BY <1>5, <3>1, <3>3, PathConcatFront, Zenon
    <3>5. p \o q # << >>
      BY <1>5, <3>1, <3>3, PathConcatFront, Zenon
    <3> QED BY <3>1, <3>2, <3>4, <3>5
  <2>2. Front(p \o q) \in DOMAIN t /\ Last(p \o q) \in 1 .. t[Front(p \o q)].child_count
    BY <1>1, <2>1, ParentPath
  <2> QED BY <1>1, <2>1, <2>2
<1>6. ASSUME NEW q \in DOMAIN s, NEW j \in 1 .. s[q].child_count
      PROVE  Append(q, j) \in DOMAIN s
  <2>1. q \in Path /\ p \o q \in DOMAIN t /\ j \in 1 .. t[p \o q].child_count
    BY <1>1
  <2>2. Append(p \o q, j) \in DOMAIN t /\ j \in Nat \ {0}
    BY <2>1, ChildPath
  <2>3. Append(p \o q, j) = p \o Append(q, j) /\ Append(q, j) \in Path
    BY <1>2, <2>1, <2>2, PathFurther, PathAppend
  <2> QED BY <1>1, <2>2, <2>3
<1>7. WellFormed(s)
  BY <1>1, <1>3, <1>4, <1>5, <1>6 DEF WellFormed, IsPaths
<1> QED BY <1>3, <1>7, TreeIs DEF s

LEMMA SubtreeKids ==
  ASSUME NEW t, WellFormed(t), NEW p \in DOMAIN t, NEW q \in DOMAIN Subtree(t, p)
  PROVE  /\ Kids(Subtree(t, p), q) = Kids(t, p \o q)
         /\ \A j \in 1 .. t[p \o q].child_count :
              /\ p \o Append(q, j) = Append(p \o q, j)
              /\ Append(q, j) \in DOMAIN Subtree(t, p)
              /\ Subtree(t, p)[Append(q, j)] = t[Append(p \o q, j)]
<1> DEFINE s == Subtree(t, p)
<1>1. q \in Path /\ p \o q \in DOMAIN t /\ s[q] = t[p \o q] /\ \A r \in DOMAIN s : s[r] = t[p \o r]
  BY SubtreeNodes
<1>2. WellFormed(s) /\ p \in Path
  BY SubtreeWellFormed DEF WellFormed, IsPaths
<1>3. ASSUME NEW j \in 1 .. t[p \o q].child_count
      PROVE  /\ p \o Append(q, j) = Append(p \o q, j) /\ Append(q, j) \in DOMAIN s
             /\ s[Append(q, j)] = t[Append(p \o q, j)]
  <2>1. Append(q, j) \in DOMAIN s /\ j \in Nat \ {0}
    BY <1>1, <1>2, ChildPath
  <2>2. Append(p \o q, j) = p \o Append(q, j)
    BY <1>1, <1>2, <2>1, PathFurther
  <2> QED BY <1>1, <2>1, <2>2
<1> HIDE DEF s
<1>4. Kids(s, q) = Kids(t, p \o q)
  BY <1>1, <1>3 DEF Kids
<1> QED BY <1>3, <1>4 DEF s

(* Where the nodes of a subtree start, seen from the whole tree.           *)
LEMMA SubtreeBegins ==
  ASSUME NEW t, WellFormed(t), NEW p \in DOMAIN t
  PROVE  \A q \in DOMAIN Subtree(t, p) : Begins(t)[p \o q] = Begins(t)[p] + Begins(Subtree(t, p))[q]
<1> DEFINE s == Subtree(t, p)
           T == {q \in DOMAIN s : Begins(t)[p \o q] = Begins(t)[p] + Begins(s)[q]}
<1>1. WellFormed(s) /\ << >> \in DOMAIN s /\ p \in Path /\ p \o << >> = p
  <2>1. p \in Path
    BY DEF WellFormed, IsPaths
  <2> QED BY <2>1, SubtreeWellFormed, PathConcat DEF WellFormed
<1>2. /\ Begins(s) \in [DOMAIN s -> Nat] /\ Begins(s)[<< >>] = 0
      /\ \A q \in DOMAIN s : \A i \in 1 .. s[q].child_count :
           Begins(s)[Append(q, i)] = Begins(s)[q] + ChildStart(s, q, i)
  BY <1>1, BeginsAre
<1>3. /\ Begins(t) \in [DOMAIN t -> Nat]
      /\ \A r \in DOMAIN t : \A i \in 1 .. t[r].child_count :
           Begins(t)[Append(r, i)] = Begins(t)[r] + ChildStart(t, r, i)
  BY BeginsAre
<1>4. /\ \A q \in DOMAIN s : p \o q \in DOMAIN t /\ s[q] = t[p \o q]
      /\ \A q \in DOMAIN s : Kids(s, q) = Kids(t, p \o q)
      /\ \A q \in DOMAIN s : \A j \in 1 .. t[p \o q].child_count :
           p \o Append(q, j) = Append(p \o q, j) /\ Append(q, j) \in DOMAIN s
  <2>1. \A q \in DOMAIN s : p \o q \in DOMAIN t /\ s[q] = t[p \o q]
    BY SubtreeNodes
  <2>2. ASSUME NEW q \in DOMAIN s
        PROVE  /\ Kids(s, q) = Kids(t, p \o q)
               /\ \A j \in 1 .. t[p \o q].child_count :
                    p \o Append(q, j) = Append(p \o q, j) /\ Append(q, j) \in DOMAIN s
    BY SubtreeKids
  <2> HIDE DEF s
  <2> QED BY <2>1, <2>2
<1> HIDE DEF s
<1>5. << >> \in T
  BY <1>1, <1>2, <1>3
<1>6. ASSUME NEW q \in T, NEW i \in 1 .. s[q].child_count PROVE Append(q, i) \in T
  <2>1. q \in DOMAIN s /\ Begins(t)[p \o q] = Begins(t)[p] + Begins(s)[q] /\ i \in 1 .. t[p \o q].child_count
    BY <1>4
  <2>2. ChildStart(s, q, i) = ChildStart(t, p \o q, i)
    BY <1>4, <2>1 DEF ChildStart
  <2>3. ChildStart(s, q, i) \in Nat
    BY <1>1, <2>1, ChildStartType
  <2>4. Begins(s)[q] \in Nat /\ Begins(t)[p] \in Nat
    BY <1>2, <1>3, <2>1
  <2>5. Begins(s)[Append(q, i)] = Begins(s)[q] + ChildStart(s, q, i)
    BY <1>2, <2>1
  <2>6. Begins(t)[p \o Append(q, i)] = Begins(t)[p \o q] + ChildStart(s, q, i)
    BY <1>3, <1>4, <2>1, <2>2
  <2> QED BY <1>4, <2>1, <2>3, <2>4, <2>5, <2>6
<1>7. T = DOMAIN s
  <2> HIDE DEF T
  <2>1. T \subseteq DOMAIN s
    BY DEF T
  <2> QED BY <1>1, <1>5, <1>6, <2>1, TreeInduct
<1> QED BY <1>7 DEF s

(* Only the root has no children: it is the whole tree.                    *)
LEMMA LoneRoot ==
  ASSUME NEW t, WellFormed(t), t[<< >>].child_count = 0
  PROVE  DOMAIN t = {<< >>}
<1>1. << >> \in DOMAIN t /\ \A i \in 1 .. t[<< >>].child_count : FALSE
  BY DEF WellFormed
<1> DEFINE T == {<< >>}
<1>2. /\ T \subseteq DOMAIN t /\ << >> \in T
      /\ \A p \in T : \A i \in 1 .. t[p].child_count : Append(p, i) \in T
  BY <1>1
<1> HIDE DEF T
<1>3. T = DOMAIN t
  BY <1>2, TreeInduct
<1> QED BY <1>3 DEF T

LEMMA SubtreeFinite ==
  ASSUME NEW t, WellFormed(t), IsFiniteSet(DOMAIN t), NEW p \in DOMAIN t
  PROVE  IsFiniteSet(DOMAIN Subtree(t, p))
<1> DEFINE R == {r \in DOMAIN t : IsPrefix(p, r)}
           f == [r \in R |-> SubSeq(r, Len(p) + 1, Len(r))]
<1>1. IsFiniteSet(R)
  <2>1. R \subseteq DOMAIN t
    OBVIOUS
  <2> HIDE DEF R
  <2> QED BY <2>1, FS_Subset
<1>2. DOMAIN Subtree(t, p) = {SubSeq(r, Len(p) + 1, Len(r)) : r \in R}
  BY DEF Subtree
<1>3. {SubSeq(r, Len(p) + 1, Len(r)) : r \in R} = {f[r] : r \in R} /\ f = [r \in R |-> f[r]]
  <2> HIDE DEF R
  <2> QED OBVIOUS
<1> HIDE DEF f, R
<1>4. IsFiniteSet({f[r] : r \in R})
  BY <1>1, <1>3, ImageFinite
<1> QED BY <1>2, <1>3, <1>4

(* Below a node without a mark there is none.                              *)
LEMMA SubtreeUnmarked ==
  ASSUME NEW t, WellFormed(t), Marks(t), NEW p \in DOMAIN t, ~ t[p].has_changes
  PROVE  \A q \in DOMAIN Subtree(t, p) : ~ t[p \o q].has_changes
<1> DEFINE s == Subtree(t, p)
           T == {q \in DOMAIN s : ~ t[p \o q].has_changes}
<1>1. WellFormed(s) /\ << >> \in DOMAIN s /\ p \o << >> = p
  <2>1. p \in Path
    BY DEF WellFormed, IsPaths
  <2> QED BY <2>1, SubtreeWellFormed, PathConcat
<1>2. << >> \in T
  BY <1>1
<1>3. ASSUME NEW q \in T, NEW i \in 1 .. s[q].child_count PROVE Append(q, i) \in T
  <2>1. q \in DOMAIN s /\ ~ t[p \o q].has_changes /\ p \o q \in DOMAIN t /\ i \in 1 .. t[p \o q].child_count
    <3>1. q \in DOMAIN s /\ ~ t[p \o q].has_changes
      OBVIOUS
    <3>2. p \o q \in DOMAIN t /\ s[q] = t[p \o q]
      BY <3>1, SubtreeNodes
    <3> HIDE DEF s
    <3> QED BY <3>1, <3>2
  <2>2. p \o Append(q, i) = Append(p \o q, i) /\ Append(q, i) \in DOMAIN s
    BY <2>1, SubtreeKids
  <2>3. /\ i \in DOMAIN Kids(t, p \o q) /\ Kids(t, p \o q)[i] = t[Append(p \o q, i)]
    BY <2>1, KidsAre
  <2>4. ~ t[Append(p \o q, i)].has_changes
    BY <2>1, <2>3 DEF Marks
  <2> QED BY <2>2, <2>4
<1>4. T = DOMAIN s
  <2>1. T \subseteq DOMAIN s
    OBVIOUS
  <2> HIDE DEF T, s
  <2> QED BY <1>1, <1>2, <1>3, <2>1, TreeInduct
<1> QED BY <1>4

LEMMA SubtreeCovers ==
  ASSUME NEW t, WellFormed(t), NEW p \in DOMAIN t, NEW q \in DOMAIN Subtree(t, p), Covers(t, p \o q)
  PROVE  Covers(Subtree(t, p), q)
<1> DEFINE s == Subtree(t, p)
<1>1. /\ s[q] = t[p \o q] /\ Kids(s, q) = Kids(t, p \o q)
      /\ \A j \in 1 .. t[p \o q].child_count : s[Append(q, j)] = t[Append(p \o q, j)]
  <2>1. s[q] = t[p \o q]
    BY SubtreeNodes
  <2>2. /\ Kids(s, q) = Kids(t, p \o q)
        /\ \A j \in 1 .. t[p \o q].child_count :
             /\ p \o Append(q, j) = Append(p \o q, j)
             /\ Append(q, j) \in DOMAIN s
             /\ s[Append(q, j)] = t[Append(p \o q, j)]
    BY SubtreeKids
  <2> HIDE DEF s
  <2> QED BY <2>1, <2>2
<1> HIDE DEF s
<1>2. \A j \in 1 .. t[p \o q].child_count : ChildStart(s, q, j) = ChildStart(t, p \o q, j)
  BY <1>1 DEF ChildStart
<1> QED BY <1>1, <1>2 DEF Covers, s

(* Taken over without a mark, a subtree is as a parse leaves one.          *)
LEMMA SubtreeClean ==
  ASSUME NEW t, WellFormed(t), Spans(t), IsFiniteSet(DOMAIN t), Marks(t),
         \A r \in DOMAIN t : ~ t[r].has_changes => Covers(t, r),
         NEW p \in DOMAIN t, ~ t[p].has_changes
  PROVE  Clean(Subtree(t, p))
<1> DEFINE s == Subtree(t, p)
<1>1. WellFormed(s) /\ IsFiniteSet(DOMAIN s)
  BY SubtreeWellFormed, SubtreeFinite
<1>2. \A q \in DOMAIN s : p \o q \in DOMAIN t /\ s[q] = t[p \o q] /\ ~ t[p \o q].has_changes
  BY SubtreeNodes, SubtreeUnmarked
<1>3. ASSUME NEW q \in DOMAIN s PROVE Covers(s, q)
  BY <1>2, SubtreeCovers
<1>4. ASSUME NEW q \in DOMAIN s, s[q].child_count > 0 PROVE Total(s[q]) = TotalOf(Kids(s, q))
  <2>1. Kids(s, q) = Kids(t, p \o q) /\ s[q] = t[p \o q] /\ p \o q \in DOMAIN t
    BY <1>2, SubtreeKids
  <2> QED BY <1>4, <2>1 DEF Spans
<1> HIDE DEF s
<1> QED BY <1>1, <1>2, <1>3, <1>4 DEF Clean, Spans, s

(* The first child of a node starts where the node starts, and so on down. *)
LEMMA FirstBegins ==
  ASSUME NEW t, WellFormed(t)
  PROVE  \A q \in DOMAIN t : (\A k \in 1 .. Len(q) : q[k] = 1) => Begins(t)[q] = 0
<1> DEFINE T == {q \in DOMAIN t : (\A k \in 1 .. Len(q) : q[k] = 1) => Begins(t)[q] = 0}
<1>1. /\ Begins(t)[<< >>] = 0 /\ << >> \in DOMAIN t
      /\ \A p \in DOMAIN t : \A i \in 1 .. t[p].child_count :
           Begins(t)[Append(p, i)] = Begins(t)[p] + ChildStart(t, p, i)
  BY BeginsAre DEF WellFormed
<1>2. ASSUME NEW q \in T, NEW i \in 1 .. t[q].child_count PROVE Append(q, i) \in T
  <2>1. q \in DOMAIN t /\ q \in Path /\ Append(q, i) \in DOMAIN t /\ i \in Nat \ {0}
    BY ChildPath
  <2>2. SUFFICES ASSUME \A k \in 1 .. Len(Append(q, i)) : Append(q, i)[k] = 1
                 PROVE  Begins(t)[Append(q, i)] = 0
    BY <2>1
  <2>3. /\ Len(Append(q, i)) = Len(q) + 1 /\ Len(q) \in Nat
        /\ \A k \in 1 .. Len(q) : Append(q, i)[k] = q[k]
        /\ Append(q, i)[Len(q) + 1] = i
    BY <2>1, AppendProperties, LenProperties DEF Path
  <2>4. i = 1 /\ \A k \in 1 .. Len(q) : q[k] = 1
    BY <2>2, <2>3
  <2>5. Begins(t)[q] = 0
    BY <2>4
  <2>6. ChildStart(t, q, i) = 0
    BY <2>1, <2>4, KidsAre, StartsAre DEF ChildStart
  <2> QED BY <1>1, <2>1, <2>5, <2>6
<1>3. T = DOMAIN t
  <2>1. T \subseteq DOMAIN t /\ << >> \in T
    BY <1>1
  <2> HIDE DEF T
  <2> QED BY <1>2, <2>1, TreeInduct
<1> QED BY <1>3

-----------------------------------------------------------------------------
(* The trees the parser makes.  The end of the text is a leaf of its own,  *)
(* the last child of the root, and the only leaf without a size.           *)
Narrow(leaf) ==
  /\ Lookaheads \subseteq {1} => leaf.bytes_scanned <= Total(leaf) + 1
  /\ Total(leaf) = 0 => leaf.bytes_scanned = 1

EndsText(t) == DOMAIN t = {<< >>} /\ t[<< >>].size = 0

LastPath(t) == <<t[<< >>].child_count>>
LastLeaf(t) == t[<< >>].child_count > 0 /\ t[LastPath(t)].child_count = 0

(* What is shifted until the end of the text, and the tree it becomes.     *)
Closed(kids) ==
  /\ kids \in Seq(Tree) /\ Len(kids) > 0
  /\ \A i \in 1 .. Len(kids) : /\ Clean(kids[i]) /\ \A p \in Leaves(kids[i]) : Narrow(kids[i][p])
                               /\ i < Len(kids) => Solid(kids[i])
  /\ EndsText(kids[Len(kids)])

Whole(t) ==
  /\ Clean(t) /\ LastLeaf(t)
  /\ \A p \in DOMAIN t : p # << >> /\ p # LastPath(t) => t[p].size > 0
  /\ \A p \in Leaves(t) : Narrow(t[p])

LEMMA EndsTextLeaf ==
  ASSUME NEW t, WellFormed(t), DOMAIN t = {<< >>}
  PROVE  t[<< >>].child_count = 0
<1>1. t[<< >>].child_count \in Nat /\ \A i \in 1 .. t[<< >>].child_count : Append(<< >>, i) \in DOMAIN t
  BY NodeType DEF WellFormed
<1>2. \A i \in Nat \ {0} : Append(<< >>, i) # << >>
  BY EmptySeq, PathAppend DEF Path
<1>3. SUFFICES ASSUME t[<< >>].child_count > 0 PROVE FALSE
  BY <1>1
<1>4. 1 \in 1 .. t[<< >>].child_count /\ 1 \in Nat \ {0}
  BY <1>1, <1>3
<1> QED BY <1>1, <1>2, <1>4

LEMMA ClosedWhole ==
  ASSUME NEW kids, Closed(kids)
  PROVE  /\ Whole(MakeNode(kids)) /\ MakeNode(kids) \in Tree
         /\ Total(MakeNode(kids)[<< >>]) = TotalOf(Roots(kids))
<1> DEFINE n == Len(kids)
           root == RootOf(kids)
           t == MakeNode(kids)
<1>1. /\ kids \in Seq(Tree) /\ n \in Nat /\ n > 0
      /\ \A i \in 1 .. n : Clean(kids[i]) /\ kids[i] \in Tree /\ WellFormed(kids[i])
      /\ \A i \in 1 .. n : \A p \in Leaves(kids[i]) : Narrow(kids[i][p])
      /\ \A i \in 1 .. n : i < n => Solid(kids[i])
      /\ DOMAIN kids[n] = {<< >>} /\ kids[n][<< >>].size = 0
  BY RowAre DEF Closed, EndsText
<1>2. root \in Node /\ root.child_count = n
  BY <1>1, RootOfIs
<1>3. t = Graft(root, kids)
  BY MakeNodeIs
<1>4. /\ Clean(t) /\ t \in Tree /\ t[<< >>].child_count = n
      /\ Total(t[<< >>]) = TotalOf(Roots(kids))
  BY <1>1, MakeNodeClean
<1> HIDE DEF root, t, n
<1>5. /\ \A i \in 1 .. n : \A q \in DOMAIN kids[i] : <<i>> \o q \in DOMAIN t /\ t[<<i>> \o q] = kids[i][q]
      /\ \A p \in DOMAIN t : p # << >> => \E i \in 1 .. n : \E q \in DOMAIN kids[i] : p = <<i>> \o q
  <2>1. kids \in Seq(Tree) /\ root \in Node /\ root.child_count = Len(kids)
    BY <1>1, <1>2 DEF n
  <2> QED BY <1>3, <2>1, GraftNodes, Zenon DEF n
<1>6. n \in 1 .. n /\ <<n>> \o << >> = <<n>> /\ LastPath(t) = <<n>>
  <2>1. n \in 1 .. n /\ n \in Nat \ {0}
    BY <1>1
  <2>2. <<n>> \in Path
    BY <2>1 DEF Path
  <2> QED BY <1>4, <2>1, <2>2, PathConcat, EmptySeq DEF LastPath, Path
<1>7. LastLeaf(t)
  <2>1. t[<<n>>] = kids[n][<< >>]
    BY <1>1, <1>5, <1>6
  <2>2. kids[n][<< >>].child_count = 0
    BY <1>1, <1>6, EndsTextLeaf
  <2> QED BY <1>1, <1>4, <1>6, <2>1, <2>2 DEF LastLeaf
<1>8. ASSUME NEW p \in DOMAIN t, p # << >>, p # LastPath(t) PROVE t[p].size > 0
  <2>1. PICK i \in 1 .. n : \E q \in DOMAIN kids[i] : p = <<i>> \o q
    BY <1>5, <1>8
  <2>2. PICK q \in DOMAIN kids[i] : p = <<i>> \o q
    BY <2>1
  <2>3. i # n
    BY <1>1, <1>6, <1>8, <2>2
  <2>4. i < n
    BY <1>1, <2>3
  <2>5. kids[i][q].size > 0
    BY <1>1, <2>4 DEF Solid
  <2> QED BY <1>5, <2>2, <2>5
<1>9. ASSUME NEW p \in Leaves(t) PROVE Narrow(t[p])
  <2>0. p \in DOMAIN t /\ t[p].child_count = 0 /\ p # << >>
    BY <1>1, <1>4, <1>9 DEF Leaves
  <2>1. PICK i \in 1 .. n : \E q \in DOMAIN kids[i] : p = <<i>> \o q
    BY <1>5, <2>0
  <2>2. PICK q \in DOMAIN kids[i] : p = <<i>> \o q
    BY <2>1
  <2>3. t[p] = kids[i][q]
    BY <1>5, <2>2
  <2>4. q \in Leaves(kids[i])
    BY <2>0, <2>3 DEF Leaves
  <2> QED BY <1>1, <2>3, <2>4
<1>10. Whole(t)
  BY <1>4, <1>7, <1>8, <1>9 DEF Whole
<1> QED BY <1>4, <1>10 DEF t

(* The last child of the root ends where the root ends.                    *)
LEMMA LastEnds ==
  ASSUME NEW t, WellFormed(t), Spans(t), LastLeaf(t)
  PROVE  /\ LastPath(t) \in DOMAIN t /\ LastPath(t) # << >>
         /\ Begins(t)[LastPath(t)] + Total(t[LastPath(t)]) = Total(t[<< >>])
<1> DEFINE n == t[<< >>].child_count
<1>1. << >> \in DOMAIN t /\ n \in Nat /\ n > 0 /\ n \in 1 .. n
  BY NodeType DEF WellFormed, LastLeaf
<1>2. /\ Append(<< >>, n) \in DOMAIN t /\ Append(<< >>, n) # << >> /\ t[Append(<< >>, n)] \in Node
  BY <1>1, ChildPath
<1>3. LastPath(t) = Append(<< >>, n)
  BY <1>1 DEF LastPath
<1>4. Begins(t)[Append(<< >>, n)] = ChildStart(t, << >>, n) /\ ChildStart(t, << >>, n) \in Nat
  <2>1. ChildStart(t, << >>, n) \in Nat
    BY <1>1, ChildStartType
  <2>2. Begins(t)[<< >>] = 0 /\ Begins(t)[Append(<< >>, n)] = Begins(t)[<< >>] + ChildStart(t, << >>, n)
    BY <1>1, BeginsAre
  <2> QED BY <2>1, <2>2
<1>5. Total(t[<< >>]) = ChildStart(t, << >>, n) + Total(t[Append(<< >>, n)])
  <2> DEFINE kids == Kids(t, << >>)
  <2>1. kids \in Seq(Node) /\ Len(kids) = n /\ kids[n] = t[Append(<< >>, n)]
    BY <1>1, KidsAre
  <2>2. Total(t[<< >>]) = TotalOf(kids)
    BY <1>1 DEF Spans
  <2> HIDE DEF kids
  <2>3. Starts(kids)[n + 1] = Starts(kids)[n] + Total(kids[n])
    BY <1>1, <2>1, StartsAre
  <2> QED BY <2>1, <2>2, <2>3 DEF TotalOf, ChildStart, kids
<1> QED BY <1>2, <1>3, <1>4, <1>5

-----------------------------------------------------------------------------
(* What edits leave of such a tree.                                        *)
Original(n) == [i \in 1 .. n |-> i]

(* The bytes that a leaf was lexed from, of a text of n bytes, are those   *)
(* that stand in its place.                                                *)
IntactIn(leaf, at, txt, n) == SameWindow(Original(n), leaf.lexedAt, txt, at, leaf.bytes_scanned)

(* Two edits between two parses can be told from the marks if no leaf      *)
(* looked further than one byte, one edit in any case.                     *)
Trusted == Lookaheads \subseteq {1} \/ MaxEdits <= 1

Kept(t) ==
  \A p \in DOMAIN t :
    ~ t[p].has_changes => Covers(t, p) /\ (p # << >> /\ p # LastPath(t) => t[p].size > 0)

LeafKept(leaf, at, txt, n) ==
  /\ Narrow(leaf)
  /\ Total(leaf) = 0 => leaf.lexedAt = n
  /\ Trusted => IntactIn(leaf, at, txt, n)

LeavesKept(t, txt, n) ==
  \A p \in Leaves(t) : ~ t[p].has_changes => LeafKept(t[p], Begins(t)[p], txt, n)

(* The tree of an edited text, as the next parse finds it.                 *)
Reusable(t, txt, n) ==
  IsFiniteSet(DOMAIN t) /\ LastLeaf(t) /\ Kept(t) /\ LeavesKept(t, txt, n)

LEMMA WholeReusable ==
  ASSUME NEW t, Whole(t), LexedFrom(t, 0), NEW n, n = Total(t[<< >>])
  PROVE  Reusable(t, Original(n), n)
<1>1. /\ WellFormed(t) /\ Spans(t) /\ IsFiniteSet(DOMAIN t) /\ LastLeaf(t)
      /\ \A p \in DOMAIN t : ~ t[p].has_changes /\ Covers(t, p)
      /\ \A p \in DOMAIN t : p # << >> /\ p # LastPath(t) => t[p].size > 0
      /\ \A p \in Leaves(t) : Narrow(t[p])
  BY DEF Whole, Clean
<1>2. Kept(t)
  BY <1>1 DEF Kept
<1>3. ASSUME NEW p \in Leaves(t) PROVE LeafKept(t[p], Begins(t)[p], Original(n), n)
  <2>1. p \in DOMAIN t /\ t[p].child_count = 0 /\ p # << >>
    BY <1>1 DEF Leaves, LastLeaf
  <2>2. Begins(t)[p] \in Nat /\ t[p] \in Node
    BY <1>1, <2>1, BeginsAre DEF WellFormed
  <2>3. t[p].lexedAt = Begins(t)[p]
    BY <2>1, <2>2 DEF LexedFrom
  <2>4. Total(t[p]) = 0 => t[p].lexedAt = n
    <3>1. SUFFICES ASSUME Total(t[p]) = 0 PROVE Begins(t)[p] = n
      BY <2>3
    <3>2. t[p].size = 0
      BY <2>2, <3>1, NodeType DEF Total
    <3>3. p = LastPath(t)
      BY <1>1, <2>1, <3>2
    <3>4. Begins(t)[p] + Total(t[p]) = Total(t[<< >>])
      BY <1>1, <3>3, LastEnds
    <3> QED BY <2>2, <3>1, <3>4
  <2>5. IntactIn(t[p], Begins(t)[p], Original(n), n)
    BY <2>3 DEF IntactIn, SameWindow
  <2> QED BY <1>1, <2>4, <2>5 DEF LeafKept
<1> QED BY <1>1, <1>2, <1>3 DEF Reusable, LeavesKept

(* Behind the end of either text there is nothing.                         *)
LEMMA EndWindow ==
  ASSUME NEW txt \in Seq(Nat), NEW n \in Nat
  PROVE  SameWindow(Original(n), n, txt, Len(txt), 1)
<1>1. Len(txt) \in Nat /\ Len(Original(n)) = n
  BY DEF Original
<1>2. \A i \in 1 .. 1 : ~ (n + i <= n) /\ ~ (Len(txt) + i <= Len(txt))
  BY <1>1
<1>3. Window(txt, Len(txt), 1) = [i \in 1 .. 1 |-> EndOfText]
  BY <1>2 DEF Window
<1>4. Window(Original(n), n, 1) = [i \in 1 .. 1 |-> EndOfText]
  BY <1>1, <1>2 DEF Window
<1> QED BY <1>3, <1>4 DEF SameWindow

LEMMA CalledSize ==
  ASSUME NEW node \in Node, NEW c \in Call, c.call # "edit"
  PROVE  Called(node, c).size = node.size
<1>1. ASSUME NEW m PROVE [m EXCEPT !.has_changes = TRUE].size = m.size
  OBVIOUS
<1>2. CASE c.call = "look"
  BY <1>1, <1>2 DEF Called, Invalidated
<1>3. CASE c.call = "none"
  BY <1>3 DEF Called
<1> QED BY <1>2, <1>3, CallType

LEMMA EditedCovers ==
  ASSUME NEW t, WellFormed(t), Spans(t), NEW e, IsEdit(e, Total(t[<< >>])), NEW p \in DOMAIN t,
         Calls(t, e)[p].call # "edit", Covers(t, p)
  PROVE  Covers(Edited(t, e), p)
<1> DEFINE new == Edited(t, e)
<1>1. \A q \in DOMAIN t : new[q].child_count = t[q].child_count /\ new[q].bytes_scanned = t[q].bytes_scanned
  BY EditedAre
<1>2. \A i \in 1 .. t[p].child_count : ChildStart(new, p, i) = ChildStart(t, p, i)
  BY EditedOtherKids
<1>3. \A i \in 1 .. t[p].child_count : Append(p, i) \in DOMAIN t
  BY ChildPath
<1> HIDE DEF new
<1> QED BY <1>1, <1>2, <1>3 DEF Covers, new

(* Every edit leaves the nodes without a mark as the parser needs them.    *)
LEMMA EditedReusable ==
  ASSUME NEW t, WellFormed(t), Spans(t), NEW S \in Nat, NEW R \in Nat, NEW A \in Nat,
         S + R <= Total(t[<< >>]), Total(t[<< >>]) < Word,
         NEW txt \in Seq(Nat), Len(txt) = Total(t[<< >>]), NEW n \in Nat,
         Reusable(t, txt, n), NEW fresh \in BOOLEAN, fresh => Clean(t),
         Trusted => Lookaheads \subseteq {1} \/ fresh,
         NEW new, new = Edited(t, EditCall(S, R, A))
  PROVE  Reusable(new, Replace(txt, S, R, A), n)
<1> DEFINE e == EditCall(S, R, A)
           to == Replace(txt, S, R, A)
<1>1. IsEdit(e, Total(t[<< >>])) /\ e.added = A /\ e.removed = R
  <2>1. Total(t[<< >>]) \in Nat
    BY NodeType DEF WellFormed
  <2> QED BY <2>1, DocumentEdited, CallFields
<1>2. new = Edited(t, e)
  OBVIOUS
<1> HIDE DEF e
<1>3. /\ WellFormed(new) /\ DOMAIN new = DOMAIN t
      /\ \A p \in DOMAIN t :
           /\ new[p] = Called(t[p], Calls(t, e)[p]) /\ new[p] \in Node /\ t[p] \in Node
           /\ new[p].child_count = t[p].child_count
           /\ new[p].bytes_scanned = t[p].bytes_scanned
           /\ new[p].lexedAt = t[p].lexedAt
           /\ ~ new[p].has_changes => ~ t[p].has_changes /\ Calls(t, e)[p].call # "edit"
           /\ Calls(t, e)[p].call # "edit" => Total(new[p]) = Total(t[p])
  <2>1. /\ DOMAIN new = DOMAIN t /\ WellFormed(new)
        /\ \A p \in DOMAIN t :
              /\ new[p] = Called(t[p], Calls(t, e)[p]) /\ new[p] \in Node
              /\ new[p].child_count = t[p].child_count
              /\ new[p].bytes_scanned = t[p].bytes_scanned
              /\ new[p].lexedAt = t[p].lexedAt
              /\ Total(new[p])
                   = Total(t[p]) + (IF Calls(t, e)[p].call = "edit" THEN Calls(t, e)[p].added - Calls(t, e)[p].removed ELSE 0)
              /\ new[p].has_changes
                   <=> \/ t[p].has_changes \/ Calls(t, e)[p].call = "edit"
                       \/ Calls(t, e)[p].call = "look" /\ Calls(t, e)[p].start < t[p].bytes_scanned
    BY <1>1, <1>2, EditedAre
  <2>2. \A p \in DOMAIN t : t[p] \in Node /\ Total(t[p]) \in Nat
    BY NodeType DEF WellFormed
  <2> QED BY <2>1, <2>2
<1>4. /\ IsFiniteSet(DOMAIN t) /\ LastLeaf(t) /\ Kept(t) /\ LeavesKept(t, txt, n)
  BY DEF Reusable
<1>5. /\ << >> \in DOMAIN t /\ LastPath(new) = LastPath(t) /\ LastPath(t) \in DOMAIN t /\ LastLeaf(new)
  <2>1. << >> \in DOMAIN t /\ LastPath(t) \in DOMAIN t
    BY <1>4, LastEnds DEF WellFormed
  <2>2. LastPath(new) = LastPath(t)
    BY <1>3, <2>1 DEF LastPath
  <2> QED BY <1>3, <1>4, <2>1, <2>2 DEF LastLeaf
<1>6. Spans(new) /\ Total(new[<< >>]) = Total(t[<< >>]) + A - R
  BY <1>1, <1>2, EditedSpans
<1>7. to \in Seq(Nat) /\ Len(to) = Len(txt) + A - R
  <2>1. S + R <= Len(txt)
    OBVIOUS
  <2> QED BY <2>1, Replaced
<1> HIDE DEF to
<1>8. ASSUME NEW p \in DOMAIN new, ~ new[p].has_changes
      PROVE  Covers(new, p) /\ (p # << >> /\ p # LastPath(new) => new[p].size > 0)
  <2>1. p \in DOMAIN t /\ ~ t[p].has_changes /\ Calls(t, e)[p].call # "edit" /\ Calls(t, e)[p] \in Call
    BY <1>1, <1>3, <1>8, CallsValid
  <2>2. Covers(t, p) /\ (p # << >> /\ p # LastPath(t) => t[p].size > 0)
    BY <1>4, <2>1 DEF Kept
  <2>3. Covers(new, p)
    BY <1>1, <1>2, <2>1, <2>2, EditedCovers
  <2>4. new[p].size = t[p].size
    BY <1>3, <2>1, CalledSize
  <2> QED BY <1>5, <2>2, <2>3, <2>4
<1>9. ASSUME NEW p \in Leaves(new), ~ new[p].has_changes
      PROVE  LeafKept(new[p], Begins(new)[p], to, n)
  <2>1. p \in DOMAIN new /\ p \in DOMAIN t /\ new[p].child_count = 0 /\ t[p].child_count = 0
    BY <1>3 DEF Leaves
  <2>2. /\ ~ t[p].has_changes /\ Total(new[p]) = Total(t[p]) /\ Total(t[p]) \in Nat
        /\ new[p].bytes_scanned = t[p].bytes_scanned /\ new[p].lexedAt = t[p].lexedAt
    BY <1>3, <1>9, <2>1, NodeType
  <2>3. LeafKept(t[p], Begins(t)[p], txt, n)
    BY <1>4, <2>1, <2>2 DEF LeavesKept, Leaves
  <2>4. Narrow(new[p]) /\ (Total(new[p]) = 0 => new[p].lexedAt = n)
    BY <2>2, <2>3 DEF LeafKept, Narrow
  <2>5. ASSUME Trusted, Total(new[p]) > 0 PROVE IntactIn(new[p], Begins(new)[p], to, n)
    <3>1. fresh => \A q \in DOMAIN t : Covers(t, q)
      BY DEF Clean
    <3>2. fresh \/ t[p].bytes_scanned <= Total(t[p]) + 1
      BY <2>3, <2>5 DEF LeafKept, Narrow
    <3>3. SameWindow(txt, Begins(t)[p], Replace(txt, S, R, A), Begins(new)[p], t[p].bytes_scanned)
      <4>1. CASE fresh
        <5>1. \A q \in DOMAIN t : Covers(t, q)
          BY <3>1, <4>1
        <5> QED BY <1>9, <2>1, <2>5, <5>1, NodeKept
      <4>2. CASE ~ fresh
        <5>1. t[p].bytes_scanned <= Total(t[p]) + 1
          BY <3>2, <4>2
        <5>2. FALSE \in BOOLEAN
          OBVIOUS
        <5> QED BY <1>9, <2>1, <2>5, <5>1, <5>2, NodeKept
      <4> QED BY <4>1, <4>2
    <3>4. SameWindow(Original(n), t[p].lexedAt, txt, Begins(t)[p], t[p].bytes_scanned)
      BY <2>3, <2>5 DEF LeafKept, IntactIn
    <3>5. SameWindow(Original(n), t[p].lexedAt, to, Begins(new)[p], t[p].bytes_scanned)
      BY <3>3, <3>4 DEF SameWindow, to
    <3> QED BY <2>2, <3>5 DEF IntactIn
  <2>6. ASSUME Trusted, Total(new[p]) = 0 PROVE IntactIn(new[p], Begins(new)[p], to, n)
    <3>1. new[p].size = 0 /\ p # << >>
      <4>1. new[p].padding \in Nat /\ new[p].size \in Nat
        BY <1>3, <2>1, NodeType
      <4>2. new[p].size = 0
        <5>1. Total(new[p]) = new[p].padding + new[p].size
          BY DEF Total
        <5> QED BY <2>6, <4>1, <5>1
      <4>3. p # << >>
        BY <1>5, <2>1 DEF LastLeaf
      <4> QED BY <4>2, <4>3
    <3>2. p = LastPath(new)
      BY <1>8, <1>9, <2>1, <3>1
    <3>3. Begins(new)[p] + Total(new[p]) = Total(new[<< >>]) /\ Begins(new)[p] \in Nat
      BY <1>3, <1>5, <1>6, <2>1, <3>2, LastEnds, BeginsAre
    <3>4. Begins(new)[p] = Len(to)
      BY <1>6, <1>7, <2>6, <3>3
    <3>5. new[p].bytes_scanned = 1 /\ new[p].lexedAt = n
      BY <2>4, <2>6 DEF Narrow
    <3> QED BY <1>7, <3>4, <3>5, EndWindow DEF IntactIn
  <2>7. Trusted => IntactIn(new[p], Begins(new)[p], to, n)
    BY <2>2, <2>5, <2>6
  <2> QED BY <2>4, <2>7 DEF LeafKept
<1> QED BY <1>3, <1>4, <1>5, <1>8, <1>9 DEF Reusable, Kept, LeavesKept, to

-----------------------------------------------------------------------------
(* The trees on the stack.                                                 *)
GoodTree(t, at, txt, n) ==
  /\ Clean(t)
  /\ \A p \in Leaves(t) :
       Narrow(t[p]) /\ (Trusted /\ t[p].lexedAt # New => IntactIn(t[p], at + Begins(t)[p], txt, n))

(* While the parser runs, every tree on the stack is good where it stands, *)
(* and no node is without a size.                                          *)
Stacked(row, txt, n) ==
  /\ row \in Seq(Tree)
  /\ \A i \in 1 .. Len(row) : Solid(row[i]) /\ GoodTree(row[i], Starts(Roots(row))[i], txt, n)

(* When it is done the end of the text is the last of them.                *)
Shut(row, txt, n) ==
  /\ row \in Seq(Tree) /\ Len(row) > 0
  /\ \A i \in 1 .. Len(row) : /\ i < Len(row) => Solid(row[i])
                              /\ GoodTree(row[i], Starts(Roots(row))[i], txt, n)
  /\ EndsText(row[Len(row)]) /\ TotalOf(Roots(row)) = Len(txt)

LEMMA RowStarts ==
  ASSUME NEW row \in Seq(Tree)
  PROVE  /\ Len(row) \in Nat /\ Len(Roots(row)) = Len(row) /\ Roots(row) \in Seq(Node)
         /\ Starts(Roots(row)) \in [1 .. Len(row) + 1 -> Nat] /\ Starts(Roots(row))[1] = 0
         /\ \A i \in 1 .. Len(row) : /\ Starts(Roots(row))[i + 1] = Starts(Roots(row))[i] + Total(row[i][<< >>])
                                      /\ Total(row[i][<< >>]) \in Nat
         /\ TotalOf(Roots(row)) = Starts(Roots(row))[Len(row) + 1] /\ TotalOf(Roots(row)) \in Nat
<1> DEFINE nodes == Roots(row)
           n == Len(row)
<1>1. /\ n \in Nat /\ nodes \in Seq(Node) /\ Len(nodes) = n
      /\ \A i \in 1 .. n : nodes[i] = row[i][<< >>] /\ row[i] \in Tree
  BY RowAre
<1> HIDE DEF nodes, n
<1>2. /\ Starts(nodes) \in [1 .. n + 1 -> Nat] /\ Starts(nodes)[1] = 0
      /\ \A i \in 1 .. n : Starts(nodes)[i + 1] = Starts(nodes)[i] + Total(nodes[i])
  BY <1>1, StartsAre
<1>3. \A i \in 1 .. n : Total(row[i][<< >>]) \in Nat
  BY <1>1, RootIs, NodeType
<1>4. TotalOf(nodes) = Starts(nodes)[n + 1] /\ n + 1 \in 1 .. n + 1
  BY <1>1 DEF TotalOf
<1>5. TotalOf(nodes) \in Nat
  BY <1>2, <1>4
<1> QED BY <1>1, <1>2, <1>3, <1>4, <1>5 DEF nodes, n

(* One more tree on top.                                                   *)
IsPushed(new, row, x) ==
  /\ new \in Seq(Tree) /\ Len(new) = Len(row) + 1 /\ new[Len(row) + 1] = x
  /\ \A i \in 1 .. Len(row) : new[i] = row[i]
  /\ \A i \in 1 .. Len(row) + 1 : Starts(Roots(new))[i] = Starts(Roots(row))[i]
  /\ TotalOf(Roots(new)) = TotalOf(Roots(row)) + Total(x[<< >>])

LEMMA Appended ==
  ASSUME NEW row \in Seq(Tree), NEW x \in Tree
  PROVE  IsPushed(Append(row, x), row, x)
<1> DEFINE n == Len(row)
           new == Append(row, x)
           N == Starts(Roots(new))
           S == Starts(Roots(row))
<1>1. /\ new \in Seq(Tree) /\ Len(new) = n + 1 /\ n \in Nat /\ new[n + 1] = x
      /\ \A i \in 1 .. n : new[i] = row[i]
  BY AppendProperties, LenProperties
<1> HIDE DEF new
<1>2. /\ Roots(row) \in Seq(Node) /\ Len(Roots(row)) = n /\ \A i \in 1 .. n : Roots(row)[i] = row[i][<< >>]
      /\ TotalOf(Roots(row)) = S[n + 1]
  BY RowAre, RowStarts
<1>3. /\ N[1] = 0 /\ \A i \in 1 .. n + 1 : N[i + 1] = N[i] + Total(new[i][<< >>])
      /\ TotalOf(Roots(new)) = N[(n + 1) + 1]
  BY <1>1, RowStarts
<1> HIDE DEF N, n
<1>4. ASSUME NEW i \in 1 .. n PROVE N[i + 1] = N[i] + Total(Roots(row)[i])
  <2>1. i \in 1 .. n + 1
    BY <1>1
  <2>2. new[i] = row[i] /\ Roots(row)[i] = row[i][<< >>]
    BY <1>1, <1>2
  <2> QED BY <1>3, <2>1, <2>2
<1>5. \A i \in 1 .. n + 1 : N[i] = S[i]
  <2> DEFINE nodes == Roots(row)
  <2>1. nodes \in Seq(Node) /\ Len(nodes) = n /\ S = Starts(nodes) /\ \A i \in 1 .. n : N[i + 1] = N[i] + Total(nodes[i])
    BY <1>2, <1>4
  <2> HIDE DEF nodes, S
  <2> QED BY <1>3, <2>1, StartsOnly
<1> HIDE DEF S
<1>6. N[(n + 1) + 1] = S[n + 1] + Total(x[<< >>])
  <2>1. n + 1 \in 1 .. n + 1
    BY <1>1
  <2> QED BY <1>1, <1>3, <1>5, <2>1
<1> QED BY <1>1, <1>2, <1>3, <1>5, <1>6 DEF N, S, n, new, IsPushed

(* A shift.                                                                *)
LEMMA PushSolid ==
  ASSUME NEW row, NEW txt, NEW n, Stacked(row, txt, n), NEW x \in Tree, Solid(x),
         GoodTree(x, TotalOf(Roots(row)), txt, n), NEW new, new = Append(row, x)
  PROVE  Stacked(new, txt, n) /\ TotalOf(Roots(new)) = TotalOf(Roots(row)) + Total(x[<< >>])
<1>1. row \in Seq(Tree) /\ Len(row) \in Nat /\ Len(Roots(row)) = Len(row)
  BY RowAre DEF Stacked
<1>2. /\ new \in Seq(Tree) /\ Len(new) = Len(row) + 1 /\ new[Len(row) + 1] = x
      /\ \A i \in 1 .. Len(row) : new[i] = row[i]
      /\ \A i \in 1 .. Len(row) + 1 : Starts(Roots(new))[i] = Starts(Roots(row))[i]
      /\ TotalOf(Roots(new)) = TotalOf(Roots(row)) + Total(x[<< >>])
  BY <1>1, Appended, Zenon DEF IsPushed
<1>3. ASSUME NEW i \in 1 .. Len(new)
      PROVE  Solid(new[i]) /\ GoodTree(new[i], Starts(Roots(new))[i], txt, n)
  <2>1. CASE i \in 1 .. Len(row)
    <3>1. new[i] = row[i] /\ Starts(Roots(new))[i] = Starts(Roots(row))[i]
      BY <1>1, <1>2, <2>1
    <3> QED BY <2>1, <3>1 DEF Stacked
  <2>2. CASE i \notin 1 .. Len(row)
    <3>1. i = Len(row) + 1 /\ i \in 1 .. Len(row) + 1
      BY <1>1, <1>2, <2>2
    <3>2. Starts(Roots(new))[i] = TotalOf(Roots(row))
      BY <1>1, <1>2, <3>1 DEF TotalOf
    <3> QED BY <1>2, <3>1, <3>2
  <2> QED BY <2>1, <2>2
<1> QED BY <1>2, <1>3 DEF Stacked

LEMMA PushEnd ==
  ASSUME NEW row, NEW txt, NEW n, Stacked(row, txt, n), NEW x \in Tree, EndsText(x),
         GoodTree(x, TotalOf(Roots(row)), txt, n), NEW new, new = Append(row, x),
         TotalOf(Roots(row)) + Total(x[<< >>]) = Len(txt)
  PROVE  Shut(new, txt, n) /\ TotalOf(Roots(new)) = TotalOf(Roots(row)) + Total(x[<< >>])
<1>1. row \in Seq(Tree) /\ Len(row) \in Nat /\ Len(Roots(row)) = Len(row)
  BY RowAre DEF Stacked
<1>2. /\ new \in Seq(Tree) /\ Len(new) = Len(row) + 1 /\ new[Len(row) + 1] = x
      /\ \A i \in 1 .. Len(row) : new[i] = row[i]
      /\ \A i \in 1 .. Len(row) + 1 : Starts(Roots(new))[i] = Starts(Roots(row))[i]
      /\ TotalOf(Roots(new)) = TotalOf(Roots(row)) + Total(x[<< >>])
  BY <1>1, Appended, Zenon DEF IsPushed
<1>3. ASSUME NEW i \in 1 .. Len(new)
      PROVE  /\ i < Len(new) => Solid(new[i])
             /\ GoodTree(new[i], Starts(Roots(new))[i], txt, n)
  <2>1. CASE i \in 1 .. Len(row)
    <3>1. new[i] = row[i] /\ Starts(Roots(new))[i] = Starts(Roots(row))[i]
      BY <1>1, <1>2, <2>1
    <3> QED BY <2>1, <3>1 DEF Stacked
  <2>2. CASE i \notin 1 .. Len(row)
    <3>1. i = Len(row) + 1 /\ i \in 1 .. Len(row) + 1 /\ ~ (i < Len(new))
      BY <1>1, <1>2, <2>2
    <3>2. Starts(Roots(new))[i] = TotalOf(Roots(row))
      BY <1>1, <1>2, <3>1 DEF TotalOf
    <3> QED BY <1>2, <3>1, <3>2
  <2> QED BY <2>1, <2>2
<1>4. Len(new) > 0 /\ EndsText(new[Len(new)])
  BY <1>1, <1>2
<1> QED BY <1>2, <1>3, <1>4 DEF Shut

LEMMA ShutClosed ==
  ASSUME NEW row, NEW txt, NEW n, Shut(row, txt, n)
  PROVE  Closed(row)
<1>1. \A i \in 1 .. Len(row) : /\ Clean(row[i]) /\ \A p \in Leaves(row[i]) : Narrow(row[i][p])
                               /\ i < Len(row) => Solid(row[i])
  BY DEF Shut, GoodTree
<1> QED BY <1>1 DEF Shut, Closed

(* A subtree of a good tree is good where it stands.                       *)
LEMMA SubtreeGood ==
  ASSUME NEW t, NEW at \in Nat, NEW txt, NEW n, GoodTree(t, at, txt, n), NEW p \in DOMAIN t
  PROVE  /\ GoodTree(Subtree(t, p), at + Begins(t)[p], txt, n)
         /\ Solid(t) => Solid(Subtree(t, p))
<1> DEFINE s == Subtree(t, p)
<1>1. /\ WellFormed(t) /\ Spans(t) /\ IsFiniteSet(DOMAIN t) /\ Marks(t)
      /\ \A r \in DOMAIN t : Covers(t, r) /\ ~ t[r].has_changes
  BY CleanMarks DEF GoodTree, Clean
<1>2. Clean(s)
  BY <1>1, SubtreeClean
<1>3. \A q \in DOMAIN s : p \o q \in DOMAIN t /\ s[q] = t[p \o q]
  BY <1>1, SubtreeNodes
<1>4. \A q \in DOMAIN s : Begins(t)[p \o q] = Begins(t)[p] + Begins(s)[q]
  BY <1>1, SubtreeBegins
<1>5. Begins(t) \in [DOMAIN t -> Nat] /\ Begins(s) \in [DOMAIN s -> Nat]
  BY <1>1, <1>2, BeginsAre DEF Clean
<1> HIDE DEF s
<1>6. ASSUME NEW q \in Leaves(s)
      PROVE  /\ Narrow(s[q])
             /\ Trusted /\ s[q].lexedAt # New => IntactIn(s[q], (at + Begins(t)[p]) + Begins(s)[q], txt, n)
  <2>1. q \in DOMAIN s /\ p \o q \in Leaves(t) /\ s[q] = t[p \o q]
    BY <1>3 DEF Leaves
  <2>2. at + Begins(t)[p \o q] = (at + Begins(t)[p]) + Begins(s)[q]
    BY <1>4, <1>5, <2>1
  <2> QED BY <2>1, <2>2 DEF GoodTree
<1>7. Solid(t) => Solid(s)
  BY <1>3 DEF Solid
<1> QED BY <1>2, <1>6, <1>7 DEF GoodTree, s

(* What is put back instead of the last tree: its children.                *)
LEMMA SubtreesAre ==
  ASSUME NEW t, WellFormed(t)
  PROVE  /\ Subtrees(t) \in Seq(Tree) /\ Len(Subtrees(t)) = t[<< >>].child_count
         /\ \A i \in 1 .. t[<< >>].child_count :
              /\ <<i>> \in DOMAIN t /\ Subtrees(t)[i] = Subtree(t, <<i>>)
              /\ Begins(t)[<<i>>] = Starts(Kids(t, << >>))[i]
              /\ Subtrees(t)[i][<< >>] = Kids(t, << >>)[i]
<1> DEFINE n == t[<< >>].child_count
           row == Subtrees(t)
<1>1. << >> \in DOMAIN t /\ n \in Nat /\ \A i \in 1 .. n : i \in Nat \ {0}
  BY NodeType DEF WellFormed
<1>2. ASSUME NEW i \in 1 .. n
      PROVE  /\ <<i>> \in DOMAIN t /\ t[<<i>>] = Kids(t, << >>)[i]
             /\ Begins(t)[<<i>>] = Starts(Kids(t, << >>))[i]
  <2>1. <<i>> = Append(<< >>, i)
    BY <1>1, PathFirst, EmptySeq DEF Path
  <2>2. Append(<< >>, i) \in DOMAIN t
    BY <1>1, ChildPath
  <2>3. Kids(t, << >>)[i] = t[Append(<< >>, i)]
    BY <1>1, KidsAre
  <2>4. Begins(t)[Append(<< >>, i)] = 0 + ChildStart(t, << >>, i) /\ ChildStart(t, << >>, i) \in Nat
    BY <1>1, BeginsAre, ChildStartType
  <2>5. Begins(t)[Append(<< >>, i)] = ChildStart(t, << >>, i)
    BY <2>4
  <2> QED BY <2>1, <2>2, <2>3, <2>5 DEF ChildStart
<1>3. row = [i \in 1 .. n |-> Subtree(t, <<i>>)]
  BY DEF Subtrees
<1>4. \A i \in 1 .. n : Subtree(t, <<i>>) \in Tree /\ Subtree(t, <<i>>)[<< >>] = t[<<i>>]
  BY <1>2, SubtreeWellFormed
<1>5. row \in [1 .. n -> Tree]
  BY <1>3, <1>4
<1> HIDE DEF row, n
<1>6. row \in Seq(Tree) /\ Len(row) = n
  BY <1>1, <1>5, SeqDef, LenProperties
<1> QED BY <1>2, <1>3, <1>4, <1>6 DEF row, n

(* The same row but for its last tree, which is broken up.                 *)
IsBroken(new, row, x) ==
  /\ new \in Seq(Tree) /\ Len(new) = (Len(row) - 1) + x[<< >>].child_count
  /\ \A k \in 1 .. Len(row) - 1 : new[k] = row[k] /\ Starts(Roots(new))[k] = Starts(Roots(row))[k]
  /\ \A j \in 1 .. x[<< >>].child_count :
       /\ <<j>> \in DOMAIN x /\ new[(Len(row) - 1) + j] = Subtree(x, <<j>>)
       /\ Starts(Roots(new))[(Len(row) - 1) + j] = Starts(Roots(row))[Len(row)] + Begins(x)[<<j>>]
  /\ TotalOf(Roots(new)) = TotalOf(Roots(row))

LEMMA BrokenRow ==
  ASSUME NEW row \in Seq(Tree), row # << >>, NEW x, x = Last(row), Spans(x), x[<< >>].child_count > 0
  PROVE  IsBroken(Front(row) \o Subtrees(x), row, x)
<1> DEFINE n == Len(row)
           h == n - 1
           m == x[<< >>].child_count
           kids == Kids(x, << >>)
           new == Front(row) \o Subtrees(x)
           S == Starts(Roots(row))
           K == Starts(kids)
           N == Starts(Roots(new))
<1>1. /\ n \in Nat /\ n > 0 /\ n \in 1 .. n /\ h \in Nat /\ h + 1 = n
      /\ \A k \in 1 .. h : k \in 1 .. n
  BY LenProperties, EmptySeq
<1>2. x = row[n] /\ x \in Tree /\ WellFormed(x)
  BY <1>1, RowAre DEF Last
<1>3. /\ << >> \in DOMAIN x /\ m \in Nat
      /\ kids \in Seq(Node) /\ Len(kids) = m
  BY <1>2, NodeType, KidsAre DEF WellFormed
<1>4. /\ Front(row) \in Seq(Tree) /\ Len(Front(row)) = h /\ \A k \in 1 .. h : Front(row)[k] = row[k]
  <2>1. \A k \in 1 .. n - 1 : row[k] \in Tree
    BY <1>1
  <2>2. /\ SubSeq(row, 1, n - 1) \in Seq(Tree) /\ Len(SubSeq(row, 1, n - 1)) = IF 1 <= n - 1 THEN (n - 1) - 1 + 1 ELSE 0
        /\ \A k \in 1 .. (n - 1) - 1 + 1 : SubSeq(row, 1, n - 1)[k] = row[1 + k - 1]
    BY <1>1, <2>1, SubSeqProperties
  <2>3. Front(row) = SubSeq(row, 1, n - 1)
    BY DEF Front
  <2> HIDE DEF n
  <2> QED BY <1>1, <2>2, <2>3
<1>5. /\ Subtrees(x) \in Seq(Tree) /\ Len(Subtrees(x)) = m
      /\ \A i \in 1 .. m : /\ <<i>> \in DOMAIN x /\ Subtrees(x)[i] = Subtree(x, <<i>>)
                           /\ Begins(x)[<<i>>] = K[i] /\ Subtrees(x)[i][<< >>] = kids[i]
  BY <1>2, SubtreesAre
<1>6. /\ new \in Seq(Tree) /\ Len(new) = h + m
      /\ \A k \in 1 .. h + m : new[k] = IF k <= h THEN row[k] ELSE Subtrees(x)[k - h]
  <2> DEFINE f == Front(row)
             g == Subtrees(x)
  <2>1. f \in Seq(Tree) /\ g \in Seq(Tree) /\ Len(f) = h /\ Len(g) = m /\ \A k \in 1 .. h : f[k] = row[k]
    BY <1>4, <1>5
  <2> HIDE DEF f, g, h, m
  <2>2. /\ f \o g \in Seq(Tree) /\ Len(f \o g) = h + m
        /\ \A k \in 1 .. h + m : (f \o g)[k] = IF k <= h THEN f[k] ELSE g[k - h]
    BY <2>1, ConcatProperties
  <2>3. new = f \o g
    BY DEF f, g
  <2> QED BY <1>1, <1>3, <2>1, <2>2, <2>3 DEF g
<1>7. /\ S \in [1 .. n + 1 -> Nat] /\ S[1] = 0 /\ \A i \in 1 .. n : S[i + 1] = S[i] + Total(row[i][<< >>])
      /\ TotalOf(Roots(row)) = S[n + 1]
  BY RowStarts
<1>8. /\ K \in [1 .. m + 1 -> Nat] /\ K[1] = 0 /\ \A i \in 1 .. m : K[i + 1] = K[i] + Total(kids[i])
      /\ Total(x[<< >>]) = K[m + 1]
  <2>1. Total(x[<< >>]) = TotalOf(kids)
    BY <1>3 DEF Spans
  <2> HIDE DEF kids
  <2> QED BY <1>3, <2>1, StartsAre DEF TotalOf
<1>9. /\ Roots(new) \in Seq(Node) /\ Len(Roots(new)) = h + m
      /\ \A k \in 1 .. h + m : Roots(new)[k] = new[k][<< >>]
  BY <1>6, RowAre
<1> DEFINE f == [k \in 1 .. (h + m) + 1 |-> IF k <= h THEN S[k] ELSE S[n] + K[k - h]]
<1> HIDE DEF n, h, m, S, K, N, new, kids
<1>10. f[1] = 0
  <2>1. 1 \in 1 .. (h + m) + 1
    BY <1>1, <1>3
  <2>2. CASE h = 0
    BY <1>1, <1>7, <1>8, <2>1, <2>2
  <2>3. CASE h > 0
    BY <1>1, <1>7, <2>1, <2>3
  <2> QED BY <1>1, <2>2, <2>3
<1>11. ASSUME NEW k \in 1 .. h + m PROVE f[k + 1] = f[k] + Total(Roots(new)[k])
  <2>1. k \in Nat /\ k \in 1 .. (h + m) + 1 /\ k + 1 \in 1 .. (h + m) + 1
    BY <1>1, <1>3
  <2>2. CASE k < h
    <3>0. k \in 1 .. n /\ k <= h /\ k + 1 <= h
      BY <1>1, <2>1, <2>2
    <3>1. new[k] = row[k] /\ S[k + 1] = S[k] + Total(row[k][<< >>])
      BY <1>6, <1>7, <3>0
    <3>2. f[k + 1] = S[k + 1] /\ f[k] = S[k]
      BY <2>1, <3>0
    <3> QED BY <1>9, <3>1, <3>2
  <2>3. CASE k = h
    <3>0. k \in 1 .. n /\ k <= h /\ ~ (k + 1 <= h) /\ (k + 1) - h = 1 /\ k + 1 = n
      BY <1>1, <2>1, <2>3
    <3>1. new[k] = row[k] /\ S[n] = S[k] + Total(row[k][<< >>])
      <4>1. new[k] = row[k]
        BY <1>6, <3>0
      <4>2. S[k + 1] = S[k] + Total(row[k][<< >>])
        BY <1>7, <3>0
      <4> QED BY <3>0, <4>1, <4>2
    <3>2. S[n] \in Nat /\ S[k] \in Nat
      BY <1>1, <1>7, <3>0
    <3>3. f[k + 1] = S[n] + K[1] /\ f[k] = S[k]
      BY <2>1, <3>0
    <3>4. Roots(new)[k] = row[k][<< >>]
      BY <1>9, <3>1
    <3>5. f[k + 1] = S[n]
      BY <1>8, <3>2, <3>3
    <3> QED BY <3>1, <3>3, <3>4, <3>5
  <2>4. CASE k > h
    <3>1. /\ ~ (k <= h) /\ ~ (k + 1 <= h) /\ k - h \in 1 .. m /\ (k + 1) - h = (k - h) + 1
          /\ k - h \in 1 .. m + 1 /\ (k - h) + 1 \in 1 .. m + 1
      BY <1>1, <1>3, <2>1, <2>4
    <3>2. new[k] = Subtrees(x)[k - h] /\ Subtrees(x)[k - h][<< >>] = kids[k - h]
      BY <1>5, <1>6, <3>1
    <3>3. K[(k - h) + 1] = K[k - h] + Total(kids[k - h]) /\ K[k - h] \in Nat /\ K[(k - h) + 1] \in Nat /\ S[n] \in Nat
      <4> DEFINE i == k - h
      <4>1. i \in 1 .. m /\ i \in 1 .. m + 1 /\ i + 1 \in 1 .. m + 1
        BY <3>1
      <4> HIDE DEF i
      <4>2. K[i + 1] = K[i] + Total(kids[i])
        BY <1>8, <4>1
      <4>3. K[i] \in Nat /\ K[i + 1] \in Nat
        BY <1>8, <4>1
      <4>4. n \in 1 .. n + 1
        BY <1>1
      <4>5. S[n] \in Nat
        BY <1>7, <4>4
      <4> QED BY <4>2, <4>3, <4>5 DEF i
    <3>4. f[k + 1] = S[n] + K[(k - h) + 1] /\ f[k] = S[n] + K[k - h]
      BY <2>1, <3>1
    <3>5. Total(Roots(new)[k]) = Total(kids[k - h]) /\ Total(kids[k - h]) \in Nat
      <4>1. kids[k - h] \in Node
        BY <1>3, <3>1
      <4> QED BY <1>9, <3>2, <4>1, NodeType
    <3> QED BY <3>3, <3>4, <3>5
  <2> QED BY <1>1, <2>1, <2>2, <2>3, <2>4
<1>12. \A k \in 1 .. (h + m) + 1 : f[k] = N[k]
  <2> DEFINE nodes == Roots(new)
  <2>1. nodes \in Seq(Node) /\ Len(nodes) = h + m /\ \A k \in 1 .. h + m : f[k + 1] = f[k] + Total(nodes[k])
    BY <1>9, <1>11
  <2> HIDE DEF nodes, f
  <2>2. \A k \in 1 .. Len(nodes) + 1 : f[k] = Starts(nodes)[k]
    BY <1>10, <2>1, StartsOnly
  <2> QED BY <2>1, <2>2 DEF N, nodes
<1>13. \A k \in 1 .. h : new[k] = row[k] /\ N[k] = S[k]
  BY <1>1, <1>3, <1>6, <1>12
<1>14. ASSUME NEW j \in 1 .. m
       PROVE  <<j>> \in DOMAIN x /\ new[h + j] = Subtree(x, <<j>>) /\ N[h + j] = S[n] + Begins(x)[<<j>>]
  <2>1. h + j \in 1 .. h + m /\ h + j \in 1 .. (h + m) + 1 /\ ~ (h + j <= h) /\ (h + j) - h = j
    BY <1>1, <1>3
  <2>2. new[h + j] = Subtrees(x)[j] /\ N[h + j] = S[n] + K[j]
    BY <1>6, <1>12, <2>1
  <2> QED BY <1>5, <2>2
<1>15. TotalOf(Roots(new)) = TotalOf(Roots(row))
  <2>1. (h + m) + 1 \in 1 .. (h + m) + 1 /\ ~ ((h + m) + 1 <= h) /\ ((h + m) + 1) - h = m + 1
    BY <1>1, <1>3
  <2>2. N[(h + m) + 1] = S[n] + K[m + 1]
    BY <1>12, <2>1
  <2>3. S[n + 1] = S[n] + Total(x[<< >>])
    BY <1>1, <1>2, <1>7
  <2>4. TotalOf(Roots(new)) = N[(h + m) + 1]
    BY <1>9 DEF TotalOf, N
  <2> QED BY <1>7, <1>8, <2>2, <2>3, <2>4
<1> QED BY <1>6, <1>13, <1>14, <1>15 DEF IsBroken, n, h, m, S, N, new

(* Breaking up keeps what is on the stack good, and where it ends.         *)
LEMMA BrokenStacked ==
  ASSUME NEW row, NEW txt, NEW n, Stacked(row, txt, n)
  PROVE  Stacked(BreakdownStep(row), txt, n) /\ TotalOf(Roots(BreakdownStep(row))) = TotalOf(Roots(row))
<1>1. CASE row = << >> \/ Last(row)[<< >>].child_count = 0
  <2>1. BreakdownStep(row) = row
    BY <1>1 DEF BreakdownStep
  <2> QED BY <2>1
<1>2. CASE row # << >> /\ Last(row)[<< >>].child_count # 0
  <2> DEFINE x == Last(row)
             l == Len(row)
             new == Front(row) \o Subtrees(x)
             m == x[<< >>].child_count
             N == Starts(Roots(new))
             S == Starts(Roots(row))
  <2>1. BreakdownStep(row) = new
    BY <1>2 DEF BreakdownStep
  <2>2. row \in Seq(Tree) /\ l \in Nat /\ l > 0 /\ l \in 1 .. l /\ x = row[l] /\ x \in Tree
    <3>1. row \in Seq(Tree)
      BY DEF Stacked
    <3> QED BY <1>2, <3>1, LenProperties, EmptySeq DEF Last
  <2>3. /\ Solid(x) /\ GoodTree(x, S[l], txt, n) /\ S[l] \in Nat
    <3>1. l \in 1 .. l + 1
      BY <2>2
    <3> QED BY <2>2, <3>1, RowStarts DEF Stacked
  <2>4. WellFormed(x) /\ Spans(x)
    BY <2>3 DEF GoodTree, Clean
  <2>5. m \in Nat /\ m > 0
    BY <1>2, <2>4, NodeType DEF WellFormed
  <2>6. IsBroken(new, row, x)
    <3>1. row # << >> /\ x[<< >>].child_count > 0
      BY <1>2, <2>5
    <3> HIDE DEF m, l, S
    <3> QED BY <2>2, <2>4, <3>1, BrokenRow
  <2> HIDE DEF new
  <2>7. /\ new \in Seq(Tree) /\ Len(new) = (l - 1) + m
        /\ \A k \in 1 .. l - 1 : new[k] = row[k] /\ N[k] = S[k]
        /\ \A j \in 1 .. m :
             <<j>> \in DOMAIN x /\ new[(l - 1) + j] = Subtree(x, <<j>>) /\ N[(l - 1) + j] = S[l] + Begins(x)[<<j>>]
        /\ TotalOf(Roots(new)) = TotalOf(Roots(row))
    BY <2>6 DEF IsBroken
  <2> HIDE DEF x, l, m, N, S
  <2>8. ASSUME NEW k \in 1 .. Len(new) PROVE Solid(new[k]) /\ GoodTree(new[k], N[k], txt, n)
    <3>1. k \in Nat /\ k <= (l - 1) + m
      BY <2>2, <2>5, <2>7
    <3>2. CASE k <= l - 1
      <4>1. k \in 1 .. l - 1 /\ k \in 1 .. l
        BY <2>2, <3>1, <3>2
      <4> QED BY <2>7, <4>1 DEF Stacked, l, S
    <3>3. CASE ~ (k <= l - 1)
      <4> DEFINE j == k - (l - 1)
      <4>1. j \in 1 .. m /\ (l - 1) + j = k
        BY <2>2, <2>5, <3>1, <3>3
      <4> HIDE DEF j
      <4>2. <<j>> \in DOMAIN x /\ new[k] = Subtree(x, <<j>>) /\ N[k] = S[l] + Begins(x)[<<j>>]
        BY <2>7, <4>1
      <4>3. GoodTree(Subtree(x, <<j>>), S[l] + Begins(x)[<<j>>], txt, n) /\ Solid(Subtree(x, <<j>>))
        BY <2>3, <4>2, SubtreeGood
      <4> QED BY <4>2, <4>3
    <3> QED BY <3>2, <3>3
  <2>9. Stacked(new, txt, n)
    BY <2>7, <2>8 DEF Stacked, N
  <2> QED BY <2>1, <2>7, <2>9
<1> QED BY <1>1, <1>2

LEMMA TopStacked ==
  ASSUME NEW row, NEW txt, NEW n, Stacked(row, txt, n)
  PROVE  Stacked(BreakdownTop(row), txt, n) /\ TotalOf(Roots(BreakdownTop(row))) = TotalOf(Roots(row))
<1> DEFINE total == TotalOf(Roots(row))
           R == {r \in Seq(Tree) : Stacked(r, txt, n) /\ TotalOf(Roots(r)) = total}
           depth == IF row = << >> THEN 0 ELSE Cardinality(DOMAIN Last(row))
           B(f) == [k \in 0 .. depth |-> IF k = 0 THEN row ELSE BreakdownStep(f[k - 1])]
           step == [k \in 0 .. depth |-> [r \in R |-> BreakdownStep(r)]]
           after == CHOOSE f : f = B(f)
<1>1. depth \in Nat /\ 0 \in Nat
  <2>1. CASE row = << >>
    BY <2>1
  <2>2. CASE row # << >>
    <3>1. row \in Seq(Tree)
      BY DEF Stacked
    <3>2. Len(row) \in 1 .. Len(row) /\ Last(row) = row[Len(row)]
      BY <2>2, <3>1, LenProperties, EmptySeq DEF Last
    <3>3. IsFiniteSet(DOMAIN Last(row))
      BY <3>2 DEF Stacked, GoodTree, Clean
    <3>4. Cardinality(DOMAIN Last(row)) \in Nat
      BY <3>3, FS_CardinalityType
    <3> QED BY <2>2, <3>4
  <2> QED BY <2>1, <2>2
<1>2. \A r \in R : BreakdownStep(r) \in R
  <2> SUFFICES ASSUME NEW r \in R PROVE BreakdownStep(r) \in R
    OBVIOUS
  <2>1. Stacked(r, txt, n) /\ TotalOf(Roots(r)) = total
    OBVIOUS
  <2>2. Stacked(BreakdownStep(r), txt, n) /\ TotalOf(Roots(BreakdownStep(r))) = total
    BY <2>1, BrokenStacked
  <2>3. BreakdownStep(r) \in Seq(Tree)
    BY <2>2 DEF Stacked
  <2> QED BY <2>2, <2>3
<1>3. row \in R
  BY DEF Stacked
<1> HIDE DEF R, depth
<1>4. step \in [0 .. depth -> [R -> R]]
  BY <1>2
<1>5. PICK g : IsRecursion(g, R, row, 0, depth, step)
  <2> HIDE DEF step
  <2> QED BY <1>1, <1>3, <1>4, Recursion
<1>6. /\ g \in [0 .. depth -> R]
      /\ g = [k \in 0 .. depth |-> IF k = 0 THEN row ELSE step[k][g[k - 1]]]
  BY <1>5 DEF IsRecursion
<1>7. g = B(g)
  <2>1. ASSUME NEW k \in 0 .. depth PROVE g[k] = B(g)[k]
    <3>1. CASE k = 0
      <4>1. g[k] = row
        BY <1>6, <3>1
      <4>2. B(g)[k] = row
        BY <3>1
      <4> QED BY <4>1, <4>2
    <3>2. CASE k # 0
      <4>1. k - 1 \in 0 .. depth /\ g[k - 1] \in R
        <5>1. k - 1 \in 0 .. depth
          BY <1>1, <3>2
        <5> HIDE DEF step, B
        <5> QED BY <1>6, <5>1
      <4>2. g[k] = step[k][g[k - 1]]
        <5> HIDE DEF step
        <5> QED BY <1>6, <3>2
      <4>3. step[k][g[k - 1]] = BreakdownStep(g[k - 1])
        BY <4>1
      <4>4. B(g)[k] = BreakdownStep(g[k - 1])
        BY <3>2
      <4> QED BY <4>2, <4>3, <4>4
    <3> QED BY <3>1, <3>2
  <2>2. g = [k \in 0 .. depth |-> g[k]] /\ B(g) = [k \in 0 .. depth |-> B(g)[k]]
    <3>1. g = [k \in 0 .. depth |-> g[k]]
      <4> HIDE DEF step
      <4> QED BY <1>6
    <3> QED BY <3>1
  <2> HIDE DEF B, step
  <2> QED BY <2>1, <2>2, Zenon
<1>8. BreakdownTop(row) = after[depth]
  BY Zenon DEF BreakdownTop, depth
<1> HIDE DEF B, step
<1>9. after = B(after)
  BY <1>7, Zenon
<1> HIDE DEF after
<1>10. \A k \in 0 .. depth : k = 0 \/ after[k - 1] \in R => after[k] \in R
  <2> SUFFICES ASSUME NEW k \in 0 .. depth, k = 0 \/ after[k - 1] \in R PROVE after[k] \in R
    OBVIOUS
  <2>1. after[k] = IF k = 0 THEN row ELSE BreakdownStep(after[k - 1])
    BY <1>9 DEF B
  <2> QED BY <1>2, <1>3, <2>1
<1> DEFINE T == {k \in Nat : k \in 0 .. depth => after[k] \in R}
<1>11. 0 \in T
  BY <1>1, <1>10
<1>12. ASSUME NEW k \in T PROVE k + 1 \in T
  <2>1. k \in Nat /\ (k + 1) - 1 = k
    OBVIOUS
  <2>2. CASE k + 1 \in 0 .. depth
    <3>1. k \in 0 .. depth
      BY <1>1, <2>1, <2>2
    <3> QED BY <1>10, <2>1, <2>2, <3>1
  <2> QED BY <2>1, <2>2
<1>13. T \subseteq Nat
  OBVIOUS
<1> HIDE DEF T
<1>14. T = Nat
  BY <1>11, <1>12, <1>13, Induct
<1>15. depth \in T /\ depth \in 0 .. depth
  BY <1>1, <1>14
<1>16. after[depth] \in R
  BY <1>15 DEF T
<1> QED BY <1>8, <1>16 DEF R

-----------------------------------------------------------------------------
(* The reusable node's place: reusable_node.h.                             *)

(* The path of a child, level by level.                                    *)
LEMMA AppendLevels ==
  ASSUME NEW p \in Path, NEW i \in Nat \ {0}
  PROVE  /\ DOMAIN p = 1 .. Len(p) /\ DOMAIN Append(p, i) = 1 .. Len(p) + 1 /\ Len(p) \in Nat
         /\ Append(p, i)[Len(p) + 1] = i /\ SubSeq(Append(p, i), 1, (Len(p) + 1) - 1) = p
         /\ \A k \in 1 .. Len(p) :
              Append(p, i)[k] = p[k] /\ SubSeq(Append(p, i), 1, k - 1) = SubSeq(p, 1, k - 1)
<1> DEFINE q == Append(p, i)
           n == Len(p)
<1>1. p \in Seq(Nat \ {0}) /\ n \in Nat /\ DOMAIN p = 1 .. n
  BY LenProperties DEF Path
<1>2. /\ q \in Seq(Nat \ {0}) /\ Len(q) = n + 1 /\ q[n + 1] = i /\ DOMAIN q = 1 .. n + 1
      /\ \A k \in 1 .. n : q[k] = p[k]
  <2>1. q \in Seq(Nat \ {0}) /\ Len(q) = n + 1 /\ q[n + 1] = i /\ \A k \in 1 .. n : q[k] = p[k]
    BY <1>1, AppendProperties
  <2> QED BY <2>1, LenProperties
<1> HIDE DEF q, n
<1>3. ASSUME NEW k \in 1 .. n + 1 PROVE SubSeq(q, 1, k - 1) = SubSeq(p, 1, k - 1)
  <2>1. k - 1 \in 0 .. n /\ k - 1 \in Nat
    BY <1>1
  <2>2. \A j \in 1 .. k - 1 : j \in 1 .. n /\ j \in 1 .. n + 1 /\ q[j] = p[j] /\ p[j] \in Nat \ {0} /\ q[j] \in Nat \ {0}
    BY <1>1, <1>2, <2>1
  <2>3. /\ SubSeq(q, 1, k - 1) \in Seq(Nat \ {0}) /\ Len(SubSeq(q, 1, k - 1)) = k - 1
        /\ \A j \in 1 .. k - 1 : SubSeq(q, 1, k - 1)[j] = q[j]
    BY <1>1, <1>2, <2>1, <2>2, SubSeqProperties
  <2>4. /\ SubSeq(p, 1, k - 1) \in Seq(Nat \ {0}) /\ Len(SubSeq(p, 1, k - 1)) = k - 1
        /\ \A j \in 1 .. k - 1 : SubSeq(p, 1, k - 1)[j] = p[j]
    BY <1>1, <1>2, <2>1, <2>2, SubSeqProperties
  <2> QED BY <2>2, <2>3, <2>4, SeqEqual
<1>4. SubSeq(q, 1, (n + 1) - 1) = p
  <2>1. n + 1 \in 1 .. n + 1 /\ (n + 1) - 1 = n
    BY <1>1
  <2>2. SubSeq(p, 1, n) = p
    BY <1>1, SubSeqFull DEF n
  <2>3. SubSeq(q, 1, (n + 1) - 1) = SubSeq(p, 1, (n + 1) - 1)
    BY <1>3, <2>1
  <2> QED BY <2>1, <2>2, <2>3
<1>5. \A k \in 1 .. n : k \in 1 .. n + 1
  BY <1>1
<1> QED BY <1>1, <1>2, <1>3, <1>4, <1>5 DEF q, n

(* Of the levels of a path that have a next sibling, there is a lowest.    *)
LEMMA LowestTurn ==
  ASSUME NEW p \in Path, Turns(p) # {}
  PROVE  \E k \in Turns(p) : \A j \in Turns(p) : j <= k
<1> DEFINE f == [k \in 1 .. Len(p) |-> IF k \in Turns(p) THEN k ELSE 0]
<1>1. Len(p) \in Nat /\ Turns(p) \subseteq 1 .. Len(p)
  <2>1. Len(p) \in Nat /\ DOMAIN p = 1 .. Len(p)
    BY LenProperties DEF Path
  <2>2. Turns(p) \subseteq DOMAIN p
    BY DEF Turns
  <2> QED BY <2>1, <2>2
<1>2. PICK k0 : k0 \in Turns(p)
  OBVIOUS
<1> DEFINE U == Turns(p)
<1>3. U \subseteq 1 .. Len(p) /\ k0 \in U /\ f = [k \in 1 .. Len(p) |-> IF k \in U THEN k ELSE 0]
  BY <1>1, <1>2
<1> HIDE DEF U, f
<1>4. Len(p) \in Nat \ {0} /\ f \in [1 .. Len(p) -> Nat]
  BY <1>1, <1>3
<1>5. PICK k \in 1 .. Len(p) : \A j \in 1 .. Len(p) : f[j] <= f[k]
  <2> DEFINE n == Len(p)
  <2> HIDE DEF n
  <2>1. n \in Nat \ {0} /\ f \in [1 .. n -> Nat]
    BY <1>4 DEF n
  <2>2. \E k \in 1 .. n : \A j \in 1 .. n : f[j] <= f[k]
    BY <2>1, RowMax
  <2> QED BY <2>2 DEF n
<1>6. \A j \in U : f[j] = j /\ f[j] <= f[k]
  BY <1>3, <1>5
<1>7. k \in U
  BY <1>1, <1>3, <1>5, <1>6
<1> QED BY <1>6, <1>7 DEF U

(* Where the node behind the one at a path stands.                         *)
Onward(p) ==
  /\ Turns(p) = {} => Begins(tree)[p] + Total(tree[p]) = Total(tree[<< >>])
  /\ \A k \in Turns(p) :
       (\A j \in Turns(p) : j <= k) =>
         /\ SubSeq(p, 1, k - 1) \o <<p[k] + 1>> \in DOMAIN tree
         /\ Begins(tree)[SubSeq(p, 1, k - 1) \o <<p[k] + 1>>] = Begins(tree)[p] + Total(tree[p])

LEMMA OnwardNext ==
  ASSUME WellFormed(tree), NEW p \in DOMAIN tree, NEW i \in 1 .. tree[p].child_count, i < tree[p].child_count
  PROVE  Onward(Append(p, i))
<1> DEFINE q == Append(p, i)
           n == Len(p) + 1
           next == Append(p, i + 1)
<1>1. /\ p \in Path /\ i \in Nat \ {0} /\ q \in DOMAIN tree /\ tree[p].child_count \in Nat /\ tree[q] \in Node
  BY ChildPath, NodeType
<1>2. /\ Len(p) \in Nat /\ DOMAIN q = 1 .. n /\ q[n] = i /\ SubSeq(q, 1, n - 1) = p
  BY <1>1, AppendLevels
<1>3. Turns(q) = {k \in 1 .. n : q[k] < tree[SubSeq(q, 1, k - 1)].child_count}
  BY <1>2 DEF Turns
<1>4. i + 1 \in 1 .. tree[p].child_count /\ next \in DOMAIN tree
  <2>1. i + 1 \in 1 .. tree[p].child_count
    BY <1>1
  <2> QED BY <2>1, ChildPath
<1>5. Begins(tree)[next] = Begins(tree)[q] + Total(tree[q])
  <2> DEFINE K == Kids(tree, p)
  <2>1. K \in Seq(Node) /\ Len(K) = tree[p].child_count /\ K[i] = tree[q]
    BY KidsAre
  <2>2. Starts(K)[i + 1] = Starts(K)[i] + Total(tree[q])
    <3> HIDE DEF K, q
    <3> QED BY <2>1, StartsAre
  <2>3. /\ Begins(tree)[q] = Begins(tree)[p] + Starts(K)[i]
        /\ Begins(tree)[next] = Begins(tree)[p] + Starts(K)[i + 1]
    BY <1>4, BeginsAre DEF ChildStart
  <2>4. Begins(tree)[p] \in Nat /\ Starts(K)[i] \in Nat /\ Total(tree[q]) \in Nat
    <3>1. Begins(tree)[p] \in Nat
      BY BeginsAre
    <3>2. Starts(K)[i] \in Nat
      BY ChildStartType DEF ChildStart
    <3>3. Total(tree[q]) \in Nat
      BY <1>1, NodeType
    <3> QED BY <3>1, <3>2, <3>3
  <2> HIDE DEF K, q, next
  <2> QED BY <2>2, <2>3, <2>4
<1> HIDE DEF q
<1>6. n \in Turns(q) /\ Turns(q) \subseteq 1 .. n /\ n \in Nat
  <2>1. n \in Nat /\ n \in 1 .. n
    BY <1>2
  <2>2. q[n] < tree[SubSeq(q, 1, n - 1)].child_count
    BY <1>2
  <2> HIDE DEF n
  <2> QED BY <1>3, <2>1, <2>2
<1>7. ASSUME NEW k \in Turns(q), \A j \in Turns(q) : j <= k PROVE k = n
  BY <1>6, <1>7
<1>8. SubSeq(q, 1, n - 1) \o <<q[n] + 1>> = next
  <2>1. p \o <<i + 1>> = Append(p, i + 1)
    BY <1>1, AppendIsConcat DEF Path
  <2> QED BY <1>2, <2>1
<1>9. ASSUME NEW k \in Turns(q), \A j \in Turns(q) : j <= k
      PROVE  /\ SubSeq(q, 1, k - 1) \o <<q[k] + 1>> \in DOMAIN tree
             /\ Begins(tree)[SubSeq(q, 1, k - 1) \o <<q[k] + 1>>] = Begins(tree)[q] + Total(tree[q])
  <2>1. k = n
    BY <1>7, <1>9
  <2> HIDE DEF n, next
  <2> QED BY <1>4, <1>5, <1>8, <2>1
<1> HIDE DEF n
<1>10. Onward(q)
  BY <1>6, <1>9 DEF Onward
<1> QED BY <1>10 DEF q

LEMMA OnwardLast ==
  ASSUME WellFormed(tree), Spans(tree), NEW p \in DOMAIN tree, Onward(p), tree[p].child_count > 0,
         NEW i, i = tree[p].child_count
  PROVE  Onward(Append(p, i))
<1> DEFINE q == Append(p, i)
           n == Len(p) + 1
<1>0. i \in 1 .. tree[p].child_count /\ tree[p].child_count \in Nat
  <2>1. tree[p].child_count \in Nat
    BY NodeType DEF WellFormed
  <2> QED BY <2>1
<1>1. /\ p \in Path /\ i \in Nat \ {0} /\ q \in DOMAIN tree /\ tree[q] \in Node
  BY <1>0, ChildPath, NodeType
<1>2. /\ Len(p) \in Nat /\ DOMAIN q = 1 .. n /\ q[n] = i /\ SubSeq(q, 1, n - 1) = p /\ DOMAIN p = 1 .. Len(p)
      /\ \A k \in 1 .. Len(p) : q[k] = p[k] /\ SubSeq(q, 1, k - 1) = SubSeq(p, 1, k - 1)
  BY <1>1, AppendLevels
<1>3. Begins(tree)[q] + Total(tree[q]) = Begins(tree)[p] + Total(tree[p])
  <2> DEFINE K == Kids(tree, p)
  <2>1. K \in Seq(Node) /\ Len(K) = i /\ K[i] = tree[q]
    BY <1>0, KidsAre
  <2>2. Starts(K)[i + 1] = Starts(K)[i] + Total(tree[q]) /\ TotalOf(K) = Starts(K)[i + 1]
    <3>1. i \in 1 .. Len(K)
      BY <1>1, <2>1
    <3> HIDE DEF K, q
    <3> QED BY <2>1, <3>1, StartsAre DEF TotalOf
  <2>3. Begins(tree)[q] = Begins(tree)[p] + Starts(K)[i]
    BY <1>0, BeginsAre DEF ChildStart
  <2>4. Total(tree[p]) = TotalOf(K)
    BY DEF Spans
  <2>5. Begins(tree)[p] \in Nat /\ Starts(K)[i] \in Nat /\ Total(tree[q]) \in Nat
    <3>1. Begins(tree)[p] \in Nat
      BY BeginsAre
    <3>2. Starts(K)[i] \in Nat
      BY <1>0, ChildStartType DEF ChildStart
    <3>3. Total(tree[q]) \in Nat
      BY <1>1, NodeType
    <3> QED BY <3>1, <3>2, <3>3
  <2> HIDE DEF K, q
  <2> QED BY <2>2, <2>3, <2>4, <2>5
<1> HIDE DEF q
<1>4. Turns(q) = Turns(p) /\ Turns(p) \subseteq 1 .. Len(p)
  <2>1. Turns(q) = {k \in 1 .. n : q[k] < tree[SubSeq(q, 1, k - 1)].child_count}
    BY <1>2 DEF Turns
  <2>2. Turns(p) = {k \in 1 .. Len(p) : p[k] < tree[SubSeq(p, 1, k - 1)].child_count}
    BY <1>2 DEF Turns
  <2>3. n \notin Turns(q)
    <3> HIDE DEF n
    <3> DEFINE c == tree[SubSeq(q, 1, n - 1)].child_count
    <3>0. q[n] = i /\ c = i
      BY <1>2
    <3> HIDE DEF c
    <3>1. ~ (q[n] < c)
      BY <1>1, <3>0
    <3> USE DEF c
    <3> QED BY <2>1, <3>1
  <2>4. \A k \in 1 .. Len(p) : k \in Turns(q) <=> k \in Turns(p)
    <3>1. \A k \in 1 .. Len(p) : k \in 1 .. n
      BY <1>2
    <3> QED BY <1>2, <2>1, <2>2, <3>1
  <2>5. \A k \in 1 .. n : k = n \/ k \in 1 .. Len(p)
    BY <1>2
  <2>6. Turns(q) \subseteq 1 .. n /\ Turns(p) \subseteq 1 .. Len(p)
    BY <2>1, <2>2
  <2> QED BY <2>3, <2>4, <2>5, <2>6
<1>5. ASSUME NEW k \in Turns(q), \A j \in Turns(q) : j <= k
      PROVE  /\ SubSeq(q, 1, k - 1) \o <<q[k] + 1>> \in DOMAIN tree
             /\ Begins(tree)[SubSeq(q, 1, k - 1) \o <<q[k] + 1>>] = Begins(tree)[q] + Total(tree[q])
  <2>1. k \in Turns(p) /\ k \in 1 .. Len(p) /\ \A j \in Turns(p) : j <= k
    BY <1>4, <1>5
  <2>2. /\ SubSeq(p, 1, k - 1) \o <<p[k] + 1>> \in DOMAIN tree
        /\ Begins(tree)[SubSeq(p, 1, k - 1) \o <<p[k] + 1>>] = Begins(tree)[p] + Total(tree[p])
    BY <2>1 DEF Onward
  <2> QED BY <1>2, <1>3, <2>1, <2>2
<1>6. Turns(q) = {} => Begins(tree)[q] + Total(tree[q]) = Total(tree[<< >>])
  BY <1>3, <1>4 DEF Onward
<1>7. Onward(q)
  BY <1>5, <1>6 DEF Onward
<1> QED BY <1>7 DEF q

LEMMA OnwardAll ==
  ASSUME WellFormed(tree), Spans(tree)
  PROVE  \A p \in DOMAIN tree : Onward(p)
<1> DEFINE T == {p \in DOMAIN tree : Onward(p)}
<1>1. << >> \in T
  <2>1. << >> \in DOMAIN tree /\ Begins(tree)[<< >>] = 0 /\ Total(tree[<< >>]) \in Nat
    <3>1. << >> \in DOMAIN tree /\ tree[<< >>] \in Node
      BY DEF WellFormed
    <3> QED BY <3>1, BeginsAre, NodeType
  <2>2. Turns(<< >>) = {}
    <3>1. DOMAIN << >> = {}
      OBVIOUS
    <3> QED BY <3>1 DEF Turns
  <2> QED BY <2>1, <2>2 DEF Onward
<1>2. ASSUME NEW p \in T, NEW i \in 1 .. tree[p].child_count PROVE Append(p, i) \in T
  <2>1. Append(p, i) \in DOMAIN tree /\ tree[p].child_count \in Nat
    BY ChildPath, NodeType
  <2>2. CASE i < tree[p].child_count
    BY <2>1, <2>2, OnwardNext
  <2>3. CASE ~ (i < tree[p].child_count)
    <3>1. i = tree[p].child_count /\ tree[p].child_count > 0
      BY <2>1, <2>3
    <3>2. Onward(Append(p, i))
      BY <3>1, OnwardLast
    <3> QED BY <2>1, <3>2
  <2> QED BY <2>2, <2>3
<1>3. T = DOMAIN tree
  <2>1. T \subseteq DOMAIN tree
    OBVIOUS
  <2> HIDE DEF T
  <2> QED BY <1>1, <1>2, <2>1, TreeInduct
<1> QED BY <1>3

(* The reusable node's byte_index is where it stands, or the end.          *)
CursorAt(c) ==
  /\ c \in [done : BOOLEAN, path : Path, byte : Nat]
  /\ c.done => c.byte = Total(tree[<< >>])
  /\ ~ c.done => c.path \in DOMAIN tree /\ c.byte = Begins(tree)[c.path]

LEMMA PopAt ==
  ASSUME WellFormed(tree), Spans(tree), NEW c, CursorAt(c), ~ c.done
  PROVE  CursorAt(Pop(c))
<1> DEFINE p == c.path
           size == Total(tree[p])
<1>1. /\ p \in DOMAIN tree /\ c.byte = Begins(tree)[p] /\ p \in Path /\ c.byte \in Nat /\ size \in Nat
  <2>1. p \in DOMAIN tree /\ c.byte = Begins(tree)[p] /\ c.byte \in Nat
    BY DEF CursorAt
  <2>2. tree[p] \in Node /\ p \in Path
    BY <2>1 DEF WellFormed, IsPaths
  <2> QED BY <2>1, <2>2, NodeType
<1>2. Onward(p)
  BY <1>1, OnwardAll
<1>3. CASE Turns(p) = {}
  <2>1. Pop(c) = [done |-> TRUE, path |-> << >>, byte |-> c.byte + size]
    BY <1>3 DEF Pop, Forward
  <2>2. c.byte + size = Total(tree[<< >>]) /\ c.byte + size \in Nat
    BY <1>1, <1>2, <1>3 DEF Onward
  <2>3. << >> \in Path
    BY DEF WellFormed, IsPaths
  <2> HIDE DEF size
  <2> QED BY <2>1, <2>2, <2>3 DEF CursorAt
<1>4. CASE Turns(p) # {}
  <2> DEFINE k == CHOOSE k \in Turns(p) : \A j \in Turns(p) : j <= k
             q == SubSeq(p, 1, k - 1) \o <<p[k] + 1>>
  <2>1. Pop(c) = [done |-> FALSE, path |-> q, byte |-> c.byte + size]
    BY <1>4 DEF Pop, Forward
  <2>2. k \in Turns(p) /\ \A j \in Turns(p) : j <= k
    BY <1>1, <1>4, LowestTurn
  <2> HIDE DEF k
  <2>3. q \in DOMAIN tree /\ Begins(tree)[q] = c.byte + size
    BY <1>1, <1>2, <2>2 DEF Onward
  <2>4. q \in Path /\ c.byte + size \in Nat
    BY <1>1, <2>3 DEF WellFormed, IsPaths
  <2> HIDE DEF size, q
  <2> QED BY <2>1, <2>3, <2>4 DEF CursorAt
<1> QED BY <1>3, <1>4

-----------------------------------------------------------------------------
(* What a step of the parse puts on the stack.                             *)

(* Breaking the reusable node down stays where it is.                      *)
LEMMA BreakdownAt ==
  ASSUME WellFormed(tree), NEW c, CursorAt(c), ~ c.done, tree[c.path].child_count > 0
  PROVE  CursorAt(Breakdown(c))
<1> DEFINE p == c.path
           q == Append(p, 1)
<1>1. /\ c \in [done : BOOLEAN, path : Path, byte : Nat] /\ p \in DOMAIN tree /\ c.byte = Begins(tree)[p]
      /\ tree[p].child_count \in Nat
  <2>1. c \in [done : BOOLEAN, path : Path, byte : Nat] /\ p \in DOMAIN tree /\ c.byte = Begins(tree)[p]
    BY DEF CursorAt
  <2> QED BY <2>1, NodeType DEF WellFormed
<1>2. 1 \in 1 .. tree[p].child_count
  BY <1>1
<1>3. q \in DOMAIN tree /\ q \in Path /\ Begins(tree)[q] = Begins(tree)[p] + ChildStart(tree, p, 1)
  <2>1. q \in DOMAIN tree
    BY <1>1, <1>2, ChildPath
  <2> QED BY <1>1, <1>2, <2>1, BeginsAre DEF WellFormed, IsPaths
<1>4. ChildStart(tree, p, 1) = 0
  <2>1. Kids(tree, p) \in Seq(Node)
    BY <1>1, KidsAre
  <2> QED BY <2>1, StartsAre DEF ChildStart
<1> HIDE DEF q
<1>5. Breakdown(c) = [c EXCEPT !.path = q]
  BY DEF Breakdown, q
<1>6. /\ [c EXCEPT !.path = q] \in [done : BOOLEAN, path : Path, byte : Nat]
      /\ [c EXCEPT !.path = q].done = c.done /\ [c EXCEPT !.path = q].path = q
      /\ [c EXCEPT !.path = q].byte = c.byte
  BY <1>1, <1>3
<1>7. Begins(tree)[q] = c.byte
  <2>1. c.byte \in Nat
    BY <1>1
  <2> QED BY <1>1, <1>3, <1>4, <2>1
<1> QED BY <1>3, <1>5, <1>6, <1>7 DEF CursorAt

(* So does breaking the lookahead down, and what it is broken down to is   *)
(* not marked either.                                                      *)
LEMMA DescentAt ==
  ASSUME WellFormed(tree), Marks(tree), CursorAt(cursor), ~ cursor.done, ~ tree[cursor.path].has_changes,
         NEW c \in Descents(cursor)
  PROVE  /\ CursorAt(c) /\ ~ c.done /\ c.byte = cursor.byte
         /\ c.path \in DOMAIN tree /\ ~ tree[c.path].has_changes
<1> DEFINE p == cursor.path
<1>1. PICK q \in DOMAIN tree : /\ IsPrefix(p, q) /\ \A k \in Len(p) + 1 .. Len(q) : q[k] = 1
                               /\ c = [cursor EXCEPT !.path = q]
  BY DEF Descents
<1>2. /\ cursor \in [done : BOOLEAN, path : Path, byte : Nat] /\ p \in DOMAIN tree
      /\ cursor.byte = Begins(tree)[p] /\ p \in Path /\ q \in Path
  <2>1. cursor \in [done : BOOLEAN, path : Path, byte : Nat] /\ p \in DOMAIN tree /\ cursor.byte = Begins(tree)[p]
    BY DEF CursorAt
  <2> QED BY <2>1 DEF WellFormed, IsPaths
<1>3. /\ c \in [done : BOOLEAN, path : Path, byte : Nat]
      /\ c.done = cursor.done /\ c.path = q /\ c.byte = cursor.byte
  <2> HIDE DEF p
  <2>1. /\ [cursor EXCEPT !.path = q] \in [done : BOOLEAN, path : Path, byte : Nat]
        /\ [cursor EXCEPT !.path = q].done = cursor.done /\ [cursor EXCEPT !.path = q].path = q
        /\ [cursor EXCEPT !.path = q].byte = cursor.byte
    BY <1>2
  <2>2. c = [cursor EXCEPT !.path = q]
    BY <1>1
  <2> QED BY <2>1, <2>2
<1> DEFINE r == SubSeq(q, Len(p) + 1, Len(q))
           s == Subtree(tree, p)
<1>4. r \in Path /\ q = p \o r
  BY <1>1, <1>2, PathAfter
<1> HIDE DEF r
<1>5. r \in DOMAIN s /\ WellFormed(s)
  <2>1. WellFormed(s)
    BY <1>2, SubtreeWellFormed
  <2>2. DOMAIN s = {x \in Path : p \o x \in DOMAIN tree}
    BY <1>2, SubtreeNodes
  <2>3. p \o r \in DOMAIN tree
    BY <1>4
  <2> HIDE DEF s
  <2> QED BY <1>4, <2>1, <2>2, <2>3
<1>6. ~ tree[q].has_changes
  BY <1>2, <1>4, <1>5, SubtreeUnmarked
<1>7. \A k \in 1 .. Len(r) : r[k] = 1
  <2>1. p \in Seq(Nat \ {0}) /\ r \in Seq(Nat \ {0}) /\ Len(p) \in Nat /\ Len(r) \in Nat
    BY <1>2, <1>4, LenProperties DEF Path
  <2>2. Len(q) = Len(p) + Len(r) /\ \A i \in 1 .. Len(p) + Len(r) : q[i] = IF i <= Len(p) THEN p[i] ELSE r[i - Len(p)]
    BY <1>4, <2>1, ConcatProperties
  <2> SUFFICES ASSUME NEW k \in 1 .. Len(r) PROVE r[k] = 1
    OBVIOUS
  <2> DEFINE i == Len(p) + k
  <2>3. i \in 1 .. Len(p) + Len(r) /\ i \in Len(p) + 1 .. Len(q) /\ ~ (i <= Len(p)) /\ i - Len(p) = k
    BY <2>1, <2>2
  <2> HIDE DEF i
  <2>4. q[i] = r[k]
    BY <2>2, <2>3
  <2>5. q[i] = 1
    BY <1>1, <2>3
  <2> QED BY <2>4, <2>5
<1>8. Begins(tree)[q] = Begins(tree)[p]
  <2>1. Begins(s)[r] = 0
    <3> HIDE DEF s
    <3> QED BY <1>5, <1>7, FirstBegins
  <2>2. Begins(tree)[q] = Begins(tree)[p] + Begins(s)[r]
    BY <1>2, <1>4, <1>5, SubtreeBegins
  <2>3. Begins(tree)[p] \in Nat
    BY <1>2
  <2> QED BY <2>1, <2>2, <2>3
<1>9. CursorAt(c)
  BY <1>1, <1>2, <1>3, <1>8 DEF CursorAt
<1> QED BY <1>3, <1>6, <1>9

(* A node that is taken over, as the tree it is on the stack: it stands    *)
(* where it stands in the old tree, and only the end's leaf is not solid.  *)
LEMMA Reused ==
  ASSUME WellFormed(tree), Spans(tree), Marks(tree), Reusable(tree, text, parsed),
         tree[<< >>].has_changes, Total(tree[<< >>]) = Len(text),
         NEW p \in DOMAIN tree, ~ tree[p].has_changes
  PROVE  /\ Subtree(tree, p) \in Tree /\ GoodTree(Subtree(tree, p), Begins(tree)[p], text, parsed)
         /\ \/ Solid(Subtree(tree, p))
            \/ EndsText(Subtree(tree, p)) /\ Begins(tree)[p] + Total(tree[p]) = Len(text)
<1> DEFINE s == Subtree(tree, p)
<1>1. p # << >> /\ p \in Path
  BY DEF WellFormed, IsPaths
<1>2. /\ s \in Tree /\ WellFormed(s) /\ s[<< >>] = tree[p]
      /\ \A q \in DOMAIN s : q \in Path /\ p \o q \in DOMAIN tree /\ s[q] = tree[p \o q] /\ ~ tree[p \o q].has_changes
      /\ \A q \in DOMAIN s : Begins(tree)[p \o q] = Begins(tree)[p] + Begins(s)[q]
  <2>1. s \in Tree /\ WellFormed(s) /\ s[<< >>] = tree[p]
    BY SubtreeWellFormed
  <2>2. \A q \in DOMAIN s : q \in Path /\ p \o q \in DOMAIN tree /\ s[q] = tree[p \o q]
    BY SubtreeNodes
  <2>3. \A q \in DOMAIN s : ~ tree[p \o q].has_changes
    BY SubtreeUnmarked
  <2>4. \A q \in DOMAIN s : Begins(tree)[p \o q] = Begins(tree)[p] + Begins(s)[q]
    BY SubtreeBegins
  <2> HIDE DEF s
  <2> QED BY <2>1, <2>2, <2>3, <2>4
<1>3. Clean(s)
  <2>1. IsFiniteSet(DOMAIN tree) /\ \A r \in DOMAIN tree : ~ tree[r].has_changes => Covers(tree, r)
    BY DEF Reusable, Kept
  <2> QED BY <2>1, SubtreeClean
<1> HIDE DEF s
<1>4. ASSUME NEW q \in Leaves(s)
      PROVE  /\ Narrow(s[q])
             /\ Trusted /\ s[q].lexedAt # New => IntactIn(s[q], Begins(tree)[p] + Begins(s)[q], text, parsed)
  <2> DEFINE r == p \o q
  <2>1. q \in DOMAIN s /\ s[q] = tree[r] /\ r \in DOMAIN tree /\ ~ tree[r].has_changes
        /\ Begins(tree)[r] = Begins(tree)[p] + Begins(s)[q]
    BY <1>2 DEF Leaves
  <2>2. r \in Leaves(tree)
    BY <1>4, <2>1 DEF Leaves
  <2> HIDE DEF r
  <2>3. LeafKept(tree[r], Begins(tree)[r], text, parsed)
    BY <2>1, <2>2 DEF Reusable, LeavesKept
  <2> QED BY <2>1, <2>3 DEF LeafKept
<1>5. GoodTree(s, Begins(tree)[p], text, parsed)
  BY <1>3, <1>4 DEF GoodTree
<1>6. CASE p # LastPath(tree)
  <2>1. ASSUME NEW q \in DOMAIN s PROVE s[q].size > 0
    <3>1. p \o q # << >>
      BY <1>1, <1>2, PathConcat
    <3>2. p \o q # LastPath(tree)
      <4>1. SUFFICES ASSUME p \o q = LastPath(tree) PROVE FALSE
        OBVIOUS
      <4>2. Len(p) + Len(q) = 1
        <5>1. Len(p \o q) = Len(p) + Len(q) /\ Len(LastPath(tree)) = 1
          BY <1>1, <1>2, PathConcat DEF LastPath
        <5> QED BY <4>1, <5>1
      <4>3. Len(p) \in Nat /\ Len(q) \in Nat /\ Len(p) # 0
        BY <1>1, <1>2, LenProperties, EmptySeq DEF Path
      <4>4. Len(q) = 0
        BY <4>2, <4>3
      <4>5. q = << >>
        BY <1>2, <4>4, EmptySeq DEF Path
      <4>6. p \o q = p
        BY <1>1, <4>5, PathConcat, <1>2
      <4> QED BY <1>6, <4>1, <4>6
    <3>3. p \o q \in DOMAIN tree /\ s[q] = tree[p \o q] /\ ~ tree[p \o q].has_changes
      BY <1>2
    <3> QED BY <3>1, <3>2, <3>3 DEF Reusable, Kept
  <2> QED BY <1>2, <1>5, <2>1 DEF Solid, s
<1>7. CASE p = LastPath(tree)
  <2>1. LastLeaf(tree)
    BY DEF Reusable
  <2>2. Begins(tree)[p] + Total(tree[p]) = Len(text)
    BY <1>7, <2>1, LastEnds
  <2>3. DOMAIN s = {<< >>}
    <3>1. s[<< >>].child_count = 0
      BY <1>2, <1>7, <2>1 DEF LastLeaf
    <3> QED BY <1>2, <3>1, LoneRoot
  <2>4. s[<< >>].size \in Nat
    <3>1. s[<< >>] \in Node
      BY <1>2, <2>3 DEF WellFormed
    <3> QED BY <3>1, NodeType
  <2>5. Solid(s) \/ EndsText(s)
    BY <2>3, <2>4 DEF Solid, EndsText
  <2> QED BY <1>2, <1>5, <2>2, <2>5 DEF s
<1> QED BY <1>6, <1>7

(* A leaf that is lexed anew: only the end's leaf has no size.             *)
LEMMA LexedLeaf ==
  ASSUME text \in Seq(Nat), NEW leaf \in NewLeaves, NEW at \in Nat
  PROVE  /\ leaf \in Tree /\ GoodTree(leaf, at, text, parsed)
         /\ Solid(leaf) \/ (EndsText(leaf) /\ pos + Total(leaf[<< >>]) = Len(text))
<1>1. CASE \E s \in Shapes : leaf = MakeLeaf(s.padding, s.size, s.lookahead, New)
  <2>1. PICK s \in Shapes : leaf = MakeLeaf(s.padding, s.size, s.lookahead, New)
    BY <1>1
  <2>2. New \in Int
    BY DEF New
  <2>3. /\ leaf \in Tree /\ Clean(leaf) /\ Total(leaf[<< >>]) = s.padding + s.size
        /\ leaf[<< >>].size = s.size /\ leaf[<< >>].bytes_scanned = s.padding + s.size + s.lookahead
        /\ DOMAIN leaf = {<< >>} /\ leaf[<< >>].lexedAt = New
    BY <2>1, <2>2, LeafOfShape
  <2>4. s.padding \in Nat /\ s.size \in Nat /\ s.size > 0 /\ s.lookahead \in Lookaheads /\ s.lookahead \in Nat
    <3>1. s.padding \in Paddings /\ s.size \in Sizes /\ s.lookahead \in Lookaheads
      BY DEF Shapes
    <3>2. Paddings \subseteq Nat /\ Sizes \subseteq Nat /\ Lookaheads \subseteq Nat /\ 0 \notin Sizes
      BY TreeEditAssumption, ReparseAssumption
    <3>3. s.padding \in Nat /\ s.size \in Nat /\ s.size # 0 /\ s.lookahead \in Nat
      BY <3>1, <3>2
    <3> QED BY <3>1, <3>3
  <2>5. Narrow(leaf[<< >>])
    <3>1. Lookaheads \subseteq {1} => s.lookahead = 1
      BY <2>4
    <3> QED BY <2>3, <2>4, <3>1 DEF Narrow
  <2>6. Solid(leaf)
    BY <2>3, <2>4 DEF Solid
  <2> QED BY <2>3, <2>5, <2>6 DEF GoodTree, Leaves
<1>2. CASE (\E x \in Paddings : leaf = EndLeaf(x, New)) /\ pos + Total(leaf[<< >>]) = Len(text)
  <2>1. PICK x \in Paddings : leaf = EndLeaf(x, New)
    BY <1>2
  <2>2. New \in Int /\ x \in Nat /\ 0 \in Nat /\ 1 \in Nat /\ leaf = MakeLeaf(x, 0, 1, New)
    BY <2>1, TreeEditAssumption DEF New, EndLeaf
  <2>3. /\ leaf \in Tree /\ Clean(leaf) /\ DOMAIN leaf = {<< >>}
        /\ leaf[<< >>] = [padding |-> x, size |-> 0, bytes_scanned |-> x + 0 + 1,
                          has_changes |-> FALSE, child_count |-> 0, lexedAt |-> New]
    BY <2>2, LeafAre
  <2>4. Narrow(leaf[<< >>])
    BY <2>2, <2>3 DEF Narrow, Total
  <2>5. EndsText(leaf) /\ leaf[<< >>].lexedAt = New
    BY <2>3 DEF EndsText
  <2> QED BY <1>2, <2>3, <2>4, <2>5 DEF GoodTree, Leaves
<1> QED BY <1>1, <1>2 DEF NewLeaves

-----------------------------------------------------------------------------
(* The tree a parse leaves: parser__accept.                                *)

(* Numbering the leaves anew changes nothing else.                         *)
LEMMA RenumberedIs ==
  ASSUME NEW t, WellFormed(t)
  PROVE  /\ DOMAIN Renumbered(t) = DOMAIN t /\ WellFormed(Renumbered(t))
         /\ \A p \in DOMAIN t :
              /\ Renumbered(t)[p] \in Node /\ Renumbered(t)[p].child_count = t[p].child_count
              /\ Renumbered(t)[p].size = t[p].size /\ Renumbered(t)[p].bytes_scanned = t[p].bytes_scanned
              /\ Renumbered(t)[p].has_changes = t[p].has_changes /\ Total(Renumbered(t)[p]) = Total(t[p])
              /\ t[p].child_count = 0 => Renumbered(t)[p].lexedAt = Begins(t)[p]
<1> DEFINE at(p) == IF t[p].child_count = 0 THEN Begins(t)[p] ELSE 0
           new == [p \in DOMAIN t |-> [t[p] EXCEPT !.lexedAt = at(p)]]
<1>1. Renumbered(t) = new
  BY DEF Renumbered
<1>2. ASSUME NEW p \in DOMAIN t
      PROVE  /\ new[p] \in Node /\ new[p].child_count = t[p].child_count
             /\ new[p].size = t[p].size /\ new[p].bytes_scanned = t[p].bytes_scanned
             /\ new[p].has_changes = t[p].has_changes /\ Total(new[p]) = Total(t[p])
             /\ t[p].child_count = 0 => new[p].lexedAt = Begins(t)[p]
  <2>1. t[p] \in Node /\ at(p) \in Int
    <3>1. t[p] \in Node /\ Begins(t)[p] \in Nat
      BY BeginsAre DEF WellFormed
    <3> QED BY <3>1
  <2> DEFINE a == at(p)
             m == [t[p] EXCEPT !.lexedAt = a]
  <2>2. a \in Int /\ new[p] = m
    BY <2>1
  <2>3. t[p].child_count = 0 => a = Begins(t)[p]
    OBVIOUS
  <2> HIDE DEF new, a
  <2>4. /\ m \in Node /\ m.child_count = t[p].child_count /\ m.size = t[p].size /\ m.padding = t[p].padding
        /\ m.bytes_scanned = t[p].bytes_scanned /\ m.has_changes = t[p].has_changes /\ m.lexedAt = a
    BY <2>1, <2>2 DEF Node
  <2> HIDE DEF m
  <2>5. Total(m) = Total(t[p])
    BY <2>4 DEF Total
  <2> QED BY <2>2, <2>3, <2>4, <2>5
<1>3. DOMAIN new = DOMAIN t /\ new = [p \in DOMAIN new |-> new[p]]
  OBVIOUS
<1> HIDE DEF new
<1>4. WellFormed(new)
  <2>1. new \in [DOMAIN new -> Node]
    BY <1>2, <1>3
  <2>2. ASSUME NEW p \in DOMAIN new, p # << >> PROVE Last(p) \in 1 .. new[Front(p)].child_count
    BY <1>2, <1>3, <2>2, ParentPath
  <2>3. ASSUME NEW p \in DOMAIN new, NEW i \in 1 .. new[p].child_count PROVE Append(p, i) \in DOMAIN new
    <3>1. p \in DOMAIN t /\ i \in 1 .. t[p].child_count
      BY <1>2, <1>3
    <3> QED BY <1>3, <3>1, ChildPath
  <2>4. IsPaths(DOMAIN new) /\ << >> \in DOMAIN new
    BY <1>3 DEF WellFormed
  <2> QED BY <2>1, <2>2, <2>3, <2>4 DEF WellFormed
<1> QED BY <1>1, <1>2, <1>3, <1>4

LEMMA RenumberedPlaces ==
  ASSUME NEW t, WellFormed(t), NEW new, new = Renumbered(t)
  PROVE  /\ \A p \in DOMAIN t : /\ Begins(new)[p] = Begins(t)[p] /\ TotalOf(Kids(new, p)) = TotalOf(Kids(t, p))
                                /\ \A i \in 1 .. t[p].child_count : ChildStart(new, p, i) = ChildStart(t, p, i)
<1>1. /\ DOMAIN new = DOMAIN t /\ WellFormed(new)
      /\ \A p \in DOMAIN t : new[p].child_count = t[p].child_count /\ Total(new[p]) = Total(t[p])
  BY RenumberedIs
<1>2. ASSUME NEW p \in DOMAIN t
      PROVE  /\ TotalOf(Kids(new, p)) = TotalOf(Kids(t, p))
             /\ \A i \in 1 .. t[p].child_count : ChildStart(new, p, i) = ChildStart(t, p, i)
  <2> DEFINE a == Kids(new, p)
             b == Kids(t, p)
             n == t[p].child_count
  <2>1. /\ a \in Seq(Node) /\ Len(a) = n /\ n \in Nat
        /\ \A i \in 1 .. n : a[i] = new[Append(p, i)]
    BY <1>1, KidsAre
  <2>2. /\ b \in Seq(Node) /\ Len(b) = n
        /\ \A i \in 1 .. n : b[i] = t[Append(p, i)]
    BY KidsAre
  <2>3. \A i \in 1 .. n : Append(p, i) \in DOMAIN t
    BY ChildPath
  <2> HIDE DEF a, b, n
  <2>4. \A i \in 1 .. n : Total(a[i]) = Total(b[i])
    BY <1>1, <2>1, <2>2, <2>3
  <2>5. \A i \in 1 .. n + 1 : Starts(a)[i] = Starts(b)[i]
    BY <2>1, <2>2, <2>4, StartsSame
  <2>6. \A i \in 1 .. n : i \in 1 .. n + 1
    BY <2>1
  <2>7. n + 1 \in 1 .. n + 1
    BY <2>1
  <2> QED BY <2>1, <2>2, <2>5, <2>6, <2>7 DEF TotalOf, ChildStart, a, b, n
<1>3. \A p \in DOMAIN new : Begins(t)[p] = Begins(new)[p]
  <2> DEFINE f == Begins(t)
  <2>1. f[<< >>] = 0
    BY BeginsAre
  <2>2. \A p \in DOMAIN new : \A i \in 1 .. new[p].child_count :
          f[Append(p, i)] = f[p] + ChildStart(new, p, i)
    BY <1>1, <1>2, BeginsAre
  <2> HIDE DEF f
  <2>3. \A p \in DOMAIN new : f[p] = Begins(new)[p]
    BY <1>1, <2>1, <2>2, BeginsOnly
  <2> QED BY <2>3 DEF f
<1> QED BY <1>1, <1>2, <1>3

LEMMA RenumberedWhole ==
  ASSUME NEW t, Whole(t), NEW new, new = Renumbered(t)
  PROVE  Whole(new) /\ LexedFrom(new, 0) /\ Total(new[<< >>]) = Total(t[<< >>])
<1>1. WellFormed(t) /\ Clean(t) /\ << >> \in DOMAIN t
  BY DEF Whole, Clean, WellFormed
<1>2. /\ DOMAIN new = DOMAIN t /\ WellFormed(new)
      /\ \A p \in DOMAIN t :
           /\ new[p] \in Node /\ new[p].child_count = t[p].child_count
           /\ new[p].size = t[p].size /\ new[p].bytes_scanned = t[p].bytes_scanned
           /\ new[p].has_changes = t[p].has_changes /\ Total(new[p]) = Total(t[p])
           /\ t[p].child_count = 0 => new[p].lexedAt = Begins(t)[p]
  BY <1>1, RenumberedIs
<1>3. /\ \A p \in DOMAIN t : /\ Begins(new)[p] = Begins(t)[p] /\ TotalOf(Kids(new, p)) = TotalOf(Kids(t, p))
                             /\ \A i \in 1 .. t[p].child_count : ChildStart(new, p, i) = ChildStart(t, p, i)
  BY <1>1, RenumberedPlaces
<1>4. Spans(new)
  BY <1>1, <1>2, <1>3 DEF Clean, Spans
<1>5. ASSUME NEW p \in DOMAIN new PROVE Covers(new, p)
  <2>1. \A i \in 1 .. t[p].child_count : Append(p, i) \in DOMAIN t
    BY <1>1, <1>2, ChildPath
  <2>2. Covers(t, p)
    BY <1>1, <1>2 DEF Clean
  <2> QED BY <1>2, <1>3, <2>1, <2>2 DEF Covers
<1>6. Clean(new)
  BY <1>1, <1>2, <1>4, <1>5 DEF Clean
<1>7. LastPath(new) = LastPath(t) /\ LastPath(t) \in DOMAIN t
  <2>1. LastPath(t) \in DOMAIN t
    BY <1>1, LastEnds DEF Whole, Clean
  <2> QED BY <1>1, <1>2, <2>1 DEF LastPath
<1>8. LastLeaf(new)
  BY <1>1, <1>2, <1>7 DEF Whole, LastLeaf
<1>9. ASSUME NEW p \in Leaves(new) PROVE Narrow(new[p])
  <2>1. p \in Leaves(t) /\ p \in DOMAIN t
    BY <1>2 DEF Leaves
  <2>2. Narrow(t[p])
    BY <2>1 DEF Whole
  <2> QED BY <1>2, <2>1, <2>2 DEF Narrow
<1>10. \A p \in DOMAIN new : p # << >> /\ p # LastPath(new) => new[p].size > 0
  BY <1>2, <1>7 DEF Whole
<1>11. LexedFrom(new, 0)
  <2>1. \A p \in DOMAIN t : Begins(t)[p] \in Nat
    BY <1>1, BeginsAre
  <2> QED BY <1>2, <1>3, <2>1 DEF LexedFrom
<1>12. Whole(new)
  BY <1>6, <1>8, <1>9, <1>10 DEF Whole
<1> QED BY <1>1, <1>2, <1>11, <1>12

(* The first tree: leaves and nodes side by side, and the end's leaf.      *)
LEMMA LeafNarrow ==
  ASSUME NEW node, IsLeaf(node)
  PROVE  Narrow(node)
<1>1. PICK s \in Shapes : /\ node.padding = s.padding /\ node.size = s.size
                          /\ node.bytes_scanned = s.padding + s.size + s.lookahead
  BY DEF IsLeaf
<1>2. s.padding \in Paddings /\ s.size \in Sizes /\ s.lookahead \in Lookaheads
  BY DEF Shapes
<1>3. Paddings \subseteq Nat /\ Sizes \subseteq Nat /\ Lookaheads \subseteq Nat /\ 0 \notin Sizes
  BY TreeEditAssumption, ReparseAssumption
<1>4. s.padding \in Nat /\ s.size \in Nat /\ s.size # 0 /\ s.lookahead \in Nat
  BY <1>2, <1>3
<1>5. Lookaheads \subseteq {1} => s.lookahead = 1
  BY <1>2
<1> QED BY <1>1, <1>4, <1>5 DEF Narrow, Total

LEMMA FirstRow ==
  ASSUME NEW row \in Rows, NEW x \in Paddings,
         NEW kids, kids = row \o <<EndLeaf(x, TotalOf(Roots(row)))>>
  PROVE  Closed(kids) /\ LexedFrom(MakeNode(kids), 0)
<1> DEFINE end == TotalOf(Roots(row))
           leaf == EndLeaf(x, end)
           l == Len(row)
<1>1. row \in Row /\ row \in Seq(Tree) /\ l \in Nat /\ end \in Nat /\ x \in Nat
  <2>1. row \in Row /\ row \in Seq(Tree)
    BY RowsAre DEF Row
  <2>2. x \in Nat
    BY TreeEditAssumption
  <2> QED BY <2>1, <2>2, RowStarts
<1>2. /\ leaf \in Tree /\ Clean(leaf) /\ LexedFrom(leaf, end) /\ DOMAIN leaf = {<< >>}
      /\ leaf[<< >>] = [padding |-> x, size |-> 0, bytes_scanned |-> x + 0 + 1,
                        has_changes |-> FALSE, child_count |-> 0, lexedAt |-> end]
  <2>1. leaf = MakeLeaf(x, 0, 1, end) /\ 0 \in Nat /\ 1 \in Nat /\ end \in Int
    BY <1>1 DEF EndLeaf
  <2> HIDE DEF leaf, end
  <2> QED BY <1>1, <2>1, LeafAre
<1>3. EndsText(leaf) /\ \A p \in Leaves(leaf) : Narrow(leaf[p])
  <2>1. Narrow(leaf[<< >>])
    BY <1>1, <1>2 DEF Narrow, Total
  <2>2. leaf[<< >>].size = 0
    BY <1>2
  <2> HIDE DEF leaf
  <2>3. \A p \in Leaves(leaf) : p = << >>
    BY <1>2 DEF Leaves
  <2> QED BY <1>2, <2>1, <2>2, <2>3 DEF EndsText
<1> HIDE DEF leaf, end, l
<1>4. kids = Append(row, leaf)
  <2>1. kids = row \o <<leaf>>
    BY DEF leaf, end
  <2>2. Append(row, leaf) = row \o <<leaf>>
    BY <1>1, <1>2, AppendIsConcat
  <2> QED BY <2>1, <2>2
<1>5. IsPushed(kids, row, leaf)
  BY <1>1, <1>2, <1>4, Appended
<1>6. /\ kids \in Seq(Tree) /\ Len(kids) = l + 1 /\ kids[l + 1] = leaf /\ \A i \in 1 .. l : kids[i] = row[i]
      /\ \A i \in 1 .. l + 1 : Starts(Roots(kids))[i] = Starts(Roots(row))[i]
  BY <1>5 DEF IsPushed, l
<1>7. Starts(Roots(row))[l + 1] = end
  BY <1>1, RowStarts DEF end, l
<1>8. ASSUME NEW i \in 1 .. l + 1
      PROVE  /\ Clean(kids[i]) /\ \A p \in Leaves(kids[i]) : Narrow(kids[i][p])
             /\ i < l + 1 => Solid(kids[i])
             /\ LexedFrom(kids[i], Starts(Roots(kids))[i])
  <2>1. CASE i = l + 1
    BY <1>2, <1>3, <1>6, <1>7, <2>1
  <2>2. CASE i # l + 1
    <3>1. i \in 1 .. l
      BY <1>1, <2>2
    <3>2. InRow(row[i], Starts(Roots(row))[i])
      BY <1>1, <3>1 DEF Row, l
    <3>3. kids[i] = row[i] /\ Starts(Roots(kids))[i] = Starts(Roots(row))[i]
      BY <1>6, <3>1
    <3>4. Clean(kids[i]) /\ LexedFrom(kids[i], Starts(Roots(kids))[i]) /\ Solid(kids[i])
      BY <3>2, <3>3, ReparseAssumption DEF InRow
    <3>5. \A p \in Leaves(kids[i]) : Narrow(kids[i][p])
      BY <3>2, <3>3, LeafNarrow DEF InRow
    <3> QED BY <3>4, <3>5
  <2> QED BY <2>1, <2>2
<1>9. Len(kids) > 0
  BY <1>1, <1>6
<1>10. Closed(kids)
  BY <1>3, <1>6, <1>8, <1>9 DEF Closed
<1>11. LexedFrom(MakeNode(kids), 0)
  <2>1. ASSUME NEW i \in 1 .. Len(kids) PROVE LexedFrom(kids[i], 0 + Starts(Roots(kids))[i])
    <3>1. i \in 1 .. l + 1
      BY <1>6
    <3>2. Starts(Roots(kids))[i] \in Nat
      <4>1. i \in 1 .. Len(kids) + 1
        BY <1>1, <1>6
      <4> QED BY <1>6, <4>1, RowStarts
    <3>3. 0 + Starts(Roots(kids))[i] = Starts(Roots(kids))[i]
      BY <3>2
    <3> QED BY <1>8, <3>1, <3>3
  <2>2. 0 \in Int
    OBVIOUS
  <2> QED BY <1>6, <1>9, <2>1, <2>2, MakeNodeLexed
<1> QED BY <1>10, <1>11

-----------------------------------------------------------------------------
(* The inductive invariant of Reparse.  Between parses the tree is         *)
(* Reusable.  In a parse the root is marked, so that no more than a part   *)
(* of the tree is taken over; the reusable node is where its byte_index    *)
(* says; the trees on the stack end at the position, all of them good;     *)
(* and the end's leaf, which has no size, is there once the parse is over. *)
ParseInv ==
  /\ tree[<< >>].has_changes /\ CursorAt(cursor)
  /\ pos = TotalOf(Roots(made))
  /\ Stacked(made, text, parsed) \/ Shut(made, text, parsed)

ReparseInv ==
  /\ TreeInv /\ Reusable(tree, text, parsed)
  /\ phase \in {"edit", "parse"}
  /\ phase = "edit" => made = << >>
  /\ phase = "parse" => ParseInv

(* The stack is Shut exactly when the version is halted.                   *)
LEMMA RunningStacked ==
  ASSUME Stacked(made, text, parsed) \/ Shut(made, text, parsed)
  PROVE  /\ ~ Finished => Stacked(made, text, parsed)
         /\ Finished => Shut(made, text, parsed)
<1>1. ASSUME Shut(made, text, parsed) PROVE Finished
  <2>1. made \in Seq(Tree) /\ Len(made) > 0 /\ EndsText(made[Len(made)])
    BY <1>1 DEF Shut
  <2>2. made # << >> /\ Last(made) = made[Len(made)]
    BY <2>1, EmptySeq DEF Last
  <2> QED BY <2>1, <2>2 DEF Finished, EndsText
<1>2. ASSUME Stacked(made, text, parsed), Finished PROVE FALSE
  <2>1. made \in Seq(Tree) /\ made # << >> /\ Last(made)[<< >>].size = 0
    BY <1>2 DEF Stacked, Finished
  <2>2. Len(made) \in 1 .. Len(made) /\ Last(made) = made[Len(made)]
    BY <2>1, LenProperties, EmptySeq DEF Last
  <2>3. Solid(made[Len(made)]) /\ made[Len(made)] \in Tree
    BY <1>2, <2>1, <2>2 DEF Stacked
  <2>4. << >> \in DOMAIN made[Len(made)]
    BY <2>3, RootIs
  <2>5. made[Len(made)][<< >>].size > 0
    BY <2>3, <2>4 DEF Solid
  <2> QED BY <2>1, <2>2, <2>5
<1> QED BY <1>1, <1>2

(* Before the first parse puts anything on the stack.                      *)
LEMMA NothingStacked ==
  ASSUME NEW txt, NEW n
  PROVE  Stacked(<< >>, txt, n) /\ TotalOf(Roots(<< >>)) = 0
<1>1. << >> \in Seq(Tree) /\ Len(<< >>) = 0
  OBVIOUS
<1>2. Stacked(<< >>, txt, n)
  BY <1>1 DEF Stacked
<1>3. TotalOf(Roots(<< >>)) = 0
  <2>1. TotalOf(Roots(<< >>)) = Starts(Roots(<< >>))[Len(<< >>) + 1] /\ Starts(Roots(<< >>))[1] = 0
    BY <1>1, RowStarts
  <2>2. Len(<< >>) + 1 = 1
    BY <1>1
  <2> QED BY <2>1, <2>2
<1> QED BY <1>2, <1>3

LEMMA ReparseInvInit == ReparseInit => ReparseInv
<1> SUFFICES ASSUME ReparseInit PROVE ReparseInv
  OBVIOUS
<1>1. PICK row \in Rows : \E padding \in Paddings :
        tree = MakeNode(row \o <<EndLeaf(padding, TotalOf(Roots(row)))>>)
  BY DEF ReparseInit
<1>2. PICK padding \in Paddings : tree = MakeNode(row \o <<EndLeaf(padding, TotalOf(Roots(row)))>>)
  BY <1>1
<1> DEFINE kids == row \o <<EndLeaf(padding, TotalOf(Roots(row)))>>
           n == Total(tree[<< >>])
<1>3. Closed(kids) /\ LexedFrom(MakeNode(kids), 0) /\ tree = MakeNode(kids)
  BY <1>2, FirstRow
<1> HIDE DEF kids
<1>4. Whole(tree) /\ LexedFrom(tree, 0) /\ Clean(tree) /\ tree \in Tree
  BY <1>3, ClosedWhole DEF Whole
<1>5. WellFormed(tree) /\ Spans(tree) /\ n \in Nat
  <2>1. WellFormed(tree) /\ Spans(tree) /\ tree[<< >>] \in Node
    BY <1>4, RootIs DEF Clean
  <2> QED BY <2>1, NodeType
<1>6. /\ n < Word /\ text = [i \in 1 .. n |-> i] /\ parsed = n /\ edits = 0
      /\ phase = "edit" /\ made = << >>
  BY DEF ReparseInit
<1>7. text \in Seq(Nat) /\ Len(text) = n
  BY <1>5, <1>6, Numbers
<1>8. Marks(tree)
  BY <1>4, CleanMarks
<1>9. SizesAgree
  BY <1>5, <1>6, <1>7 DEF SizesAgree
<1>10. AsParsed
  BY <1>4, <1>6 DEF AsParsed
<1>11. Reusable(tree, text, parsed)
  <2>1. Reusable(tree, Original(n), n)
    BY <1>4, WholeReusable
  <2>2. text = Original(n)
    BY <1>6 DEF Original
  <2> QED BY <1>6, <2>1, <2>2
<1> QED BY <1>6, <1>8, <1>9, <1>10, <1>11 DEF ReparseInv, TreeInv

(* An edit between two parses.                                             *)
LEMMA EditTextKeeps ==
  ASSUME ReparseInv, NEW S \in Nat, NEW R \in Nat, NEW A \in Nat, EditText(S, R, A)
  PROVE  ReparseInv'
<1>1. /\ TreeInv /\ SizesAgree /\ Marks(tree) /\ AsParsed /\ Reusable(tree, text, parsed)
      /\ phase = "edit" /\ made = << >> /\ Edit(S, R, A) /\ phase' = phase /\ made' = made
  BY DEF ReparseInv, TreeInv, EditText, parseVars
<1>2. SizesAgree' /\ Marks(tree') /\ edits' # 0
  BY <1>1, EditKeeps
<1>3. /\ S + R <= Total(tree[<< >>]) /\ Total(tree[<< >>]) < Word /\ Len(text) = Total(tree[<< >>])
      /\ text' = Replace(text, S, R, A) /\ tree' = Edited(tree, EditCall(S, R, A)) /\ parsed' = parsed
  BY <1>1, EditIs
<1>4. TreeInv'
  BY <1>2 DEF TreeInv, AsParsed
<1> DEFINE fresh == edits = 0
           new == Edited(tree, EditCall(S, R, A))
<1>5. WellFormed(tree) /\ Spans(tree) /\ text \in Seq(Nat) /\ parsed \in Nat /\ edits \in Nat
  BY <1>1 DEF SizesAgree
<1>6. fresh \in BOOLEAN /\ (fresh => Clean(tree)) /\ (Trusted => Lookaheads \subseteq {1} \/ fresh)
  <2>1. edits < MaxEdits /\ MaxEdits \in Nat
    BY <1>1, TreeEditAssumption DEF Edit
  <2>2. MaxEdits <= 1 => edits = 0
    BY <1>5, <2>1
  <2>3. fresh => Clean(tree)
    BY <1>1 DEF AsParsed
  <2> QED BY <2>2, <2>3 DEF Trusted
<1>7. Reusable(new, Replace(text, S, R, A), parsed)
  <2> HIDE DEF fresh
  <2> QED BY <1>1, <1>3, <1>5, <1>6, EditedReusable
<1>8. Reusable(tree', text', parsed')
  <2>1. tree' = new /\ text' = Replace(text, S, R, A) /\ parsed' = parsed
    BY <1>3
  <2> HIDE DEF new
  <2> QED BY <1>7, <2>1
<1> QED BY <1>1, <1>4, <1>8 DEF ReparseInv

(* A parse begins.                                                         *)
LEMMA StartKeeps ==
  ASSUME ReparseInv, Start
  PROVE  ReparseInv'
<1>1. /\ TreeInv /\ Reusable(tree, text, parsed) /\ WellFormed(tree)
  BY DEF ReparseInv, TreeInv, SizesAgree
<1>2. /\ tree[<< >>].has_changes /\ phase' = "parse" /\ cursor' = NewCursor /\ pos' = 0 /\ made' = << >>
      /\ text' = text /\ parsed' = parsed /\ tree' = tree /\ edits' = edits
  BY DEF Start, vars
<1>3. TreeInv' /\ Reusable(tree', text', parsed')
  BY <1>1, <1>2 DEF TreeInv, SizesAgree, AsParsed
<1>4. CursorAt(NewCursor)
  <2>1. << >> \in DOMAIN tree /\ << >> \in Path /\ Begins(tree)[<< >>] = 0
    BY <1>1, BeginsAre DEF WellFormed, IsPaths
  <2> QED BY <2>1 DEF CursorAt, NewCursor
<1>5. CursorAt(cursor)'
  BY <1>2, <1>4 DEF CursorAt
<1>6. Stacked(made', text', parsed') /\ TotalOf(Roots(made')) = 0
  BY <1>2, NothingStacked
<1>7. ParseInv'
  BY <1>2, <1>5, <1>6 DEF ParseInv
<1> QED BY <1>2, <1>3, <1>7 DEF ReparseInv

(* What holds while the parser runs, and what a step of it has to leave.   *)
LEMMA InParse ==
  ASSUME ReparseInv, Running
  PROVE  /\ WellFormed(tree) /\ Spans(tree) /\ Marks(tree) /\ Reusable(tree, text, parsed)
         /\ tree[<< >>].has_changes /\ Total(tree[<< >>]) = Len(text) /\ text \in Seq(Nat)
         /\ CursorAt(cursor) /\ pos = TotalOf(Roots(made)) /\ pos \in Nat
         /\ Stacked(made, text, parsed) /\ made \in Seq(Tree)
         /\ phase = "parse"
<1>1. phase = "parse" /\ ~ Finished /\ TreeInv /\ Reusable(tree, text, parsed) /\ ParseInv
  BY DEF Running, ReparseInv
<1>2. Stacked(made, text, parsed)
  BY <1>1, RunningStacked DEF ParseInv
<1>3. made \in Seq(Tree)
  BY <1>2 DEF Stacked
<1>4. TotalOf(Roots(made)) \in Nat
  BY <1>3, RowStarts
<1> QED BY <1>1, <1>2, <1>3, <1>4 DEF ParseInv, TreeInv, SizesAgree

LEMMA ParseStepKeeps ==
  ASSUME ReparseInv, phase = "parse", UNCHANGED <<vars, phase>>, CursorAt(cursor'),
         pos' = TotalOf(Roots(made')), Stacked(made', text, parsed) \/ Shut(made', text, parsed)
  PROVE  ReparseInv'
<1>1. /\ TreeInv /\ Reusable(tree, text, parsed) /\ tree[<< >>].has_changes
      /\ text' = text /\ parsed' = parsed /\ tree' = tree /\ edits' = edits /\ phase' = "parse"
  BY DEF ReparseInv, ParseInv, vars
<1>2. TreeInv' /\ Reusable(tree', text', parsed')
  BY <1>1 DEF TreeInv, SizesAgree, AsParsed
<1>3. CursorAt(cursor)'
  BY <1>1 DEF CursorAt
<1>4. Stacked(made', text', parsed') \/ Shut(made', text', parsed')
  BY <1>1
<1>5. ParseInv'
  BY <1>1, <1>3, <1>4 DEF ParseInv
<1> QED BY <1>1, <1>2, <1>5 DEF ReparseInv

LEMMA SkipPastKeeps ==
  ASSUME ReparseInv, SkipPast
  PROVE  ReparseInv'
<1>1. /\ Running /\ ~ cursor.done /\ cursor' = Pop(cursor) /\ UNCHANGED <<vars, phase>>
      /\ pos' = pos /\ made' = made
  BY DEF SkipPast
<1>2. CursorAt(Pop(cursor))
  BY <1>1, InParse, PopAt
<1> QED BY <1>1, <1>2, InParse, ParseStepKeeps

LEMMA SkipChangedKeeps ==
  ASSUME ReparseInv, SkipChanged
  PROVE  ReparseInv'
<1>1. /\ Running /\ ~ cursor.done /\ UNCHANGED <<vars, phase>> /\ pos' = pos
  BY DEF SkipChanged, Standing
<1>2. CASE tree[cursor.path].child_count > 0
  <2>1. cursor' = Breakdown(cursor) /\ made' = made
    BY <1>2 DEF SkipChanged
  <2>2. CursorAt(Breakdown(cursor))
    BY <1>1, <1>2, InParse, BreakdownAt
  <2> QED BY <1>1, <2>1, <2>2, InParse, ParseStepKeeps
<1>3. CASE ~ (tree[cursor.path].child_count > 0)
  <2>1. cursor' = Pop(cursor) /\ made' = BreakdownTop(made)
    BY <1>3 DEF SkipChanged
  <2>2. CursorAt(Pop(cursor))
    BY <1>1, InParse, PopAt
  <2>3. Stacked(BreakdownTop(made), text, parsed) /\ TotalOf(Roots(BreakdownTop(made))) = pos
    <3>1. Stacked(made, text, parsed) /\ pos = TotalOf(Roots(made))
      BY <1>1, InParse
    <3> QED BY <3>1, TopStacked
  <2> QED BY <1>1, <2>1, <2>2, <2>3, InParse, ParseStepKeeps
<1> QED BY <1>2, <1>3

LEMMA RefuseKeeps ==
  ASSUME ReparseInv, Refuse
  PROVE  ReparseInv'
<1>1. /\ Running /\ ~ cursor.done /\ ~ tree[cursor.path].has_changes
      /\ UNCHANGED <<vars, phase>> /\ pos' = pos /\ made' = made
  BY DEF Refuse, Offered, Standing
<1>2. PICK c \in Descents(cursor) : cursor' = Pop(c)
  BY DEF Refuse
<1>3. CursorAt(c) /\ ~ c.done
  BY <1>1, InParse, DescentAt
<1>4. CursorAt(Pop(c))
  BY <1>1, <1>3, InParse, PopAt
<1> QED BY <1>1, <1>2, <1>4, InParse, ParseStepKeeps

(* A tree put on the stack, be it solid or the end's leaf.                 *)
IsOn(new, row, x, txt, n) ==
  /\ Stacked(new, txt, n) \/ Shut(new, txt, n)
  /\ TotalOf(Roots(new)) = TotalOf(Roots(row)) + Total(x[<< >>])

LEMMA PutOn ==
  ASSUME NEW row, NEW txt, NEW n, Stacked(row, txt, n), NEW x \in Tree,
         GoodTree(x, TotalOf(Roots(row)), txt, n),
         Solid(x) \/ (EndsText(x) /\ TotalOf(Roots(row)) + Total(x[<< >>]) = Len(txt)),
         NEW new, new = Append(row, x)
  PROVE  IsOn(new, row, x, txt, n)
<1>1. TotalOf(Roots(new)) = TotalOf(Roots(row)) + Total(x[<< >>])
  <2>1. row \in Seq(Tree)
    BY DEF Stacked
  <2>2. IsPushed(Append(row, x), row, x)
    BY <2>1, Appended
  <2> QED BY <2>2 DEF IsPushed
<1>2. CASE Solid(x)
  <2>1. Stacked(new, txt, n)
    BY <1>2, PushSolid
  <2> QED BY <1>1, <2>1 DEF IsOn
<1>3. CASE EndsText(x) /\ TotalOf(Roots(row)) + Total(x[<< >>]) = Len(txt)
  <2>1. Shut(new, txt, n)
    BY <1>3, PushEnd
  <2> QED BY <1>1, <2>1 DEF IsOn
<1> QED BY <1>2, <1>3

LEMMA ReuseKeeps ==
  ASSUME ReparseInv, Reuse
  PROVE  ReparseInv'
<1>1. /\ Running /\ ~ cursor.done /\ cursor.byte = pos /\ ~ tree[cursor.path].has_changes
      /\ UNCHANGED <<vars, phase>>
  BY DEF Reuse, Offered, Standing
<1>2. PICK c \in Descents(cursor) : /\ cursor' = Pop(c) /\ made' = Append(made, Subtree(tree, c.path))
                                    /\ pos' = pos + Total(tree[c.path])
  BY DEF Reuse
<1>3. CursorAt(c) /\ ~ c.done /\ c.byte = cursor.byte /\ c.path \in DOMAIN tree /\ ~ tree[c.path].has_changes
  BY <1>1, InParse, DescentAt
<1>4. CursorAt(Pop(c))
  BY <1>1, <1>3, InParse, PopAt
<1> DEFINE p == c.path
           x == Subtree(tree, p)
<1>5. Begins(tree)[p] = TotalOf(Roots(made))
  <2>1. c.byte = Begins(tree)[p]
    BY <1>3 DEF CursorAt
  <2> QED BY <1>1, <1>3, <2>1, InParse
<1>6. /\ x \in Tree /\ GoodTree(x, TotalOf(Roots(made)), text, parsed)
      /\ Solid(x) \/ (EndsText(x) /\ TotalOf(Roots(made)) + Total(tree[p]) = Len(text))
  <2>1. /\ x \in Tree /\ GoodTree(x, Begins(tree)[p], text, parsed)
        /\ Solid(x) \/ (EndsText(x) /\ Begins(tree)[p] + Total(tree[p]) = Len(text))
    BY <1>1, <1>3, InParse, Reused
  <2> HIDE DEF x, p
  <2>2. Begins(tree)[p] = TotalOf(Roots(made))
    BY <1>5
  <2> QED BY <2>1, <2>2, Zenon
<1>7. x[<< >>] = tree[p]
  BY <1>1, <1>3, InParse, SubtreeWellFormed
<1> HIDE DEF x, p
<1> DEFINE new == Append(made, x)
<1>8. IsOn(new, made, x, text, parsed)
  <2>1. Stacked(made, text, parsed)
    BY <1>1, InParse
  <2>2. Solid(x) \/ (EndsText(x) /\ TotalOf(Roots(made)) + Total(x[<< >>]) = Len(text))
    BY <1>6, <1>7
  <2>3. x \in Tree /\ GoodTree(x, TotalOf(Roots(made)), text, parsed) /\ new = Append(made, x)
    BY <1>6
  <2> HIDE DEF new
  <2> QED BY <2>1, <2>2, <2>3, PutOn, Zenon
<1>9. made' = new /\ pos' = pos + Total(tree[p])
  BY <1>2 DEF x, p
<1> HIDE DEF new
<1>10. pos' = TotalOf(Roots(made'))
  <2>1. pos = TotalOf(Roots(made))
    BY <1>1, InParse
  <2>2. TotalOf(Roots(new)) = TotalOf(Roots(made)) + Total(x[<< >>])
    BY <1>8 DEF IsOn
  <2> QED BY <1>7, <1>9, <2>1, <2>2
<1>11. Stacked(made', text, parsed) \/ Shut(made', text, parsed)
  BY <1>8, <1>9 DEF IsOn
<1> QED BY <1>1, <1>2, <1>4, <1>10, <1>11, InParse, ParseStepKeeps

LEMMA LexKeeps ==
  ASSUME ReparseInv, Lex
  PROVE  ReparseInv'
<1>1. Running /\ UNCHANGED <<vars, phase>> /\ cursor' = cursor
  BY DEF Lex
<1>2. PICK leaf \in NewLeaves : made' = Append(made, leaf) /\ pos' = pos + Total(leaf[<< >>])
  BY DEF Lex
<1>3. pos = TotalOf(Roots(made)) /\ pos \in Nat /\ Stacked(made, text, parsed) /\ text \in Seq(Nat)
  BY <1>1, InParse
<1>4. /\ leaf \in Tree /\ GoodTree(leaf, pos, text, parsed)
      /\ Solid(leaf) \/ (EndsText(leaf) /\ pos + Total(leaf[<< >>]) = Len(text))
  BY <1>3, LexedLeaf
<1> DEFINE new == Append(made, leaf)
<1>5. IsOn(new, made, leaf, text, parsed)
  <2>1. Solid(leaf) \/ (EndsText(leaf) /\ TotalOf(Roots(made)) + Total(leaf[<< >>]) = Len(text))
    BY <1>3, <1>4
  <2>2. leaf \in Tree /\ GoodTree(leaf, TotalOf(Roots(made)), text, parsed) /\ new = Append(made, leaf)
    BY <1>3, <1>4
  <2> HIDE DEF new
  <2> QED BY <1>3, <2>1, <2>2, PutOn, Zenon
<1>6. made' = new /\ pos' = pos + Total(leaf[<< >>])
  BY <1>2
<1> HIDE DEF new
<1>7. pos' = TotalOf(Roots(made'))
  BY <1>3, <1>5, <1>6 DEF IsOn
<1>8. Stacked(made', text, parsed) \/ Shut(made', text, parsed)
  BY <1>5, <1>6 DEF IsOn
<1> QED BY <1>1, <1>7, <1>8, InParse, ParseStepKeeps

(* A parse ends.                                                           *)
LEMMA AcceptKeeps ==
  ASSUME ReparseInv, Accept
  PROVE  ReparseInv'
<1> DEFINE root == MakeNode(made)
           n == Len(text)
<1>1. /\ phase = "parse" /\ Finished /\ tree' = Renumbered(root) /\ text' = [i \in DOMAIN text |-> i]
      /\ parsed' = n /\ edits' = 0 /\ phase' = "edit" /\ made' = << >>
  BY DEF Accept
<1>2. text \in Seq(Nat) /\ n \in Nat /\ DOMAIN text = 1 .. n /\ n < Word
  <2>1. text \in Seq(Nat) /\ n < Word
    BY DEF ReparseInv, TreeInv, SizesAgree
  <2> QED BY <2>1, LenProperties
<1>3. Shut(made, text, parsed)
  BY <1>1, RunningStacked DEF ReparseInv, ParseInv
<1>4. Closed(made) /\ TotalOf(Roots(made)) = n
  BY <1>3, ShutClosed DEF Shut
<1>5. Whole(root) /\ Total(root[<< >>]) = n
  BY <1>4, ClosedWhole
<1> HIDE DEF root, n
<1>6. Whole(tree') /\ LexedFrom(tree', 0) /\ Total(tree'[<< >>]) = n
  BY <1>1, <1>5, RenumberedWhole
<1>7. Clean(tree') /\ WellFormed(tree') /\ Spans(tree')
  BY <1>6 DEF Whole, Clean
<1>8. text' = [i \in 1 .. n |-> i] /\ text' \in Seq(Nat) /\ Len(text') = n
  BY <1>1, <1>2, Numbers
<1>9. SizesAgree'
  BY <1>1, <1>2, <1>6, <1>7, <1>8 DEF SizesAgree
<1>10. AsParsed'
  BY <1>1, <1>6, <1>7, <1>8 DEF AsParsed
<1>11. Marks(tree')
  BY <1>7, CleanMarks
<1>12. Reusable(tree', text', parsed')
  <2>1. Reusable(tree', Original(n), n)
    BY <1>6, WholeReusable
  <2> QED BY <1>1, <1>8, <2>1 DEF Original
<1> QED BY <1>1, <1>9, <1>10, <1>11, <1>12 DEF ReparseInv, TreeInv

LEMMA ReparseInvNext == ReparseInv /\ [ReparseNext]_allVars => ReparseInv'
<1> SUFFICES ASSUME ReparseInv, [ReparseNext]_allVars PROVE ReparseInv'
  OBVIOUS
<1>1. ASSUME NEW start \in 0 .. Len(text), NEW removed \in 0 .. Len(text), NEW added \in 0 .. MaxAdded,
             EditText(start, removed, added)
      PROVE  ReparseInv'
  <2>1. start \in Nat /\ removed \in Nat /\ added \in Nat
    OBVIOUS
  <2> QED BY <1>1, <2>1, EditTextKeeps
<1>2. CASE Start
  BY <1>2, StartKeeps
<1>3. CASE SkipPast
  BY <1>3, SkipPastKeeps
<1>4. CASE SkipChanged
  BY <1>4, SkipChangedKeeps
<1>5. CASE Refuse
  BY <1>5, RefuseKeeps
<1>6. CASE Reuse
  BY <1>6, ReuseKeeps
<1>7. CASE Lex
  BY <1>7, LexKeeps
<1>8. CASE Accept
  BY <1>8, AcceptKeeps
<1>9. CASE UNCHANGED allVars
  <2>1. /\ text' = text /\ parsed' = parsed /\ tree' = tree /\ edits' = edits
        /\ phase' = phase /\ cursor' = cursor /\ pos' = pos /\ made' = made
    BY <1>9 DEF allVars, vars, parseVars
  <2> QED BY <2>1 DEF ReparseInv, TreeInv, SizesAgree, AsParsed, ParseInv, CursorAt
<1> QED BY <1>1, <1>2, <1>3, <1>4, <1>5, <1>6, <1>7, <1>8, <1>9 DEF ReparseNext

-----------------------------------------------------------------------------
THEOREM ReparseInvariant == ReparseSpec => []ReparseInv
<1>1. ReparseInit => ReparseInv
  BY ReparseInvInit
<1>2. ReparseInv /\ [ReparseNext]_allVars => ReparseInv'
  BY ReparseInvNext
<1> QED BY <1>1, <1>2, PTL DEF ReparseSpec

(* The tree spans the text, whatever edits and parses come after each      *)
(* other: no edit loses a length, and a parse shifts exactly the text.     *)
THEOREM ReparseSpansText == ReparseSpec => []SpansText
<1>1. ReparseInv => SpansText
  BY DEF ReparseInv, TreeInv, SizesAgree, SpansText, Spans
<1> QED BY <1>1, ReparseInvariant, PTL

(* The byte_index that reusable_node_pop adds up is where the node stands  *)
(* in the edited tree.                                                     *)
THEOREM ReusableNodeInStep == ReparseSpec => []CursorInStep
<1>1. ReparseInv => CursorInStep
  <2>1. SUFFICES ASSUME ReparseInv, phase = "parse"
                 PROVE  cursor.byte = IF cursor.done THEN Total(tree[<< >>]) ELSE Begins(tree)[cursor.path]
    BY DEF CursorInStep
  <2>2. CursorAt(cursor)
    BY <2>1 DEF ReparseInv, ParseInv
  <2> QED BY <2>2 DEF CursorAt
<1> QED BY <1>1, ReparseInvariant, PTL

(* No mark of an edit gets into the tree of the next parse: what is marked *)
(* is broken down or passed over, and what is taken over has no marks      *)
(* below it.                                                               *)
THEOREM NoMarkSurvives == ReparseSpec => []NoOldMarks
<1>1. ReparseInv => NoOldMarks
  BY DEF ReparseInv, TreeInv, AsParsed, Clean, NoOldMarks
<1> QED BY <1>1, ReparseInvariant, PTL

(* Every leaf a parse has taken over, alone or inside of a subtree, would  *)
(* be lexed from the bytes it was lexed from, its lookahead included: when *)
(* no lex function looks more than a byte past its token, whatever the     *)
(* number of edits before the parse, and when there was one edit, whatever *)
(* the lookahead.                                                          *)
THEOREM ReusedAsLexed ==
  ASSUME Trusted
  PROVE  ReparseSpec => []ReusedLeavesIntact
<1>1. ReparseInv => ReusedLeavesIntact
  <2>1. SUFFICES ASSUME ReparseInv, NEW i \in DOMAIN made, NEW p \in DOMAIN made[i],
                        made[i][p].child_count = 0, made[i][p].lexedAt # New
                 PROVE  Intact(made[i][p], Starts(Roots(made))[i] + Begins(made[i])[p])
    BY Zenon DEF ReusedLeavesIntact
  <2>2. made # << >> /\ phase \in {"edit", "parse"} /\ (phase = "edit" => made = << >>)
    BY <2>1 DEF ReparseInv
  <2>3. Stacked(made, text, parsed) \/ Shut(made, text, parsed)
    BY <2>1, <2>2 DEF ReparseInv, ParseInv
  <2>4. made \in Seq(Tree) /\ i \in 1 .. Len(made)
    <3>1. made \in Seq(Tree)
      BY <2>3 DEF Stacked, Shut
    <3> QED BY <3>1, LenProperties
  <2>5. GoodTree(made[i], Starts(Roots(made))[i], text, parsed)
    BY <2>3, <2>4 DEF Stacked, Shut
  <2>6. IntactIn(made[i][p], Starts(Roots(made))[i] + Begins(made[i])[p], text, parsed)
    BY <2>1, <2>5 DEF GoodTree, Leaves
  <2> QED BY <2>6, Zenon DEF Intact, IntactIn, SameWindow, Original
<1> QED BY <1>1, ReparseInvariant, PTL

=============================================================================
