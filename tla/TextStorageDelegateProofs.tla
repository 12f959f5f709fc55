--------------------- MODULE TextStorageDelegateProofs ---------------------
(***************************************************************************)
(* For all characters, texts and edits: the delegate tells the parser of   *)
(* its edits as they change the data.  What the data does of an edit is    *)
(* taken from TextDataProofs.                                              *)
(***************************************************************************)
EXTENDS TextStorageDelegate, Induction, SequenceTheorems

Proofs == INSTANCE TextDataProofs

-----------------------------------------------------------------------------
(* The community module's FlattenSeq, for sequences of sequences that are  *)
(* not empty: the function it is defined by exists.                        *)
FlattensBy(f, s, Q) ==
  /\ f \in [1 .. Len(s) -> Q]
  /\ FlattenSeq(s) = f[Len(s)]
  /\ f[1] = s[1]
  /\ \A i \in 1 .. Len(s) - 1 : f[i + 1] = f[i] \o s[i + 1]

LEMMA FlattenSteps ==
  ASSUME NEW Q, \A a, b \in Q : a \o b \in Q, NEW s \in Seq(Q), Len(s) > 0
  PROVE  \E f : FlattensBy(f, s, Q)
<1> DEFINE body(g) == [i \in 1 .. Len(s) |-> IF i = 1 THEN s[i] ELSE g[i - 1] \o s[i]]
           flatten == CHOOSE g : g = body(g)
           step == [n \in Nat |-> [t \in Q |->
                      IF n + 2 \in 1 .. Len(s) THEN t \o s[n + 2] ELSE t]]
<1>0. Len(s) # 0
  OBVIOUS
<1>1. FlattenSeq(s) = flatten[Len(s)]
  <2> HIDE DEF step
  <2> QED BY <1>0, Zenon DEF FlattenSeq
<1>2. s[1] \in Q /\ step \in [Nat -> [Q -> Q]]
  <2>1. ASSUME NEW n \in Nat, NEW t \in Q
        PROVE  (IF n + 2 \in 1 .. Len(s) THEN t \o s[n + 2] ELSE t) \in Q
    <3>1. CASE n + 2 \in 1 .. Len(s)
      <4>1. s[n + 2] \in Q BY <3>1
      <4>2. t \o s[n + 2] \in Q BY <4>1
      <4> QED BY <3>1, <4>2, Zenon
    <3>2. CASE n + 2 \notin 1 .. Len(s)
      BY <3>2
    <3> QED BY <3>1, <3>2
  <2> QED BY <2>1
<1>3. \E h : IsIteration(h, Q, s[1], step)
  <2> HIDE DEF step
  <2> QED BY <1>2, Iteration
<1>4. PICK h \in [Nat -> Q] : h[0] = s[1] /\ \A n \in Nat : h[n + 1] = step[n][h[n]]
  <2> HIDE DEF step
  <2> QED BY <1>3 DEF IsIteration
<1> DEFINE g == [i \in 1 .. Len(s) |-> h[i - 1]]
<1>5. ASSUME NEW i \in 1 .. Len(s), i # 1 PROVE g[i] = g[i - 1] \o s[i]
  <2>1. /\ i - 2 \in Nat /\ (i - 2) + 1 = i - 1 /\ (i - 2) + 2 = i
        /\ i - 1 \in 1 .. Len(s) /\ (i - 1) - 1 = i - 2
    BY <1>5
  <2>2. h[i - 1] = step[i - 2][h[i - 2]]
    BY <1>4, <2>1
  <2>3. h[i - 2] \in Q
    BY <2>1
  <2>4. step[i - 2][h[i - 2]] = h[i - 2] \o s[i]
    BY <2>1, <2>3
  <2> QED BY <2>1, <2>2, <2>4
<1>6. g[1] = s[1]
  BY <1>4
<1>7. g \in [1 .. Len(s) -> Q]
  BY <1>4
<1>8. g = body(g)
  <2>1. \A i \in 1 .. Len(s) : g[i] = IF i = 1 THEN s[i] ELSE g[i - 1] \o s[i]
    BY <1>5, <1>6
  <2> HIDE DEF g
  <2> QED BY <1>7, <2>1
<1>9. flatten = body(flatten)
  <2> HIDE DEF body, g
  <2> QED BY <1>8, Zenon
<1> HIDE DEF flatten
<1>10. flatten[1] = s[1] /\ \A i \in 1 .. Len(s) - 1 : flatten[i + 1] = flatten[i] \o s[i + 1]
  <2>1. \A i \in 1 .. Len(s) : flatten[i] = IF i = 1 THEN s[i] ELSE flatten[i - 1] \o s[i]
    BY <1>9
  <2> HIDE DEF body
  <2>2. ASSUME NEW i \in 1 .. Len(s) - 1 PROVE flatten[i + 1] = flatten[i] \o s[i + 1]
    <3>1. i + 1 \in 1 .. Len(s) /\ i + 1 # 1 /\ (i + 1) - 1 = i
      OBVIOUS
    <3>2. flatten[i + 1] = IF i + 1 = 1 THEN s[i + 1] ELSE flatten[(i + 1) - 1] \o s[i + 1]
      BY <2>1, <3>1
    <3> QED BY <3>1, <3>2, Zenon
  <2>3. flatten[1] = s[1]
    BY <2>1
  <2> QED BY <2>2, <2>3, Zenon
<1>11. \A i \in 1 .. Len(s) : flatten[i] \in Q
  <2> DEFINE T == {n \in Nat : n + 1 \in 1 .. Len(s) => flatten[n + 1] \in Q}
  <2>1. 0 \in T
    BY <1>10
  <2>2. ASSUME NEW n \in T PROVE n + 1 \in T
    <3>0. n \in Nat /\ (n + 1) + 1 = n + 2
      OBVIOUS
    <3>1. SUFFICES ASSUME n + 2 \in 1 .. Len(s) PROVE flatten[n + 2] \in Q
      BY <3>0
    <3>2. n \in Nat /\ n + 1 \in 1 .. Len(s) - 1 /\ n + 1 \in 1 .. Len(s) /\ (n + 1) + 1 = n + 2
      BY <3>1
    <3>3. flatten[n + 2] = flatten[n + 1] \o s[n + 2]
      BY <1>10, <3>2
    <3>4. flatten[n + 1] \in Q /\ s[n + 2] \in Q
      BY <3>1, <3>2
    <3>5. flatten[n + 1] \o s[n + 2] \in Q
      <4> HIDE DEF T
      <4> QED BY <3>4
    <3> QED BY <3>3, <3>5, Zenon
  <2> HIDE DEF T
  <2>3. T = Nat
    <3>1. T \in SUBSET Nat BY DEF T
    <3> QED BY <2>1, <2>2, <3>1, Induct
  <2>4. ASSUME NEW i \in 1 .. Len(s) PROVE flatten[i] \in Q
    <3>1. i - 1 \in T /\ (i - 1) + 1 = i BY <2>3
    <3> QED BY <3>1 DEF T
  <2> QED BY <2>4
<1>12. flatten \in [1 .. Len(s) -> Q]
  BY <1>9, <1>11
<1> HIDE DEF body, step, g
<1>13. FlattensBy(flatten, s, Q)
  BY <1>1, <1>10, <1>12 DEF FlattensBy
<1> QED BY <1>13

(* A sequence at the end of the others ends up at the end of the whole.    *)
LEMMA FlattenAppend ==
  ASSUME NEW Q, \A a, b \in Q : a \o b \in Q, NEW s \in Seq(Q), Len(s) > 0, NEW x \in Q
  PROVE  FlattenSeq(s) \in Q /\ FlattenSeq(Append(s, x)) = FlattenSeq(s) \o x
<1> DEFINE t == Append(s, x)
<1>1. t \in Seq(Q) /\ Len(t) = Len(s) + 1 /\ (\A i \in 1 .. Len(s) : t[i] = s[i]) /\ t[Len(t)] = x
  BY AppendProperties
<1> HIDE DEF t
<1>2. PICK f : FlattensBy(f, s, Q)
  BY FlattenSteps
<1>3. PICK g : FlattensBy(g, t, Q)
  <2>1. Len(t) > 0
    BY <1>1
  <2> QED BY <1>1, <2>1, FlattenSteps
<1> USE DEF FlattensBy
<1> DEFINE T == {n \in Nat : n + 1 \in 1 .. Len(s) => g[n + 1] = f[n + 1]}
<1>4. 0 \in T
  BY <1>1, <1>2, <1>3
<1>5. ASSUME NEW n \in T PROVE n + 1 \in T
  <2>0. n \in Nat /\ (n + 1) + 1 = n + 2 /\ Len(s) \in Nat
    OBVIOUS
  <2>1. SUFFICES ASSUME n + 2 \in 1 .. Len(s) PROVE g[(n + 1) + 1] = f[(n + 1) + 1]
    BY <2>0
  <2>2. n + 1 \in 1 .. Len(s) - 1 /\ n + 1 \in 1 .. Len(s) /\ n + 1 \in 1 .. Len(t) - 1
    BY <1>1, <2>0, <2>1
  <2>3. f[n + 2] = f[n + 1] \o s[n + 2]
    BY <1>2, <2>0, <2>2
  <2>4. g[n + 2] = g[n + 1] \o t[n + 2]
    BY <1>3, <2>0, <2>2
  <2>5. g[n + 1] = f[n + 1] /\ t[n + 2] = s[n + 2]
    BY <1>1, <2>1, <2>2
  <2>6. g[n + 2] = f[n + 2]
    BY <2>3, <2>4, <2>5, Zenon
  <2> QED BY <2>0, <2>6
<1> HIDE DEF T
<1>6. T = Nat
  <2>1. T \in SUBSET Nat BY DEF T
  <2> QED BY <1>4, <1>5, <2>1, Induct
<1>7. g[Len(s)] = f[Len(s)]
  <2>1. Len(s) - 1 \in T /\ (Len(s) - 1) + 1 = Len(s)
    BY <1>6
  <2> QED BY <2>1 DEF T
<1>8. g[Len(t)] = g[Len(s)] \o x
  <2>1. Len(s) \in 1 .. Len(t) - 1 /\ Len(s) + 1 = Len(t)
    BY <1>1
  <2>2. g[Len(s) + 1] = g[Len(s)] \o t[Len(s) + 1]
    BY <1>3, <2>1
  <2> QED BY <1>1, <2>1, <2>2, Zenon
<1>9. FlattenSeq(t) = FlattenSeq(s) \o x
  BY <1>2, <1>3, <1>7, <1>8, Zenon
<1> QED BY <1>2, <1>9 DEF t

-----------------------------------------------------------------------------
(* The units of a text, one character more at a time.                      *)
LEMMA CharacterUnits ==
  ASSUME NEW c \in Characters
  PROVE  c \in Seq(Unit) /\ Len(c) \in {1, 2}
BY TextStorageDelegateAssumption

(* A text is made of units, and an empty one of none.                      *)
LEMMA UnitsType ==
  ASSUME NEW s \in Seq(Characters)
  PROVE  Units(s) \in Seq(Unit)
<1>1. s \in Seq(Seq(Unit))
  BY CharacterUnits, SeqMonotonic
<1>2. \A a, b \in Seq(Unit) : a \o b \in Seq(Unit)
  OBVIOUS
<1>3. CASE Len(s) = 0
  <2>1. s = << >> /\ FlattenSeq(s) = s
    BY <1>3 DEF FlattenSeq
  <2> QED BY <2>1, EmptySeq, Zenon DEF Units
<1>4. CASE Len(s) > 0
  <2> DEFINE Q == Seq(Unit)
  <2> HIDE DEF Q
  <2>1. (\A a, b \in Q : a \o b \in Q) /\ s \in Seq(Q)
    BY <1>1, <1>2 DEF Q
  <2>2. FlattenSeq(s) \in Q
    <3>1. PICK f : FlattensBy(f, s, Q)
      BY <1>4, <2>1, FlattenSteps
    <3>2. Len(s) \in 1 .. Len(s)
      BY <1>4
    <3> QED BY <3>1, <3>2 DEF FlattensBy
  <2> QED BY <2>2 DEF Q, Units
<1> QED BY <1>3, <1>4

LEMMA UnitsOfNone == Units(<< >>) = << >> /\ Len(Units(<< >>)) = 0
<1>1. Len(<< >>) = 0
  OBVIOUS
<1> QED BY <1>1 DEF Units, FlattenSeq

(* A character adds its units to those of the text before it.              *)
LEMMA LenUnitsAppend ==
  ASSUME NEW s \in Seq(Characters), NEW c \in Characters
  PROVE  Len(Units(Append(s, c))) = Len(Units(s)) + Len(c)
<1> DEFINE Q == Seq(Unit)
<1>1. s \in Seq(Q) /\ c \in Q
  BY CharacterUnits, SeqMonotonic
<1>2. \A a, b \in Q : a \o b \in Q
  OBVIOUS
<1>3. CASE Len(s) > 0
  <2>1. FlattenSeq(s) \in Q /\ FlattenSeq(Append(s, c)) = FlattenSeq(s) \o c
    <3> HIDE DEF Q
    <3> QED BY <1>1, <1>2, <1>3, FlattenAppend
  <2>2. Len(FlattenSeq(s) \o c) = Len(FlattenSeq(s)) + Len(c)
    BY <1>1, <2>1
  <2> QED BY <2>1, <2>2 DEF Units
<1>4. CASE Len(s) = 0
  <2>1. s = << >> /\ Append(s, c) = <<c>> /\ Len(<<c>>) = 1
    BY <1>4
  <2> DEFINE u == <<c>>
  <2>2. u \in Seq(Q) /\ Len(u) = 1 /\ u[1] = c
    BY <1>1
  <2>3. FlattenSeq(u) = c
    <3> HIDE DEF Q, u
    <3>1. Len(u) > 0 /\ u \in Seq(Q)
      BY <2>2
    <3>2. PICK f : FlattensBy(f, u, Q)
      BY <1>2, <3>1, FlattenSteps
    <3> QED BY <2>2, <3>2, Zenon DEF FlattensBy
  <2>4. Units(Append(s, c)) = c
    BY <2>1, <2>3 DEF Units
  <2>5. Len(Units(s)) = 0 /\ Len(c) \in Nat
    BY <2>1, UnitsOfNone, CharacterUnits
  <2> QED BY <2>4, <2>5
<1>5. Len(s) \in Nat
  OBVIOUS
<1> QED BY <1>3, <1>4, <1>5

(* A text without two-unit characters has a unit for every character.      *)
LEMMA LenUnitsOfSingles ==
  ASSUME NEW s \in Seq(Characters), \A i \in DOMAIN s : Len(s[i]) = 1
  PROVE  Len(Units(s)) = Len(s)
<1> DEFINE T == {n \in Nat : \A t \in Seq(Characters) :
                   Len(t) = n /\ (\A i \in DOMAIN t : Len(t[i]) = 1) => Len(Units(t)) = n}
<1>1. 0 \in T
  <2> SUFFICES ASSUME NEW t \in Seq(Characters), Len(t) = 0 PROVE Len(Units(t)) = 0
    OBVIOUS
  <2>1. t = << >>
    OBVIOUS
  <2> QED BY <2>1, UnitsOfNone
<1>2. ASSUME NEW n \in T PROVE n + 1 \in T
  <2> SUFFICES ASSUME NEW t \in Seq(Characters), Len(t) = n + 1,
                      \A i \in DOMAIN t : Len(t[i]) = 1
               PROVE  Len(Units(t)) = n + 1
    OBVIOUS
  <2>0. n \in Nat /\ t # << >>
    OBVIOUS
  <2>1. PICK u \in Seq(Characters), c \in Characters : t = Append(u, c)
    BY <2>0, SequenceEmptyOrAppend
  <2>2. /\ Len(u) = n
        /\ \A i \in DOMAIN u : i \in DOMAIN t /\ u[i] = t[i]
        /\ n + 1 \in DOMAIN t /\ t[n + 1] = c
    BY <2>0, <2>1, AppendProperties
  <2>3. Len(Units(u)) = n /\ Len(c) = 1
    BY <2>2
  <2> QED BY <2>1, <2>3, LenUnitsAppend
<1> HIDE DEF T
<1>3. T = Nat
  <2>1. T \in SUBSET Nat BY DEF T
  <2> QED BY <1>1, <1>2, <2>1, Induct
<1>4. Len(s) \in T
  BY <1>3
<1> QED BY <1>4 DEF T

-----------------------------------------------------------------------------
(* The data as the document has it: what TextDataProofs shows of an edit.  *)
Splice(t, loc, len, new) == SubSeq(t, 1, loc) \o new \o SubSeq(t, loc + len + 1, Len(t))

(* The byte edit of the data is the splice of the text it encodes.         *)
LEMMA DataIsSpliced ==
  ASSUME NEW t \in Seq(Unit), NEW new \in Seq(Unit),
         NEW loc \in Nat, NEW len \in Nat, loc + len <= Len(t)
  PROVE  /\ Splice(t, loc, len, new) \in Seq(Unit)
         /\ InputData!ReplaceCharactersInRange(InputData!Encode(t), loc, len, new)
              = InputData!Encode(Splice(t, loc, len, new))
<1>0. Proofs!TextDataAssumption
  BY TextStorageDelegateAssumption DEF Proofs!TextDataAssumption
<1>1. /\ Proofs!Buffer!Splice(t, loc, len, new) \in Seq(Unit)
      /\ Proofs!ReplaceCharactersInRange(Proofs!Encode(t), loc, len, new)
              = Proofs!Encode(Proofs!Buffer!Splice(t, loc, len, new))
  BY <1>0, Proofs!ReplaceIsSplice
<1>2. Proofs!Buffer!Splice(t, loc, len, new) = Splice(t, loc, len, new)
  BY DEF Proofs!Buffer!Splice, Splice
<1>3. \A s : Proofs!Encode(s) = InputData!Encode(s)
  BY Zenon DEF Proofs!Encode, InputData!Encode, Proofs!Padding, InputData!Padding, Proofs!UnitAt, InputData!UnitAt
<1>4. \A d : Proofs!ReplaceCharactersInRange(d, loc, len, new) = InputData!ReplaceCharactersInRange(d, loc, len, new)
  BY Zenon DEF Proofs!ReplaceCharactersInRange, InputData!ReplaceCharactersInRange,
     Proofs!Encode, InputData!Encode, Proofs!Padding, InputData!Padding, Proofs!UnitAt, InputData!UnitAt,
     Proofs!Subdata, InputData!Subdata, Proofs!ReplaceSubrange, InputData!ReplaceSubrange,
     Proofs!Zeros, InputData!Zeros, Proofs!ShiftTail, InputData!ShiftTail
<1> QED BY <1>1, <1>2, <1>3, <1>4, Zenon

(* Two bytes for the order mark and two for every unit.                    *)
LEMMA EncodeShape ==
  ASSUME NEW t \in Seq(Unit)
  PROVE  /\ Len(InputData!Encode(t)) = 2 * Len(t) + 2
         /\ \A i \in 1 .. 2 * Len(t) : InputData!Encode(t)[i + 2] = <<t[(i + 1) \div 2], i % 2>>
<1> DEFINE d == InputData!Encode(t)
<1>1. d = [i \in 1 .. 2 * Len(t) + 2 |-> <<InputData!UnitAt(t, i), i % 2>>]
  BY DEF InputData!Encode, InputData!Padding
<1>2. Len(d) = 2 * Len(t) + 2
  BY <1>1
<1>3. ASSUME NEW i \in 1 .. 2 * Len(t)
      PROVE  d[i + 2] = <<t[(i + 1) \div 2], i % 2>>
  <2>1. /\ i + 2 \in 1 .. 2 * Len(t) + 2 /\ ~ (i + 2 <= 2)
        /\ (i + 2) - 1 = i + 1 /\ (i + 2) % 2 = i % 2
    OBVIOUS
  <2>2. d[i + 2] = <<InputData!UnitAt(t, i + 2), (i + 2) % 2>>
    BY <1>1, <2>1
  <2>3. InputData!UnitAt(t, i + 2) = t[(i + 1) \div 2]
    BY <2>1, Zenon DEF InputData!UnitAt, InputData!Padding
  <2> QED BY <2>1, <2>2, <2>3, Zenon
<1> QED BY <1>2, <1>3

-----------------------------------------------------------------------------
(* Whatever the edits have done to it, the data encodes a text.            *)
DocumentHolds(t) == t \in Seq(Unit) /\ data = InputData!Encode(t)

IInv ==
  /\ string \in Seq(Characters)
  /\ \E t : DocumentHolds(t)

LEMMA TextsAreSequences ==
  ASSUME NEW n \in Nat, NEW s \in Texts(n)
  PROVE  s \in Seq(Characters)
BY DEF Texts

(* The document and the view begin with the same text.                     *)
LEMMA InitHolds == Init => IInv
<1> SUFFICES ASSUME Init PROVE IInv
  OBVIOUS
<1>1. string \in Seq(Characters)
  BY TextStorageDelegateAssumption, TextsAreSequences DEF Init
<1>2. Units(string) \in Seq(Unit) /\ Len(Units(string)) \in Nat
  BY <1>1, UnitsType
<1>3. DocumentHolds(Units(string))
  BY <1>2 DEF Init, DocumentHolds
<1> QED BY <1>1, <1>3 DEF IInv

(* What the delegate does about an edit that put len units at loc.         *)
Handled(loc, len, t) ==
  /\ loc \in Nat /\ len \in Nat /\ t \in Seq(Unit)
  /\ data = InputData!Encode(t)
  /\ string' \in Seq(Characters) /\ Units(string') \in Seq(Unit)
  /\ \/ /\ loc + len > Len(t)
        /\ trapped' = TRUE
        /\ UNCHANGED <<data, told>>
     \/ /\ loc + len <= Len(t)
        /\ trapped' = FALSE
        /\ data' = InputData!Encode(Splice(t, loc, len, Units(string')))
        /\ told' = [start |-> 2 * loc, removed |-> 2 * len, added |-> 2 * Len(string')]

(* Every edit of the user is handled in one of the two ways.               *)
LEMMA EditHandled ==
  ASSUME IInv, NEW from \in 0 .. MaxCharacters, NEW to \in 0 .. MaxCharacters,
         NEW new \in Texts(1), Edit(from, to, new)
  PROVE  \E loc, len, t : Handled(loc, len, t)
<1> DEFINE front == SubSeq(string, 1, from)
           old   == SubSeq(string, from + 1, to)
           back  == SubSeq(string, to + 1, Len(string))
           loc   == Len(Units(front))
           len   == Len(Units(new))
<1>1. MaxCharacters \in Nat /\ from \in Nat /\ to \in Nat /\ from <= to /\ to <= Len(string)
  BY TextStorageDelegateAssumption DEF Edit
<1>2. /\ string \in Seq(Characters) /\ new \in Seq(Characters)
      /\ front \in Seq(Characters) /\ old \in Seq(Characters) /\ back \in Seq(Characters)
  BY <1>1, TextsAreSequences DEF IInv
<1>3. PICK t : DocumentHolds(t)
  BY DEF IInv
<1>4. /\ ~ trapped /\ string' = front \o new \o back
      /\ DidProcessEditing(string', loc, len, len - Len(Units(old)))
  BY Zenon DEF Edit
<1> HIDE DEF front, back, old
<1>5. string' \in Seq(Characters) /\ Units(string') \in Seq(Unit)
  <2>1. string' \in Seq(Characters)
    BY <1>2, <1>4
  <2> QED BY <2>1, UnitsType
<1>6. loc \in Nat /\ len \in Nat
  BY <1>2, UnitsType
<1>7. /\ t \in Seq(Unit) /\ data = InputData!Encode(t)
      /\ Len(t) \in Nat
  BY <1>3 DEF DocumentHolds
<1>8. InputData!InBounds(data, loc, len) <=> loc + len <= Len(t)
  <2>1. Len(data) = 2 * Len(t) + 2
    BY <1>7, EncodeShape
  <2> QED BY <1>6, <1>7, <2>1 DEF InputData!InBounds, InputData!Padding
<1> HIDE DEF loc, len
<1>9. CASE ~ (loc + len <= Len(t))
  <2>1. trapped' = TRUE /\ UNCHANGED <<data, told>>
    BY <1>4, <1>8, <1>9, Zenon DEF DidProcessEditing
  <2>2. loc + len > Len(t)
    BY <1>6, <1>7, <1>9
  <2>3. Handled(loc, len, t)
    BY <1>4, <1>5, <1>6, <1>7, <2>1, <2>2, Zenon DEF Handled
  <2> QED BY <2>3
<1>10. CASE loc + len <= Len(t)
  <2>1. /\ data' = InputData!ReplaceCharactersInRange(data, loc, len, Units(string'))
        /\ told' = InputEdit(loc, len, len - Len(Units(old)), string')
        /\ trapped' = trapped
    BY <1>4, <1>8, <1>10, Zenon DEF DidProcessEditing
  <2>2. data' = InputData!Encode(Splice(t, loc, len, Units(string')))
    BY <1>5, <1>6, <1>7, <1>10, <2>1, DataIsSpliced
  <2>3. told' = [start |-> 2 * loc, removed |-> 2 * len, added |-> 2 * Len(string')]
    BY <2>1, Zenon DEF InputEdit
  <2>4. trapped' = FALSE
    BY <1>4, <2>1
  <2>5. Handled(loc, len, t)
    BY <1>4, <1>5, <1>6, <1>7, <1>10, <2>2, <2>3, <2>4, Zenon DEF Handled
  <2> QED BY <2>5
<1> QED BY <1>9, <1>10

(* A splice cuts len units out and puts the new ones in; those before keep *)
(* their places and those behind move on.                                  *)
IsSpliced(u, t, loc, len, new) ==
  /\ u \in Seq(Unit) /\ Len(u) = Len(t) - len + Len(new)
  /\ \A i \in 1 .. loc : u[i] = t[i]
  /\ \A i \in loc + len + 1 .. Len(t) : u[i - len + Len(new)] = t[i]

(* That is what Splice gives.                                              *)
LEMMA SpliceShape ==
  ASSUME NEW t \in Seq(Unit), NEW new \in Seq(Unit),
         NEW loc \in Nat, NEW len \in Nat, loc + len <= Len(t)
  PROVE  IsSpliced(Splice(t, loc, len, new), t, loc, len, new)
<1> DEFINE front == SubSeq(t, 1, loc)  back == SubSeq(t, loc + len + 1, Len(t))
<1>0. Len(t) \in Nat /\ Len(new) \in Nat
  OBVIOUS
<1>1. /\ front \in Seq(Unit) /\ Len(front) = loc
      /\ \A i \in 1 .. loc : front[i] = t[i]
  BY <1>0
<1>2. /\ back \in Seq(Unit) /\ Len(back) = Len(t) - (loc + len)
      /\ \A i \in 1 .. Len(t) - (loc + len) : back[i] = t[i + loc + len]
  BY <1>0
<1> HIDE DEF front, back
<1> DEFINE put == front \o new
<1>3. /\ put \in Seq(Unit) /\ Len(put) = loc + Len(new)
      /\ \A i \in 1 .. loc : put[i] = t[i]
  <2>1. /\ put \in Seq(Unit) /\ Len(put) = Len(front) + Len(new)
        /\ \A i \in 1 .. Len(front) + Len(new) : put[i] =
             IF i <= Len(front) THEN front[i] ELSE new[i - Len(front)]
    BY <1>1, ConcatProperties, Zenon
  <2> HIDE DEF put
  <2> QED BY <1>0, <1>1, <2>1
<1> HIDE DEF put
<1>4. /\ put \o back \in Seq(Unit) /\ Len(put \o back) = Len(t) - len + Len(new)
      /\ \A i \in 1 .. loc : (put \o back)[i] = t[i]
      /\ \A i \in loc + len + 1 .. Len(t) : (put \o back)[i - len + Len(new)] = t[i]
  <2>1. /\ put \o back \in Seq(Unit) /\ Len(put \o back) = Len(put) + Len(back)
        /\ \A i \in 1 .. Len(put) + Len(back) : (put \o back)[i] =
             IF i <= Len(put) THEN put[i] ELSE back[i - Len(put)]
    <3>1. put \in Seq(Unit) /\ back \in Seq(Unit)
      BY <1>2, <1>3
    <3> QED BY <3>1, ConcatProperties, Zenon
  <2>3. Len(put \o back) = Len(t) - len + Len(new)
    BY <1>0, <1>2, <1>3, <2>1
  <2>4. ASSUME NEW i \in 1 .. loc PROVE (put \o back)[i] = t[i]
    <3>1. i \in 1 .. Len(put) + Len(back) /\ i <= Len(put)
      BY <1>0, <1>2, <1>3
    <3> QED BY <1>3, <2>1, <3>1
  <2>2. ASSUME NEW i \in loc + len + 1 .. Len(t)
        PROVE  (put \o back)[i - len + Len(new)] = t[i]
    <3> DEFINE k == i - len + Len(new)
    <3>1. /\ k \in Len(put) + 1 .. Len(put) + Len(back)
          /\ k - Len(put) = i - (loc + len)
          /\ i - (loc + len) \in 1 .. Len(t) - (loc + len)
          /\ (i - (loc + len)) + loc + len = i
      BY <1>0, <1>2, <1>3
    <3> HIDE DEF k
    <3>2. (put \o back)[k] = back[k - Len(put)]
      <4>1. k \in 1 .. Len(put) + Len(back) /\ ~ (k <= Len(put))
        BY <1>0, <1>2, <1>3, <3>1
      <4> QED BY <2>1, <4>1, Zenon
    <3>3. back[i - (loc + len)] = t[(i - (loc + len)) + loc + len]
      BY <1>2, <3>1
    <3> QED BY <3>1, <3>2, <3>3 DEF k
  <2> QED BY <2>1, <2>2, <2>3, <2>4
<1> QED BY <1>4, Zenon DEF IsSpliced, Splice, front, back, put

-----------------------------------------------------------------------------
(* The data stays the encoding of a text.                                  *)
LEMMA StepHolds ==
  ASSUME IInv, [Next]_vars
  PROVE  IInv'
<1>1. CASE UNCHANGED vars
  BY <1>1 DEF vars, IInv, DocumentHolds
<1>2. CASE Next
  <2>1. PICK from \in 0 .. MaxCharacters, to \in 0 .. MaxCharacters, new \in Texts(1) :
          Edit(from, to, new)
    BY <1>2 DEF Next
  <2>2. PICK loc, len, t : Handled(loc, len, t)
    BY <2>1, EditHandled
  <2>3. /\ loc \in Nat /\ len \in Nat /\ t \in Seq(Unit)
        /\ Units(string') \in Seq(Unit) /\ string' \in Seq(Characters)
    BY <2>2 DEF Handled
  <2>4. CASE loc + len > Len(t) /\ UNCHANGED <<data, told>>
    BY <2>2, <2>3, <2>4 DEF Handled, DocumentHolds, IInv
  <2>5. CASE /\ loc + len <= Len(t)
             /\ data' = InputData!Encode(Splice(t, loc, len, Units(string')))
    <3>1. PICK put \in Seq(Unit) : put = Units(string')
      BY <2>3
    <3>2. IsSpliced(Splice(t, loc, len, put), t, loc, len, put)
      BY <2>3, <2>5, SpliceShape
    <3>3. DocumentHolds(Splice(t, loc, len, put))'
      BY <2>5, <3>1, <3>2 DEF IsSpliced, DocumentHolds
    <3> QED BY <2>3, <3>3 DEF IInv
  <2> QED BY <2>2, <2>4, <2>5 DEF Handled
<1> QED BY <1>1, <1>2

LEMMA InvariantHolds == Spec => []IInv
BY InitHolds, StepHolds, PTL DEF Spec

(* The text's bytes, behind the order mark.                                *)
LEMMA BodyShape ==
  ASSUME NEW t \in Seq(Unit)
  PROVE  /\ Body(InputData!Encode(t)) \in Seq(Unit \X {0, 1})
         /\ Len(Body(InputData!Encode(t))) = 2 * Len(t)
         /\ \A i \in 1 .. 2 * Len(t) : Body(InputData!Encode(t))[i] = <<t[(i + 1) \div 2], i % 2>>
<1> DEFINE d == InputData!Encode(t)
<1>1. /\ Len(d) = 2 * Len(t) + 2 /\ Len(t) \in Nat
      /\ \A i \in 1 .. 2 * Len(t) : d[i + 2] = <<t[(i + 1) \div 2], i % 2>>
  BY EncodeShape
<1> HIDE DEF d
<1>2. Body(d) = [i \in 1 .. 2 * Len(t) |-> d[i + 2]]
  BY <1>1 DEF Body, InputData!Padding
<1>3. ASSUME NEW i \in 1 .. 2 * Len(t) PROVE d[i + 2] \in Unit \X {0, 1}
  <2>1. (i + 1) \div 2 \in 1 .. Len(t) /\ i % 2 \in {0, 1}
    BY <1>1
  <2>2. t[(i + 1) \div 2] \in Unit
    BY <2>1
  <2>3. d[i + 2] = <<t[(i + 1) \div 2], i % 2>>
    BY <1>1
  <2> QED BY <2>1, <2>2, <2>3
<1>4. Len(Body(d)) = 2 * Len(t)
  BY <1>1, <1>2
<1>5. Body(d) \in Seq(Unit \X {0, 1})
  BY <1>1, <1>2, <1>3
<1> QED BY <1>1, <1>2, <1>4, <1>5 DEF d

(* Sequences agree on a part if they agree on each of its elements.        *)
LEMMA SameParts ==
  ASSUME NEW S, NEW a \in Seq(S), NEW b \in Seq(S), NEW n \in Nat,
         1 .. n \subseteq 1 .. Len(a), 1 .. n \subseteq 1 .. Len(b),
         \A i \in 1 .. n : a[i] = b[i]
  PROVE  SubSeq(a, 1, n) = SubSeq(b, 1, n)
OBVIOUS

(* Sequences end alike: their last n elements are the same.                *)
EndAlike(a, j, b, k, n) ==
  /\ Len(a) = j + n /\ Len(b) = k + n
  /\ \A i \in 1 .. n : a[j + i] = b[k + i]

(* The bytes of a text.                                                    *)
Halves == Unit \X {0, 1}

LEMMA SameEnds ==
  ASSUME NEW a \in Seq(Halves), NEW b \in Seq(Halves),
         NEW j \in Nat, NEW k \in Nat, NEW n \in Nat, EndAlike(a, j, b, k, n)
  PROVE  SubSeq(a, j + 1, Len(a)) = SubSeq(b, k + 1, Len(b))
<1>0. Len(a) = j + n /\ Len(b) = k + n /\ \A i \in 1 .. n : a[j + i] = b[k + i]
  BY DEF EndAlike
<1> DEFINE x == SubSeq(a, j + 1, j + n)  y == SubSeq(b, k + 1, k + n)
<1>1. x \in Seq(Halves) /\ Len(x) = n /\ \A i \in 1 .. n : x[i] = a[j + i]
  BY <1>0
<1>2. y \in Seq(Halves) /\ Len(y) = n /\ \A i \in 1 .. n : y[i] = b[k + i]
  BY <1>0
<1> HIDE DEF x, y
<1>3. x = y
  <2>1. x = [i \in 1 .. n |-> x[i]] /\ y = [i \in 1 .. n |-> y[i]]
    BY <1>1, <1>2
  <2>2. \A i \in 1 .. n : x[i] = y[i]
    BY <1>0, <1>1, <1>2
  <2> QED BY <2>1, <2>2, Zenon
<1> QED BY <1>0, <1>3 DEF x, y

(* An edit that is handled changes the bytes as the parser is told.        *)
LEMMA StepTellsTheEdit ==
  ASSUME IInv, [Next]_vars, ~ trapped', \A i \in DOMAIN string' : Len(string'[i]) = 1,
         ~ UNCHANGED vars
  PROVE  LET before == Body(data)
             after  == Body(data')
         IN  /\ Len(after) = Len(before) - told'.removed + told'.added
             /\ SubSeq(after, 1, told'.start) = SubSeq(before, 1, told'.start)
             /\ SubSeq(after, told'.start + told'.added + 1, Len(after))
                  = SubSeq(before, told'.start + told'.removed + 1, Len(before))
<1>1. PICK from \in 0 .. MaxCharacters, to \in 0 .. MaxCharacters, new \in Texts(1) :
        Edit(from, to, new)
  BY DEF Next
<1>2. PICK loc, len, t : Handled(loc, len, t)
  BY <1>1, EditHandled
<1>3. /\ loc \in Nat /\ len \in Nat /\ t \in Seq(Unit) /\ Len(t) \in Nat
      /\ loc + len <= Len(t) /\ Units(string') \in Seq(Unit) /\ Len(Units(string')) \in Nat
      /\ data = InputData!Encode(t)
      /\ data' = InputData!Encode(Splice(t, loc, len, Units(string')))
      /\ told' = [start |-> 2 * loc, removed |-> 2 * len, added |-> 2 * Len(string')]
      /\ string' \in Seq(Characters)
  BY <1>2 DEF Handled
<1>4. Len(Units(string')) = Len(string') /\ Len(string') \in Nat
  BY <1>3, LenUnitsOfSingles
<1>5. PICK n \in Nat : n = Len(string')
  BY <1>4
<1>6. PICK u : u = Splice(t, loc, len, Units(string'))
  OBVIOUS
<1>7. /\ u \in Seq(Unit) /\ Len(u) = Len(t) - len + n /\ Len(u) \in Nat
      /\ \A i \in 1 .. loc : u[i] = t[i]
      /\ \A i \in loc + len + 1 .. Len(t) : u[i - len + n] = t[i]
  <2>1. PICK put \in Seq(Unit) : put = Units(string')
    BY <1>3
  <2>2. Len(put) = n /\ u = Splice(t, loc, len, put)
    BY <1>4, <1>5, <1>6, <2>1
  <2>3. IsSpliced(u, t, loc, len, put)
    BY <1>3, <2>2, SpliceShape
  <2>4. u \in Seq(Unit) /\ Len(u) \in Nat
    BY <2>3 DEF IsSpliced
  <2> QED BY <2>2, <2>3, <2>4, Zenon DEF IsSpliced
<1> DEFINE before == Body(data)  after == Body(data')
<1>8. /\ before \in Seq(Unit \X {0, 1}) /\ Len(before) = 2 * Len(t)
      /\ \A i \in 1 .. 2 * Len(t) : before[i] = <<t[(i + 1) \div 2], i % 2>>
  BY <1>3, BodyShape
<1>9. /\ after \in Seq(Unit \X {0, 1}) /\ Len(after) = 2 * Len(u)
      /\ \A i \in 1 .. 2 * Len(u) : after[i] = <<u[(i + 1) \div 2], i % 2>>
  BY <1>3, <1>6, <1>7, BodyShape
<1>10. told'.start = 2 * loc /\ told'.removed = 2 * len /\ told'.added = 2 * n
  BY <1>3, <1>5
<1> HIDE DEF before, after
<1>a. PICK x \in Nat, y \in Nat : x = Len(t) /\ y = Len(u)
  BY <1>3, <1>7
<1>b. /\ loc \in Nat /\ len \in Nat /\ loc + len <= x /\ y = x - len + n
      /\ Len(before) = 2 * x /\ Len(after) = 2 * y
  BY <1>3, <1>7, <1>8, <1>9, <1>a
<1>11. Len(after) = Len(before) - 2 * len + 2 * n
  BY <1>b
<1>12. SubSeq(after, 1, 2 * loc) = SubSeq(before, 1, 2 * loc)
  <2>1. ASSUME NEW i \in 1 .. 2 * loc PROVE after[i] = before[i]
    <3>1. (i + 1) \div 2 \in 1 .. loc /\ i \in 1 .. 2 * Len(t) /\ i \in 1 .. 2 * Len(u)
      BY <1>a, <1>b
    <3> QED BY <1>7, <1>8, <1>9, <3>1, Zenon
  <2>2. 1 .. 2 * loc \subseteq 1 .. Len(after) /\ 1 .. 2 * loc \subseteq 1 .. Len(before)
    BY <1>b
  <2> QED BY <1>3, <1>8, <1>9, <2>1, <2>2, SameParts
<1>13. SubSeq(after, 2 * loc + 2 * n + 1, Len(after)) = SubSeq(before, 2 * loc + 2 * len + 1, Len(before))
  <2> DEFINE room == 2 * Len(t) - 2 * loc - 2 * len
  <2>1. ASSUME NEW i \in 1 .. room
        PROVE  after[2 * loc + 2 * n + i] = before[2 * loc + 2 * len + i]
    <3> DEFINE k == loc + len + (i + 1) \div 2
    <3>1. /\ 2 * loc + 2 * len + i \in 1 .. 2 * Len(t)
          /\ 2 * loc + 2 * n + i \in 1 .. 2 * Len(u)
          /\ ((2 * loc + 2 * len + i) + 1) \div 2 = k
          /\ ((2 * loc + 2 * n + i) + 1) \div 2 = k - len + n
          /\ (2 * loc + 2 * len + i) % 2 = i % 2 /\ (2 * loc + 2 * n + i) % 2 = i % 2
          /\ k \in loc + len + 1 .. Len(t)
      <4>1. PICK h \in Nat : h = (i + 1) \div 2 /\ (i = 2 * h \/ i = 2 * h - 1)
        BY <1>a, <1>b
      <4>2. /\ h \in 1 .. x - loc - len /\ k = loc + len + h
            /\ 2 * loc + 2 * len + i \in 1 .. 2 * x
            /\ 2 * loc + 2 * n + i \in 1 .. 2 * y
        BY <1>a, <1>b, <4>1
      <4> HIDE DEF k
      <4>3. /\ ((2 * loc + 2 * len + i) + 1) \div 2 = k
            /\ ((2 * loc + 2 * n + i) + 1) \div 2 = k - len + n
        BY <1>b, <4>1, <4>2
      <4>4. (2 * loc + 2 * len + i) % 2 = i % 2 /\ (2 * loc + 2 * n + i) % 2 = i % 2
        BY <1>b, <4>1, <4>2
      <4>5. k \in loc + len + 1 .. x
        BY <1>b, <4>2
      <4> QED BY <1>a, <4>2, <4>3, <4>4, <4>5
    <3> HIDE DEF k
    <3>2. before[2 * loc + 2 * len + i] = <<t[k], i % 2>>
      BY <1>8, <3>1
    <3>3. after[2 * loc + 2 * n + i] = <<u[k - len + n], i % 2>>
      BY <1>9, <3>1
    <3>4. u[k - len + n] = t[k]
      BY <1>7, <3>1
    <3> QED BY <3>2, <3>3, <3>4
  <2>2. /\ room \in Nat
        /\ Len(after) = 2 * loc + 2 * n + room /\ Len(before) = 2 * loc + 2 * len + room
    BY <1>a, <1>b
  <2>4. after \in Seq(Halves) /\ before \in Seq(Halves)
    BY <1>8, <1>9 DEF Halves
  <2> HIDE DEF room
  <2>3. SubSeq(after, (2 * loc + 2 * n) + 1, Len(after))
          = SubSeq(before, (2 * loc + 2 * len) + 1, Len(before))
    <3>1. PICK j \in Nat, k \in Nat : j = 2 * loc + 2 * n /\ k = 2 * loc + 2 * len
      BY <1>3
    <3>2. Len(after) = j + room /\ Len(before) = k + room /\ room \in Nat
      BY <2>2, <3>1
    <3>3. \A i \in 1 .. room : after[j + i] = before[k + i]
      BY <2>1, <3>1
    <3>4. SubSeq(after, j + 1, Len(after)) = SubSeq(before, k + 1, Len(before))
      <4>1. PICK p \in Seq(Halves), q \in Seq(Halves), c \in Nat : p = after /\ q = before /\ c = room
        BY <2>4, <3>2
      <4>2. EndAlike(p, j, q, k, c)
        BY <3>2, <3>3, <4>1 DEF EndAlike
      <4>3. SubSeq(p, j + 1, Len(p)) = SubSeq(q, k + 1, Len(q))
        BY <4>2, SameEnds
      <4> QED BY <4>1, <4>3, Zenon
    <3> QED BY <3>1, <3>4, Zenon
  <2> QED BY <2>3
<1> QED BY <1>10, <1>11, <1>12, <1>13 DEF before, after

(* Of the edits of texts without two-unit characters the parser is told    *)
(* what they do to its bytes (TextStorageHelper.swift, didProcessEditing): *)
(* the view's text and the document's may differ, and still the lengths,   *)
(* the bytes before the edit and the bytes behind it are as announced.     *)
THEOREM EditsAreToldAsMade == Spec => TellsEditsAsMade
<1>1. IInv /\ [Next]_vars
        => [(~ trapped' /\ \A i \in DOMAIN string' : Len(string'[i]) = 1) =>
              LET before == Body(data)
                  after  == Body(data')
              IN  /\ Len(after) = Len(before) - told'.removed + told'.added
                  /\ SubSeq(after, 1, told'.start) = SubSeq(before, 1, told'.start)
                  /\ SubSeq(after, told'.start + told'.added + 1, Len(after))
                       = SubSeq(before, told'.start + told'.removed + 1, Len(before))]_vars
  BY StepTellsTheEdit
<1> QED BY <1>1, InvariantHolds, PTL DEF Spec, TellsEditsAsMade
=============================================================================
