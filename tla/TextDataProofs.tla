--------------------------- MODULE TextDataProofs ---------------------------
(***************************************************************************)
(* For texts and replacement strings of every length: the byte edit of     *)
(* TextData is the splice of TextBuffer.                                   *)
(***************************************************************************)
EXTENDS TextData, SequenceTheorems, TLAPS

-----------------------------------------------------------------------------
(* The bytes that occur while an edit is under way: those of a text, and   *)
(* the zeros the data is grown with.                                       *)
Cell == (Unit \cup {BOM, NUL}) \X {0, 1}

(* The length of an encoding, and the bytes it consists of.                *)
LEMMA EncodeShape ==
  ASSUME NEW s \in Seq(Unit)
  PROVE  /\ Encode(s) \in Seq(Cell)
         /\ Len(Encode(s)) = 2 * Len(s) + 2
         /\ \A i \in 1 .. 2 * Len(s) + 2 : Encode(s)[i] = <<UnitAt(s, i), i % 2>>
<1>1. \A i \in 1 .. 2 * Len(s) + 2 : UnitAt(s, i) \in Unit \cup {BOM, NUL}
  BY DEF UnitAt, Padding
<1>2. \A i \in 1 .. 2 * Len(s) + 2 : i % 2 \in {0, 1}
  OBVIOUS
<1> QED
  BY <1>1, <1>2 DEF Encode, Padding, Cell

LEMMA EncodeBytes ==
  ASSUME NEW s \in Seq(Unit)
  PROVE  Encode(s) \in Seq(Byte)
<1>1. \A i \in 1 .. 2 * Len(s) + 2 : UnitAt(s, i) \in Unit \cup {BOM}
  BY DEF UnitAt, Padding
<1>2. \A i \in 1 .. 2 * Len(s) + 2 : i % 2 \in {0, 1}
  OBVIOUS
<1> QED
  BY <1>1, <1>2 DEF Encode, Padding, Byte

(* Decoding takes an encoding back to the text.                            *)
LEMMA DecodeEncode ==
  ASSUME NEW s \in Seq(Unit)
  PROVE  Decode(Encode(s)) = s
<1>1. Len(Encode(s)) = 2 * Len(s) + 2
  BY EncodeShape
<1>2. (Len(Encode(s)) - Padding) \div 2 = Len(s)
  BY <1>1 DEF Padding
<1>3. ASSUME NEW i \in 1 .. Len(s)
      PROVE  Encode(s)[2 * i + 1][1] = s[i]
  <2>1. 2 * i + 1 \in 1 .. 2 * Len(s) + 2 /\ ~ (2 * i + 1 <= 2)
    OBVIOUS
  <2>2. ((2 * i + 1) - 1) \div 2 = i
    OBVIOUS
  <2>3. Encode(s)[2 * i + 1] = <<UnitAt(s, 2 * i + 1), (2 * i + 1) % 2>>
    BY <2>1, EncodeShape
  <2>4. UnitAt(s, 2 * i + 1) = s[i]
    BY <2>1, <2>2 DEF UnitAt, Padding
  <2> QED
    BY <2>3, <2>4
<1>4. Decode(Encode(s)) = [i \in 1 .. Len(s) |-> s[i]]
  BY <1>2, <1>3 DEF Decode
<1> QED
  BY <1>4

-----------------------------------------------------------------------------
(* r is d with its elements lo ..< hi replaced by x, element by element.   *)
Replaced(r, S, d, lo, hi, x) ==
  /\ r \in Seq(S)
  /\ Len(r) = Len(d) - (hi - lo) + Len(x)
  /\ \A i \in 1 .. Len(d) - (hi - lo) + Len(x) :
       r[i] = IF i <= lo THEN d[i]
              ELSE IF i <= lo + Len(x) THEN x[i - lo]
              ELSE d[i - Len(x) + (hi - lo)]

(* r is d with everything behind upper moved by delta.                     *)
TailMoved(r, d, upper, delta) ==
  /\ r \in Seq(Cell)
  /\ Len(r) = Len(d) + delta
  /\ \A i \in 1 .. Len(d) + delta :
       /\ i <= upper /\ i <= upper + delta => r[i] = d[i]
       /\ i > upper + delta => r[i] = d[i - delta]

(* What replaceSubrange(lo ..< hi, with: x) returns.                       *)
LEMMA ReplaceSubrangeShape ==
  ASSUME NEW S, NEW d \in Seq(S), NEW x \in Seq(S),
         NEW lo \in Nat, NEW hi \in Nat, lo <= hi, hi <= Len(d)
  PROVE  Replaced(ReplaceSubrange(d, lo, hi, x), S, d, lo, hi, x)
<1> DEFINE front == SubSeq(d, 1, lo)
           back  == SubSeq(d, hi + 1, Len(d))
<1>1. Len(d) \in Nat /\ Len(x) \in Nat
  OBVIOUS
<1>2. /\ front \in Seq(S)
      /\ Len(front) = lo
      /\ \A i \in 1 .. lo : front[i] = d[i]
  <2>1. \A i \in 1 .. lo : d[i] \in S
    BY <1>1
  <2> QED
    BY <1>1, <2>1, SubSeqProperties
<1>3. /\ back \in Seq(S)
      /\ Len(back) = Len(d) - hi
      /\ \A i \in 1 .. Len(d) - hi : back[i] = d[hi + i]
  <2>1. \A i \in hi + 1 .. Len(d) : d[i] \in S
    BY <1>1
  <2> QED
    BY <1>1, <2>1, SubSeqProperties
<1> HIDE DEF front, back
<1>4. /\ front \o x \in Seq(S)
      /\ Len(front \o x) = lo + Len(x)
      /\ \A i \in 1 .. lo + Len(x) :
            (front \o x)[i] = IF i <= lo THEN d[i] ELSE x[i - lo]
  BY <1>1, <1>2, ConcatProperties
<1>5. PICK head \in Seq(S) : head = front \o x
  BY <1>4
<1>6. /\ head \o back \in Seq(S)
      /\ Len(head \o back) = Len(head) + Len(back)
      /\ \A i \in 1 .. Len(head) + Len(back) :
            (head \o back)[i] = IF i <= Len(head) THEN head[i] ELSE back[i - Len(head)]
  BY ONLY head \in Seq(S), <1>3, ConcatProperties
<1>7. /\ ReplaceSubrange(d, lo, hi, x) = head \o back
      /\ Len(head) = lo + Len(x)
      /\ Len(head) + Len(back) = Len(d) - (hi - lo) + Len(x)
  <2>1. ReplaceSubrange(d, lo, hi, x) = head \o back
    BY <1>5 DEF ReplaceSubrange, front, back
  <2>2. Len(head) = lo + Len(x)
    BY <1>4, <1>5
  <2>3. Len(head) + Len(back) = Len(d) - (hi - lo) + Len(x)
    BY <1>1, <1>3, <2>2
  <2> QED
    BY <2>1, <2>2, <2>3
<1>8. ASSUME NEW i \in 1 .. Len(d) - (hi - lo) + Len(x)
      PROVE  ReplaceSubrange(d, lo, hi, x)[i] =
                IF i <= lo THEN d[i]
                ELSE IF i <= lo + Len(x) THEN x[i - lo]
                ELSE d[i - Len(x) + (hi - lo)]
  <2>1. CASE i <= lo + Len(x)
    <3>1. (head \o back)[i] = head[i]
      BY <1>1, <1>6, <1>7, <2>1
    <3>2. head[i] = IF i <= lo THEN d[i] ELSE x[i - lo]
      BY <1>1, <1>4, <1>5, <2>1
    <3> QED
      BY <1>7, <2>1, <3>1, <3>2
  <2>2. CASE ~ (i <= lo + Len(x))
    <3>1. i - (lo + Len(x)) \in 1 .. Len(d) - hi
      BY <1>1, <2>2
    <3>2. back[i - (lo + Len(x))] = d[hi + (i - (lo + Len(x)))]
      BY <3>1, <1>3
    <3>3. hi + (i - (lo + Len(x))) = i - Len(x) + (hi - lo)
      BY <1>1
    <3>4. (head \o back)[i] = back[i - (lo + Len(x))]
      BY <1>1, <1>6, <1>7, <2>2
    <3>5. ~ (i <= lo)
      BY <1>1, <2>2
    <3> QED
      BY <1>7, <2>2, <3>2, <3>3, <3>4, <3>5
  <2> QED
    BY <2>1, <2>2
<1> QED
  BY <1>6, <1>7, <1>8 DEF Replaced

(* The client's splice is replaceSubrange on code units.                   *)
LEMMA SpliceIsReplaceSubrange ==
  ASSUME NEW s, NEW loc \in Nat, NEW len \in Nat, NEW str
  PROVE  Buffer!Splice(s, loc, len, str) = ReplaceSubrange(s, loc, loc + len, str)
BY DEF Buffer!Splice, ReplaceSubrange

(* Shifting the tail keeps the bytes in front of it and moves the others.  *)
LEMMA ShiftTailShape ==
  ASSUME NEW d \in Seq(Cell), NEW upper \in Nat, upper <= Len(d),
         NEW delta \in Int, upper + delta \in Nat
  PROVE  TailMoved(ShiftTail(d, upper, delta), d, upper, delta)
<1> DEFINE tail  == SubSeq(d, upper + 1, Len(d))
           grown == IF delta > 0 THEN d \o Zeros(delta) ELSE d
<1>1. Len(d) \in Nat
  OBVIOUS
<1>2. /\ tail \in Seq(Cell)
      /\ Len(tail) = Len(d) - upper
      /\ \A i \in 1 .. Len(d) - upper : tail[i] = d[upper + i]
  <2>1. \A i \in upper + 1 .. Len(d) : d[i] \in Cell
    BY <1>1
  <2> QED
    BY <1>1, <2>1, SubSeqProperties
<1>3. /\ grown \in Seq(Cell)
      /\ Len(grown) = IF delta > 0 THEN Len(d) + delta ELSE Len(d)
      /\ \A i \in 1 .. Len(d) : grown[i] = d[i]
  <2> HIDE DEF grown
  <2>1. CASE delta > 0
    <3>1. \A i \in 1 .. delta : i % 2 \in {0, 1}
      BY <2>1
    <3>2. Zeros(delta) \in Seq(Cell) /\ Len(Zeros(delta)) = delta
      BY <2>1, <3>1 DEF Zeros, Cell
    <3>3. grown = d \o Zeros(delta)
      BY <2>1 DEF grown
    <3>4. PICK z \in Seq(Cell) : z = Zeros(delta) /\ Len(z) = delta
      BY <3>2
    <3>5. /\ d \o z \in Seq(Cell)
          /\ Len(d \o z) = Len(d) + Len(z)
          /\ \A i \in 1 .. Len(d) + Len(z) :
               (d \o z)[i] = IF i <= Len(d) THEN d[i] ELSE z[i - Len(d)]
      BY ONLY d \in Seq(Cell), z \in Seq(Cell), ConcatProperties
    <3>6. \A i \in 1 .. Len(d) : (d \o z)[i] = d[i]
      BY <1>1, <2>1, <3>4, <3>5
    <3> QED
      BY <2>1, <3>3, <3>4, <3>5, <3>6
  <2>2. CASE ~ (delta > 0)
    <3>1. grown = d
      BY <2>2 DEF grown
    <3> QED
      BY <1>1, <2>2, <3>1
  <2> QED
    BY <2>1, <2>2
<1> HIDE DEF tail, grown
<1>4. upper + delta <= Len(grown) /\ Len(grown) \in Nat
  BY <1>1, <1>3
<1>5. ShiftTail(d, upper, delta) = ReplaceSubrange(grown, upper + delta, Len(grown), tail)
  BY DEF ShiftTail, Subdata, tail, grown
<1>6. PICK g \in Nat, k \in Nat : g = Len(grown) /\ k = upper + delta
  BY <1>4
<1> DEFINE shifted == ReplaceSubrange(grown, k, g, tail)
<1>7. /\ shifted \in Seq(Cell)
      /\ Len(shifted) = Len(d) + delta
      /\ \A i \in 1 .. Len(d) + delta :
           shifted[i] = IF i <= k THEN grown[i] ELSE tail[i - k]
  <2>1. g - (g - k) + Len(tail) = k + Len(tail) /\ k + Len(tail) = Len(d) + delta
    BY <1>1, <1>2, <1>6
  <2>2. grown \in Seq(Cell) /\ tail \in Seq(Cell) /\ k <= g /\ g <= Len(grown) /\ g = Len(grown)
    BY <1>2, <1>3, <1>4, <1>6
  <2>3. Replaced(shifted, Cell, grown, k, g, tail)
    BY <2>2, ReplaceSubrangeShape
  <2> HIDE DEF shifted
  <2>4. ASSUME NEW i \in 1 .. Len(d) + delta
        PROVE  shifted[i] = IF i <= k THEN grown[i] ELSE tail[i - k]
    BY <2>1, <2>2, <2>3 DEF Replaced
  <2> QED
    <3>1. shifted \in Seq(Cell) /\ Len(shifted) = Len(d) + delta
      BY ONLY <2>1, <2>2, <2>3 DEF Replaced
    <3> QED
      BY <2>4, <3>1
<1> HIDE DEF shifted
<1>8. ASSUME NEW i \in 1 .. Len(d) + delta
      PROVE  /\ i <= upper /\ i <= upper + delta => shifted[i] = d[i]
             /\ i > upper + delta => shifted[i] = d[i - delta]
  <2>1. CASE i <= upper /\ i <= upper + delta
    BY <1>1, <1>3, <1>6, <1>7, <2>1
  <2>2. CASE i > upper + delta
    <3>1. i - (upper + delta) \in 1 .. Len(d) - upper
      BY <1>1, <2>2
    <3>2. tail[i - (upper + delta)] = d[upper + (i - (upper + delta))]
      BY <3>1, <1>2
    <3>3. upper + (i - (upper + delta)) = i - delta
      BY <1>1
    <3>4. shifted[i] = tail[i - (upper + delta)]
      BY <1>1, <1>6, <1>7, <2>2
    <3> QED
      BY <2>2, <3>2, <3>3, <3>4
  <2> QED
    BY <2>1, <2>2
<1> QED
  BY <1>5, <1>6, <1>7, <1>8 DEF shifted, TailMoved

-----------------------------------------------------------------------------
(* A shift by whole code units keeps the byte's place in its unit.         *)
LEMMA ShiftParity ==
  ASSUME NEW i \in Int, NEW m \in Int
  PROVE  /\ (i - 2 * m) % 2 = i % 2
         /\ ((i - 2 * m) - 1) \div 2 = (i - 1) \div 2 - m
OBVIOUS

(* The byte edit of Data.replaceCharactersInRange is the splice on code    *)
(* units: for every text, every range inside it and every replacement      *)
(* string it returns the encoding of the text with that range replaced.    *)
THEOREM ReplaceIsSplice ==
  ASSUME NEW s \in Seq(Unit), NEW str \in Seq(Unit),
         NEW loc \in Nat, NEW len \in Nat, loc + len <= Len(s)
  PROVE  /\ Buffer!Splice(s, loc, len, str) \in Seq(Unit)
         /\ ReplaceCharactersInRange(Encode(s), loc, len, str)
              = Encode(Buffer!Splice(s, loc, len, str))
<1> DEFINE E     == Encode(s)
           lower == loc * 2 + Padding
           upper == lower + len * 2
           R     == SubSeq(Encode(str), Padding + 1, Len(Encode(str)))
           delta == Len(R) - (upper - lower)
           T     == ReplaceSubrange(s, loc, loc + len, str)
           moved == ShiftTail(E, upper, delta)
           res   == ReplaceSubrange(moved, lower, lower + Len(R), R)
<1>1. Len(s) \in Nat /\ Len(str) \in Nat
  OBVIOUS
<1>2. /\ R \in Seq(Cell)
      /\ Len(R) = 2 * Len(str)
      /\ \A i \in 1 .. 2 * Len(str) : R[i] = <<str[(i + 1) \div 2], i % 2>>
  <2>1. /\ Encode(str) \in Seq(Cell)
        /\ Len(Encode(str)) = 2 * Len(str) + 2
        /\ \A i \in 1 .. 2 * Len(str) + 2 : Encode(str)[i] = <<UnitAt(str, i), i % 2>>
    BY EncodeShape
  <2>2. \A i \in 3 .. 2 * Len(str) + 2 : Encode(str)[i] \in Cell
    BY <1>1, <2>1
  <2>3. /\ R \in Seq(Cell)
        /\ Len(R) = 2 * Len(str)
        /\ \A i \in 1 .. 2 * Len(str) : R[i] = Encode(str)[3 + i - 1]
    BY <1>1, <2>1, <2>2, SubSeqProperties DEF Padding
  <2>4. ASSUME NEW i \in 1 .. 2 * Len(str)
        PROVE  R[i] = <<str[(i + 1) \div 2], i % 2>>
    <3>1. /\ 3 + i - 1 = i + 2
          /\ i + 2 \in 1 .. 2 * Len(str) + 2
          /\ ~ (i + 2 <= 2)
          /\ ((i + 2) - 1) \div 2 = (i + 1) \div 2
          /\ (i + 2) % 2 = i % 2
      BY <1>1
    <3>2. R[i] = <<UnitAt(str, i + 2), (i + 2) % 2>>
      BY <2>1, <2>3, <3>1
    <3>3. UnitAt(str, i + 2) = str[(i + 1) \div 2]
      BY <3>1 DEF UnitAt, Padding
    <3> QED
      BY <3>1, <3>2, <3>3
  <2> QED
    BY <2>3, <2>4
<1>3. /\ E \in Seq(Cell)
      /\ Len(E) = 2 * Len(s) + 2
      /\ \A i \in 1 .. 2 * Len(s) + 2 : E[i] = <<UnitAt(s, i), i % 2>>
  BY EncodeShape
<1>4. /\ lower = 2 * loc + 2
      /\ upper = 2 * (loc + len) + 2
      /\ delta = 2 * Len(str) - 2 * len
  <2> HIDE DEF R, E
  <2> QED
    BY <1>1, <1>2 DEF Padding
<1>5. Replaced(T, Unit, s, loc, loc + len, str)
  <2>1. /\ loc + len \in Nat /\ loc <= loc + len
    OBVIOUS
  <2> QED
    BY ONLY <2>1, s \in Seq(Unit), str \in Seq(Unit), loc \in Nat, loc + len <= Len(s),
       ReplaceSubrangeShape
<1>6. ReplaceCharactersInRange(E, loc, len, str) = res
  BY DEF ReplaceCharactersInRange, Subdata
<1> HIDE DEF E, lower, upper, R, delta, T
<1>7. /\ lower \in Nat /\ upper \in Nat /\ delta \in Int
      /\ upper + delta = lower + Len(R)
      /\ lower + Len(R) \in Nat
      /\ upper <= Len(E)
      /\ lower <= lower + Len(R)
      /\ lower + Len(R) <= Len(E) + delta
  BY <1>1, <1>2, <1>3, <1>4
<1>8. /\ TailMoved(moved, E, upper, delta)
      /\ Replaced(res, Cell, moved, lower, lower + Len(R), R)
  <2>1. upper + delta \in Nat
    BY <1>7
  <2>2. TailMoved(moved, E, upper, delta)
    BY <1>3, <1>7, <2>1, ShiftTailShape
  <2>3. moved \in Seq(Cell) /\ Len(moved) = Len(E) + delta
    BY <2>2 DEF TailMoved
  <2> HIDE DEF moved
  <2>4. lower + Len(R) <= Len(moved)
    BY <1>7, <2>3
  <2>5. R \in Seq(Cell)
    BY <1>2
  <2>6. Replaced(res, Cell, moved, lower, lower + Len(R), R)
    BY <1>7, <2>3, <2>4, <2>5, ReplaceSubrangeShape
  <2> QED
    BY <2>2, <2>6
<1> HIDE DEF moved, res
<1>9. /\ res \in Seq(Cell)
      /\ Len(res) = 2 * (Len(s) - len + Len(str)) + 2
      /\ Len(res) = Len(moved)
      /\ Len(res) = Len(E) + delta
      /\ T \in Seq(Unit)
      /\ Len(T) = Len(s) - len + Len(str)
      /\ Encode(T) \in Seq(Cell) /\ Len(Encode(T)) = Len(res)
  <2>1. T \in Seq(Unit) /\ Len(T) = Len(s) - len + Len(str)
    BY <1>1, <1>5 DEF Replaced
  <2>2. Encode(T) \in Seq(Cell) /\ Len(Encode(T)) = 2 * Len(T) + 2
    BY <2>1, EncodeShape
  <2>3. Len(moved) = Len(E) + delta
    BY <1>8 DEF TailMoved
  <2>4. res \in Seq(Cell) /\ Len(res) = Len(moved) - ((lower + Len(R)) - lower) + Len(R)
    BY <1>8 DEF Replaced
  <2>5. Len(res) = Len(moved)
    BY <1>1, <1>2, <1>3, <1>4, <1>7, <2>3, <2>4
  <2>6. Len(res) = 2 * (Len(s) - len + Len(str)) + 2
    BY <1>1, <1>3, <1>4, <2>3, <2>5
  <2> QED
    BY <2>1, <2>2, <2>3, <2>4, <2>5, <2>6
<1>A. ASSUME NEW i \in 1 .. Len(res)
      PROVE  /\ i <= lower => res[i] = E[i]
             /\ ~ (i <= lower) /\ i <= lower + Len(R) => res[i] = R[i - lower]
             /\ i > lower + Len(R) => res[i] = E[i - delta]
  <2>1. /\ i \in 1 .. Len(E) + delta
        /\ i \in 1 .. Len(moved) - ((lower + Len(R)) - lower) + Len(R)
        /\ i - Len(R) + ((lower + Len(R)) - lower) = i
    BY <1>1, <1>2, <1>3, <1>4, <1>7, <1>9
  <2>2. /\ i <= upper /\ i <= upper + delta => moved[i] = E[i]
        /\ i > upper + delta => moved[i] = E[i - delta]
    BY <1>8, <2>1 DEF TailMoved
  <2>3. res[i] = IF i <= lower THEN moved[i]
                 ELSE IF i <= lower + Len(R) THEN R[i - lower]
                 ELSE moved[i]
    BY <1>8, <2>1 DEF Replaced
  <2>4. i <= lower => i <= upper /\ i <= upper + delta
    BY <1>1, <1>2, <1>4
  <2>5. i > lower + Len(R) => i > upper + delta /\ ~ (i <= lower) /\ ~ (i <= lower + Len(R))
    BY <1>1, <1>2, <1>4, <1>7
  <2> QED
    BY <2>2, <2>3, <2>4, <2>5
<1>B. ASSUME NEW j \in 1 .. Len(s) - len + Len(str)
      PROVE  /\ j <= loc => T[j] = s[j]
             /\ ~ (j <= loc) /\ j <= loc + Len(str) => T[j] = str[j - loc]
             /\ j > loc + Len(str) => T[j] = s[j - Len(str) + len]
  <2>1. (loc + len) - loc = len
    OBVIOUS
  <2>2. T[j] = IF j <= loc THEN s[j]
               ELSE IF j <= loc + Len(str) THEN str[j - loc]
               ELSE s[j - Len(str) + len]
    BY <1>5, <2>1 DEF Replaced
  <2>3. j > loc + Len(str) => ~ (j <= loc) /\ ~ (j <= loc + Len(str))
    BY <1>1
  <2> QED
    BY <2>2, <2>3
<1>10. ASSUME NEW i \in 1 .. Len(res)
       PROVE  res[i] = Encode(T)[i]
  <2>1. PICK q \in Int : q = (i - 1) \div 2
    BY <1>1, <1>9
  <2>2. Encode(T)[i] = <<UnitAt(T, i), i % 2>>
    BY <1>1, <1>9, EncodeShape
  <2>3. UnitAt(T, i) = IF i <= 2 THEN BOM ELSE T[q]
    BY <2>1 DEF UnitAt, Padding
  <2>4. CASE i <= lower
    <3>1. res[i] = <<UnitAt(s, i), i % 2>>
      <4>1. i \in 1 .. 2 * Len(s) + 2
        BY <1>1, <1>4, <1>9, <2>4
      <4> QED
        BY <1>3, <1>A, <2>4, <4>1
    <3>2. CASE i <= 2
      BY <2>2, <2>3, <3>1, <3>2 DEF UnitAt, Padding
    <3>3. CASE ~ (i <= 2)
      <4>1. q \in 1 .. Len(s) - len + Len(str) /\ q <= loc
        BY <1>1, <1>4, <1>9, <2>1, <2>4, <3>3
      <4>2. T[q] = s[q]
        BY <4>1, <1>B
      <4>3. UnitAt(s, i) = s[q]
        BY <2>1, <3>3 DEF UnitAt, Padding
      <4> QED
        BY <2>2, <2>3, <3>1, <3>3, <4>2, <4>3
    <3> QED
      BY <3>2, <3>3
  <2>5. CASE ~ (i <= lower) /\ i <= lower + Len(R)
    <3>1. /\ i - lower \in 1 .. 2 * Len(str)
          /\ ~ (i <= 2)
          /\ (i - lower) % 2 = i % 2
          /\ ((i - lower) + 1) \div 2 = q - loc
          /\ q \in 1 .. Len(s) - len + Len(str)
          /\ ~ (q <= loc) /\ q <= loc + Len(str)
      BY <1>1, <1>2, <1>4, <1>9, <2>1, <2>5, SMTT(30)
    <3>2. res[i] = <<str[q - loc], i % 2>>
      BY <1>2, <1>A, <2>5, <3>1
    <3>3. T[q] = str[q - loc]
      BY <1>B, <3>1
    <3> QED
      BY <2>2, <2>3, <3>1, <3>2, <3>3
  <2>6. CASE i > lower + Len(R)
    <3>1. /\ i - delta \in 1 .. 2 * Len(s) + 2
          /\ ~ (i - delta <= 2)
          /\ ~ (i <= 2)
      BY <1>1, <1>2, <1>4, <1>9, <2>6, SMTT(30)
    <3>2. /\ (i - delta) % 2 = i % 2
          /\ ((i - delta) - 1) \div 2 = q - Len(str) + len
      <4>1. PICK m \in Int : m = Len(str) - len /\ delta = 2 * m
        BY <1>1, <1>4
      <4>2. /\ (i - 2 * m) % 2 = i % 2
            /\ ((i - 2 * m) - 1) \div 2 = q - m
        <5>1. i \in Int
          BY <1>1, <1>9
        <5> QED
          BY <2>1, <4>1, <5>1, ShiftParity
      <4> QED
        BY <1>1, <2>1, <4>1, <4>2
    <3>3. q \in 1 .. Len(s) - len + Len(str) /\ q > loc + Len(str)
      BY <1>1, <1>2, <1>4, <1>9, <2>1, <2>6, SMTT(30)
    <3>4. res[i] = <<UnitAt(s, i - delta), i % 2>>
      BY <1>3, <1>A, <2>6, <3>1, <3>2
    <3>5. UnitAt(s, i - delta) = s[q - Len(str) + len]
      BY <3>1, <3>2 DEF UnitAt, Padding
    <3>6. T[q] = s[q - Len(str) + len]
      BY <1>B, <3>3
    <3> QED
      BY <2>2, <2>3, <3>1, <3>4, <3>5, <3>6
  <2> QED
    BY <1>1, <1>2, <1>7, <1>9, <2>4, <2>5, <2>6
<1>11. res = Encode(T)
  BY <1>9, <1>10, SeqEqual
<1>12. Buffer!Splice(s, loc, len, str) = T
  BY SpliceIsReplaceSubrange DEF T
<1> QED
  BY <1>6, <1>9, <1>11, <1>12 DEF E

-----------------------------------------------------------------------------
(* The inductive invariant: the data encodes some text.  It says more than *)
(* TypeOK, which does not know that bytes come in pairs.                   *)
EncodesText == \E s \in Seq(Unit) : data = Encode(s)

LEMMA InitEncodesText == Init => EncodesText
BY TextDataAssumption DEF Init, EncodesText

(* One edit of an encoded text: its range lies in the text, and the data   *)
(* encodes the spliced text afterwards.                                    *)
LEMMA ReplaceStep ==
  ASSUME NEW s \in Seq(Unit), data = Encode(s),
         NEW loc \in 0 .. MaxUnits, NEW len \in 0 .. MaxUnits,
         NEW str \in Strings, Replace(loc, len, str)
  PROVE  /\ loc + len <= Len(s)
         /\ Buffer!Splice(s, loc, len, str) \in Seq(Unit)
         /\ data' = Encode(Buffer!Splice(s, loc, len, str))
<1>1. loc \in Nat /\ len \in Nat /\ str \in Seq(Unit)
  BY TextDataAssumption
<1>2. loc + len <= Len(s)
  <2>1. loc * 2 + 2 + len * 2 <= 2 * Len(s) + 2
    BY EncodeShape DEF Replace, InBounds, Padding
  <2> QED
    BY <1>1, <2>1
<1>3. data' = ReplaceCharactersInRange(Encode(s), loc, len, str)
  BY DEF Replace
<1> QED
  BY <1>1, <1>2, <1>3, ReplaceIsSplice

LEMMA ReplaceIsAbstractReplace ==
  ASSUME NEW s \in Seq(Unit), data = Encode(s),
         NEW loc \in 0 .. MaxUnits, NEW len \in 0 .. MaxUnits,
         NEW str \in Strings, Replace(loc, len, str)
  PROVE  Buffer!Replace(loc, len, str)
<1>1. /\ Decode(data) = s
      /\ Decode(data') = Buffer!Splice(s, loc, len, str)
      /\ loc + len <= Len(s)
  BY ReplaceStep, DecodeEncode
<1> QED
  BY <1>1 DEF Buffer!Replace, Buffer!InText

LEMMA NextEncodesText == EncodesText /\ [Next]_data => EncodesText'
<1> SUFFICES ASSUME EncodesText, [Next]_data
             PROVE  EncodesText'
  OBVIOUS
<1>1. CASE Next
  <2>1. PICK s \in Seq(Unit) : data = Encode(s)
    BY DEF EncodesText
  <2>2. PICK loc \in 0 .. MaxUnits, len \in 0 .. MaxUnits, str \in Strings :
          Replace(loc, len, str)
    BY <1>1 DEF Next
  <2> QED
    BY <2>1, <2>2, ReplaceStep DEF EncodesText
<1>2. CASE UNCHANGED data
  BY <1>2 DEF EncodesText
<1> QED
  BY <1>1, <1>2

(* After every sequence of edits the data consists of bytes of the text    *)
(* and the order mark: nothing is left of the zeros it was grown with.     *)
THEOREM TypeCorrect == Spec => []TypeOK
<1>1. EncodesText => TypeOK
  BY EncodeBytes DEF EncodesText, TypeOK
<1> QED
  BY <1>1, InitEncodesText, NextEncodesText, PTL DEF Spec

(* After every sequence of edits, of texts of every length, the data is    *)
(* the encoding of a text: no edit tears a code unit or leaves a byte of   *)
(* the grown area behind.                                                  *)
THEOREM AlwaysWellFormed == Spec => []WellFormed
<1>1. EncodesText => WellFormed
  BY DecodeEncode DEF EncodesText, WellFormed
<1> QED
  BY <1>1, InitEncodesText, NextEncodesText, PTL DEF Spec

(* Whenever a client replaces a range, exactly that range of the text is   *)
(* replaced: the edit is the abstract Replace with the same arguments.     *)
THEOREM EditsSplice == Spec => EditsAreSplices
<1>1. EncodesText /\ [Next]_data =>
        [\A loc, len \in 0 .. MaxUnits, str \in Strings :
           Replace(loc, len, str) => Buffer!Replace(loc, len, str)]_data
  <2> SUFFICES ASSUME EncodesText,
                      NEW loc \in 0 .. MaxUnits, NEW len \in 0 .. MaxUnits,
                      NEW str \in Strings, Replace(loc, len, str)
               PROVE  Buffer!Replace(loc, len, str)
    OBVIOUS
  <2>1. PICK s \in Seq(Unit) : data = Encode(s)
    BY DEF EncodesText
  <2> QED
    BY <2>1, ReplaceIsAbstractReplace
<1> QED
  BY <1>1, InitEncodesText, NextEncodesText, PTL DEF Spec, EditsAreSplices

(* Seen through Decode, the byte buffer implements the abstract text       *)
(* buffer: it starts as a client's string, and every byte edit is one      *)
(* splice of the text.                                                     *)
THEOREM ImplementsTextBuffer == Spec => RefinesTextBuffer
<1>1. Init => Buffer!Init
  BY TextDataAssumption, DecodeEncode DEF Init, Buffer!Init
<1>2. EncodesText /\ [Next]_data => [Buffer!Next]_(Decode(data))
  <2> SUFFICES ASSUME EncodesText, [Next]_data
               PROVE  Buffer!Next \/ UNCHANGED Decode(data)
    OBVIOUS
  <2>1. CASE Next
    <3>1. PICK s \in Seq(Unit) : data = Encode(s)
      BY DEF EncodesText
    <3>2. PICK loc \in 0 .. MaxUnits, len \in 0 .. MaxUnits, str \in Strings :
            Replace(loc, len, str)
      BY <2>1 DEF Next
    <3>3. Buffer!Replace(loc, len, str)
      BY <3>1, <3>2, ReplaceIsAbstractReplace
    <3>4. loc \in 0 .. Len(Decode(data)) /\ len \in 0 .. Len(Decode(data))
      BY <3>1, <3>2, ReplaceStep, DecodeEncode
    <3> QED
      BY <3>3, <3>4 DEF Buffer!Next
  <2>2. CASE UNCHANGED data
    BY <2>2
  <2> QED
    BY <2>1, <2>2
<1> QED
  BY <1>1, <1>2, InitEncodesText, NextEncodesText, PTL
  DEF Spec, RefinesTextBuffer, Buffer!Spec
=============================================================================
