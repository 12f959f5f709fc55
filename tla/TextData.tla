------------------------------ MODULE TextData ------------------------------
(***************************************************************************)
(* Input.data: the text of a document as the bytes of a Foundation Data,   *)
(* in UTF-16 with a two-byte order mark in front, and the in-place edit    *)
(* Data.replaceCharactersInRange (Extensions.swift) that every text change *)
(* goes through.  The edit works on bytes: it shifts the tail of the data  *)
(* first and overwrites the replaced range second.                         *)
(*                                                                         *)
(* A byte is a pair <<u, k>>: byte k of code unit u.  That is all the      *)
(* properties need to tell an intact code unit from a torn one.            *)
(***************************************************************************)
EXTENDS Integers, Sequences

CONSTANTS Unit,        \* UTF-16 code units
          Strings,     \* the replacement strings clients pass
          BOM,         \* the byte order mark
          NUL,         \* the zero bytes the data is grown with
          MaxUnits     \* bound: the longest text explored

ASSUME TextDataAssumption ==
  /\ BOM \notin Unit
  /\ NUL \notin Unit
  /\ Strings \subseteq Seq(Unit)
  /\ MaxUnits \in Nat

VARIABLE data          \* Input.data, a sequence of bytes

-----------------------------------------------------------------------------
(* String.data(using: .utf16): the byte order mark, then two bytes a unit. *)
Padding == 2

UnitAt(s, i) == IF i <= Padding THEN BOM ELSE s[(i - 1) \div 2]

Encode(s) == [i \in 1 .. 2 * Len(s) + Padding |-> <<UnitAt(s, i), i % 2>>]

(* String(data:encoding: .utf16): one unit for every pair of bytes.        *)
Decode(d) == [i \in 1 .. (Len(d) - Padding) \div 2 |-> d[2 * i + 1][1]]

(* Foundation's Data, with Swift's 0-based half-open ranges.               *)
Subdata(d, lo, hi) == SubSeq(d, lo + 1, hi)

ReplaceSubrange(d, lo, hi, x) == SubSeq(d, 1, lo) \o x \o SubSeq(d, hi + 1, Len(d))

Zeros(n) == [i \in 1 .. n |-> <<NUL, i % 2>>]

(* Mutants of ShiftTail: the tail stays where it is; the data is grown by  *)
(* a byte too many and never cut behind the shifted tail.                  *)
TailStays(d, upper, delta) == d
TailNotCut(d, upper, delta) ==
  LET tail  == Subdata(d, upper, Len(d))
      grown == IF delta > 0 THEN d \o Zeros(delta + 1) ELSE d
  IN  ReplaceSubrange(grown, upper + delta, upper + delta + Len(tail), tail)

(* Moves the bytes from upper on by delta, after growing the data if they  *)
(* move to the right.                                                      *)
ShiftTail(d, upper, delta) ==
  LET tail  == Subdata(d, upper, Len(d))
      grown == IF delta > 0 THEN d \o Zeros(delta) ELSE d
  IN  ReplaceSubrange(grown, upper + delta, Len(grown), tail)

(* Data.replaceCharactersInRange(range, replacementText): the tail is      *)
(* shifted first, then the replacement overwrites the range.               *)
ReplaceCharactersInRange(d, loc, len, str) ==
  LET lower       == loc * 2 + Padding
      upper       == lower + len * 2
      utf16       == Encode(str)
      replacement == Subdata(utf16, Padding, Len(utf16))
      delta       == Len(replacement) - (upper - lower)
  IN  ReplaceSubrange(ShiftTail(d, upper, delta),
                      lower, lower + Len(replacement), replacement)

(* Forming the range upper ..< endIndex traps when the edited range ends   *)
(* beyond the data.                                                        *)
InBounds(d, loc, len) == loc * 2 + Padding + len * 2 <= Len(d)

-----------------------------------------------------------------------------
Init == \E s \in Strings : data = Encode(s)

(* The bound MaxUnits stops the text from growing for ever.                *)
Replace(loc, len, str) ==
  /\ InBounds(data, loc, len)
  /\ Len(Decode(data)) - len + Len(str) <= MaxUnits
  /\ data' = ReplaceCharactersInRange(data, loc, len, str)

Next == \E loc, len \in 0 .. MaxUnits, str \in Strings : Replace(loc, len, str)

Spec == Init /\ [][Next]_data

-----------------------------------------------------------------------------
Byte == (Unit \cup {BOM}) \X {0, 1}

(* The data is a sequence of bytes of the text and the order mark; none of *)
(* the zeros it is grown with stays.                                       *)
TypeOK == data \in Seq(Byte)

(* The bytes are always the encoding of some text: the order mark stays in *)
(* front, no zero byte of the grown area is left behind, and no code unit  *)
(* is torn apart or loses one of its bytes when the tail is shifted over   *)
(* the replaced range (Extensions.swift, replaceCharactersInRange).        *)
WellFormed == data = Encode(Decode(data))

(* On the level of code units every byte edit is a splice: the text before *)
(* and after some range keeps its content and its order, whether the edit  *)
(* grows or shrinks the data.                                              *)
Buffer == INSTANCE TextBuffer WITH text <- Decode(data)

RefinesTextBuffer == Buffer!Spec

(* And it is the splice with the arguments of the call: the range asked    *)
(* for is replaced by the string given, nothing more and nothing less.     *)
EditsAreSplices ==
  [][\A loc, len \in 0 .. MaxUnits, str \in Strings :
        Replace(loc, len, str) => Buffer!Replace(loc, len, str)]_data
=============================================================================
