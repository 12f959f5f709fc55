----------------------------- MODULE TextBuffer -----------------------------
(***************************************************************************)
(* What the text of a TextStorage promises its clients, independent of how *)
(* it is stored: a sequence of UTF-16 code units in which any range inside *)
(* the text can be replaced by any string.  This is the contract of        *)
(* NSMutableString.replaceCharacters(in:with:), which                      *)
(* Data.replaceCharactersInRange re-implements on raw bytes (see TextData).*)
(***************************************************************************)
EXTENDS Integers, Sequences

CONSTANT Strings       \* the strings of code units a client may pass

VARIABLE text          \* the code units of the text

(* A range (NSRange) is a location and a length, counted in code units.    *)
InText(t, loc, len) == loc >= 0 /\ len >= 0 /\ loc + len <= Len(t)

Splice(t, loc, len, str) ==
  SubSeq(t, 1, loc) \o str \o SubSeq(t, loc + len + 1, Len(t))

Init == text \in Strings

Replace(loc, len, str) ==
  /\ InText(text, loc, len)
  /\ text' = Splice(text, loc, len, str)

Next == \E loc, len \in 0 .. Len(text), str \in Strings : Replace(loc, len, str)

Spec == Init /\ [][Next]_text
=============================================================================
