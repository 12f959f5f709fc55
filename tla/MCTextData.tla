----------------------------- MODULE MCTextData -----------------------------
(* A small instance of TextData: two code units and every string of up to  *)
(* two of them, so that edits grow, shrink and keep the length of a text.  *)
EXTENDS TextData

CONSTANTS a, b

MCUnit == {a, b}
MCStrings == UNION {[1 .. n -> MCUnit] : n \in 0 .. 2}
=============================================================================
