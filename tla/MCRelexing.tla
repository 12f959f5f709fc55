----------------------------- MODULE MCRelexing -----------------------------
(* Texts of up to two units, over two letters: room for a leaf to lex      *)
(* again, one to reuse behind it, and the end.                             *)
EXTENDS Relexing

CONSTANTS a, b

MCUnit == {a, b, NUL}
MCStrings == UNION {[1 .. n -> {a, b}] : n \in 1 .. 2}
=============================================================================
