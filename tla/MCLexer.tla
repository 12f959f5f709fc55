------------------------------- MODULE MCLexer -------------------------------
(* Texts of up to two units over a letter, a surrogate pair and the NUL    *)
(* character; edits insert, delete and replace inside them.                *)
EXTENDS Lexer

CONSTANTS a, hi, lo

MCUnit == {a, hi, lo, NUL}
MCStrings == UNION {[1 .. n -> MCUnit] : n \in 0 .. 2}
=============================================================================
