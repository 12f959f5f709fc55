------------------------------ MODULE Relexing ------------------------------
(***************************************************************************)
(* Which characters an incremental parse lexes, and from which chunk: the  *)
(* lexer (module Lexer), with the leaves of the document's tree and the    *)
(* position of a parse with one stack version.  A parse reuses the leaves  *)
(* that no edit has marked, as ts_document_edit marks them, and lexes      *)
(* between them, until it has the end's leaf.                              *)
(*                                                                         *)
(* Texts have no NUL and no white space in them, and no token but the      *)
(* end's is empty.                                                         *)
(***************************************************************************)
EXTENDS Lexer

VARIABLES
  top,    \* the position of the stack version
  kept,   \* the leaves of the document's tree that are not marked
  made    \* the leaves of the parse that runs, or of the last one

allVars == <<vars, top, kept, made>>

(* A leaf lies at from, ends at to, and was lexed from the bytes before    *)
(* until.                                                                  *)
Leaf(from, kind) ==
  [from  |-> from,
   to    |-> from + leaf'.padding + leaf'.size,
   until |-> 2 * from + leaf'.scanned,
   kind  |-> kind]

IsEnd(l) == l.kind = "end"

Done == \E l \in made : IsEnd(l)

-----------------------------------------------------------------------------
(* parser_parse with the old tree, if it is valid.                         *)
Begin ==
  /\ StartParse
  /\ top' = 0 /\ made' = {}
  /\ kept' = IF old = "none" THEN {} ELSE kept

(* parser__get_lookahead: what is at the top of the stack is reused if it  *)
(* is not marked and the grammar takes it, else it is lexed.               *)
Reuse(l) ==
  /\ phase = "parse" /\ ~ Done
  /\ l \in kept /\ l.from = top
  /\ made' = made \cup {l}
  /\ top' = l.to
  /\ UNCHANGED <<vars, kept>>

LexAtTop ==
  /\ ~ Done
  /\ Lex(top)
  /\ UNCHANGED <<top, kept, made>>

LexFnGoesOn ==
  /\ \/ LexFnAdvance(FALSE)
     \/ LexFnMarkEnd
     \/ RetryInErrorMode
     \/ SkipUnrecognized
  /\ UNCHANGED <<top, kept, made>>

(* parser__shift                                                           *)
Shift(l) ==
  /\ made' = made \cup {l}
  /\ top' = l.to
  /\ UNCHANGED kept

LexToken ==
  /\ LexFnAccept
  /\ leaf'.size > 0
  /\ Shift(Leaf(top, IF call.mode = "skip" THEN "error" ELSE "token"))

LexEnd ==
  /\ LexFnEnd
  /\ Shift(Leaf(top, IF call.mode = "skip" THEN "error" ELSE "end"))

(* Errors are never reused.                                                *)
Finish ==
  /\ Done
  /\ EndParse
  /\ kept' = {l \in made : l.kind # "error"}
  /\ UNCHANGED <<top, made>>

-----------------------------------------------------------------------------
(* ts_tree_edit marks the leaf before or around the edit and what it       *)
(* removes, ts_tree_invalidate_lookahead those before the edit that looked *)
(* at a changed byte, and what now begins where the edit begins.  Leaves   *)
(* behind move with the text.                                              *)
Unmarked(l, loc, len, delta) ==
  \/ l.until <= 2 * loc
  \/ l.from >= loc + len /\ l.from > 0 /\ l.from + delta > loc

Moved(l, loc, delta) ==
  IF l.until <= 2 * loc THEN l
  ELSE [l EXCEPT !.from = @ + delta, !.to = @ + delta, !.until = @ + 2 * delta]

EditTold(loc, len, str) ==
  LET delta == Len(str) - len
  IN  /\ Edit(loc, len, str)
      /\ kept' = {Moved(l, loc, delta) : l \in {k \in kept : Unmarked(k, loc, len, delta)}}
      /\ UNCHANGED <<top, made>>

InvalidateTree == Invalidate /\ UNCHANGED <<top, kept, made>>

InitAll ==
  /\ Init
  /\ top = 0 /\ kept = {} /\ made = {}

NextAll ==
  \/ Begin
  \/ \E l \in kept : Reuse(l)
  \/ LexAtTop
  \/ LexFnGoesOn
  \/ LexToken
  \/ LexEnd
  \/ Finish
  \/ InvalidateTree
  \/ \E loc, len \in 0 .. MaxLen, str \in Strings : EditTold(loc, len, str)

SpecAll == InitAll /\ [][NextAll]_allVars

-----------------------------------------------------------------------------
(* "Text storage is backed by a utf-16 representation of the string on     *)
(* which tree-sitter operates" (README.md): what a lex function sees is    *)
(* the current text.  The code does not keep this promise: a chunk that    *)
(* starts at byte 0 outlives set_input, and is still there if the parse    *)
(* before stopped lexing in it and reused everything behind.               *)
ReadsCurrentText ==
  phase = "lex" =>
    [look |-> lexer.look, size |-> lexer.lookSize] = CharAt(text, lexer.pos)
=============================================================================
