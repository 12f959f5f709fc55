-------------------------------- MODULE Lexer --------------------------------
(***************************************************************************)
(* How text reaches the parser: the lexer of the tree-sitter runtime       *)
(* (lexer.c) pulls chunks of text through the read and seek callbacks of   *)
(* Input.swift, and parser__lex (parser.c) runs the generated lex function *)
(* on it until it has one leaf.  Between two parses the client edits the   *)
(* text behind the callbacks.                                              *)
(*                                                                         *)
(* Positions count UTF-16 code units (two bytes each).  Rows, columns and  *)
(* character counts are left out, and so are external scanners.  The       *)
(* generated lex function is the environment: it may skip, consume, mark   *)
(* the end of a token, and accept or fail wherever it likes; the end       *)
(* token it accepts only where it sees a NUL.                              *)
(***************************************************************************)
EXTENDS Integers, Sequences

CONSTANTS Unit,          \* UTF-16 code units
          High, Low,     \* those that are leading and trailing surrogates
          NUL,           \* code unit 0, also what the lexer sees at the end
          Invalid,       \* the code point -1 of an unpaired surrogate
          Strings,       \* initial texts and replacement strings
          MaxLen         \* bound: the longest text explored

ASSUME LexerAssumption ==
  /\ NUL \in Unit \ (High \cup Low)
  /\ High \subseteq Unit /\ Low \subseteq Unit
  /\ High \cap Low = {}
  /\ Strings \subseteq Seq(Unit)
  /\ MaxLen \in Nat

VARIABLES
  text,     \* Input.data without its order mark
  input,    \* Input.position
  lexer,    \* the Lexer struct
  phase,    \* "idle" between parses, "parse" between tokens, "lex" in parser__lex
  call,     \* the locals of parser__lex
  leaf,     \* the padding, size and bytes_scanned of the last leaf made
  old,      \* the document's tree as a parse finds it: "none" (or invalidated),
            \* "same" as the parse before left it, or "edited"
  ended     \* the last parse, or the one that runs, has lexed the end token

vars == <<text, input, lexer, phase, call, leaf, old, ended>>

Buffer == INSTANCE TextBuffer

-----------------------------------------------------------------------------
(* One character of UTF-16 text and the units it takes (utf16_iterate).    *)
Utf16Iterate(s) ==
  IF s[1] \notin High \cup Low
    THEN [look |-> s[1], size |-> 1]
  ELSE IF s[1] \in High /\ Len(s) >= 2 /\ s[2] \in Low
    THEN [look |-> <<s[1], s[2]>>, size |-> 2]
  ELSE [look |-> Invalid, size |-> 1]

(* What stands at position p of the text t: the lexer reads a 0 behind it. *)
CharAt(t, p) ==
  IF p >= Len(t) THEN [look |-> NUL, size |-> 1]
  ELSE Utf16Iterate(SubSeq(t, p + 1, Len(t)))

-----------------------------------------------------------------------------
(* Input.swift: read hands out everything from position on and moves the   *)
(* position to the end; at the end it hands out nothing.  seek moves the   *)
(* position.                                                               *)
Read(in, t) ==
  IF in >= Len(t) THEN [input |-> in, units |-> << >>]
  ELSE [input |-> Len(t), units |-> SubSeq(t, in + 1, Len(t))]

Seek(in, p) == p

-----------------------------------------------------------------------------
(* lexer.c.  A lexer has a chunk or a null pointer; the empty chunk stands *)
(* for the end of the text.  chunk_size is Len(chunk).                     *)
Unknown == -1

NoChunk == [null |-> TRUE, units |-> << >>, start |-> 0]

ChunkEnd(c) == c.start + Len(c.units)

(* Mutant of ts_lexer__get_chunk: never seeks.                             *)
GetChunkWithoutSeek(lx, in, t) ==
  LET got == Read(in, t)
  IN  [lexer |-> [lx EXCEPT !.chunk = [null |-> FALSE, units |-> got.units, start |-> lx.pos]],
       input |-> got.input]

(* ts_lexer__get_chunk: seek only if the position is not where the last    *)
(* chunk ended.                                                            *)
GetChunk(lx, in, t) ==
  LET sought == IF lx.chunk.null \/ lx.pos # ChunkEnd(lx.chunk) THEN Seek(in, lx.pos) ELSE in
      got    == Read(sought, t)
  IN  [lexer |-> [lx EXCEPT !.chunk = [null |-> FALSE, units |-> got.units, start |-> lx.pos]],
       input |-> got.input]

(* ts_lexer__get_lookahead                                                 *)
GetLookahead(lx) ==
  LET c == CharAt(lx.chunk.units, lx.pos - lx.chunk.start)
  IN  [lx EXCEPT !.look = c.look, !.lookSize = c.size]

(* ts_lexer__advance: a no-op at the end of the text.                      *)
Advance(lx, in, t, skip) ==
  IF lx.chunk.units = << >> THEN [lexer |-> lx, input |-> in]
  ELSE LET pos   == lx.pos + lx.lookSize
           moved == [lx EXCEPT !.pos = pos,
                               !.tokenStart = IF skip THEN pos ELSE lx.tokenStart]
           got   == IF pos >= ChunkEnd(lx.chunk) THEN GetChunk(moved, in, t)
                    ELSE [lexer |-> moved, input |-> in]
       IN  [got EXCEPT !.lexer = GetLookahead(got.lexer)]

(* Mutants of ts_lexer__reset: the test at the chunk's end is off by one;  *)
(* the lookahead is kept.                                                  *)
ResetFieldsWith(lx, p, outside) ==
  [chunk |-> IF outside THEN NoChunk ELSE lx.chunk, pos |-> p, look |-> NUL,
   lookSize |-> 0, tokenStart |-> p, tokenEnd |-> Unknown]
ResetKeepsChunkAtEnd(lx, p) ==
  ResetFieldsWith(lx, p, p < lx.chunk.start \/ p > ChunkEnd(lx.chunk))
ResetKeepsLookahead(lx, p) ==
  [ResetFieldsWith(lx, p, p < lx.chunk.start \/ p >= ChunkEnd(lx.chunk))
     EXCEPT !.look = lx.look, !.lookSize = lx.lookSize]

(* ts_lexer__reset: drops the chunk unless it contains the position.       *)
ResetFields(lx, p) ==
  LET outside == p < lx.chunk.start \/ p >= ChunkEnd(lx.chunk)
  IN  [chunk      |-> IF outside THEN NoChunk ELSE lx.chunk,
       pos        |-> p,
       look       |-> NUL,
       lookSize   |-> 0,
       tokenStart |-> p,
       tokenEnd   |-> Unknown]

(* ts_lexer_reset: nothing to do at the same position.                     *)
Reset(lx, p) == IF p = lx.pos THEN lx ELSE ResetFields(lx, p)

(* Mutant of ts_lexer_start: the last token's end mark is kept.            *)
StartKeepsTokenEnd(lx, in, t) ==
  LET begun == [lx EXCEPT !.tokenStart = lx.pos]
      got   == IF lx.chunk.null THEN GetChunk(begun, in, t)
               ELSE [lexer |-> begun, input |-> in]
  IN  IF lx.lookSize = 0 THEN [got EXCEPT !.lexer = GetLookahead(got.lexer)] ELSE got

(* ts_lexer_start                                                          *)
Start(lx, in, t) ==
  LET begun == [lx EXCEPT !.tokenStart = lx.pos, !.tokenEnd = Unknown]
      got   == IF lx.chunk.null THEN GetChunk(begun, in, t)
               ELSE [lexer |-> begun, input |-> in]
  IN  IF lx.lookSize = 0 THEN [got EXCEPT !.lexer = GetLookahead(got.lexer)] ELSE got

-----------------------------------------------------------------------------
(* The generated lex function and parser__lex around it.                   *)

Install(res) == lexer' = res.lexer /\ input' = res.input

(* Mutant of parser__start: set_input does not reset the lexer.            *)
StartParseWithoutReset ==
  /\ phase = "idle" /\ old # "same"
  /\ phase' = "parse"
  /\ ended' = FALSE
  /\ UNCHANGED <<text, input, lexer, call, leaf, old>>

(* A document with a valid tree that was not edited is not parsed again.   *)
(* parser__start hands the input to the lexer, which resets itself to 0.   *)
StartParse ==
  /\ phase = "idle" /\ old # "same"
  /\ phase' = "parse"
  /\ lexer' = ResetFields(lexer, 0)
  /\ ended' = FALSE
  /\ UNCHANGED <<text, input, call, leaf, old>>

(* A parse is over when the end token has been accepted: lexed in this     *)
(* parse, or reused from an edited tree with whatever else is left of it.  *)
(* Which leaves of an edited tree can be reused is left open here (see     *)
(* Relexing).  halt_on_error, which no caller in Swift asks for, is not    *)
(* modelled.                                                               *)
EndParse ==
  /\ phase = "parse" /\ (ended \/ old = "edited")
  /\ phase' = "idle"
  /\ old' = "same"
  /\ UNCHANGED <<text, input, lexer, call, leaf, ended>>

(* ts_document_invalidate, from set_input_string and set_language.         *)
Invalidate ==
  /\ phase = "idle"
  /\ old' = "none"
  /\ UNCHANGED <<text, input, lexer, phase, call, leaf, ended>>

(* parser__lex asks for a leaf at p.  After lexing, p may lie before the   *)
(* current position (lookahead, or another stack version) or, if the text  *)
(* shrank, behind its end.                                                 *)
Lex(p) ==
  /\ phase = "parse"
  /\ phase' = "lex"
  /\ Install(Start(Reset(lexer, p), input, text))
  /\ call' = [start |-> p, mode |-> "normal", errStart |-> 0, errEnd |-> 0]
  /\ UNCHANGED <<text, leaf, old, ended>>

(* The lex function moves on, skipping only in front of its token.         *)
LexFnAdvance(skip) ==
  /\ phase = "lex"
  /\ skip => lexer.pos = lexer.tokenStart /\ lexer.tokenEnd = Unknown
  /\ Install(Advance(lexer, input, text, skip))
  /\ UNCHANGED <<text, phase, call, leaf, old, ended>>

LexFnMarkEnd ==
  /\ phase = "lex"
  /\ lexer' = [lexer EXCEPT !.tokenEnd = lexer.pos]
  /\ UNCHANGED <<text, input, phase, call, leaf, old, ended>>

(* The leaf parser__lex makes when its loop ends, with bytes_scanned in    *)
(* bytes.                                                                  *)
MakeLeaf(lx, c) ==
  LET end     == IF lx.tokenEnd = Unknown THEN lx.pos ELSE lx.tokenEnd
      skipped == c.mode = "skip"
      from    == IF skipped THEN c.errStart ELSE lx.tokenStart
      to      == IF skipped THEN c.errEnd ELSE end
  IN  [padding |-> from - c.start,
       size    |-> to - from,
       scanned |-> 2 * (lx.pos - c.start) + 1]

LexFnAccept ==
  /\ phase = "lex"
  /\ phase' = "parse"
  /\ lexer' = [lexer EXCEPT !.tokenEnd = IF @ = Unknown THEN lexer.pos ELSE @]
  /\ leaf' = MakeLeaf(lexer', call)
  /\ UNCHANGED <<text, input, call, old, ended>>

(* At a NUL in front of its token the lex function advances, which is a    *)
(* no-op at the end of the text, marks the end and accepts the end token.  *)
(* Behind skipped characters the leaf is an error all the same.            *)
LexFnEnd ==
  LET moved == Advance(lexer, input, text, FALSE)
  IN  /\ phase = "lex"
      /\ lexer.pos = lexer.tokenStart /\ lexer.tokenEnd = Unknown /\ lexer.look = NUL
      /\ phase' = "parse"
      /\ Install([moved EXCEPT !.lexer.tokenEnd = moved.lexer.pos])
      /\ leaf' = MakeLeaf(lexer', call)
      /\ ended' = (ended \/ call.mode # "skip")
      /\ UNCHANGED <<text, call, old>>

(* Mutant of the retry: found_error is not set.                            *)
RetryForgetsError ==
  /\ phase = "lex" /\ call.mode = "normal"
  /\ Install(Start(Reset(lexer, call.start), input, text))
  /\ UNCHANGED <<text, phase, call, leaf, old, ended>>

(* The first failure: try again in error mode from the start.              *)
RetryInErrorMode ==
  /\ phase = "lex" /\ call.mode = "normal"
  /\ call' = [call EXCEPT !.mode = "retry"]
  /\ Install(Start(Reset(lexer, call.start), input, text))
  /\ UNCHANGED <<text, phase, leaf, old, ended>>

(* Later failures skip unrecognized characters, one at a time if the lex   *)
(* function did not move, up to the end of the text.                       *)
SkipCall ==
  IF call.mode = "skip" THEN call
  ELSE [call EXCEPT !.mode = "skip", !.errStart = lexer.tokenStart,
                    !.errEnd = lexer.tokenStart]

SkipUnrecognized ==
  LET moved == IF lexer.pos = SkipCall.errEnd THEN Advance(lexer, input, text, FALSE)
               ELSE [lexer |-> lexer, input |-> input]
  IN  /\ phase = "lex" /\ call.mode # "normal"
      /\ ~ (lexer.pos = SkipCall.errEnd /\ lexer.look = NUL)
      /\ call' = [SkipCall EXCEPT !.errEnd = moved.lexer.pos]
      /\ Install(Start(moved.lexer, moved.input, text))
      /\ UNCHANGED <<text, phase, leaf, old, ended>>

SkippedToEnd ==
  /\ phase = "lex" /\ call.mode # "normal"
  /\ lexer.pos = SkipCall.errEnd /\ lexer.look = NUL
  /\ phase' = "parse"
  /\ call' = SkipCall
  /\ leaf' = MakeLeaf(lexer, SkipCall)
  /\ UNCHANGED <<text, input, lexer, old, ended>>

LexFnFail == RetryInErrorMode \/ SkipUnrecognized \/ SkippedToEnd

(* Between parses the client edits Input.data.  The lexer keeps a bare     *)
(* pointer into the data it was given (withUnsafeBytes, escaped): after    *)
(* the edit it shows the old bytes, or the new ones if the data was        *)
(* changed in place.                                                       *)
InPlace(c, t) ==
  [c EXCEPT !.units = [i \in 1 .. Len(c.units) |->
     IF c.start + i <= Len(t) THEN t[c.start + i] ELSE c.units[i]]]

Edit(loc, len, str) ==
  /\ phase = "idle"
  /\ Len(text) - len + Len(str) <= MaxLen
  /\ Buffer!Replace(loc, len, str)
  /\ \E chunk \in {lexer.chunk, InPlace(lexer.chunk, text')} :
        lexer' = [lexer EXCEPT !.chunk = chunk]
  /\ old' = IF old = "none" THEN "none" ELSE "edited"
  /\ UNCHANGED <<input, phase, call, leaf, ended>>

-----------------------------------------------------------------------------
NewLexer == [chunk |-> NoChunk, pos |-> 0, look |-> NUL, lookSize |-> 0,
             tokenStart |-> 0, tokenEnd |-> Unknown]

Init ==
  /\ text \in Strings
  /\ input = 0
  /\ lexer = NewLexer
  /\ phase = "idle"
  /\ call = [start |-> 0, mode |-> "normal", errStart |-> 0, errEnd |-> 0]
  /\ leaf = [padding |-> 0, size |-> 0, scanned |-> 0]
  /\ old = "none" /\ ended = FALSE

Next ==
  \/ StartParse
  \/ EndParse
  \/ Invalidate
  \/ \E p \in 0 .. MaxLen : Lex(p)
  \/ \E skip \in BOOLEAN : LexFnAdvance(skip)
  \/ LexFnMarkEnd
  \/ LexFnAccept
  \/ LexFnEnd
  \/ LexFnFail
  \/ \E loc, len \in 0 .. MaxLen, str \in Strings : Edit(loc, len, str)

(* Every call of the lex function returns.                                 *)
Fairness == WF_vars(LexFnAccept \/ LexFnEnd \/ LexFnFail)

Spec == Init /\ [][Next]_vars /\ Fairness

-----------------------------------------------------------------------------
Position == 0 .. MaxLen

Look == (Unit \ (High \cup Low)) \cup (High \X Low) \cup {Invalid}

TypeOK ==
  /\ text \in Seq(Unit)
  /\ input \in Nat
  /\ lexer \in [chunk : [null : BOOLEAN, units : Seq(Unit), start : Nat],
                pos : Nat, look : Look, lookSize : 0 .. 2,
                tokenStart : Nat, tokenEnd : Nat \cup {Unknown}]
  /\ phase \in {"idle", "parse", "lex"}
  /\ call \in [start : Nat, mode : {"normal", "retry", "skip"}, errStart : Nat, errEnd : Nat]
  /\ leaf \in [padding : Nat, size : Nat, scanned : Nat]
  /\ old \in {"none", "same", "edited"} /\ ended \in BOOLEAN

(* The lexer never reads outside its chunk: while a token is lexed the     *)
(* position lies in the chunk, and behind its last unit only if the chunk  *)
(* is the empty one (lexer.c, get_lookahead's pointer arithmetic).         *)
InChunk ==
  phase = "lex" =>
    /\ ~ lexer.chunk.null
    /\ lexer.chunk.start <= lexer.pos
    /\ lexer.pos < ChunkEnd(lexer.chunk) \/ lexer.chunk.units = << >>

(* get_chunk may leave out the seek: Input.position is where the last      *)
(* chunk ended, also after edits, resets and seeks behind the end.         *)
InputInStep == ~ lexer.chunk.null => input = ChunkEnd(lexer.chunk)

(* The chunk shows the text as it is now.                                  *)
ChunkCurrent ==
  lexer.chunk.units = SubSeq(text, lexer.chunk.start + 1, Len(text))

(* With a chunk of the current text the character the lex function sees is *)
(* the one at the lexer's position, however the parser jumped there.       *)
LookaheadFromText ==
  phase = "lex" /\ ChunkCurrent =>
    [look |-> lexer.look, size |-> lexer.lookSize] = CharAt(text, lexer.pos)

(* Which stale chunk a parse can meet: only one that starts at byte 0,     *)
(* because set_input's reset to 0 drops every other chunk.                 *)
StaleOnlyFromZero ==
  phase # "idle" /\ ~ lexer.chunk.null /\ ~ ChunkCurrent => lexer.chunk.start = 0

(* The lengths parser__lex subtracts for a leaf never wrap around, and the *)
(* leaf lies inside the bytes it is said to depend on.                     *)
LeafFits ==
  phase = "lex" =>
    LET l == MakeLeaf(lexer, call)
    IN  l.padding >= 0 /\ l.size >= 0 /\ 2 * (l.padding + l.size) < l.scanned

(* Error recovery in parser__lex always ends in a leaf.                    *)
LexTerminates == phase = "lex" ~> phase = "parse"
=============================================================================
