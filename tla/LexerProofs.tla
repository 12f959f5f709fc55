----------------------------- MODULE LexerProofs -----------------------------
(***************************************************************************)
(* Every safety invariant of Lexer, for every alphabet, every text and     *)
(* every lex function.  The inductive invariant says what parser__lex can  *)
(* count on between two of its calls: the input stands where the chunk     *)
(* ends, the chunk contains the position, and a lookahead that is set is   *)
(* the character at the position.  None of this is true between parses,    *)
(* where the client edits the text: there only the first part is kept.     *)
(***************************************************************************)
EXTENDS Lexer, TLAPS

ChunkType == [null : BOOLEAN, units : Seq(Unit), start : Nat]

LexerType ==
  [chunk : ChunkType, pos : Nat, look : Look, lookSize : 0 .. 2,
   tokenStart : Nat, tokenEnd : Nat \cup {Unknown}]

(* The input's position is where the chunk ends.                           *)
InStep(lx, in) == ~ lx.chunk.null => in = ChunkEnd(lx.chunk)

(* The chunk contains the position.                                        *)
Contains(c, p) == c.start <= p /\ (p < ChunkEnd(c) \/ c.units = << >>)

Aimed(lx) == ~ lx.chunk.null => Contains(lx.chunk, lx.pos)

(* The lookahead is the character at the position.                         *)
Seen(lx) == [look |-> lx.look, size |-> lx.lookSize]
                = CharAt(lx.chunk.units, lx.pos - lx.chunk.start)

Looked(lx) == lx.lookSize # 0 => ~ lx.chunk.null /\ Seen(lx)

(* A chunk that does not show the text t starts at 0.                      *)
Shows(c, t) == c.units = SubSeq(t, c.start + 1, Len(t))
StaleAtZero(lx, t) == ~ lx.chunk.null /\ ~ Shows(lx.chunk, t) => lx.chunk.start = 0

Sound(lx, in, t) ==
  /\ lx \in LexerType /\ in \in Nat
  /\ InStep(lx, in) /\ Aimed(lx) /\ Looked(lx) /\ StaleAtZero(lx, t)

Ordered(lx, c) ==
  /\ c.start <= lx.tokenStart /\ lx.tokenStart <= lx.pos
  /\ lx.tokenEnd = Unknown \/ (lx.tokenStart <= lx.tokenEnd /\ lx.tokenEnd <= lx.pos)
  /\ c.mode = "skip" => c.start <= c.errStart /\ c.errStart <= c.errEnd /\ c.errEnd <= lx.pos

Inv ==
  /\ TypeOK
  /\ InputInStep
  /\ phase # "idle" => Sound(lexer, input, text)
  /\ phase = "lex" => lexer.lookSize # 0 /\ Ordered(lexer, call)

-----------------------------------------------------------------------------
(* Characters.                                                             *)

(* utf16_iterate: a character of a text is a code point, of 1 or 2 units.  *)
LEMMA CharAtType ==
  ASSUME NEW t \in Seq(Unit), NEW p \in Nat
  PROVE  CharAt(t, p) \in [look : Look, size : {1, 2}]
<1>1. CASE p >= Len(t)
  BY <1>1, LexerAssumption DEF CharAt, Look
<1>2. CASE p < Len(t)
  <2> DEFINE s == SubSeq(t, p + 1, Len(t))
  <2>1. s \in Seq(Unit) /\ Len(s) = Len(t) - p
    BY <1>2
  <2>2. CharAt(t, p) = Utf16Iterate(s)
    BY <1>2 DEF CharAt
  <2> HIDE DEF s
  <2>3. Len(s) >= 1 /\ s[1] \in Unit /\ (Len(s) >= 2 => s[2] \in Unit)
    BY <2>1, <1>2
  <2>4. CASE s[1] \notin High \cup Low
    BY <2>2, <2>3, <2>4 DEF Utf16Iterate, Look
  <2>5. CASE s[1] \in High /\ Len(s) >= 2 /\ s[2] \in Low
    BY <2>2, <2>3, <2>5 DEF Utf16Iterate, Look
  <2>6. CASE s[1] \in High \cup Low /\ ~ (s[1] \in High /\ Len(s) >= 2 /\ s[2] \in Low)
    BY <2>2, <2>3, <2>6 DEF Utf16Iterate, Look
  <2> QED BY <2>4, <2>5, <2>6
<1> QED BY <1>1, <1>2

(* The character at a position does not depend on which chunk of the text  *)
(* is looked at.                                                           *)
LEMMA CharInChunk ==
  ASSUME NEW t \in Seq(Unit), NEW start \in Nat, NEW p \in Nat, start <= p
  PROVE  CharAt(SubSeq(t, start + 1, Len(t)), p - start) = CharAt(t, p)
<1> DEFINE c == SubSeq(t, start + 1, Len(t))
<1>1. CASE p >= Len(t)
  <2>1. CASE start >= Len(t)
    <3>1. Len(c) = 0 BY <2>1
    <3> QED BY <3>1, <1>1 DEF CharAt
  <2>2. CASE start < Len(t)
    <3>1. Len(c) = Len(t) - start BY <2>2
    <3> QED BY <3>1, <1>1 DEF CharAt
  <2> QED BY <2>1, <2>2
<1>2. CASE p < Len(t)
  <2>1. c \in Seq(Unit) /\ Len(c) = Len(t) - start
    BY <1>2
  <2>2. \A i \in 1 .. Len(c) : c[i] = t[start + i]
    BY <1>2
  <2> DEFINE u == SubSeq(c, p - start + 1, Len(c))  v == SubSeq(t, p + 1, Len(t))
  <2> HIDE DEF c
  <2>3. u \in Seq(Unit) /\ Len(u) = Len(t) - p /\ v \in Seq(Unit) /\ Len(v) = Len(t) - p
    BY <1>2, <2>1
  <2>4. ASSUME NEW i \in 1 .. Len(u)
        PROVE  u[i] = v[i]
    <3>1. i \in 1 .. Len(t) - p
      <4> HIDE DEF u, v
      <4> QED BY <2>3
    <3>2. u[i] = c[p - start + i]
      BY <3>1, <2>1, <1>2, SMTT(30)
    <3>3. v[i] = t[p + i]
      BY <3>1, <1>2
    <3>4. c[p - start + i] = t[start + (p - start + i)]
      BY <3>1, <2>1, <2>2, <1>2
    <3> QED
      <4> HIDE DEF u, v
      <4> QED BY <3>2, <3>3, <3>4
  <2>5. u = v
    <3> HIDE DEF u, v
    <3> QED BY <2>3, <2>4, SMTT(30)
  <2>6. CharAt(c, p - start) = Utf16Iterate(u) /\ CharAt(t, p) = Utf16Iterate(v)
    BY <1>2, <2>1 DEF CharAt
  <2> QED BY <2>5, <2>6 DEF c
<1> QED BY <1>1, <1>2

-----------------------------------------------------------------------------
(* The calls of lexer.c.                                                   *)

(* get_chunk changes nothing but the chunk, which then shows the text from *)
(* the position on: without its seek only because the input was in step.   *)
ChunkGot(lx, t, r) ==
  /\ r.input \in Nat
  /\ r.lexer = [lx EXCEPT !.chunk = r.lexer.chunk]
  /\ r.lexer.chunk \in ChunkType
  /\ ~ r.lexer.chunk.null /\ r.lexer.chunk.start = lx.pos
  /\ Contains(r.lexer.chunk, lx.pos)
  /\ Shows(r.lexer.chunk, t)
  /\ r.input = ChunkEnd(r.lexer.chunk)

LEMMA GetChunkSound ==
  ASSUME NEW t \in Seq(Unit), NEW in \in Nat, NEW lx \in LexerType, InStep(lx, in)
  PROVE  ChunkGot(lx, t, GetChunk(lx, in, t))
<1> DEFINE got == Read(lx.pos, t)
           chunk == [null |-> FALSE, units |-> got.units, start |-> lx.pos]
<1>0. lx.pos \in Nat
  BY DEF LexerType
<1>1. GetChunk(lx, in, t) = [lexer |-> [lx EXCEPT !.chunk = chunk], input |-> got.input]
  BY DEF GetChunk, Seek, InStep
<1>2. /\ got.units = SubSeq(t, lx.pos + 1, Len(t)) /\ got.units \in Seq(Unit)
      /\ got.input \in Nat /\ got.input = lx.pos + Len(got.units)
      /\ got.units # << >> => Len(got.units) > 0
  <2>1. CASE lx.pos >= Len(t)
    BY <1>0, <2>1 DEF Read
  <2>2. CASE lx.pos < Len(t)
    <3> DEFINE u == SubSeq(t, lx.pos + 1, Len(t))
    <3>0. ~ (lx.pos >= Len(t))
      BY <1>0, <2>2
    <3>1. got.input = Len(t) /\ got.units = u
      BY <3>0, Zenon DEF Read
    <3>2. u \in Seq(Unit) /\ Len(u) = Len(t) - lx.pos
      BY <1>0, <2>2
    <3>3. Len(t) \in Nat
      OBVIOUS
    <3> HIDE DEF got, u
    <3>4. got.units \in Seq(Unit) /\ Len(got.units) > 0
      BY <1>0, <2>2, <3>1, <3>2, <3>3
    <3>5. got.input = lx.pos + Len(got.units)
      BY <1>0, <2>2, <3>1, <3>2, <3>3
    <3> QED BY <3>1, <3>3, <3>4, <3>5 DEF u
  <2> QED BY <1>0, <2>1, <2>2
<1> HIDE DEF got
<1>3. chunk \in ChunkType
  BY <1>0, <1>2 DEF ChunkType
<1>4. Contains(chunk, lx.pos) /\ Shows(chunk, t) /\ got.input = ChunkEnd(chunk)
  <2>1. ChunkEnd(chunk) = lx.pos + Len(got.units)
    BY DEF ChunkEnd
  <2>2. Len(got.units) \in Nat
    BY <1>2
  <2>3. Shows(chunk, t)
    BY <1>2 DEF Shows
  <2>4. Contains(chunk, lx.pos)
    BY <1>0, <1>2, <2>1, <2>2 DEF Contains
  <2> QED BY <1>2, <2>1, <2>3, <2>4
<1>5. [lx EXCEPT !.chunk = chunk].chunk = chunk
  BY DEF LexerType
<1> DEFINE r == GetChunk(lx, in, t)
<1>6. r.lexer = [lx EXCEPT !.chunk = chunk] /\ r.input = got.input
  BY <1>1
<1>7. r.lexer.chunk = chunk
  BY <1>5, <1>6
<1>8. ~ chunk.null /\ chunk.start = lx.pos
  OBVIOUS
<1> HIDE DEF r, chunk
<1>9. r.lexer = [lx EXCEPT !.chunk = r.lexer.chunk]
  BY ONLY <1>6, <1>7
<1>10. /\ Contains(r.lexer.chunk, lx.pos) /\ Shows(r.lexer.chunk, t)
       /\ r.input = ChunkEnd(r.lexer.chunk)
  BY ONLY <1>4, <1>6, <1>7
<1>11. /\ r.input \in Nat /\ r.lexer.chunk \in ChunkType
       /\ ~ r.lexer.chunk.null /\ r.lexer.chunk.start = lx.pos
  BY ONLY <1>2, <1>3, <1>6, <1>7, <1>8
<1> QED BY ONLY <1>9, <1>10, <1>11 DEF ChunkGot, r

(* get_lookahead sets the lookahead to the character at the position.      *)
LookaheadGot(lx, r) ==
  /\ r \in LexerType
  /\ r.chunk = lx.chunk /\ r.pos = lx.pos
  /\ r.tokenStart = lx.tokenStart /\ r.tokenEnd = lx.tokenEnd
  /\ r.lookSize # 0 /\ Seen(r)

LEMMA GetLookaheadSound ==
  ASSUME NEW lx \in LexerType, Contains(lx.chunk, lx.pos)
  PROVE  LookaheadGot(lx, GetLookahead(lx))
<1> DEFINE c == CharAt(lx.chunk.units, lx.pos - lx.chunk.start)
           r == GetLookahead(lx)
<1>1. /\ lx.chunk.units \in Seq(Unit) /\ lx.chunk.start \in Nat /\ lx.pos \in Nat
      /\ lx.chunk.start <= lx.pos
  BY DEF LexerType, ChunkType, Contains
<1>2. c \in [look : Look, size : {1, 2}]
  <2>1. lx.pos - lx.chunk.start \in Nat
    BY <1>1
  <2> QED BY <1>1, <2>1, CharAtType
<1>3. r = [lx EXCEPT !.look = c.look, !.lookSize = c.size]
  BY DEF GetLookahead
<1> HIDE DEF c, r
<1>4. r \in LexerType /\ r.look = c.look /\ r.lookSize = c.size
  <2>1. c.look \in Look /\ c.size \in 0 .. 2
    BY <1>2
  <2> QED BY ONLY <2>1, <1>3, lx \in LexerType DEF LexerType
<1>5. /\ r.chunk = lx.chunk /\ r.pos = lx.pos
      /\ r.tokenStart = lx.tokenStart /\ r.tokenEnd = lx.tokenEnd
  BY <1>3 DEF LexerType
<1>6. r.lookSize # 0
  BY <1>2, <1>4
<1>7. c = [look |-> c.look, size |-> c.size]
  BY <1>2
<1>8. Seen(r)
  BY <1>4, <1>5, <1>7 DEF Seen, c
<1> QED BY <1>4, <1>5, <1>6, <1>8 DEF LookaheadGot, r

(* ts_lexer__reset leaves a chunk only where the position is.              *)
LEMMA ResetFieldsSound ==
  ASSUME NEW t \in Seq(Unit), NEW in \in Nat, NEW p \in Nat,
         NEW lx \in LexerType, InStep(lx, in), StaleAtZero(lx, t) \/ p = 0
  PROVE  Sound(ResetFields(lx, p), in, t) /\ ResetFields(lx, p).pos = p
<1> DEFINE r == ResetFields(lx, p)
<1>1. lx.chunk \in ChunkType /\ lx.chunk.start \in Nat /\ ChunkEnd(lx.chunk) \in Nat
  BY DEF LexerType, ChunkType, ChunkEnd
<1>2. /\ r.chunk \in {NoChunk, lx.chunk}
      /\ r.chunk = NoChunk \/ (lx.chunk.start <= p /\ p < ChunkEnd(lx.chunk))
  BY <1>1 DEF ResetFields
<1>3. NoChunk \in ChunkType /\ NoChunk.null
  BY DEF NoChunk, ChunkType
<1>4. /\ r = [chunk |-> r.chunk, pos |-> p, look |-> NUL, lookSize |-> 0,
               tokenStart |-> p, tokenEnd |-> Unknown]
      /\ r.pos = p /\ r.lookSize = 0
  BY DEF ResetFields
<1>5. NUL \in Look
  BY LexerAssumption DEF Look
<1> HIDE DEF r
<1>6. r \in LexerType
  BY <1>1, <1>2, <1>3, <1>4, <1>5 DEF LexerType
<1>7. InStep(r, in) /\ Looked(r)
  BY <1>2, <1>3, <1>4 DEF InStep, Looked
<1>8. Aimed(r)
  BY <1>2, <1>3, <1>4 DEF Aimed, Contains
<1>9. StaleAtZero(r, t)
  BY <1>1, <1>2, <1>3 DEF StaleAtZero
<1> QED BY <1>4, <1>6, <1>7, <1>8, <1>9 DEF Sound, r

LEMMA ResetSound ==
  ASSUME NEW t \in Seq(Unit), NEW in \in Nat, NEW p \in Nat, NEW lx, Sound(lx, in, t)
  PROVE  Sound(Reset(lx, p), in, t) /\ Reset(lx, p).pos = p
<1>1. CASE p = lx.pos
  BY <1>1 DEF Reset
<1>2. CASE p # lx.pos
  BY <1>2, ResetFieldsSound DEF Reset, Sound
<1> QED BY <1>1, <1>2

(* ts_lexer_start: a fresh token at the position, with a lookahead.        *)
Begun(lx, t, r) ==
  /\ Sound(r.lexer, r.input, t) /\ r.lexer.lookSize # 0
  /\ r.lexer.pos = lx.pos /\ r.lexer.tokenStart = lx.pos /\ r.lexer.tokenEnd = Unknown

LEMMA StartSound ==
  ASSUME NEW t \in Seq(Unit), NEW in, NEW lx, Sound(lx, in, t)
  PROVE  Begun(lx, t, Start(lx, in, t))
<1> DEFINE begun == [lx EXCEPT !.tokenStart = lx.pos, !.tokenEnd = Unknown]
           got   == IF lx.chunk.null THEN GetChunk(begun, in, t)
                    ELSE [lexer |-> begun, input |-> in]
           g     == got.lexer
           r     == Start(lx, in, t)
<1>1. /\ lx \in LexerType /\ in \in Nat /\ lx.chunk \in ChunkType
      /\ InStep(lx, in) /\ Aimed(lx) /\ Looked(lx) /\ StaleAtZero(lx, t)
  BY DEF Sound, LexerType
<1>2. /\ begun \in LexerType /\ begun.chunk = lx.chunk /\ begun.pos = lx.pos
      /\ begun.tokenStart = lx.pos /\ begun.tokenEnd = Unknown
      /\ begun.look = lx.look /\ begun.lookSize = lx.lookSize
  BY <1>1 DEF LexerType
<1> HIDE DEF begun
<1>3. InStep(begun, in)
  BY <1>1, <1>2 DEF InStep
<1>4. /\ g \in LexerType /\ got.input \in Nat
      /\ g.pos = lx.pos /\ g.tokenStart = lx.pos /\ g.tokenEnd = Unknown
      /\ g.look = lx.look /\ g.lookSize = lx.lookSize
      /\ ~ g.chunk.null /\ Contains(g.chunk, g.pos)
      /\ ~ Shows(g.chunk, t) => g.chunk.start = 0
      /\ got.input = ChunkEnd(g.chunk)
      /\ ~ lx.chunk.null => g.chunk = lx.chunk
  <2>1. CASE lx.chunk.null
    <3>1. got = GetChunk(begun, in, t)
      BY <2>1
    <3>2. ChunkGot(begun, t, got)
      BY <1>1, <1>2, <1>3, <3>1, GetChunkSound
    <3> HIDE DEF got
    <3>3. g = [begun EXCEPT !.chunk = g.chunk] /\ g.chunk \in ChunkType
      BY <3>2 DEF ChunkGot
    <3>4. /\ g \in LexerType /\ g.pos = lx.pos /\ g.tokenStart = lx.pos
          /\ g.tokenEnd = Unknown /\ g.look = lx.look /\ g.lookSize = lx.lookSize
      BY ONLY <3>3, <1>2 DEF LexerType
    <3> QED BY <1>2, <2>1, <3>2, <3>4 DEF ChunkGot
  <2>2. CASE ~ lx.chunk.null
    <3>1. got.lexer = begun /\ got.input = in
      BY <2>2
    <3> HIDE DEF got
    <3> QED BY <1>1, <1>2, <2>2, <3>1 DEF InStep, Aimed, StaleAtZero
  <2> QED BY <2>1, <2>2
<1>5. r = IF lx.lookSize = 0 THEN [got EXCEPT !.lexer = GetLookahead(g)] ELSE got
  BY DEF Start, begun
<1>6. got = [lexer |-> g, input |-> got.input]
  BY DEF GetChunk
<1> HIDE DEF got
<1>7. /\ r.lexer = (IF lx.lookSize = 0 THEN GetLookahead(g) ELSE g)
      /\ r.input = got.input
  BY ONLY <1>5, <1>6
<1> HIDE DEF r, g
<1>8. /\ r.lexer \in LexerType /\ r.lexer.lookSize # 0 /\ Seen(r.lexer)
      /\ r.lexer.chunk = g.chunk /\ r.lexer.pos = g.pos
      /\ r.lexer.tokenStart = g.tokenStart /\ r.lexer.tokenEnd = g.tokenEnd
  <2>1. CASE lx.lookSize = 0
    <3>1. LookaheadGot(g, r.lexer)
      BY <1>4, <1>7, <2>1, GetLookaheadSound
    <3> QED BY <3>1 DEF LookaheadGot
  <2>2. CASE lx.lookSize # 0
    <3>1. g.chunk = lx.chunk /\ Seen(lx)
      BY <1>1, <1>4, <2>2 DEF Looked
    <3>2. Seen(g)
      BY <1>4, <3>1 DEF Seen
    <3> QED BY <1>4, <1>7, <2>2, <3>2
  <2> QED BY <2>1, <2>2
<1>9. Sound(r.lexer, r.input, t)
  BY <1>4, <1>7, <1>8 DEF Sound, InStep, Aimed, Looked, StaleAtZero
<1> QED BY <1>4, <1>8, <1>9 DEF Begun, r

(* ts_lexer__advance: forwards by one character, or not at all at the end. *)
Advanced(lx, t, skip, r) ==
  /\ Sound(r.lexer, r.input, t) /\ r.lexer.lookSize # 0
  /\ r.lexer.pos >= lx.pos /\ r.lexer.tokenEnd = lx.tokenEnd
  /\ r.lexer.tokenStart = lx.tokenStart \/ (skip /\ r.lexer.tokenStart = r.lexer.pos)

LEMMA AdvanceSound ==
  ASSUME NEW t \in Seq(Unit), NEW in, NEW lx, NEW skip \in BOOLEAN,
         Sound(lx, in, t), lx.lookSize # 0
  PROVE  Advanced(lx, t, skip, Advance(lx, in, t, skip))
<1> DEFINE pos   == lx.pos + lx.lookSize
           moved == [lx EXCEPT !.pos = pos,
                               !.tokenStart = IF skip THEN pos ELSE lx.tokenStart]
           got   == IF pos >= ChunkEnd(lx.chunk) THEN GetChunk(moved, in, t)
                    ELSE [lexer |-> moved, input |-> in]
           g     == got.lexer
           r     == Advance(lx, in, t, skip)
<1>1. /\ lx \in LexerType /\ in \in Nat /\ lx.chunk \in ChunkType
      /\ lx.pos \in Nat /\ lx.lookSize \in Nat /\ lx.tokenStart \in Nat
      /\ InStep(lx, in) /\ Aimed(lx) /\ Looked(lx) /\ StaleAtZero(lx, t)
  BY DEF Sound, LexerType
<1>2. CASE lx.chunk.units = << >>
  <2>1. r.lexer = lx /\ r.input = in
    BY <1>2 DEF Advance
  <2> HIDE DEF r
  <2> QED BY <1>1, <2>1 DEF Advanced, r
<1>3. CASE lx.chunk.units # << >>
  <2>1. pos \in Nat /\ pos >= lx.pos
    BY <1>1
  <2>2. ~ lx.chunk.null /\ lx.chunk.start <= lx.pos
    BY <1>1 DEF Looked, Aimed, Contains
  <2>3. r = [got EXCEPT !.lexer = GetLookahead(g)]
    BY <1>3 DEF Advance
  <2> HIDE DEF pos
  <2>4. /\ moved \in LexerType /\ moved.chunk = lx.chunk /\ moved.pos = pos
        /\ moved.tokenStart = (IF skip THEN pos ELSE lx.tokenStart)
        /\ moved.tokenEnd = lx.tokenEnd
    BY <1>1, <2>1 DEF LexerType
  <2> HIDE DEF moved
  <2>5. InStep(moved, in)
    BY <1>1, <2>4 DEF InStep
  <2>6. /\ g \in LexerType /\ got.input \in Nat
        /\ g.pos = pos /\ g.tokenStart = moved.tokenStart /\ g.tokenEnd = lx.tokenEnd
        /\ ~ g.chunk.null /\ Contains(g.chunk, g.pos)
        /\ ~ Shows(g.chunk, t) => g.chunk.start = 0
        /\ got.input = ChunkEnd(g.chunk)
        /\ got = [lexer |-> g, input |-> got.input]
    <3>1. CASE pos >= ChunkEnd(lx.chunk)
      <4>1. got = GetChunk(moved, in, t)
        BY <3>1
      <4>2. ChunkGot(moved, t, got)
        BY <1>1, <2>4, <2>5, <4>1, GetChunkSound
      <4>3. got = [lexer |-> g, input |-> got.input]
        BY <4>1 DEF GetChunk
      <4> HIDE DEF got
      <4>4. g = [moved EXCEPT !.chunk = g.chunk] /\ g.chunk \in ChunkType
        BY <4>2 DEF ChunkGot
      <4>5. /\ g \in LexerType /\ g.pos = pos /\ g.tokenStart = moved.tokenStart
            /\ g.tokenEnd = lx.tokenEnd
        BY ONLY <4>4, <2>4 DEF LexerType
      <4> QED BY <2>4, <4>2, <4>3, <4>5 DEF ChunkGot
    <3>2. CASE ~ (pos >= ChunkEnd(lx.chunk))
      <4>1. got = [lexer |-> moved, input |-> in]
        BY <3>2
      <4>2. got.lexer = moved /\ got.input = in
        BY <4>1
      <4> HIDE DEF got
      <4>3. ChunkEnd(lx.chunk) \in Nat /\ lx.chunk.start \in Nat
        BY <1>1 DEF ChunkEnd, ChunkType
      <4>4. Contains(g.chunk, g.pos)
        BY <2>1, <2>2, <2>4, <3>2, <4>2, <4>3, <1>1 DEF Contains
      <4> QED BY <1>1, <2>2, <2>4, <4>1, <4>2, <4>4 DEF InStep, StaleAtZero
    <3> QED BY <3>1, <3>2
  <2> HIDE DEF got
  <2>7. r.lexer = GetLookahead(g) /\ r.input = got.input
    BY ONLY <2>3, <2>6
  <2> HIDE DEF r, g
  <2>8. LookaheadGot(g, r.lexer)
    BY <2>6, <2>7, GetLookaheadSound
  <2>9. Sound(r.lexer, r.input, t)
    BY <2>6, <2>7, <2>8 DEF Sound, InStep, Aimed, Looked, StaleAtZero, LookaheadGot
  <2> QED BY <1>1, <2>1, <2>4, <2>6, <2>8, <2>9 DEF Advanced, LookaheadGot, r
<1> QED BY <1>2, <1>3

-----------------------------------------------------------------------------
(* The leaf.                                                               *)

CallType == [start : Nat, mode : {"normal", "retry", "skip"}, errStart : Nat, errEnd : Nat]
LeafType == [padding : Nat, size : Nat, scanned : Nat]
OldType == {"none", "same", "edited"}

LEMMA LeafSound ==
  ASSUME NEW lx \in LexerType, NEW c \in CallType, Ordered(lx, c)
  PROVE  LET l == MakeLeaf(lx, c) IN
           l \in LeafType /\ 2 * (l.padding + l.size) < l.scanned
<1> DEFINE end  == IF lx.tokenEnd = Unknown THEN lx.pos ELSE lx.tokenEnd
           from == IF c.mode = "skip" THEN c.errStart ELSE lx.tokenStart
           to   == IF c.mode = "skip" THEN c.errEnd ELSE end
<1>1. MakeLeaf(lx, c) = [padding |-> from - c.start, size |-> to - from,
                         scanned |-> 2 * (lx.pos - c.start) + 1]
  BY DEF MakeLeaf
<1>2. /\ c.start \in Nat /\ lx.pos \in Nat /\ from \in Nat /\ to \in Nat
      /\ c.start <= from /\ from <= to /\ to <= lx.pos
  BY DEF Ordered, LexerType, CallType, Unknown
<1> HIDE DEF from, to
<1> QED BY <1>1, <1>2 DEF LeafType

-----------------------------------------------------------------------------
(* The inductive invariant.                                                *)

LEMMA InitInv == Init => Inv
<1> SUFFICES ASSUME Init PROVE Inv
  OBVIOUS
<1>1. NUL \in Look /\ text \in Seq(Unit)
  BY LexerAssumption DEF Init, Look
<1>2. NewLexer \in LexerType /\ NewLexer.chunk.null
  BY <1>1 DEF NewLexer, NoChunk, LexerType, ChunkType
<1>3. TypeOK
  BY <1>1, <1>2 DEF Init, TypeOK, LexerType, ChunkType
<1> QED BY <1>2, <1>3 DEF Init, Inv, InputInStep

(* What each action may assume, and what it owes.                          *)
LEMMA InvTypes ==
  ASSUME Inv
  PROVE  /\ text \in Seq(Unit) /\ input \in Nat /\ lexer \in LexerType
         /\ call \in CallType /\ leaf \in LeafType /\ InStep(lexer, input)
         /\ old \in OldType /\ ended \in BOOLEAN
BY DEF Inv, TypeOK, InputInStep, InStep, LexerType, ChunkType, CallType, LeafType, OldType

LEMMA InvFromParts ==
  ASSUME text' \in Seq(Unit), call' \in CallType, leaf' \in LeafType,
         old' \in OldType, ended' \in BOOLEAN,
         phase' \in {"parse", "lex"}, Sound(lexer, input, text)',
         (phase = "lex" => lexer.lookSize # 0 /\ Ordered(lexer, call))'
  PROVE  Inv'
BY DEF Inv, TypeOK, InputInStep, Sound, InStep, LexerType, ChunkType, CallType, LeafType, OldType

LEMMA StartParseInv == Inv /\ StartParse => Inv'
<1> SUFFICES ASSUME Inv, StartParse PROVE Inv'
  OBVIOUS
<1>1. Sound(ResetFields(lexer, 0), input, text)
  BY InvTypes, ResetFieldsSound
<1>2. Sound(lexer, input, text)' /\ phase' = "parse"
  BY <1>1 DEF StartParse
<1> QED BY <1>2, InvTypes, InvFromParts DEF StartParse

LEMMA EndParseInv == Inv /\ EndParse => Inv'
BY DEF Inv, EndParse, TypeOK, InputInStep

LEMMA InvalidateInv == Inv /\ Invalidate => Inv'
BY DEF Inv, Invalidate, TypeOK, InputInStep

LEMMA LexInv == ASSUME NEW p \in Position, Inv, Lex(p) PROVE Inv'
<1> DEFINE lx == Reset(lexer, p)
           c  == [start |-> p, mode |-> "normal", errStart |-> 0, errEnd |-> 0]
<1>1. p \in Nat /\ Sound(lexer, input, text)
  BY LexerAssumption DEF Position, Lex, Inv
<1>2. Sound(lx, input, text) /\ lx.pos = p
  BY <1>1, InvTypes, ResetSound
<1>3. Begun(lx, text, Start(lx, input, text))
  BY <1>2, InvTypes, StartSound
<1>4. /\ Sound(lexer, input, text)' /\ lexer'.lookSize # 0
      /\ lexer'.pos = p /\ lexer'.tokenStart = p /\ lexer'.tokenEnd = Unknown
  BY <1>2, <1>3 DEF Begun, Lex, Install
<1>5. call' = c /\ c \in CallType
  BY <1>1 DEF Lex, CallType
<1>6. Ordered(lexer, call)'
  BY <1>1, <1>4, <1>5 DEF Ordered
<1> QED BY <1>4, <1>5, <1>6, InvTypes, InvFromParts DEF Lex

LEMMA LexFnAdvanceInv == ASSUME NEW skip \in BOOLEAN, Inv, LexFnAdvance(skip) PROVE Inv'
<1> DEFINE r == Advance(lexer, input, text, skip)
<1>1. Sound(lexer, input, text) /\ lexer.lookSize # 0 /\ Ordered(lexer, call)
  BY DEF Inv, LexFnAdvance
<1>2. Advanced(lexer, text, skip, r)
  BY <1>1, InvTypes, AdvanceSound
<1>3. lexer' = r.lexer /\ input' = r.input /\ r.lexer \in LexerType
  BY <1>2 DEF LexFnAdvance, Install, Advanced, Sound
<1> HIDE DEF r
<1>4. Ordered(r.lexer, call)
  <2>1. /\ r.lexer.pos >= lexer.pos /\ r.lexer.tokenEnd = lexer.tokenEnd
        /\ \/ r.lexer.tokenStart = lexer.tokenStart
           \/ skip /\ r.lexer.tokenStart = r.lexer.pos
    BY <1>2 DEF Advanced
  <2>2. skip => lexer.pos = lexer.tokenStart /\ lexer.tokenEnd = Unknown
    BY DEF LexFnAdvance
  <2> QED BY <1>1, <1>3, <2>1, <2>2, InvTypes DEF Ordered, LexerType, CallType, Unknown
<1> QED BY <1>2, <1>3, <1>4, InvTypes, InvFromParts DEF LexFnAdvance, Advanced

LEMMA LexFnMarkEndInv == Inv /\ LexFnMarkEnd => Inv'
<1> SUFFICES ASSUME Inv, LexFnMarkEnd PROVE Inv'
  OBVIOUS
<1>1. Sound(lexer, input, text) /\ lexer.lookSize # 0 /\ Ordered(lexer, call)
  BY DEF Inv, LexFnMarkEnd
<1>2. /\ lexer' \in LexerType /\ lexer'.chunk = lexer.chunk /\ lexer'.pos = lexer.pos
      /\ lexer'.look = lexer.look /\ lexer'.lookSize = lexer.lookSize
      /\ lexer'.tokenStart = lexer.tokenStart /\ lexer'.tokenEnd = lexer.pos
  BY InvTypes DEF LexFnMarkEnd, LexerType
<1>3. Sound(lexer, input, text)'
  BY <1>1, <1>2 DEF Sound, InStep, Aimed, Looked, Seen, StaleAtZero, LexFnMarkEnd
<1>4. Ordered(lexer, call)'
  BY <1>1, <1>2, InvTypes DEF Ordered, LexFnMarkEnd, LexerType
<1> QED BY <1>1, <1>2, <1>3, <1>4, InvTypes, InvFromParts DEF LexFnMarkEnd

LEMMA LexFnAcceptInv == Inv /\ LexFnAccept => Inv'
<1> SUFFICES ASSUME Inv, LexFnAccept PROVE Inv'
  OBVIOUS
<1>1. Sound(lexer, input, text) /\ Ordered(lexer, call)
  BY DEF Inv, LexFnAccept
<1>2. /\ lexer' \in LexerType /\ lexer'.chunk = lexer.chunk /\ lexer'.pos = lexer.pos
      /\ lexer'.look = lexer.look /\ lexer'.lookSize = lexer.lookSize
      /\ lexer'.tokenStart = lexer.tokenStart
      /\ lexer'.tokenEnd = (IF lexer.tokenEnd = Unknown THEN lexer.pos ELSE lexer.tokenEnd)
  BY InvTypes DEF LexFnAccept, LexerType
<1>3. Sound(lexer, input, text)'
  BY <1>1, <1>2 DEF Sound, InStep, Aimed, Looked, Seen, StaleAtZero, LexFnAccept
<1>4. Ordered(lexer', call)
  BY <1>1, <1>2, InvTypes DEF Ordered, LexerType, Unknown
<1>5. leaf' \in LeafType
  BY <1>2, <1>4, InvTypes, LeafSound DEF LexFnAccept
<1> QED BY <1>3, <1>5, InvTypes, InvFromParts DEF LexFnAccept

(* The end token is taken after one more advance.                          *)
LEMMA LexFnEndInv == Inv /\ LexFnEnd => Inv'
<1> SUFFICES ASSUME Inv, LexFnEnd PROVE Inv'
  OBVIOUS
<1> DEFINE r == Advance(lexer, input, text, FALSE)
           m == r.lexer
<1>1. Sound(lexer, input, text) /\ lexer.lookSize # 0 /\ Ordered(lexer, call)
  BY DEF Inv, LexFnEnd
<1>2. Advanced(lexer, text, FALSE, r)
  BY <1>1, InvTypes, AdvanceSound
<1>3. /\ Sound(m, r.input, text) /\ m \in LexerType /\ m.pos >= lexer.pos
      /\ m.tokenStart = lexer.tokenStart
  BY <1>2 DEF Advanced, Sound
<1>4. lexer' = [r EXCEPT !.lexer.tokenEnd = m.pos].lexer
      /\ input' = [r EXCEPT !.lexer.tokenEnd = m.pos].input
  BY Zenon DEF LexFnEnd, Install
<1>5. DOMAIN r = {"lexer", "input"}
  BY DEF Advance, GetChunk
<1> HIDE DEF r
<1>6. lexer' = [m EXCEPT !.tokenEnd = m.pos] /\ input' = r.input
  BY <1>4, <1>5
<1> HIDE DEF m
<1>7. /\ lexer' \in LexerType /\ lexer'.chunk = m.chunk /\ lexer'.pos = m.pos
      /\ lexer'.look = m.look /\ lexer'.lookSize = m.lookSize
      /\ lexer'.tokenStart = m.tokenStart /\ lexer'.tokenEnd = m.pos
  BY <1>3, <1>6 DEF LexerType
<1>8. text' = text /\ call' = call /\ old' = old /\ ended' \in BOOLEAN
  BY InvTypes DEF LexFnEnd
<1>9. Sound(lexer, input, text)'
  BY <1>3, <1>6, <1>7, <1>8 DEF Sound, InStep, Aimed, Looked, Seen, StaleAtZero
<1>10. Ordered(lexer', call)
  BY <1>1, <1>3, <1>7, InvTypes DEF Ordered, LexerType, CallType, Unknown
<1>11. leaf' \in LeafType
  BY <1>7, <1>10, InvTypes, LeafSound DEF LexFnEnd
<1> QED BY <1>8, <1>9, <1>11, InvTypes, InvFromParts DEF LexFnEnd

LEMMA RetryInErrorModeInv == Inv /\ RetryInErrorMode => Inv'
<1> SUFFICES ASSUME Inv, RetryInErrorMode PROVE Inv'
  OBVIOUS
<1> DEFINE lx == Reset(lexer, call.start)
<1>1. call.start \in Nat /\ Sound(lexer, input, text)
  BY InvTypes DEF Inv, RetryInErrorMode, CallType
<1>2. Sound(lx, input, text) /\ lx.pos = call.start
  BY <1>1, InvTypes, ResetSound
<1>3. Begun(lx, text, Start(lx, input, text))
  BY <1>2, InvTypes, StartSound
<1>4. /\ Sound(lexer, input, text)' /\ lexer'.lookSize # 0
      /\ lexer'.pos = call.start /\ lexer'.tokenStart = call.start
      /\ lexer'.tokenEnd = Unknown
  BY <1>2, <1>3 DEF Begun, RetryInErrorMode, Install
<1>5. call' \in CallType /\ call'.start = call.start /\ call'.mode = "retry"
  BY InvTypes DEF RetryInErrorMode, CallType
<1>6. Ordered(lexer, call)'
  BY <1>1, <1>4, <1>5 DEF Ordered
<1> QED BY <1>4, <1>5, <1>6, InvTypes, InvFromParts DEF RetryInErrorMode

(* The first skipped character starts at the token, later ones where the   *)
(* error ended.                                                            *)
LEMMA SkipCallOrdered ==
  ASSUME Inv, phase = "lex"
  PROVE  /\ SkipCall \in CallType /\ SkipCall.mode = "skip"
         /\ SkipCall.start <= SkipCall.errStart /\ SkipCall.errStart <= SkipCall.errEnd
         /\ SkipCall.errEnd <= lexer.pos /\ SkipCall.start = call.start
         /\ Ordered(lexer, SkipCall)
<1>1. /\ Ordered(lexer, call) /\ call \in CallType
      /\ lexer.tokenStart \in Nat /\ lexer.pos \in Nat
  BY InvTypes DEF Inv, LexerType
<1>2. CASE call.mode = "skip"
  BY <1>1, <1>2 DEF SkipCall, Ordered, CallType
<1>3. CASE call.mode # "skip"
  <2>1. /\ SkipCall \in CallType /\ SkipCall.mode = "skip" /\ SkipCall.start = call.start
        /\ SkipCall.errStart = lexer.tokenStart /\ SkipCall.errEnd = lexer.tokenStart
    BY <1>1, <1>3 DEF SkipCall, CallType
  <2> QED BY <1>1, <2>1 DEF Ordered
<1> QED BY <1>2, <1>3

LEMMA SkipUnrecognizedInv == Inv /\ SkipUnrecognized => Inv'
<1> SUFFICES ASSUME Inv, SkipUnrecognized PROVE Inv'
  OBVIOUS
<1> DEFINE moved == IF lexer.pos = SkipCall.errEnd THEN Advance(lexer, input, text, FALSE)
                    ELSE [lexer |-> lexer, input |-> input]
           m == moved.lexer
<1>1. /\ phase = "lex" /\ phase' = "lex" /\ text' = text /\ leaf' = leaf
      /\ old' = old /\ ended' = ended
      /\ Sound(lexer, input, text) /\ lexer.lookSize # 0
  BY DEF Inv, SkipUnrecognized
<1>2. Sound(m, moved.input, text) /\ m.pos >= lexer.pos /\ m.pos \in Nat
  <2>1. CASE lexer.pos = SkipCall.errEnd
    <3>1. Advanced(lexer, text, FALSE, Advance(lexer, input, text, FALSE))
      BY <1>1, InvTypes, AdvanceSound
    <3> QED BY <2>1, <3>1 DEF Advanced, Sound, LexerType
  <2>2. CASE lexer.pos # SkipCall.errEnd
    BY <1>1, <2>2, InvTypes DEF LexerType
  <2> QED BY <2>1, <2>2
<1>3. /\ call' = [SkipCall EXCEPT !.errEnd = m.pos]
      /\ Install(Start(m, moved.input, text))
  BY DEF SkipUnrecognized
<1> HIDE DEF moved
<1>4. Begun(m, text, Start(m, moved.input, text))
  BY <1>2, InvTypes, StartSound
<1>5. /\ Sound(lexer, input, text)' /\ lexer'.lookSize # 0
      /\ lexer'.pos = m.pos /\ lexer'.tokenStart = m.pos /\ lexer'.tokenEnd = Unknown
  BY <1>1, <1>3, <1>4 DEF Begun, Install
<1>6. /\ call' \in CallType /\ call'.errEnd = m.pos
      /\ call'.start = SkipCall.start /\ call'.errStart = SkipCall.errStart
  BY <1>1, <1>2, <1>3, SkipCallOrdered DEF CallType
<1>7. Ordered(lexer, call)'
  BY <1>1, <1>2, <1>5, <1>6, SkipCallOrdered, InvTypes DEF Ordered, CallType, LexerType
<1> QED BY <1>1, <1>5, <1>6, <1>7, InvTypes, InvFromParts

LEMMA SkippedToEndInv == Inv /\ SkippedToEnd => Inv'
<1> SUFFICES ASSUME Inv, SkippedToEnd PROVE Inv'
  OBVIOUS
<1>1. phase = "lex" /\ Sound(lexer, input, text)
  BY DEF Inv, SkippedToEnd
<1>2. SkipCall \in CallType /\ Ordered(lexer, SkipCall)
  BY <1>1, SkipCallOrdered
<1>3. leaf' \in LeafType
  BY <1>2, InvTypes, LeafSound DEF SkippedToEnd
<1>4. Sound(lexer, input, text)' /\ call' \in CallType
  BY <1>1, <1>2 DEF SkippedToEnd
<1> QED BY <1>3, <1>4, InvTypes, InvFromParts DEF SkippedToEnd

(* An edit replaces text and, if the data was changed in place, units of   *)
(* the chunk, but not its length.                                          *)
LEMMA EditInv ==
  ASSUME NEW loc \in Position, NEW len \in Position, NEW str \in Strings,
         Inv, Edit(loc, len, str)
  PROVE  Inv'
<1>1. text' \in Seq(Unit)
  <2>1. /\ text' = SubSeq(text, 1, loc) \o str \o SubSeq(text, loc + len + 1, Len(text))
        /\ loc \in Nat /\ len \in Nat /\ loc + len <= Len(text)
    BY LexerAssumption DEF Edit, Buffer!Replace, Buffer!Splice, Buffer!InText, Position
  <2>2. str \in Seq(Unit) /\ text \in Seq(Unit)
    BY LexerAssumption, InvTypes
  <2>3. SubSeq(text, 1, loc) \in Seq(Unit) /\ SubSeq(text, loc + len + 1, Len(text)) \in Seq(Unit)
    BY <2>1, <2>2
  <2> QED BY <2>1, <2>2, <2>3
<1>2. PICK chunk \in {lexer.chunk, InPlace(lexer.chunk, text')} :
        lexer' = [lexer EXCEPT !.chunk = chunk]
  BY DEF Edit
<1>3. /\ chunk \in ChunkType /\ Len(chunk.units) = Len(lexer.chunk.units)
      /\ chunk.start = lexer.chunk.start /\ chunk.null = lexer.chunk.null
  <2>1. lexer.chunk \in ChunkType
    BY InvTypes DEF LexerType
  <2>2. CASE chunk = lexer.chunk
    BY <2>1, <2>2
  <2>3. CASE chunk = InPlace(lexer.chunk, text')
    <3> DEFINE shown == lexer.chunk
               f == [i \in 1 .. Len(shown.units) |->
                       IF shown.start + i <= Len(text') THEN text'[shown.start + i]
                       ELSE shown.units[i]]
    <3>1. shown.units \in Seq(Unit) /\ shown.start \in Nat /\ Len(shown.units) \in Nat
      BY <2>1 DEF ChunkType
    <3>2. \A i \in 1 .. Len(shown.units) : f[i] \in Unit
      BY <1>1, <3>1
    <3>3. f \in Seq(Unit) /\ Len(f) = Len(shown.units)
      <4>1. f \in [1 .. Len(shown.units) -> Unit]
        BY <3>2
      <4> HIDE DEF f
      <4> QED BY <3>1, <4>1
    <3>4. chunk = [shown EXCEPT !.units = f]
      BY <2>3 DEF InPlace
    <3> HIDE DEF f
    <3> QED BY <2>1, <3>3, <3>4 DEF ChunkType
  <2> QED BY <1>2, <2>2, <2>3
<1>4. lexer' \in LexerType /\ lexer'.chunk = chunk
  BY <1>2, <1>3, InvTypes DEF LexerType
<1>5. TypeOK'
  BY <1>1, <1>4 DEF Inv, TypeOK, Edit, LexerType, ChunkType
<1>6. InputInStep'
  BY <1>3, <1>4, InvTypes DEF InputInStep, InStep, ChunkEnd, Edit
<1> QED BY <1>5, <1>6 DEF Inv, Edit

LEMMA NextInv == Inv /\ [Next]_vars => Inv'
<1> SUFFICES ASSUME Inv, [Next]_vars PROVE Inv'
  OBVIOUS
<1>1. CASE StartParse
  BY <1>1, StartParseInv
<1>2. CASE EndParse
  BY <1>2, EndParseInv
<1>3. CASE \E p \in Position : Lex(p)
  BY <1>3, LexInv
<1>4. CASE \E skip \in BOOLEAN : LexFnAdvance(skip)
  BY <1>4, LexFnAdvanceInv
<1>5. CASE LexFnMarkEnd
  BY <1>5, LexFnMarkEndInv
<1>6. CASE LexFnAccept
  BY <1>6, LexFnAcceptInv
<1>7. CASE LexFnFail
  BY <1>7, RetryInErrorModeInv, SkipUnrecognizedInv, SkippedToEndInv DEF LexFnFail
<1>8. CASE \E loc, len \in Position, str \in Strings : Edit(loc, len, str)
  BY <1>8, EditInv
<1>9. CASE Invalidate
  BY <1>9, InvalidateInv
<1>10. CASE LexFnEnd
  BY <1>10, LexFnEndInv
<1>11. CASE UNCHANGED vars
  BY <1>11 DEF vars, Inv, TypeOK, InputInStep, ChunkEnd, Sound, InStep, Aimed, Contains, Looked,
              Seen, StaleAtZero, Shows, Ordered
<1> QED BY <1>1, <1>2, <1>3, <1>4, <1>5, <1>6, <1>7, <1>8, <1>9, <1>10, <1>11 DEF Next, Position

LEMMA SpecInv == Spec => []Inv
<1>1. Init => Inv
  BY InitInv
<1>2. Inv /\ [Next]_vars => Inv'
  BY NextInv
<1> QED BY <1>1, <1>2, PTL DEF Spec

-----------------------------------------------------------------------------
(* The theorems.                                                           *)

(* Every variable of the lexer and of the read position keeps its type.    *)
THEOREM TypeCorrect == Spec => []TypeOK
<1>1. Inv => TypeOK
  BY DEF Inv
<1> QED BY <1>1, SpecInv, PTL

(* The lexer never reads outside the chunk it was handed.                  *)
THEOREM StaysInChunk == Spec => []InChunk
<1>1. Inv => InChunk
  <2> SUFFICES ASSUME Inv, phase = "lex" PROVE ~ lexer.chunk.null /\ Contains(lexer.chunk, lexer.pos)
    BY DEF InChunk, Contains
  <2> QED BY DEF Inv, Sound, Aimed, Looked
<1> QED BY <1>1, SpecInv, PTL

(* Leaving out the seek is always right: the input stands where the chunk  *)
(* ends.                                                                   *)
THEOREM InputStaysInStep == Spec => []InputInStep
<1>1. Inv => InputInStep
  BY DEF Inv
<1> QED BY <1>1, SpecInv, PTL

(* With a current chunk, the character the lex function sees is the one of *)
(* the text at the lexer's position.                                       *)
THEOREM SeesTheText == Spec => []LookaheadFromText
<1>1. Inv => LookaheadFromText
  <2> SUFFICES ASSUME Inv, phase = "lex", ChunkCurrent
               PROVE  [look |-> lexer.look, size |-> lexer.lookSize] = CharAt(text, lexer.pos)
    BY DEF LookaheadFromText
  <2>1. /\ [look |-> lexer.look, size |-> lexer.lookSize]
              = CharAt(lexer.chunk.units, lexer.pos - lexer.chunk.start)
        /\ ~ lexer.chunk.null /\ lexer.chunk.start <= lexer.pos
    BY DEF Inv, Sound, Looked, Seen, Aimed, Contains
  <2>2. lexer.chunk.start \in Nat /\ lexer.pos \in Nat /\ text \in Seq(Unit)
    BY InvTypes DEF LexerType, ChunkType
  <2>3. CharAt(SubSeq(text, lexer.chunk.start + 1, Len(text)), lexer.pos - lexer.chunk.start)
          = CharAt(text, lexer.pos)
    BY <2>1, <2>2, CharInChunk
  <2> QED BY <2>1, <2>3 DEF ChunkCurrent
<1> QED BY <1>1, SpecInv, PTL

(* A chunk that a parse meets with old text in it starts at byte 0: the    *)
(* reset of set_input drops every other chunk.                             *)
THEOREM StaleChunksStartAtZero == Spec => []StaleOnlyFromZero
<1>1. Inv => StaleOnlyFromZero
  BY DEF Inv, Sound, StaleAtZero, Shows, StaleOnlyFromZero, ChunkCurrent
<1> QED BY <1>1, SpecInv, PTL

(* No length of a leaf wraps around, and bytes_scanned covers the leaf.    *)
THEOREM LeavesFit == Spec => []LeafFits
<1>1. Inv => LeafFits
  <2> SUFFICES ASSUME Inv, phase = "lex"
               PROVE  LET l == MakeLeaf(lexer, call)
                      IN  l.padding >= 0 /\ l.size >= 0 /\ 2 * (l.padding + l.size) < l.scanned
    BY DEF LeafFits
  <2>1. Ordered(lexer, call)
    BY DEF Inv
  <2> DEFINE l == MakeLeaf(lexer, call)
  <2>2. l \in LeafType /\ 2 * (l.padding + l.size) < l.scanned
    BY <2>1, InvTypes, LeafSound
  <2> HIDE DEF l
  <2>3. l.padding >= 0 /\ l.size >= 0
    BY <2>2 DEF LeafType
  <2> QED BY <2>2, <2>3 DEF l
<1> QED BY <1>1, SpecInv, PTL
=============================================================================
