------------------------------ MODULE Reparse ------------------------------
(***************************************************************************)
(* The parse that follows edits (parser.c, reusable_node.h): at every      *)
(* position the parser takes over a node of the old tree if the reusable   *)
(* node stands there and is not marked, and lexes a new leaf otherwise.    *)
(*                                                                         *)
(* Text, trees and edits are those of TreeEdit.  The grammar is the        *)
(* environment: it may refuse any node, or take over only its first child. *)
(* Reductions are left out: what was shifted becomes the children of the   *)
(* root.  There is one stack version, and there are no external tokens and *)
(* no error nodes.  A new leaf is any leaf a lex function could make.      *)
(***************************************************************************)
EXTENDS TreeEdit

CONSTANT MaxParses       \* bound: parses of an edited tree

ASSUME ReparseAssumption == MaxParses \in Nat /\ 0 \notin Sizes

VARIABLES phase,    \* "edit" between parses, "parse" in parser_parse
          cursor,   \* the ReusableNode: [done, path, byte]
          pos,      \* bytes at the top of the stack
          made,     \* the trees on the stack
          parses    \* parses so far

parseVars == <<phase, cursor, pos, made, parses>>
allVars == <<vars, parseVars>>

-----------------------------------------------------------------------------
(* reusable_node.h                                                         *)
NewCursor == [done |-> FALSE, path |-> << >>, byte |-> 0]

(* The levels of a path at which there is a next sibling.                  *)
Turns(path) ==
  {k \in DOMAIN path : path[k] < tree[SubSeq(path, 1, k - 1)].child_count}

Forward(c, bytes) ==
  IF Turns(c.path) = {} THEN [done |-> TRUE, path |-> << >>, byte |-> c.byte + bytes]
  ELSE LET k == CHOOSE k \in Turns(c.path) : \A j \in Turns(c.path) : j <= k
       IN  [done |-> FALSE, path |-> SubSeq(c.path, 1, k - 1) \o <<c.path[k] + 1>>,
            byte |-> c.byte + bytes]

(* Mutant of Pop: the padding of the node is not counted.                  *)
PopSizeOnly(c) == Forward(c, tree[c.path].size)

(* reusable_node_pop                                                       *)
Pop(c) == Forward(c, Total(tree[c.path]))

(* reusable_node_breakdown, of a node that has children.                   *)
Breakdown(c) == [c EXCEPT !.path = Append(@, 1)]

(* The node, its first child, the first child of that, down to a leaf.     *)
Descents(c) ==
  {[c EXCEPT !.path = p] :
     p \in {q \in DOMAIN tree : IsPrefix(c.path, q) /\ \A k \in Len(c.path) + 1 .. Len(q) : q[k] = 1}}

(* The node at a path as a tree of its own, and the children of a root.    *)
Subtree(t, p) ==
  [q \in {SubSeq(r, Len(p) + 1, Len(r)) : r \in {r \in DOMAIN t : IsPrefix(p, r)}} |-> t[p \o q]]

Subtrees(t) == [i \in 1 .. t[<< >>].child_count |-> Subtree(t, <<i>>)]

(* parser__breakdown_top_of_stack: a subtree taken over as a whole is put  *)
(* back on the stack as its children, down to the last leaf.               *)
BreakdownStep(stack) ==
  IF stack = << >> THEN stack
  ELSE IF Last(stack)[<< >>].child_count = 0 THEN stack
  ELSE Front(stack) \o Subtrees(Last(stack))

BreakdownTop(stack) ==
  LET depth == IF stack = << >> THEN 0 ELSE Cardinality(DOMAIN Last(stack))
      after[n \in 0 .. depth] == IF n = 0 THEN stack ELSE BreakdownStep(after[n - 1])
  IN  after[depth]

-----------------------------------------------------------------------------
(* The end of the text is a leaf of its own, the last child of the root.   *)
EndLeaf(padding, at) == MakeLeaf(padding, 0, 1, at)

ReparseInit ==
  /\ \E row \in Rows, padding \in Paddings :
       tree = MakeNode(row \o <<EndLeaf(padding, TotalOf(Roots(row)))>>)
  /\ Total(tree[<< >>]) < Word
  /\ text = [i \in 1 .. Total(tree[<< >>]) |-> i]
  /\ parsed = Total(tree[<< >>]) /\ edits = 0 /\ parses = 0
  /\ phase = "edit" /\ cursor = NewCursor /\ pos = 0 /\ made = << >>

EditText(start, removed, added) ==
  /\ phase = "edit" /\ parses < MaxParses
  /\ Edit(start, removed, added)
  /\ UNCHANGED parseVars

(* parser__start, unless ts_document_parse finds nothing to do.            *)
Start ==
  /\ phase = "edit" /\ tree[<< >>].has_changes /\ parses < MaxParses
  /\ phase' = "parse" /\ cursor' = NewCursor /\ pos' = 0 /\ made' = << >>
  /\ UNCHANGED <<vars, parses>>

(* With the end's leaf on the stack the version is halted: the end's leaf  *)
(* is the only one without a size.                                         *)
Finished == made # << >> /\ Last(made)[<< >>].size = 0

Running == phase = "parse" /\ ~ Finished

(* parser__get_lookahead: the reusable node lies before the position.      *)
SkipPast ==
  /\ Running /\ ~ cursor.done /\ cursor.byte < pos
  /\ cursor' = Pop(cursor)
  /\ UNCHANGED <<vars, phase, pos, made, parses>>

Standing == Running /\ ~ cursor.done /\ cursor.byte = pos

(* Mutants of SkipChanged: a marked leaf is not passed over; marks are     *)
(* only looked for in nodes with children.                                 *)
SkipChangedStuck ==
  /\ Standing /\ tree[cursor.path].has_changes
  /\ cursor' = IF tree[cursor.path].child_count > 0 THEN Breakdown(cursor) ELSE cursor
  /\ made' = IF tree[cursor.path].child_count > 0 THEN made ELSE BreakdownTop(made)
  /\ UNCHANGED <<vars, phase, pos, parses>>

(* It is marked: try its first child, or pass over it and break up what    *)
(* was taken over last.                                                    *)
SkipChanged ==
  /\ Standing /\ tree[cursor.path].has_changes
  /\ IF tree[cursor.path].child_count > 0
       THEN cursor' = Breakdown(cursor) /\ UNCHANGED made
       ELSE cursor' = Pop(cursor) /\ made' = BreakdownTop(made)
  /\ UNCHANGED <<vars, phase, pos, parses>>

(* Mutants of Offered: marks of leaves are ignored; the position is not    *)
(* compared with the reusable node's.                                      *)
OfferedMarkedLeaves ==
  Standing /\ (~ tree[cursor.path].has_changes \/ tree[cursor.path].child_count = 0)
OfferedAnywhere ==
  Running /\ ~ cursor.done /\ cursor.byte <= pos /\ ~ tree[cursor.path].has_changes

(* parser__get_lookahead returns the reusable node.                        *)
Offered == Standing /\ ~ tree[cursor.path].has_changes

(* The grammar has no use for it (parser__can_reuse), at once or after     *)
(* parser__breakdown_lookahead: its first leaf, or the child it was broken *)
(* down to, is passed over.                                                *)
Refuse ==
  /\ Offered
  /\ \E c \in Descents(cursor) :
       /\ c # cursor \/ tree[c.path].child_count = 0
       /\ cursor' = Pop(c)
  /\ UNCHANGED <<vars, phase, pos, made, parses>>

(* parser__shift of the node, or of what it was broken down to.            *)
Reuse ==
  /\ Offered
  /\ \E c \in Descents(cursor) :
       /\ cursor' = Pop(c)
       /\ made' = Append(made, Subtree(tree, c.path))
       /\ pos' = pos + Total(tree[c.path])
  /\ UNCHANGED <<vars, phase, parses>>

(* No reusable node stands here: a new leaf is lexed and shifted.  Its     *)
(* lexedAt says that it is new.                                            *)
New == -1

NewLeaves ==
  {leaf \in {MakeLeaf(s.padding, s.size, s.lookahead, New) : s \in Shapes} :
     /\ pos + Total(leaf[<< >>]) <= Len(text)
     /\ pos + leaf[<< >>].bytes_scanned <= Len(text) + 1}
  \cup {leaf \in {EndLeaf(p, New) : p \in Paddings} : pos + Total(leaf[<< >>]) = Len(text)}

Lex ==
  /\ Running
  /\ cursor.done \/ cursor.byte > pos
  /\ \E leaf \in NewLeaves :
       /\ made' = Append(made, leaf)
       /\ pos' = pos + Total(leaf[<< >>])
  /\ UNCHANGED <<vars, phase, cursor, parses>>

(* parser__accept: the trees on the stack, the end's leaf last, become the *)
(* root's children, and the bytes of the text are numbered anew.           *)
Renumbered(t) ==
  [p \in DOMAIN t |-> [t[p] EXCEPT !.lexedAt = IF t[p].child_count = 0 THEN Begins(t)[p] ELSE 0]]

Accept ==
  /\ phase = "parse" /\ Finished
  /\ \E root \in {MakeNode(made)} : tree' = Renumbered(root)
  /\ text' = [i \in DOMAIN text |-> i]
  /\ parsed' = Len(text) /\ edits' = 0 /\ parses' = parses + 1
  /\ phase' = "edit" /\ cursor' = NewCursor /\ pos' = 0 /\ made' = << >>

ParseStep == SkipPast \/ SkipChanged \/ Refuse \/ Reuse \/ Lex \/ Accept

ReparseNext ==
  \/ \E start, removed \in 0 .. Len(text), added \in 0 .. MaxAdded :
       EditText(start, removed, added)
  \/ Start
  \/ SkipPast
  \/ SkipChanged
  \/ Refuse
  \/ Reuse
  \/ Lex
  \/ Accept

(* parser_parse runs to its end.                                           *)
ReparseSpec == ReparseInit /\ [][ReparseNext]_allVars /\ WF_allVars(ParseStep)

-----------------------------------------------------------------------------
(* The reusable node's byte_index, which is added up along the way, is     *)
(* where the node stands in the edited tree: comparing it with the         *)
(* position of the stack compares places in the same text.                 *)
CursorInStep ==
  phase = "parse" =>
    cursor.byte = IF cursor.done THEN Total(tree[<< >>]) ELSE Begins(tree)[cursor.path]

(* Every leaf the parser took over, alone or inside a subtree, would be    *)
(* lexed from the same bytes at the place it now has: the incremental      *)
(* parse sees the tokens a parse from nothing would see.                   *)
ReusedLeavesIntact ==
  \A i \in DOMAIN made :
    \A p \in DOMAIN made[i] :
      made[i][p].child_count = 0 /\ made[i][p].lexedAt # New
        => Intact(made[i][p], Starts(Roots(made))[i] + Begins(made[i])[p])

(* No mark of an edit gets into the new tree, where it would keep a later  *)
(* parse from returning early and from reusing what has not changed.       *)
NoOldMarks == phase = "edit" /\ edits = 0 => \A p \in DOMAIN tree : ~ tree[p].has_changes

(* The parser gets through the text however little of the old tree can be  *)
(* reused.                                                                 *)
ParseTerminates == phase = "parse" ~> phase = "edit"
=============================================================================
