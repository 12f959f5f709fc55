------------------------------ MODULE TreeEdit ------------------------------
(***************************************************************************)
(* How an edit of the text reaches the syntax tree before the next parse:  *)
(* ts_document_edit, ts_tree_edit and ts_tree_invalidate_lookahead move    *)
(* the sizes of the tree to the new text and mark what the parser may not  *)
(* reuse.                                                                  *)
(*                                                                         *)
(* Lengths are bytes; characters, rows and columns are left out.  The text *)
(* is a sequence of marks: the bytes that were there at the last parse are *)
(* 1, 2, 3, ..., every byte inserted since is 0.  A leaf therefore still   *)
(* stands in front of the bytes it was lexed from exactly if the marks in  *)
(* its window are the ones it was made from.                               *)
(***************************************************************************)
EXTENDS Integers, Sequences, FiniteSets, SequencesExt

CONSTANTS Paddings, Sizes,    \* of the leaves a parse makes
          Lookaheads,         \* bytes a leaf's lex function looked past its end
          MaxLeaves,          \* bound: leaves of a tree
          MaxReductions,      \* bound: nodes between the root and the leaves
          MaxEdits,           \* bound: edits between two parses
          MaxAdded,           \* bound: bytes one edit adds
          Word                \* 2^32: the modulus of uint32_t, which a text is shorter than

ASSUME TreeEditAssumption ==
  /\ Paddings \subseteq Nat /\ Sizes \subseteq Nat
  /\ Lookaheads \subseteq Nat \ {0}
  /\ MaxLeaves \in Nat \ {0} /\ MaxReductions \in Nat /\ MaxEdits \in Nat /\ MaxAdded \in Nat
  /\ Word \in Nat \ {0}

VARIABLES text,     \* the marks of the bytes of the text
          parsed,   \* the length of the text at the last parse
          tree,     \* the document's tree
          edits     \* edits since the last parse

vars == <<text, parsed, tree, edits>>

-----------------------------------------------------------------------------
(* A tree is a function from paths to nodes: the path of the root is << >>,*)
(* and Append(p, i) that of the i-th child of the node at p.  A node has   *)
(* padding, size and bytes_scanned in bytes, has_changes and child_count;  *)
(* lexedAt is the byte a leaf was lexed at (not in the code).              *)
Total(node) == node.padding + node.size              \* ts_tree_total_bytes

(* Where each of the nodes in a row starts, and where the last one ends.   *)
Starts(nodes) ==
  LET start[i \in 1 .. Len(nodes) + 1] ==
        IF i = 1 THEN 0 ELSE start[i - 1] + Total(nodes[i - 1])
  IN  start

TotalOf(nodes) == Starts(nodes)[Len(nodes) + 1]

Kids(t, p) == [i \in 1 .. t[p].child_count |-> t[Append(p, i)]]

(* Where child i starts, seen from its parent.                             *)
ChildStart(t, p, i) == Starts(Kids(t, p))[i]

(* Where every node starts, seen from the root.                            *)
Begins(t) ==
  LET at[p \in DOMAIN t] ==
        IF p = << >> THEN 0 ELSE at[Front(p)] + ChildStart(t, Front(p), Last(p))
  IN  at

Roots(kids) == [i \in DOMAIN kids |-> kids[i][<< >>]]

MakeLeaf(padding, size, lookahead, at) ==
  [p \in {<< >>} |-> [padding |-> padding, size |-> size, bytes_scanned |-> padding + size + lookahead,
                      has_changes |-> FALSE, child_count |-> 0, lexedAt |-> at]]

Graft(root, kids) ==
  [p \in {<< >>} \cup UNION {{<<i>> \o q : q \in DOMAIN kids[i]} : i \in DOMAIN kids} |->
     IF p = << >> THEN root ELSE kids[Head(p)][Tail(p)]]

(* ts_tree_set_children: the node spans its children, and depends on every *)
(* byte one of them depends on.                                            *)
MakeNode(kids) ==
  LET nodes == Roots(kids)
      ends  == {Starts(nodes)[i] + nodes[i].bytes_scanned : i \in DOMAIN nodes}
  IN  Graft([padding |-> nodes[1].padding, size |-> TotalOf(nodes) - nodes[1].padding,
             bytes_scanned |-> CHOOSE e \in ends : \A f \in ends : f <= e,
             has_changes |-> FALSE, child_count |-> Len(kids), lexedAt |-> 0], kids)

-----------------------------------------------------------------------------
(* What a function of tree.c is called for on a node: ts_tree_edit, with   *)
(* the edit seen from the node's start, or ts_tree_invalidate_lookahead,   *)
(* with the offset of the byte in start; or nothing.                       *)
EditCall(start, removed, added) ==
  [call |-> "edit", start |-> start, removed |-> removed, added |-> added]
LookCall(offset) == [call |-> "look", start |-> offset, removed |-> 0, added |-> 0]
NoCall == [call |-> "none", start |-> 0, removed |-> 0, added |-> 0]

(* Mutant of LooksAt: the last byte scanned is not counted.                *)
LooksAtOffByOne(node, offset) == offset < node.bytes_scanned - 1

LooksAt(node, offset) == offset < node.bytes_scanned

(* Mutant of Invalidated: only leaves are marked.                          *)
InvalidatedOnlyLeaves(node, offset) ==
  IF LooksAt(node, offset) THEN [node EXCEPT !.has_changes = node.child_count = 0] ELSE node

(* ts_tree_invalidate_lookahead: marks a node that looked at a byte, and   *)
(* asks its children up to the one that starts behind that byte.           *)
Invalidated(node, offset) ==
  IF LooksAt(node, offset) THEN [node EXCEPT !.has_changes = TRUE] ELSE node

LookFor(t, p, offset, i) ==
  IF LooksAt(t[p], offset) /\ ChildStart(t, p, i) <= offset
    THEN LookCall(offset - ChildStart(t, p, i))
    ELSE NoCall

(* ts_tree_edit, first half: the node's own padding and size.              *)
EditSelf(node, e) ==
  LET oldEnd == e.start + e.removed
      newEnd == e.start + e.added
  IN  IF e.start < node.padding /\ oldEnd <= node.padding
        THEN [node EXCEPT !.padding = newEnd + (node.padding - oldEnd)]
      ELSE IF e.start < node.padding
        THEN [node EXCEPT !.padding = newEnd, !.size = node.size - (oldEnd - node.padding)]
      ELSE IF e.start = node.padding /\ e.removed = 0
        THEN [node EXCEPT !.padding = node.padding + e.added]
      ELSE [node EXCEPT !.size = newEnd + (Total(node) - oldEnd) - node.padding]

(* ts_tree_edit, second half, a child at a time: the first one that the    *)
(* edit touches gets the insertion and its part of the deletion, the next  *)
(* ones the rest of the deletion; the others only learn which byte has     *)
(* changed.  "right" is where the children done so far end, "rest" the     *)
(* bytes still to delete.                                                  *)
EditFirst(s, child, e) ==
  LET end  == s.right + Total(child)
      cut  == IF e.start + e.removed > end THEN end - e.start ELSE e.removed
      call == EditCall(e.start - s.right, cut, e.added)
  IN  [right |-> s.right + Total(EditSelf(child, call)), found |-> TRUE,
       rest |-> e.removed - cut, call |-> call]

EditRest(s, child) ==
  LET share == IF s.rest < Total(child) THEN s.rest ELSE Total(child)
      call  == EditCall(0, share, 0)
  IN  [right |-> s.right + Total(EditSelf(child, call)), found |-> TRUE,
       rest |-> s.rest - share, call |-> call]

EditNone(s, child, e) ==
  [right |-> s.right + Total(child), found |-> s.found, rest |-> s.rest,
   call |-> LookCall((e.start - s.right) % Word)]

EditChild(s, child, e) ==
  IF ~ s.found /\ s.right + Total(child) >= e.start THEN EditFirst(s, child, e)
  ELSE IF s.rest > 0 THEN EditRest(s, child)
  ELSE EditNone(s, child, e)

EditKids(nodes, e) ==
  LET after[i \in 0 .. Len(nodes)] ==
        IF i = 0 THEN [right |-> 0, found |-> FALSE, rest |-> 0, call |-> NoCall]
        ELSE EditChild(after[i - 1], nodes[i], e)
  IN  after

(* What a call on a node calls for on its children, and so on down.        *)
CallFor(t, p, c, i) ==
  CASE c.call = "edit" -> EditKids(Kids(t, p), c)[i].call
    [] c.call = "look" -> LookFor(t, p, c.start, i)
    [] OTHER -> NoCall

Calls(t, e) ==
  LET call[p \in DOMAIN t] ==
        IF p = << >> THEN e ELSE CallFor(t, Front(p), call[Front(p)], Last(p))
  IN  call

Called(node, c) ==
  CASE c.call = "edit" -> [EditSelf(node, c) EXCEPT !.has_changes = TRUE]
    [] c.call = "look" -> Invalidated(node, c.start)
    [] OTHER -> node

(* ts_tree_edit                                                            *)
Edited(t, e) == [p \in DOMAIN t |-> Called(t[p], Calls(t, e)[p])]

(* ts_document_edit                                                        *)
DocumentEdit(t, start, removed, added) ==
  LET length == Total(t[<< >>])
  IN  IF start > length THEN t
      ELSE Edited(t, EditCall(start, IF removed > length - start THEN length - start ELSE removed, added))

-----------------------------------------------------------------------------
(* What a parse leaves: leaves side by side that cover the text, each of   *)
(* which looked at most at the end of the text (one byte behind the last), *)
(* and nodes that some of them, or of these nodes, were reduced to.        *)
Shapes == [padding : Paddings, size : Sizes, lookahead : Lookaheads]

LeafRow(shapes) ==
  LET row(at) == [i \in DOMAIN shapes |->
                    MakeLeaf(shapes[i].padding, shapes[i].size, shapes[i].lookahead, at[i])]
  IN  row(Starts(Roots(row([i \in DOMAIN shapes |-> 0]))))

WithinText(row) ==
  \A i \in DOMAIN row :
    Starts(Roots(row))[i] + row[i][<< >>].bytes_scanned <= TotalOf(Roots(row)) + 1

LeafRows == {row \in {LeafRow(s) : s \in UNION {[1 .. n -> Shapes] : n \in 1 .. MaxLeaves}} : WithinText(row)}

(* All ways to put neighbours under a node of their own.                   *)
Reduced(row) ==
  {SubSeq(row, 1, g[1] - 1) \o <<MakeNode(SubSeq(row, g[1], g[2]))>> \o SubSeq(row, g[2] + 1, Len(row)) :
     g \in {p \in (1 .. Len(row)) \X (1 .. Len(row)) : p[1] <= p[2]}}

Rows ==
  LET rows[n \in 0 .. MaxReductions] ==
        IF n = 0 THEN LeafRows ELSE rows[n - 1] \cup UNION {Reduced(row) : row \in rows[n - 1]}
  IN  rows[MaxReductions]

Trees == {MakeNode(row) : row \in Rows}

Init ==
  /\ tree \in Trees /\ Total(tree[<< >>]) < Word
  /\ text = [i \in 1 .. Total(tree[<< >>]) |-> i]
  /\ parsed = Total(tree[<< >>])
  /\ edits = 0

(* The client edits its text and tells the document about it.              *)
Edit(start, removed, added) ==
  /\ edits < MaxEdits
  /\ start + removed <= Len(text) /\ Len(text) - removed + added < Word
  /\ text' = SubSeq(text, 1, start) \o [i \in 1 .. added |-> 0]
               \o SubSeq(text, start + removed + 1, Len(text))
  /\ tree' = DocumentEdit(tree, start, removed, added)
  /\ edits' = edits + 1
  /\ UNCHANGED parsed

Next ==
  \E start, removed \in 0 .. Len(text), added \in 0 .. MaxAdded :
    Edit(start, removed, added)

Spec == Init /\ [][Next]_vars

-----------------------------------------------------------------------------
(* The tree always spans the text: no length is lost on the way down, and  *)
(* the parser's positions are the client's.                                *)
SpansText ==
  /\ Total(tree[<< >>]) = Len(text)
  /\ \A p \in DOMAIN tree : tree[p].child_count > 0 => Total(tree[p]) = TotalOf(Kids(tree, p))

(* A node without a mark has no marks below it, so a whole subtree may be  *)
(* reused when its root is not marked.                                     *)
MarksReachTheRoot ==
  \A p \in DOMAIN tree :
    ~ tree[p].has_changes => \A i \in DOMAIN Kids(tree, p) : ~ Kids(tree, p)[i].has_changes

(* The bytes a leaf was lexed from, and those that now stand in its place. *)
EndOfText == -1
Window(t, at, len) == [i \in 1 .. len |-> IF at + i <= Len(t) THEN t[at + i] ELSE EndOfText]

Intact(leaf, at) ==
  Window(text, at, leaf.bytes_scanned)
    = Window([i \in 1 .. parsed |-> i], leaf.lexedAt, leaf.bytes_scanned)

(* "edits within a tree's range of scanned bytes mark preceding trees as   *)
(* changed" (tree_test.cc:317): a leaf that is not marked can be reused,   *)
(* as lexing at its new place would read the same bytes, its lookahead     *)
(* included.  After one edit this is true of every leaf that is not empty. *)
(* An empty leaf at the end of a node that an edit starts at is pushed     *)
(* behind the byte that was replaced; and a second edit is compared with   *)
(* the bytes_scanned of before the first, which the first does not adjust. *)
IntactAfterOneEdit ==
  edits <= 1 =>
    \A p \in DOMAIN tree :
      tree[p].child_count = 0 /\ ~ tree[p].has_changes /\ Total(tree[p]) > 0
        => Intact(tree[p], Begins(tree)[p])

=============================================================================
