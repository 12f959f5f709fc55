----------------------------- MODULE SyntaxTree -----------------------------
(***************************************************************************)
(* tree.c: syntax trees as the walks over a finished tree see them, on one *)
(* line of text: lengths are bytes, and a point is a byte offset.  A node  *)
(* below a root is named by its path of child indices (from 1).            *)
(***************************************************************************)
EXTENDS Integers, Sequences, SequencesExt

CONSTANT Metadata      \* symbol -> [visible, named]

(* ts_tree_make_leaf, for a lex function that looks one byte ahead.        *)
Leaf(symbol, padding, size) ==
  [symbol |-> symbol, padding |-> padding, size |-> size, children |-> << >>,
   bytes_scanned |-> padding + size + 1,
   visible |-> Metadata[symbol].visible, named |-> Metadata[symbol].named,
   visible_child_count |-> 0, named_child_count |-> 0, has_changes |-> FALSE]

TotalSize(tree) == tree.padding + tree.size

TotalSizes(trees) == FoldLeft(LAMBDA sum, t : sum + TotalSize(t), 0, trees)

(* What a child adds to its parent's counts: itself, or what it shows.     *)
Counted(child, self, below) ==
  IF child.visible THEN (IF self THEN 1 ELSE 0)
  ELSE IF child.children # << >> THEN below ELSE 0

(* The last byte a child has looked at.                                    *)
Scanned(children) ==
  Max({TotalSizes(SubSeq(children, 1, i - 1)) + children[i].bytes_scanned : i \in DOMAIN children})

(* ts_tree_set_children                                                    *)
SetChildren(tree, children) ==
  [tree EXCEPT
     !.children = children, !.bytes_scanned = Scanned(children),
     !.padding = Head(children).padding,
     !.size = TotalSizes(children) - Head(children).padding,
     !.visible_child_count =
        FoldLeft(LAMBDA n, c : n + Counted(c, TRUE, c.visible_child_count), 0, children),
     !.named_child_count =
        FoldLeft(LAMBDA n, c : n + Counted(c, c.named, c.named_child_count), 0, children)]

(* ts_tree_make_node                                                       *)
Node(symbol, children) == SetChildren(Leaf(symbol, 0, 0), children)

(* The tree at a path.                                                     *)
At(tree, path) == FoldLeft(LAMBDA t, i : t.children[i], tree, path)

(* Mutant of ContextOffset: the padding of the children before is left out.*)
ContextOffsetOfSizes(tree, path) ==
  FoldLeft(LAMBDA sum, t : sum + t.size, 0, SubSeq(At(tree, Front(path)).children, 1, Last(path) - 1))

(* ts_tree_assign_parents: where a child begins in its parent.             *)
ContextOffset(tree, path) ==
  TotalSizes(SubSeq(At(tree, Front(path)).children, 1, Last(path) - 1))

-----------------------------------------------------------------------------
(* Definitions the walks are compared with.                                *)
RECURSIVE Paths(_), VisibleChildren(_, _), Begin(_, _)

(* All nodes of a tree.                                                    *)
Paths(tree) ==
  {<< >>} \cup UNION {{<<i>> \o p : p \in Paths(tree.children[i])} : i \in DOMAIN tree.children}

(* The visible nodes below a node with no visible node between.            *)
VisibleChildren(tree, path) ==
  FlattenSeq([i \in DOMAIN At(tree, path).children |->
    IF At(tree, path).children[i].visible THEN <<Append(path, i)>>
    ELSE VisibleChildren(tree, Append(path, i))])

(* Where a node begins, padding included, and where its text is.           *)
Begin(tree, path) ==
  IF path = << >> THEN 0
  ELSE LET kids == At(tree, Front(path)).children
       IN  Begin(tree, Front(path))
             + FoldLeft(LAMBDA sum, t : sum + t.padding + t.size, 0, SubSeq(kids, 1, Last(path) - 1))

StartOf(tree, path) == Begin(tree, path) + At(tree, path).padding
EndOf(tree, path)   == StartOf(tree, path) + At(tree, path).size

(* The nodes whose text has the byte, from the outermost in.               *)
Around(tree, byte) ==
  {p \in Paths(tree) : StartOf(tree, p) <= byte /\ byte < EndOf(tree, p)}

ByDepth(paths) == SetToSortSeq(paths, LAMBDA p, q : Len(p) < Len(q))

(* The scopes of a byte: the symbols of the visible nodes around it.       *)
Scopes(tree, byte) ==
  LET shown == ByDepth({p \in Around(tree, byte) : At(tree, p).visible})
  IN  [i \in DOMAIN shown |-> At(tree, shown[i]).symbol]
=============================================================================
