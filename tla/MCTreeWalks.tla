---------------------------- MODULE MCTreeWalks ----------------------------
(* All pairs of trees over Bytes bytes, up to Depth levels of inner nodes  *)
(* below the root, with at most two children each and the end of the text  *)
(* as the root's last child.  One byte of the old tree's text was          *)
(* replaced, or none (the document was invalidated).                       *)
EXTENDS ChangedRanges, NodeQueries

CONSTANTS Bytes, Depth, Tokens, Inner, RootSymbols, eof, error, list, x, comma, value

MCMetadata ==
  [s \in {list, x, comma, error} |-> [visible |-> TRUE, named |-> s # comma]]
    @@ [s \in {eof, value} |-> [visible |-> FALSE, named |-> TRUE]]

(* An x stands behind a blank.                                             *)
BlanksBefore == [s \in Tokens |-> IF s = x THEN 1 ELSE 0]

Pairs(n, trees) ==
  {<<t>> : t \in trees[n]}
    \cup UNION {{<<t, u>> : t \in trees[m], u \in trees[n - m]} : m \in 1 .. n - 1}

(* The trees of n bytes, by the depth of their inner nodes; a hidden inner *)
(* node shows something.                                                   *)
RECURSIVE Trees(_)
Trees(depth) ==
  [n \in 1 .. Bytes |->
     {Leaf(s, BlanksBefore[s], n - BlanksBefore[s]) : s \in {t \in Tokens : BlanksBefore[t] < n}}
       \cup IF depth = 0 THEN {}
            ELSE {t \in {Node(s, k) : s \in Inner, k \in Pairs(n, Trees(depth - 1))} :
                    t.visible \/ t.visible_child_count > 0}]

AllTrees ==
  LET trees == Trees(Depth)
  IN  UNION {{Node(r, Append(k, Leaf(eof, padding, 0))) :
                r \in RootSymbols, k \in Pairs(Bytes - padding, trees)} : padding \in 0 .. 1}

Edits == INSTANCE TreeEdit
  WITH Paddings <- {}, Sizes <- {}, Lookaheads <- {}, MaxLeaves <- 1, MaxReductions <- 0,
       MaxEdits <- 1, MaxAdded <- 1, Word <- 64, text <- << >>, parsed <- 0, tree <- old, edits <- 0

(* TreeEdit has the nodes of a tree side by side: there and back.          *)
NodesOf(tree) ==
  [p \in Paths(tree) |->
     [padding |-> At(tree, p).padding, size |-> At(tree, p).size,
      bytes_scanned |-> At(tree, p).bytes_scanned, has_changes |-> At(tree, p).has_changes,
      child_count |-> Len(At(tree, p).children)]]

RECURSIVE WithNodes(_, _, _)
WithNodes(tree, nodes, p) ==
  [tree EXCEPT !.padding = nodes[p].padding, !.size = nodes[p].size,
               !.has_changes = nodes[p].has_changes,
               !.children = [i \in DOMAIN @ |-> WithNodes(@[i], nodes, Append(p, i))]]

Replaced(tree, byte) == WithNodes(tree, Edits!DocumentEdit(NodesOf(tree), byte, 1, 1), << >>)

RECURSIVE Unmarked(_)
Unmarked(tree) ==
  [tree EXCEPT !.has_changes = FALSE,
               !.children = [i \in DOMAIN tree.children |-> Unmarked(tree.children[i])]]

MCOldTrees == AllTrees \cup {Replaced(t, b) : t \in AllTrees, b \in 0 .. Bytes - 1}

(* The visible nodes of a tree without marks, and what is below them.      *)
Sound(tree) ==
  {[start |-> StartOf(tree, p), symbol |-> At(tree, p).symbol, size |-> At(tree, p).size,
    below |-> At(tree, p).children] :
     p \in {q \in Paths(tree) : At(tree, q).visible /\ ~ At(tree, q).has_changes
                                /\ At(tree, q).symbol # error}}

SoundOld == [t \in MCOldTrees |-> Sound(t)]
SoundNew == [t \in AllTrees |-> Sound(t)]

(* The parser keeps its side of tree_must_eq: nodes that must be equal are.*)
MCNewTrees(o) ==
  {n \in AllTrees :
     \A a \in SoundOld[o], b \in SoundNew[n] :
       a.start = b.start /\ a.symbol = b.symbol /\ a.size = b.size => a.below = b.below}

(* The questions about one tree are asked once, when the walk begins with  *)
(* two equal trees.                                                        *)
Asked == position = 0 /\ results = << >> /\ Unmarked(old) = new
Neighbours == Asked => ChildrenAgree(new) /\ SiblingsAgree(new)
Locations  == Asked => DescendantsAgree(new) /\ TraversalAgrees(new)
=============================================================================
