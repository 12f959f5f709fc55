---------------------------- MODULE NodeQueries ----------------------------
(***************************************************************************)
(* node.c, and the traversal of Node.swift: the questions a client asks of *)
(* a finished tree.  Hidden nodes are looked through, anonymous ones only  *)
(* by the questions about named nodes.  A TSNode is a path and an offset,  *)
(* which each step adds to or takes from.                                  *)
(***************************************************************************)
EXTENDS SyntaxTree

NullNode == [path |-> <<0>>, offset |-> 0]

RootNode == [path |-> << >>, offset |-> 0]

(* ts_node__is_relevant and ts_node__relevant_child_count                  *)
IsRelevant(tree, anonymous) == tree.visible /\ (anonymous \/ tree.named)

RelevantChildCount(tree, anonymous) ==
  IF tree.children = << >> THEN 0
  ELSE IF anonymous THEN tree.visible_child_count ELSE tree.named_child_count

(* ts_node__direct_parent and ts_node__direct_child                        *)
DirectParent(root, node) ==
  IF node.path = << >> THEN NullNode
  ELSE [path |-> Front(node.path), offset |-> node.offset - ContextOffset(root, node.path)]

DirectChild(root, node, i) ==
  LET path == Append(node.path, i)
  IN  [path |-> path, offset |-> node.offset + ContextOffset(root, path)]

(* How many relevant nodes a child stands for.                             *)
Weight(tree, anonymous) ==
  IF IsRelevant(tree, anonymous) THEN 1 ELSE RelevantChildCount(tree, anonymous)

RECURSIVE Child(_, _, _, _), Parent(_, _), NextSibling(_, _, _), PrevSibling(_, _, _),
          LastSmallest(_, _, _, _, _, _), TraverseInRange(_, _, _)

(* ts_node__child, from 0: into the child that stands for the index.       *)
Child(root, node, index, anonymous) ==
  LET kids == At(root, node.path).children
      before(i) == FoldLeft(LAMBDA n, c : n + Weight(c, anonymous), 0, SubSeq(kids, 1, i - 1))
      found == {i \in DOMAIN kids : before(i) <= index /\ index < before(i) + Weight(kids[i], anonymous)}
  IN  IF found = {} THEN NullNode
      ELSE LET i == CHOOSE i \in found : TRUE
               child == DirectChild(root, node, i)
           IN  IF IsRelevant(kids[i], anonymous) THEN child
               ELSE Child(root, child, index - before(i), anonymous)

(* ts_node_parent                                                          *)
Parent(root, node) ==
  LET parent == DirectParent(root, node)
  IN  IF parent = NullNode \/ At(root, parent.path).visible THEN parent
      ELSE Parent(root, parent)

(* Mutant of Showing: a hidden sibling shows nothing.                      *)
ShowingThemselves(root, parent, anonymous) ==
  LET kids == At(root, parent.path).children
  IN  {i \in DOMAIN kids : IsRelevant(kids[i], anonymous)}

(* The siblings of a child that show something relevant.                   *)
Showing(root, parent, anonymous) ==
  LET kids == At(root, parent.path).children
  IN  {i \in DOMAIN kids : Weight(kids[i], anonymous) > 0}

(* What such a child shows, counted from one of its ends.                  *)
Shows(root, child, index, anonymous) ==
  IF IsRelevant(At(root, child.path), anonymous) THEN child
  ELSE Child(root, child, index, anonymous)

(* ts_node__next_sibling and ts_node__prev_sibling: through hidden parents.*)
NextSibling(root, node, anonymous) ==
  LET parent == DirectParent(root, node)
      later == {i \in Showing(root, parent, anonymous) : i > Last(node.path)}
  IN  IF parent = NullNode THEN NullNode
      ELSE IF later # {}
        THEN LET i == CHOOSE i \in later : \A j \in later : i <= j
             IN  Shows(root, DirectChild(root, parent, i), 0, anonymous)
      ELSE IF At(root, parent.path).visible THEN NullNode
      ELSE NextSibling(root, parent, anonymous)

PrevSibling(root, node, anonymous) ==
  LET parent == DirectParent(root, node)
      earlier == {i \in Showing(root, parent, anonymous) : i < Last(node.path)}
  IN  IF parent = NullNode THEN NullNode
      ELSE IF earlier # {}
        THEN LET i == CHOOSE i \in earlier : \A j \in earlier : i >= j
                 child == DirectChild(root, parent, i)
             IN  Shows(root, child, RelevantChildCount(At(root, child.path), anonymous) - 1, anonymous)
      ELSE IF At(root, parent.path).visible THEN NullNode
      ELSE PrevSibling(root, parent, anonymous)

(* ts_node_start_byte and ts_node_end_byte                                 *)
NodeStart(root, node) == node.offset + At(root, node.path).padding
NodeEnd(root, node)   == NodeStart(root, node) + At(root, node.path).size

(* ts_node__descendant_for_byte_range (and for chars): into the first      *)
(* child that ends behind max, unless it or one before it starts behind    *)
(* min.                                                                    *)
LastSmallest(root, node, smallest, min, max, anonymous) ==
  LET child(i) == DirectChild(root, node, i)
      into == {i \in DOMAIN At(root, node.path).children :
                 /\ NodeEnd(root, child(i)) > max
                 /\ \A j \in 1 .. i : NodeStart(root, child(j)) <= min
                 /\ \A j \in 1 .. i - 1 : NodeEnd(root, child(j)) <= max}
  IN  IF into = {} THEN smallest
      ELSE LET next == child(CHOOSE i \in into : TRUE)
           IN  LastSmallest(root, next,
                            IF IsRelevant(At(root, next.path), anonymous) THEN next ELSE smallest,
                            min, max, anonymous)

DescendantForRange(root, min, max, anonymous) ==
  LastSmallest(root, RootNode, RootNode, min, max, anonymous)

(* Node.swift, TraverseInRangeGenerator: what it generates from a node.    *)
TraverseInRange(root, node, index) ==
  LET kids == [i \in 1 .. RelevantChildCount(At(root, node.path), TRUE) |->
                 Child(root, node, i - 1, TRUE)]
      here == {i \in DOMAIN kids : NodeStart(root, kids[i]) <= index /\ index < NodeEnd(root, kids[i])}
  IN  IF here = {} THEN << >>
      ELSE LET first == kids[CHOOSE i \in here : \A j \in here : i <= j]
           IN  <<first>> \o TraverseInRange(root, first, index)

-----------------------------------------------------------------------------
(* The relevant nodes below a visible one, by definition.                  *)
Relevant(root, path, anonymous) ==
  SelectSeq(VisibleChildren(root, path), LAMBDA p : IsRelevant(At(root, p), anonymous))

Find(root, path) == [path |-> path, offset |-> Begin(root, path)]

(* The children a node counts are those it shows, in order, and each of    *)
(* them has it as parent.                                                  *)
ChildrenAgree(root) ==
  \A path \in Paths(root), anonymous \in BOOLEAN :
    At(root, path).visible =>
      LET shown == Relevant(root, path, anonymous)
          node == Find(root, path)
      IN  /\ RelevantChildCount(At(root, path), anonymous) = Len(shown)
          /\ \A i \in 1 .. Len(shown) :
               /\ Child(root, node, i - 1, anonymous) = Find(root, shown[i])
               /\ Parent(root, Find(root, shown[i])) = node
          /\ Child(root, node, Len(shown), anonymous) = NullNode

(* From a visible node the next and the previous sibling, of all or of the *)
(* named ones, are its neighbours among its parent's children.             *)
SiblingsAgree(root) ==
  \A path \in Paths(root), anonymous \in BOOLEAN :
    At(root, path).visible =>
      LET all == VisibleChildren(root, path)
          relevant(i) == IsRelevant(At(root, all[i]), anonymous)
          find(set, first) ==
            IF set = {} THEN NullNode
            ELSE Find(root, all[CHOOSE i \in set : \A j \in set : IF first THEN i <= j ELSE i >= j])
      IN  \A i \in DOMAIN all :
            /\ NextSibling(root, Find(root, all[i]), anonymous)
                 = find({j \in DOMAIN all : j > i /\ relevant(j)}, TRUE)
            /\ PrevSibling(root, Find(root, all[i]), anonymous)
                 = find({j \in DOMAIN all : j < i /\ relevant(j)}, FALSE)

(* The descendant for a range is the smallest relevant node that has both  *)
(* its ends, or the root.                                                  *)
DescendantsAgree(root) ==
  \A anonymous \in BOOLEAN : \A max \in 0 .. TotalSize(root) : \A min \in 0 .. max :
    LET spanning == ByDepth({p \in Around(root, min) \cap Around(root, max) :
                               IsRelevant(At(root, p), anonymous)})
    IN  DescendantForRange(root, min, max, anonymous)
          = IF spanning = << >> THEN RootNode ELSE Find(root, Last(spanning))

(* The traversal finds every visible node around a location, in order.     *)
TraversalAgrees(root) ==
  \A index \in 0 .. TotalSize(root) :
    LET around == ByDepth({p \in Around(root, index) : p # << >> /\ At(root, p).visible})
    IN  [i \in DOMAIN TraverseInRange(root, RootNode, index) |->
           TraverseInRange(root, RootNode, index)[i].path] = around
=============================================================================
