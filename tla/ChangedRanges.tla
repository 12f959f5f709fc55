--------------------------- MODULE ChangedRanges ---------------------------
(***************************************************************************)
(* tree_path.h: which parts of a text have other nodes around them after a *)
(* parse.  The old tree, edited, and the new one are walked in parallel,   *)
(* each by a path of entries [tree, position, child_index]; one action is  *)
(* one round of the loop of tree_path_get_changes.                         *)
(***************************************************************************)
EXTENDS SyntaxTree, FiniteSets

CONSTANTS OldTrees,     \* the trees a document may have had, edited,
          NewTrees(_),  \* and those a parse may make with one of them
          ErrorSymbol   \* ts_builtin_sym_error

VARIABLES old, new,        \* the two trees
          old_path, new_path,
          position,        \* up to where the trees have been compared
          results,         \* the ranges, as pairs
          rounds,          \* rounds of the loop so far
          crashed          \* a null tree was read, or an empty path popped

vars == <<old, new, old_path, new_path, position, results, rounds, crashed>>

(* A child the walk can stop at or go into.                                *)
Stops(tree) == tree.visible \/ tree.children = << >>
Worth(tree) == Stops(tree) \/ tree.visible_child_count > 0

Entry(path, i) ==
  LET parent == Last(path)
  IN  [tree |-> parent.tree.children[i], child_index |-> i,
       position |-> parent.position + TotalSizes(SubSeq(parent.tree.children, 1, i - 1))]

RECURSIVE DescendFrom(_, _, _)

DescendFrom(path, to, original) ==
  LET into == {i \in DOMAIN Last(path).tree.children :
                 LET child == Entry(path, i)
                 IN  to < child.position + TotalSize(child.tree) /\ Worth(child.tree)}
  IN  IF into = {} THEN original
      ELSE LET i == CHOOSE i \in into : \A j \in into : i <= j
               deeper == Append(path, Entry(path, i))
           IN  IF Stops(Last(deeper).tree) THEN deeper ELSE DescendFrom(deeper, to, original)

(* tree_path_descend: to the first visible node or token that ends behind  *)
(* a position; the same path if there is none.                             *)
Descend(path, to) == DescendFrom(path, to, path)
Descends(path, to) == Descend(path, to) # path

(* tree_path_init                                                          *)
PathInit(tree) ==
  LET path == <<[tree |-> tree, position |-> 0, child_index |-> 1]>>
  IN  IF tree.visible THEN path ELSE Descend(path, 0)

RECURSIVE AdvanceFrom(_, _), Ascend(_, _)

AdvanceFrom(path, ascend_count) ==
  IF Len(path) = 1 THEN [path |-> << >>, ascend_count |-> ascend_count]
  ELSE
    LET parent == Last(Front(path)).tree
        left == ascend_count + (IF parent.visible THEN 1 ELSE 0)
        later == {i \in Last(path).child_index + 1 .. Len(parent.children) : Worth(parent.children[i])}
    IN  IF later = {} THEN AdvanceFrom(Front(path), left)
        ELSE LET next == Append(Front(path),
                                Entry(Front(path), CHOOSE i \in later : \A j \in later : i <= j))
             IN  [path |-> IF Last(next).tree.visible THEN next ELSE Descend(next, 0),
                  ascend_count |-> ascend_count]

(* tree_path_advance: to the next node that is not below the last entry;   *)
(* ascend_count is the number of visible nodes left for it.                *)
Advance(path) == AdvanceFrom(path, 0)

(* tree_path_ascend: above count visible nodes.                            *)
Ascend(path, count) ==
  IF count = 0 \/ path = << >> THEN path
  ELSE LET up == Front(path)
           shown == {i \in DOMAIN up : up[i].tree.visible}
       IN  IF shown = {} THEN << >>
           ELSE Ascend(SubSeq(up, 1, CHOOSE i \in shown : \A j \in shown : i >= j), count - 1)

(* The loop of tree_path_ascend would pop an empty path, too.              *)
AscendsPastRoot(path, count) == \E n \in 0 .. count - 1 : Ascend(path, n) = << >>

(* tree_path_visible_tree: NULL if nothing on the path is visible.         *)
NullTree(path) == \A i \in DOMAIN path : ~ path[i].tree.visible

VisibleTree(path) ==
  LET shown == {i \in DOMAIN path : path[i].tree.visible}
  IN  path[CHOOSE i \in shown : \A j \in shown : i >= j].tree

(* tree_path_start_position and tree_path_end_position                     *)
StartPosition(path) == Last(path).position + Last(path).tree.padding
EndPosition(path) == StartPosition(path) + Last(path).tree.size

(* Mutant of TreeMustEq: the marks are not looked at.                      *)
TreeMustEqUnmarked(old_tree, new_tree) ==
  /\ old_tree.symbol = new_tree.symbol /\ old_tree.symbol # ErrorSymbol
  /\ old_tree.size = new_tree.size

(* tree_must_eq, for nodes that have a parse state.                        *)
TreeMustEq(old_tree, new_tree) ==
  /\ ~ old_tree.has_changes
  /\ old_tree.symbol = new_tree.symbol /\ old_tree.symbol # ErrorSymbol
  /\ old_tree.size = new_tree.size

(* Mutant of RangeArrayAdd: a range that overlaps the last one is another. *)
RangeArrayAddTouching(ranges, start, end) ==
  IF ranges # << >> /\ start < Last(ranges)[2]
    THEN Append(Front(ranges), <<Last(ranges)[1], end>>)
    ELSE IF start < end THEN Append(ranges, <<start, end>>) ELSE ranges

(* range_array_add                                                         *)
RangeArrayAdd(ranges, start, end) ==
  IF ranges # << >> /\ start <= Last(ranges)[2]
    THEN Append(Front(ranges), <<Last(ranges)[1], end>>)
    ELSE IF start < end THEN Append(ranges, <<start, end>>) ELSE ranges

Smaller(a, b) == IF a < b THEN a ELSE b

(* Both paths stand on a node that begins at or before the position: the   *)
(* visible nodes are compared.  A null tree is equal to a null tree that   *)
(* begins where it does, and otherwise it is read.                         *)
Meets == position >= StartPosition(old_path) /\ position >= StartPosition(new_path)
BothNull == NullTree(old_path) /\ NullTree(new_path) /\ StartPosition(old_path) = StartPosition(new_path)
ReadsNull == Meets /\ (NullTree(old_path) \/ NullTree(new_path)) /\ ~ BothNull

Outcome(o, n, is_changed, next) ==
  [old_path |-> o, new_path |-> n, is_changed |-> is_changed, next |-> next]

Stay(is_changed, next) == Outcome(old_path, new_path, is_changed, next)

MustEq ==
  \/ BothNull
  \/ /\ StartPosition(old_path) = StartPosition(new_path)
     /\ TreeMustEq(VisibleTree(old_path), VisibleTree(new_path))

(* Mutant of BothSame: the deeper path stays deeper.                       *)
BothSameUneven(old_end, new_end) ==
  IF Descends(old_path, position)
    THEN IF Descends(new_path, position)
           THEN Outcome(Descend(old_path, position), Descend(new_path, position), FALSE, position)
           ELSE Outcome(Descend(old_path, position), new_path, TRUE, new_end)
  ELSE IF Descends(new_path, position)
    THEN Outcome(old_path, Descend(new_path, position), TRUE, old_end)
  ELSE Stay(FALSE, Smaller(old_end, new_end))

(* Nodes of one symbol: both paths descend, or the one that can comes back.*)
BothSame(old_end, new_end) ==
  IF Descends(old_path, position)
    THEN IF Descends(new_path, position)
           THEN Outcome(Descend(old_path, position), Descend(new_path, position), FALSE, position)
           ELSE Outcome(Ascend(Descend(old_path, position), 1), new_path, TRUE, new_end)
  ELSE IF Descends(new_path, position)
    THEN Outcome(old_path, Ascend(Descend(new_path, position), 1), TRUE, old_end)
  ELSE Stay(FALSE, Smaller(old_end, new_end))

(* The comparison at a position: where the paths go, whether the nodes     *)
(* there differ, and up to where that has been found out.                  *)
Compared ==
  LET old_start == StartPosition(old_path)  old_end == EndPosition(old_path)
      new_start == StartPosition(new_path)  new_end == EndPosition(new_path)
  IN  CASE position < old_start /\ position < new_start -> Stay(FALSE, Smaller(old_start, new_start))
        [] position < old_start /\ position >= new_start -> Stay(TRUE, old_start)
        [] position >= old_start /\ position < new_start -> Stay(TRUE, new_start)
        [] Meets /\ MustEq -> Stay(FALSE, old_end)
        [] Meets /\ ~ MustEq ->
             IF VisibleTree(old_path).symbol = VisibleTree(new_path).symbol
               THEN BothSame(old_end, new_end)
               ELSE Stay(TRUE, Smaller(old_end, new_end))

(* Mutant of Advanced: a node that ends where the comparison did is kept.   *)
AdvancedLate(c) ==
  LET o == IF EndPosition(old_path) < c.next THEN Advance(c.old_path).path ELSE c.old_path
      n == IF EndPosition(new_path) < c.next THEN Advance(c.new_path).path ELSE c.new_path
  IN  [old_path |-> o, old_up |-> 0, new_path |-> n, new_up |-> 0]

(* Where the paths go behind nodes that end at or before next: at_old_end  *)
(* and at_new_end are found with the ends from before the comparison.      *)
Advanced(c) ==
  LET at_old_end == EndPosition(old_path) <= c.next
      at_new_end == EndPosition(new_path) <= c.next
      o == IF at_old_end THEN Advance(c.old_path) ELSE [path |-> c.old_path, ascend_count |-> 0]
      n == IF at_new_end THEN Advance(c.new_path) ELSE [path |-> c.new_path, ascend_count |-> 0]
      up(count, done) == IF count > done THEN count - done ELSE 0
  IN  [old_path |-> o.path, old_up |-> up(n.ascend_count, o.ascend_count),
       new_path |-> n.path, new_up |-> up(o.ascend_count, n.ascend_count)]

-----------------------------------------------------------------------------
Init ==
  /\ old \in OldTrees /\ new \in NewTrees(old)
  /\ old_path = PathInit(old) /\ new_path = PathInit(new)
  /\ position = 0 /\ results = << >> /\ rounds = 0 /\ crashed = FALSE

Walking == old_path # << >> /\ new_path # << >> /\ ~ crashed

(* One round of the loop of tree_path_get_changes.                         *)
Round ==
  /\ Walking
  /\ IF ReadsNull
       THEN crashed' = TRUE /\ UNCHANGED <<old_path, new_path, position, results, rounds>>
       ELSE \E c \in {Compared} : \E a \in {Advanced(c)} :
              /\ old_path' = Ascend(a.old_path, a.old_up)
              /\ new_path' = Ascend(a.new_path, a.new_up)
              /\ crashed' = (AscendsPastRoot(a.old_path, a.old_up) \/ AscendsPastRoot(a.new_path, a.new_up))
              /\ results' = IF c.is_changed THEN RangeArrayAdd(results, position, c.next) ELSE results
              /\ position' = c.next /\ rounds' = rounds + 1
  /\ UNCHANGED <<old, new>>

Next == Round

Spec == Init /\ [][Next]_vars

-----------------------------------------------------------------------------
(* The walk never stands where nothing is visible and never leaves a tree  *)
(* by its root: test/integration/real_grammars.cc has it walk after every  *)
(* edit and undo of a JSON text, whose root is hidden.                     *)
NoCrash == ~ crashed

(* So it is if the roots are visible.                                      *)
NoCrashIfVisible == old.visible /\ new.visible => NoCrash

TokensVisible(tree) ==
  \A p \in Paths(tree) : LET t == At(tree, p) IN t.children = << >> /\ t.size > 0 => t.visible

(* What the walk relies on: the roots and all tokens with text are visible.*)
AllVisible == old.visible /\ new.visible /\ TokensVisible(old) /\ TokensVisible(new)

(* Ranges are in order, not empty, apart from each other, and compared.    *)
RangesInOrder ==
  AllVisible =>
    \A i \in DOMAIN results :
      /\ results[i][1] < results[i][2] /\ results[i][2] <= position
      /\ i > 1 => results[i - 1][2] < results[i][1]

InSomeRange(byte) == \E i \in DOMAIN results : results[i][1] <= byte /\ byte <= results[i][2]

ChangedBytes == {b \in 0 .. TotalSize(old) - 1 : Scopes(old, b) # Scopes(new, b)}

(* When the walk is over, every byte that has other visible nodes around   *)
(* it than before is in a range: what verify_changed_ranges asserts in     *)
(* test/helpers/scope_sequence.cc.                                         *)
ChangesReported == ~ Walking => \A byte \in ChangedBytes : InSomeRange(byte)

(* So it is where the roots and the tokens are visible.                   *)
ChangesReportedIfVisible == AllVisible => ChangesReported

(* The walk ends: it takes no more rounds than there are nodes to stop at. *)
WalkEnds == rounds <= Cardinality(Paths(old)) + Cardinality(Paths(new))
=============================================================================
