----------------------------- MODULE StackWays -----------------------------
(***************************************************************************)
(* What popping and merging are defined to be on the graph of the parse    *)
(* stack: the ways down from a node, and the stacks it stands for.         *)
(***************************************************************************)
EXTENDS ParseStack

(* The ways down from a node that end below a number of trees that are not *)
(* extra, or are cut off by an error state: what popping is defined to be. *)
RECURSIVE WaysDown(_, _)
WaysDown(n, count) ==
  IF count = 0 THEN {[node |-> n, trees |-> << >>]}
  ELSE IF nodes[n].state = ErrorState THEN {}
  ELSE UNION {
    LET link  == nodes[n].links[i]
        left  == IF link.tree = NoTree \/ link.tree.extra THEN count ELSE count - 1
        above == IF link.tree = NoTree THEN << >> ELSE <<link.tree>>
    IN  {[way EXCEPT !.trees = @ \o above] : way \in WaysDown(link.node, left)} :
    i \in DOMAIN nodes[n].links}

(* Popping a number of trees pops them on every way down, and if no way is *)
(* long enough but one reaches an error state, it says so with one slice.  *)
PopsEveryWay ==
  popped.kind = "count" =>
    LET ways == WaysDown(heads[popped.from].node, popped.count)
    IN  IF ways # {}
          THEN {[node |-> s.node, trees |-> s.trees] : s \in ToSet(popped.slices)} = ways
        ELSE /\ Len(popped.slices) <= 1
             /\ \A s \in ToSet(popped.slices) : nodes[s.node].state = ErrorState

(* The stacks a node stands for.  Tokens that are equal count as one.      *)
Class(tree) == IF tree # NoTree /\ tree.children = << >> THEN [tree EXCEPT !.id = 0] ELSE tree

RECURSIVE Stacks(_, _)
Stacks(ns, n) ==
  IF ns[n].links = << >> THEN {<< >>}
  ELSE UNION {{<<[state |-> ns[n].state, tree |-> Class(ns[n].links[i].tree)]>> \o s :
                 s \in Stacks(ns, ns[n].links[i].node)} : i \in DOMAIN ns[n].links}

(* Merging loses no stack of either version, as long as the cap on links   *)
(* is not met.                                                             *)
MergeKeepsStacks ==
  [][Len(heads') = Len(heads) - 1 =>
       \A v, w \in Versions :
         /\ v # w /\ Mergeable(stack, v, w)
         /\ heads' = RemoveAt([heads EXCEPT ![v].pushes = Max({@, heads[w].pushes})], w)
         /\ stack' = Merge(stack, v, w)
         /\ \A n \in Used : Len(nodes'[n].links) < MaxLinks
         => Stacks(nodes, heads[v].node) \cup Stacks(nodes, heads[w].node)
              \subseteq Stacks(nodes', heads'[IF w < v THEN v - 1 ELSE v].node)]_vars
=============================================================================
