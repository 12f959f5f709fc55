----------------------------- MODULE ParseStack -----------------------------
(***************************************************************************)
(* The parse stack as a state machine: the parser is the environment and   *)
(* calls the operations of StackGraph in any order.  Halting a version     *)
(* only sets a flag that the stack itself never reads; it is left to       *)
(* Parser, as are the callbacks of ts_stack_iterate.                       *)
(***************************************************************************)
EXTENDS StackGraph

CONSTANTS Trees,         \* the trees the parser pushes
          States,        \* parse states
          Goto(_, _),    \* the states the parser pushes a tree with, on a state
          MaxNodes,      \* bound: nodes in use
          MaxVersions,   \* bound: heads
          MaxPosition,   \* bound: bytes of a stack
          MaxErrors,     \* bound: discontinuities in a stack
          MaxPop         \* bound: trees popped at once

ASSUME ParseStackAssumption ==
  /\ \A t \in Trees : t.bytes \in Nat \ {0} /\ t.cost \in Nat /\ t.extra \in BOOLEAN
  /\ \A t, u \in Trees : TokensEq(t, u) => t.cost = u.cost
  /\ NoTree \notin Trees
  /\ {ErrorState, BaseState} \subseteq States
  /\ \A state \in States, t \in Trees : Goto(state, t) \subseteq States
  /\ SkippedTreeCost \in Nat /\ Word \in Nat \ {0}
  /\ MaxLinks \in Nat \ {0} /\ MaxIterators \in Nat \ {0} /\ MaxCalls \in Nat
  /\ MaxNodes \in Nat \ {0} /\ MaxVersions \in Nat \ {0} /\ MaxPop \in Nat

VARIABLES stack,
          popped    \* the last call, if it popped: [kind, count, from, slices]

vars == <<stack, popped>>

nodes == stack.nodes
heads == stack.heads

NoPop == [kind |-> "none", count |-> 0, from |-> 0, slices |-> << >>]

Versions == DOMAIN heads

-----------------------------------------------------------------------------
Init == stack = NewStack /\ popped = NoPop

(* An operation that pops nothing.                                         *)
Becomes(s) == stack' = s /\ popped' = NoPop

PushTree(v, tree, pending, state) ==
  /\ Unused(nodes) <= MaxNodes
  /\ Top(stack, v).position + Bytes(tree) <= MaxPosition
  /\ tree = NoTree => Top(stack, v).errors < MaxErrors
  /\ Becomes(Push(stack, v, tree, pending, state))

(* The state after a pop.                                                  *)
Pops(kind, count, v, pop) ==
  \E p \in {pop} :
    /\ Len(p.stack.heads) <= MaxVersions
    /\ stack' = p.stack
    /\ popped' = [kind |-> kind, count |-> count, from |-> v, slices |-> p.slices]

Next ==
  \/ \E v \in Versions, tree \in Trees :
       \E state \in Goto(Top(stack, v).state, tree) :
         PushTree(v, tree, tree.children # << >>, state)
  \/ \E v \in Versions : PushTree(v, NoTree, FALSE, ErrorState)
  \/ \E v \in Versions, count \in 0 .. MaxPop : Pops("count", count, v, PopCount(stack, v, count))
  \/ \E v \in Versions : Pops("pending", 1, v, PopPending(stack, v))
  \/ \E v \in Versions : Pops("all", 0, v, PopAll(stack, v))
  \/ \E v \in Versions : Becomes(RemoveVersion(stack, v))
  \/ \E v \in Versions : Len(heads) < MaxVersions /\ Becomes(CopyVersion(stack, v))
  \/ \E v, w \in Versions : w < v /\ Becomes(RenumberVersion(stack, v, w))
  \/ \E v, w \in Versions : v # w /\ Mergeable(stack, v, w) /\ Becomes(Merge(stack, v, w))
  \/ Becomes(Clear(stack))

Spec == Init /\ [][Next]_vars
-----------------------------------------------------------------------------
Used == {n \in DOMAIN nodes : nodes[n].refs > 0}

(* A node's count is the number of heads and links that point to it, and   *)
(* one for the base node: nothing is freed that a version can reach, and   *)
(* nothing that no version reaches stays out of the pool.                  *)
RefsExact ==
  LET links == UNION {{n} \X DOMAIN nodes[n].links : n \in Used}
  IN  \A n \in DOMAIN nodes :
        nodes[n].refs =
          Cardinality({v \in Versions : heads[v].node = n})
          + Cardinality({p \in links : nodes[p[1]].links[p[2]].node = n})
          + IF n = Base THEN 1 ELSE 0

(* Position, error count and error cost of a node are the same on every    *)
(* way down from it, although merging adds links to nodes deep in the      *)
(* graph without looking at any of them: comparing two versions by their   *)
(* tops compares everything below.  It follows that there are no circles.  *)
EveryWayAgrees ==
  \A n \in Used :
    /\ nodes[n].links = << >> <=> n = Base
    /\ \A i \in DOMAIN nodes[n].links :
         LET link  == nodes[n].links[i]
             below == nodes[link.node]
         IN  /\ below.refs > 0
             /\ nodes[n].position = below.position + Bytes(link.tree)
             /\ nodes[n].errors = below.errors + IF link.tree = NoTree THEN 1 ELSE 0
             /\ nodes[n].cost = below.cost + LinkCost(link.tree, nodes[n].state)

(* Every slice names a version whose top is the node the slice was popped  *)
(* down to, also after the version of a dropped slice was removed and the  *)
(* versions behind it moved up.  Of the slices of ts_stack_pop_pending     *)
(* only the first is renumbered: with several, the others name versions    *)
(* that have moved or are gone, so those pops are left out.                *)
SlicesNameTheirNodes ==
  popped.kind # "pending" \/ Len(popped.slices) = 1 =>
    \A k \in DOMAIN popped.slices :
      /\ popped.slices[k].version \in Versions
      /\ heads[popped.slices[k].version].node = popped.slices[k].node
=============================================================================
