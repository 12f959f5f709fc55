----------------------------- MODULE StackGraph -----------------------------
(***************************************************************************)
(* The parse stack (stack.c) as operations on its value: a graph of nodes  *)
(* that the versions of an ambiguous or broken parse share.  A version is  *)
(* a head that points to a node; a node has one link per way to go down    *)
(* from it; versions whose tops agree are merged link by link, and popping *)
(* follows every way and makes a version of every node it reveals.  Nodes  *)
(* are counted and reused.                                                 *)
(*                                                                         *)
(*   stack = [nodes |-> sequence of [state, position, links, refs, errors, *)
(*                                   cost],                                *)
(*            heads |-> sequence of [node, pushes, halted]]                *)
(*                                                                         *)
(* External tokens are left out, and of the trees all the stack does not   *)
(* look at: [id, symbol, bytes, extra, children, cost], where id tells     *)
(* nodes with children apart and is the same for all leaves.               *)
(***************************************************************************)
EXTENDS Integers, Sequences, SequencesExt, FiniteSetsExt

CONSTANTS NoTree,                  \* the NULL tree of a discontinuity
          MaxLinks,                \* MAX_LINK_COUNT
          MaxIterators,            \* MAX_ITERATOR_COUNT
          SkippedTreeCost,         \* ERROR_COST_PER_SKIPPED_TREE
          Word,                    \* an unsigned push_count counts modulo this
          Callback(_, _, _),       \* the parser's callbacks for ts_stack_iterate
          MaxCalls                 \* bound: calls of stack_node_add_link in a merge

ErrorState == 0
BaseState == 1
Base == 1                          \* base_node

Free == [state |-> BaseState, position |-> 0, links |-> << >>, refs |-> 0, errors |-> 0, cost |-> 0]

(* ts_stack_new and, with the last reference to every other node gone,     *)
(* ts_stack_clear.                                                         *)
NewStack == [nodes |-> <<[Free EXCEPT !.refs = 2]>>,
             heads |-> <<[node |-> Base, pushes |-> 0, halted |-> FALSE]>>]

Top(s, v) == s.nodes[s.heads[v].node]

Bytes(tree) == IF tree = NoTree THEN 0 ELSE tree.bytes

(* What a link adds to the error cost of a node in a state.                *)
LinkCost(tree, state) ==
  IF tree = NoTree THEN 0
  ELSE tree.cost + IF state = ErrorState /\ ~ tree.extra THEN SkippedTreeCost ELSE 0

(* A loop, and a call that calls itself with a list of what is left to do: *)
(* so many steps from the first state on.                                  *)
Repeat(Step(_), first, steps) ==
  LET after[k \in 0 .. steps] == IF k = 0 THEN first ELSE Step(after[k - 1])
  IN  after[steps]

-----------------------------------------------------------------------------
(* Reference counts.                                                       *)
Retain(ns, n) == [ns EXCEPT ![n].refs = @ + 1]

(* stack_node_release, of the node of the first of the links and heads     *)
(* that are given up: with its last reference a node gives up its own      *)
(* links, which come first.                                                *)
ReleaseStep(st) ==
  LET n    == Head(st.gone).node
      less == [st.nodes EXCEPT ![n].refs = @ - 1]
  IN  IF st.gone = << >> THEN st
      ELSE IF less[n].refs > 0 THEN [nodes |-> less, gone |-> Tail(st.gone)]
      ELSE [nodes |-> [less EXCEPT ![n] = Free], gone |-> less[n].links \o Tail(st.gone)]

(* A step gives back one of the references that are counted, so that they  *)
(* are steps enough.                                                       *)
References(ns) ==
  LET upto[n \in 0 .. Len(ns)] == IF n = 0 THEN 0 ELSE upto[n - 1] + ns[n].refs
  IN  upto[Len(ns)]

Release(ns, gone) == Repeat(ReleaseStep, [nodes |-> ns, gone |-> gone], References(ns)).nodes

(* Mutant of NewNode: the node below is not retained.                      *)
NewNodeTakesOver(ns, next, tree, pending, state, pushes) ==
  [state |-> state, position |-> ns[next].position + Bytes(tree),
   links |-> <<[node |-> next, tree |-> tree, pending |-> pending, pushes |-> pushes]>>, refs |-> 0,
   errors |-> ns[next].errors, cost |-> ns[next].cost + LinkCost(tree, state)]

(* stack_node_new, for a node on top of another one.                       *)
NewNode(ns, next, tree, pending, state, pushes) ==
  [state |-> state, position |-> ns[next].position + Bytes(tree),
   links |-> <<[node |-> next, tree |-> tree, pending |-> pending, pushes |-> pushes]>>, refs |-> 1,
   errors |-> ns[next].errors + IF tree = NoTree THEN 1 ELSE 0,
   cost |-> ns[next].cost + LinkCost(tree, state)]

(* A node from the pool, or a new one.                                     *)
Unused(ns) ==
  LET pool == {n \in DOMAIN ns : ns[n].refs = 0}
  IN  IF pool = {} THEN Len(ns) + 1 ELSE Min(pool)

(* ts_stack_push.  A push in the error state leaves the count of pushes in *)
(* the link.                                                               *)
Push(s, v, tree, pending, state) ==
  LET below  == s.heads[v].node
      failed == state = ErrorState
      n      == Unused(s.nodes)
      node   == NewNode(s.nodes, below, tree, pending, state, IF failed THEN s.heads[v].pushes ELSE 0)
      held   == Retain(s.nodes, below)
  IN  [nodes |-> Release(IF n > Len(held) THEN Append(held, node) ELSE [held EXCEPT ![n] = node],
                         <<s.heads[v]>>),
       heads |-> [s.heads EXCEPT ![v].node = n,
                                 ![v].pushes = IF failed THEN 0 ELSE (@ + 1) % Word]]

(* ts_tree_tokens_eq, or one and the same tree.                            *)
TokensEq(a, b) ==
  /\ a.children = << >> /\ b.children = << >>
  /\ a.symbol = b.symbol /\ a.bytes = b.bytes /\ a.extra = b.extra

SameTree(a, b) == a = b \/ (a # NoTree /\ b # NoTree /\ TokensEq(a, b))

(* The links of a node, to be added to another one.                        *)
AddingTo(n, links) == [k \in DOMAIN links |-> [onto |-> n, link |-> links[k]]]

(* Mutant of AddLink: a link with the same tree to another node of the     *)
(* same state is dropped.                                                  *)
AddLinkDrops(ns, n, link) ==
  IF \E l \in ToSet(ns[n].links) :
       SameTree(l.tree, link.tree) /\ ns[l.node].state = ns[link.node].state
    THEN [nodes |-> ns, left |-> << >>]
  ELSE IF Len(ns[n].links) < MaxLinks
    THEN [nodes |-> [Retain(ns, link.node) EXCEPT ![n].links = Append(@, link)], left |-> << >>]
  ELSE [nodes |-> ns, left |-> << >>]

(* stack_node_add_link: a link with the same tree to a node of the same    *)
(* state is not added but merged, node by node on the way down.            *)
AddLink(ns, n, link) ==
  LET same  == {i \in DOMAIN ns[n].links :
                  /\ SameTree(ns[n].links[i].tree, link.tree)
                  /\ ns[ns[n].links[i].node].state = ns[link.node].state}
      first == ns[n].links[Min(same)].node
  IN  IF same # {}
        THEN [nodes |-> ns,
              left |-> IF first = link.node THEN << >> ELSE AddingTo(first, ns[link.node].links)]
      ELSE IF Len(ns[n].links) < MaxLinks
        THEN [nodes |-> [Retain(ns, link.node) EXCEPT ![n].links = Append(@, link)], left |-> << >>]
      ELSE [nodes |-> ns, left |-> << >>]

(* A link that is merged brings its node's links in front of the others.   *)
AddStep(st) ==
  LET added == AddLink(st.nodes, Head(st.todo).onto, Head(st.todo).link)
  IN  IF st.todo = << >> THEN st
      ELSE [nodes |-> added.nodes, todo |-> added.left \o Tail(st.todo)]

AddLinks(ns, n, links) ==
  LET after(k) == Repeat(AddStep, [nodes |-> ns, todo |-> AddingTo(n, links)], k)
  IN  after(CHOOSE k \in 0 .. MaxCalls : after(k).todo = << >> \/ k = MaxCalls).nodes

-----------------------------------------------------------------------------
(* stack__iter.  An iterator walks down one path; where a node has several *)
(* links it is copied, up to a limit.  A round gives every iterator that   *)
(* exists when it begins one step.                                         *)
Down(it, link) ==
  LET counts == link.tree # NoTree /\ ~ link.tree.extra
  IN  [node |-> link.node,
       trees |-> IF link.tree = NoTree THEN it.trees ELSE <<link.tree>> \o it.trees,
       count |-> it.count + IF counts THEN 1 ELSE 0,
       pending |-> IF link.tree = NoTree \/ (counts /\ ~ link.pending) THEN FALSE ELSE it.pending,
       pushes |-> it.pushes + link.pushes]

(* ts_stack__add_slice: beside the slices of the same node, or as a new    *)
(* version.                                                                *)
AddSlice(st, it) ==
  LET same  == {k \in DOMAIN st.slices : st.stack.heads[st.slices[k].version].node = it.node}
      slice == [version |-> IF same = {} THEN Len(st.stack.heads) + 1 ELSE st.slices[Max(same)].version,
                node |-> it.node, trees |-> it.trees]
      head  == [node |-> it.node, pushes |-> (st.pushes + it.pushes) % Word, halted |-> FALSE]
  IN  IF same # {}
        THEN [st EXCEPT !.slices = InsertAt(@, Max(same) + 1, slice)]
        ELSE [st EXCEPT !.slices = Append(@, slice),
                        !.stack = [nodes |-> Retain(@.nodes, it.node), heads |-> Append(@.heads, head)]]

(* What the callbacks say of an iterator at a node: pop here, go no        *)
(* further, and what the session remembers.                                *)
Verdict(session, node, it) ==
  LET none == [pop |-> FALSE, stop |-> FALSE, session |-> session]
      halt == [none EXCEPT !.stop = TRUE]
      take == [halt EXCEPT !.pop = TRUE]
  IN  CASE session.kind = "pending" ->
             IF it.count = 0 THEN none ELSE IF it.pending THEN take ELSE halt
        [] session.kind = "all" -> IF it.node = Base THEN take ELSE none
        [] session.kind = "count" ->
             IF it.count = session.count THEN [take EXCEPT !.session.valid = TRUE]
             ELSE IF node.state # ErrorState THEN none
             ELSE IF session.valid \/ session.error THEN halt
             ELSE [take EXCEPT !.session.error = TRUE]
        [] OTHER -> Callback(session, node.state, it)

(* Mutant of Forked: the copies follow the first link, too.                *)
ForkedSameLink(it, links, room) ==
  [k \in 1 .. room |-> Down(it, links[1])]

(* The copies of an iterator, one for each link but the first.             *)
Forked(it, links, room) ==
  [k \in 1 .. room |-> Down(it, links[k + 1])]

(* The step of iterator st.i, which is the next one's turn if it goes.     *)
StepIterator(st) ==
  LET it    == st.its[st.i]
      links == st.stack.nodes[it.node].links
      room  == Max({0, Min({Len(links) - 1, MaxIterators - Len(st.its)})})
      move(after, stop) ==
        IF stop \/ links = << >>
          THEN [after EXCEPT !.its = RemoveAt(@, st.i)]
          ELSE [after EXCEPT !.its = [@ EXCEPT ![st.i] = Down(it, links[1])] \o Forked(it, links, room),
                             !.i = @ + 1]
      seen(v) == [st EXCEPT !.session = v.session]
      step(v) == move(IF v.pop THEN AddSlice(seen(v), it) ELSE seen(v), v.stop)
  IN  step(Verdict(st.session, st.stack.nodes[it.node], it))

Round(st) == Repeat(StepIterator, [st EXCEPT !.i = 1], Len(st.its))

(* No way down is longer than there are nodes.                             *)
Iterate(s, v, session) ==
  LET it  == [node |-> s.heads[v].node, trees |-> << >>, count |-> 0, pending |-> TRUE, pushes |-> 0]
      end == Repeat(Round, [stack |-> s, slices |-> << >>, session |-> session,
                            pushes |-> s.heads[v].pushes, its |-> <<it>>, i |-> 1], Len(s.nodes))
  IN  [stack |-> end.stack, slices |-> end.slices, session |-> end.session]

-----------------------------------------------------------------------------
(* ts_stack_remove_version                                                 *)
RemoveVersion(s, v) == [nodes |-> Release(s.nodes, <<s.heads[v]>>), heads |-> RemoveAt(s.heads, v)]

(* ts_stack_renumber_version                                               *)
RenumberVersion(s, v1, v2) ==
  [nodes |-> Release(s.nodes, <<s.heads[v2]>>),
   heads |-> RemoveAt([s.heads EXCEPT ![v2] = s.heads[v1]], v1)]

(* ts_stack_copy_version                                                   *)
CopyVersion(s, v) == [nodes |-> Retain(s.nodes, s.heads[v].node), heads |-> Append(s.heads, s.heads[v])]

(* Mutant of DropErrorSlice: the other slices keep their versions.         *)
DropErrorSliceNoShift(pop) ==
  LET rest == Tail(pop.slices)
  IN  IF rest[1].version = pop.slices[1].version THEN [pop EXCEPT !.slices = rest]
      ELSE [pop EXCEPT !.stack = RemoveVersion(@, pop.slices[1].version), !.slices = rest]

(* ts_stack_pop_count: a path that stopped at an error state is dropped    *)
(* if a valid one was found later.                                         *)
DropErrorSlice(pop) ==
  LET rest == Tail(pop.slices)
  IN  IF rest[1].version = pop.slices[1].version THEN [pop EXCEPT !.slices = rest]
      ELSE [pop EXCEPT !.stack = RemoveVersion(@, pop.slices[1].version),
                       !.slices = [k \in DOMAIN rest |-> [rest[k] EXCEPT !.version = @ - 1]]]

PopCount(s, v, count) ==
  LET chosen(pop) == IF pop.session.error /\ pop.session.valid THEN DropErrorSlice(pop) ELSE pop
  IN  chosen(Iterate(s, v, [kind |-> "count", count |-> count, error |-> FALSE, valid |-> FALSE]))

StoppedAtError(pop) == pop.session.error /\ ~ pop.session.valid

(* ts_stack_pop_pending                                                    *)
PopPending(s, v) ==
  LET pop == Iterate(s, v, [kind |-> "pending"])
  IN  IF pop.slices = << >> THEN pop
      ELSE [pop EXCEPT !.stack = RenumberVersion(@, pop.slices[1].version, v), !.slices[1].version = v]

(* ts_stack_pop_all                                                        *)
PopAll(s, v) == Iterate(s, v, [kind |-> "all"])

(* Mutant of Mergeable: error counts and costs are not compared.           *)
MergeableAnyCost(s, v, w) ==
  LET a == Top(s, v)  b == Top(s, w)
  IN  a.state = b.state /\ a.position = b.position

MergeableTops(a, b) ==
  /\ a.state = b.state /\ a.position = b.position
  /\ a.errors = b.errors /\ a.cost = b.cost

Mergeable(s, v, w) == MergeableTops(Top(s, v), Top(s, w))

(* ts_stack_merge of two versions that agree.                              *)
Merge(s, v, w) ==
  RemoveVersion([nodes |-> AddLinks(s.nodes, s.heads[v].node, Top(s, w).links),
                 heads |-> [s.heads EXCEPT ![v].pushes = Max({@, s.heads[w].pushes})]], w)

(* ts_stack_halt                                                           *)
Halt(s, v) == [s EXCEPT !.heads[v].halted = TRUE]

(* ts_stack_clear                                                          *)
Clear(s) == [nodes |-> Release(Retain(s.nodes, Base), s.heads), heads |-> NewStack.heads]
=============================================================================
