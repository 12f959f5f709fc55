------------------------------- MODULE Parser -------------------------------
(***************************************************************************)
(* The parser (parser.c) on a text without an old tree: it advances every  *)
(* version of the stack by shifts and reductions, forks where the table    *)
(* is ambiguous, and on an error skips, guesses and repairs until some     *)
(* version reaches the end.  Between two rounds over the versions the      *)
(* stack is condensed: what merges is merged, what costs too much is       *)
(* dropped.                                                                *)
(*                                                                         *)
(* A text is a row of tokens of one byte without padding, an ERROR among   *)
(* them a run of characters no token starts with; every token can be lexed *)
(* in every state, as parser__lex tries again in error mode.  Left out:    *)
(* the old tree (Reparse), the token cache (nothing ever fills it),        *)
(* external tokens, the flags that only an old tree's reuse reads, and     *)
(* that the end token's extra flag is written to where it is shared.  No   *)
(* node is pending, so that parser__breakdown_top_of_stack does nothing.   *)
(***************************************************************************)
EXTENDS StackGraph

CONSTANTS TokenNames,        \* the tokens in the order of their numbers
          NonterminalNames,  \* the other symbols, in that order
          HiddenSymbols,     \* not visible in ts_symbol_metadata
          ParseStates,
          TableActions(_, _),  \* the actions of a state on a token
          TableGoto(_, _),     \* the next state for a nonterminal, or 0
          ErrorSymbol,         \* ts_builtin_sym_error
          EndSymbol,           \* ts_builtin_sym_end
          Productions,         \* nonterminal -> what its nodes are made of
          StartSymbol,         \* what a sentence is
          Texts                \* the texts parsed

VARIABLES text,
          halt_on_error,
          parser,      \* [stack, finished, made, failed]
          version,     \* parser_parse's loop, counted from 1
          position,
          last_position,
          done

vars == <<text, halt_on_error, parser, version, position, last_position, done>>

-----------------------------------------------------------------------------
(* Languages (language.c, language.h).                                     *)
Number ==
  LET order == TokenNames \o NonterminalNames \o <<ErrorSymbol>>
  IN  [s \in ToSet(order) |-> CHOOSE i \in DOMAIN order : order[i] = s]

IsToken == [s \in DOMAIN Number |-> s \in ToSet(TokenNames)]

Actions(state, symbol) ==
  IF symbol # ErrorSymbol THEN TableActions(state, symbol)
  ELSE IF state = ErrorState THEN <<[type |-> "shift", to |-> ErrorState]>> ELSE << >>

NextState(state, symbol) ==
  LET actions == Actions(state, symbol)
  IN  IF symbol = ErrorSymbol THEN ErrorState
      ELSE IF ~ IsToken[symbol] THEN TableGoto(state, symbol)
      ELSE IF actions # << >> /\ Last(actions).type \in {"shift", "recover"} THEN Last(actions).to
      ELSE ErrorState

Reductions(actions) == SelectSeq(actions, LAMBDA a : a.type = "reduce")

-----------------------------------------------------------------------------
(* Trees (tree.c).  "made" counts the nodes made so far.                   *)
Leaf(symbol, bytes) ==
  [id |-> 0, symbol |-> symbol, bytes |-> bytes, extra |-> FALSE, children |-> << >>, cost |-> 0]

TotalBytes(trees) == FoldLeft(LAMBDA sum, t : sum + t.bytes, 0, trees)

(* What ts_tree_set_children adds up.                                      *)
NodeCost(symbol, children) ==
  FoldLeft(LAMBDA sum, t : sum + t.cost + IF symbol = ErrorSymbol /\ ~ t.extra THEN SkippedTreeCost ELSE 0,
           0, children)

Node(made, symbol, children) ==
  [id |-> IF children = << >> THEN 0 ELSE made, symbol |-> symbol, bytes |-> TotalBytes(children),
   extra |-> FALSE, children |-> children, cost |-> NodeCost(symbol, children)]

(* ts_tree_make_error_node: an ERROR among the children gives its place to *)
(* its own children.                                                       *)
ErrorNode(made, trees) ==
  Node(made, ErrorSymbol,
       FlattenSeq([i \in DOMAIN trees |->
         IF trees[i].symbol = ErrorSymbol /\ trees[i].children # << >> THEN trees[i].children ELSE <<trees[i]>>]))

(* How many trees there are in front of the trailing extras.               *)
WithoutExtras(trees) == Max({0} \cup {i \in DOMAIN trees : ~ trees[i].extra})

EssentialCount(trees) == Len(SelectSeq(trees, LAMBDA t : ~ t.extra /\ t.symbol # ErrorSymbol))

(* ts_tree_array_remove_last_n: where the last n trees that are not extra  *)
(* begin, or 0 if there are not as many.                                   *)
SplitBeforeLast(trees, n) ==
  LET essential == {i \in DOMAIN trees : ~ trees[i].extra}
  IN  Max({0} \cup {i \in essential : Cardinality({j \in essential : j >= i}) = n})

Sign(a, b) == IF a < b THEN -1 ELSE IF a > b THEN 1 ELSE 0

RECURSIVE CompareTrees(_, _)
CompareTrees(a, b) ==
  LET own == IF a.symbol # b.symbol THEN Sign(Number[a.symbol], Number[b.symbol])
             ELSE Sign(Len(a.children), Len(b.children))
  IN  IF own # 0 THEN own
      ELSE FoldLeft(LAMBDA c, i : IF c # 0 THEN c ELSE CompareTrees(a.children[i], b.children[i]),
                    0, [i \in DOMAIN a.children |-> i])

(* parser__select_tree: whether the right one is better.                   *)
SelectTree(left, right) ==
  \/ left = NoTree
  \/ left # NoTree /\ right.cost < left.cost
  \/ left # NoTree /\ right.cost = left.cost /\ CompareTrees(left, right) = 1

-----------------------------------------------------------------------------
(* error_status_compare (error_costs.c).                                   *)
MinCost(e) == e.cost + SkippedTreeCost * e.count * e.count
MaxCost(e) == MinCost(e) + (6 * SkippedTreeCost * e.count + 12 * SkippedTreeCost) \div (1 + e.pushes \div 2)

CompareStatus(a, b) ==
  IF a.count + 1 < b.count \/ (a.count < b.count /\ a.cost <= b.cost) THEN -1
  ELSE IF a.count > b.count + 1 \/ (b.count < a.count /\ b.cost <= a.cost) THEN 1
  ELSE IF MaxCost(a) < MinCost(b) THEN -1
  ELSE IF MinCost(a) > MaxCost(b) THEN 1
  ELSE 0

Status(p, v) == [count |-> Top(p.stack, v).errors, cost |-> Top(p.stack, v).cost,
                 pushes |-> p.stack.heads[v].pushes]

Count(p) == Len(p.stack.heads)
TopState(p, v) == Top(p.stack, v).state
Halted(p, v) == p.stack.heads[v].halted
Halting(p, v) == [p EXCEPT !.stack = Halt(@, v)]

(* parser__better_version_exists, which halts the worse versions it meets. *)
BetterVersionExists(p, v, status) ==
  LET rivals == {i \in 1 .. Count(p) : i # v /\ ~ Halted(p, i)}
      better == {i \in rivals : CompareStatus(status, Status(p, i)) = 1}
      worse  == {i \in rivals : /\ CompareStatus(status, Status(p, i)) = -1
                                /\ \A b \in better : i < b}
  IN  IF p.finished # NoTree /\ p.finished.cost <= status.cost THEN [parser |-> p, exists |-> TRUE]
      ELSE [parser |-> FoldSet(LAMBDA i, acc : Halting(acc, i), p, worse), exists |-> better # {}]

(* A version judged by its status and the cost of another one.             *)
Judge(p, v, w) == BetterVersionExists(p, v, Status(p, w))

(* A version made beside another one goes if there is a better one.        *)
StaysIfGood(judged, new) ==
  IF judged.exists THEN [judged.parser EXCEPT !.stack = RemoveVersion(@, new)] ELSE judged.parser

-----------------------------------------------------------------------------
PushTree(p, v, tree, state) == [p EXCEPT !.stack = Push(@, v, tree, FALSE, state)]

(* parser__shift of a token, which has no children and is never pending.   *)
ShiftToken(p, v, state, lookahead) == PushTree(p, v, [lookahead EXCEPT !.extra = FALSE], state)

PushAll(p, v, trees, state) == FoldLeft(LAMBDA acc, t : PushTree(acc, v, t, state), p, trees)

(* The slices of a version are parses of the same text; the best one       *)
(* becomes the node's children, without the extras behind them.            *)
BestSlice(made, symbol, slices) ==
  FoldLeft(LAMBDA best, s :
             LET left  == Node(made, symbol, SubSeq(best.trees, 1, WithoutExtras(best.trees)))
                 right == Node(made, symbol, SubSeq(s.trees, 1, WithoutExtras(s.trees)))
             IN  IF SelectTree(left, right) THEN s ELSE best,
           slices[1], Tail(slices))

(* A reduction at the end of an error region is also tried as a skipped    *)
(* tree, in a version of its own.                                          *)
SkippedToo(p, v, revealed, trees) ==
  LET copied == [p EXCEPT !.stack = CopyVersion(@, revealed)]
      other  == Count(copied)
  IN  StaysIfGood(Judge(PushAll(copied, other, trees, ErrorState), v, other), other)

(* The versions a pop has made, and the slices of one of them.             *)
NewVersions(p, stack) == [i \in 1 .. Len(stack.heads) - Count(p) |-> Count(p) + i]
SlicesOf(pop, v) == SelectSeq(pop.slices, LAMBDA s : s.version = v)

(* The node for the trees that were popped down to one version.            *)
ReduceTrees(p, v, to, trees, symbol, may_skip) ==
  LET state == TopState(p, to)
      count == WithoutExtras(trees)
      row   == <<Node(p.made, symbol, SubSeq(trees, 1, count))>> \o SubSeq(trees, count + 1, Len(trees))
      made  == [p EXCEPT !.made = @ + 1]
  IN  PushAll(IF state = ErrorState /\ may_skip THEN SkippedToo(made, v, to, row) ELSE made,
              to, row, NextState(state, symbol))

ReduceOnto(p, v, symbol, slices, allow_skipping) ==
  ReduceTrees(p, v, slices[1].version, BestSlice(p.made, symbol, slices).trees, symbol,
              allow_skipping /\ WithoutExtras(slices[1].trees) > 1)

(* The versions from a number on are merged where they can be.             *)
RECURSIVE MergeNew(_, _, _)
MergeNew(s, first, i) ==
  LET same == {j \in first .. i - 1 : Mergeable(s, j, i)}
  IN  IF i > Len(s.heads) THEN s
      ELSE IF same = {} THEN MergeNew(s, first, i + 1)
      ELSE MergeNew(Merge(s, Min(same), i), first, i)

(* parser__reduce                                                          *)
ReduceSlices(p, v, symbol, pop, allow_skipping) ==
  FoldLeft(LAMBDA acc, w : ReduceOnto(acc, v, symbol, SlicesOf(pop, w), allow_skipping),
           [p EXCEPT !.stack = pop.stack, !.failed = @ \/ pop.slices = << >>], NewVersions(p, pop.stack))

ReducePopped(p, v, symbol, pop, allow_skipping) ==
  [slices |-> pop.slices, stopped |-> StoppedAtError(pop),
   parser |-> IF StoppedAtError(pop) THEN [p EXCEPT !.stack = pop.stack]
              ELSE [ReduceSlices(p, v, symbol, pop, allow_skipping)
                      EXCEPT !.stack = MergeNew(@, Count(p) + 1, Count(p) + 1)]]

ReduceVersion(p, v, symbol, count, allow_skipping) ==
  ReducePopped(p, v, symbol, PopCount(p.stack, v, count), allow_skipping)

-----------------------------------------------------------------------------
(* Mutant of ReductionsAfter: a reduction of another number of trees will  *)
(* do.                                                                     *)
ReductionsAfterAnyCount(state, below, below_count, above, lookahead) ==
  LET after == FoldLeft(LAMBDA at, t : IF t.extra THEN at ELSE NextState(at, t.symbol), state,
                        SubSeq(below, 1, below_count) \o above)
  IN  ToSet(Reductions(Actions(after, lookahead)))

(* parser__reductions_after_sequence: the reductions on the lookahead once *)
(* the trees below the error, up to a number of them, and those above it   *)
(* have been taken in from a state.  A tree that does not change the state *)
(* is not counted.                                                         *)
Enter(acc, next) ==
  IF next = ErrorState THEN [acc EXCEPT !.dead = TRUE]
  ELSE IF next = acc.state THEN acc
  ELSE [acc EXCEPT !.state = next, !.count = @ + 1]

TakeIn(start, trees, limit) ==
  FoldLeft(LAMBDA acc, tree : IF acc.dead \/ tree.extra \/ acc.count = limit THEN acc
                              ELSE Enter(acc, NextState(acc.state, tree.symbol)),
           start, trees)

ReductionsAfter(state, below, below_count, above, lookahead) ==
  LET middle == TakeIn([state |-> state, count |-> 0, dead |-> FALSE], below, below_count)
      end    == TakeIn(middle, above, -1)
  IN  IF end.dead THEN {}
      ELSE {a \in ToSet(Reductions(Actions(end.state, lookahead))) : a.count = end.count}

(* parser__repair_error_callback at a node: each repair left is dropped if *)
(* it would skip no less than the best one, kept if it does not fit here,  *)
(* and taken as the best if the trees around the error reduce by it.       *)
TryRepair(acc, repair, state, it) ==
  LET session == acc.session
      needed  == repair.count - session.above_count
      skipped == it.count - needed
      next    == NextState(state, repair.symbol)
      keep    == [acc EXCEPT !.session.repairs = Append(@, repair)]
  IN  IF acc.break \/ needed > it.count THEN [keep EXCEPT !.break = TRUE]
      ELSE IF session.found /\ skipped >= session.best.skipped THEN acc
      ELSE IF \/ state = ErrorState \/ next = ErrorState
              \/ Actions(next, session.lookahead) = << >>
              \/ \A a \in ReductionsAfter(state, it.trees, needed, session.above, session.lookahead) :
                   a.symbol # repair.symbol
        THEN keep
      ELSE [acc EXCEPT !.pop = TRUE, !.session.found = TRUE,
                       !.session.best = [symbol |-> repair.symbol, next |-> next, skipped |-> skipped]]

RepairVerdict(session, state, it) ==
  LET verdict(tried) ==
        [pop |-> tried.pop, stop |-> tried.session.repairs = << >>, session |-> tried.session]
  IN  verdict(FoldLeft(LAMBDA acc, repair : TryRepair(acc, repair, state, it),
                       [session |-> [session EXCEPT !.repairs = << >>], pop |-> FALSE, break |-> FALSE],
                       session.repairs))

(* parser__skip_preceding_trees_callback: the nearest state in which the   *)
(* lookahead would have ended something.                                   *)
SkipVerdict(session, state, it) ==
  LET actions == Actions(state, session.lookahead)
      here    == /\ it.count > 0 /\ state # ErrorState /\ TotalBytes(it.trees) > 0
                 /\ actions # << >> /\ actions[1].type = "reduce"
  IN  [pop |-> here, stop |-> here, session |-> session]

ParserCallback(session, state, it) ==
  IF session.kind = "repair" THEN RepairVerdict(session, state, it) ELSE SkipVerdict(session, state, it)

(* The version of the last slice takes the place of the one that is        *)
(* repaired, and the versions of the others go.                            *)
KeepLastSlice(s, slices, v) ==
  LET last   == Last(slices).version
      others == {slice.version : slice \in ToSet(slices)} \ {last}
  IN  FoldLeft(RemoveVersion, RenumberVersion(s, last, v), Reverse(SetToSortSeq(others, <)))

(* Mutant of Repaired: what is skipped is dropped.                         *)
RepairedWithoutError(p, v, best, below, above) ==
  LET split  == IF below = << >> \/ best.skipped = 0 THEN Len(below) + 1
                ELSE SplitBeforeLast(below, best.skipped)
      parent == Node(p.made, best.symbol, SubSeq(below, 1, split - 1) \o above)
  IN  IF split = 0 THEN [p EXCEPT !.failed = TRUE]
      ELSE PushTree([p EXCEPT !.made = @ + 1], v, parent, best.next)

(* The repair: what is skipped becomes an ERROR between the trees below    *)
(* and those above the error.                                              *)
Repaired(p, v, best, below, above) ==
  LET split    == IF below = << >> \/ best.skipped = 0 THEN Len(below) + 1
                  ELSE SplitBeforeLast(below, best.skipped)
      skipped  == SubSeq(below, split, Len(below))
      last     == WithoutExtras(skipped)
      error    == ErrorNode(p.made, SubSeq(skipped, 1, last))
      parent   == Node(p.made + 1, best.symbol,
                       SubSeq(below, 1, split - 1) \o <<error>>
                         \o SubSeq(skipped, last + 1, Len(skipped)) \o above)
      pushed   == PushTree([p EXCEPT !.made = @ + 2], v, parent, best.next)
  IN  IF split = 0 THEN [p EXCEPT !.failed = TRUE]
      ELSE [pushed EXCEPT !.stack.heads[v].pushes = (@ - Len(error.children)) % Word]

(* parser__repair_error                                                    *)
RepairError(p, slice, lookahead, actions) ==
  LET v       == slice.version
      above   == EssentialCount(slice.trees)
      fits(a) == a.count > above \/ (a.count = above /\ a.symbol \in HiddenSymbols)
      session == [kind |-> "repair", lookahead |-> lookahead, above |-> slice.trees, above_count |-> above,
                  repairs |-> SelectSeq(Reductions(actions), fits), found |-> FALSE,
                  best |-> [symbol |-> ErrorSymbol, next |-> ErrorState, skipped |-> 0]]
      kept(pop) == [p EXCEPT !.stack = KeepLastSlice(pop.stack, pop.slices, v)]
      verdict(judged) == [parser |-> IF judged.exists THEN Halting(judged.parser, v) ELSE judged.parser,
                          repaired |-> ~ judged.exists]
      after(pop) ==
        IF pop.session.found
          THEN verdict(Judge(Repaired(kept(pop), v, pop.session.best, Last(pop.slices).trees, slice.trees), v, v))
          ELSE [parser |-> [p EXCEPT !.stack = RemoveVersion(pop.stack, v)], repaired |-> FALSE]
  IN  after(Iterate(p.stack, v, session))

-----------------------------------------------------------------------------
(* The root is the last tree that is not extra, with the trees around it   *)
(* among its children.                                                     *)
Root(made, trees) ==
  LET j == WithoutExtras(trees)
  IN  IF Len(trees) = 1 THEN trees[1]
      ELSE IF j = 0 THEN NoTree
      ELSE Node(made, trees[j].symbol,
                SubSeq(trees, 1, j - 1) \o trees[j].children \o SubSeq(trees, j + 1, Len(trees)))

(* parser__accept                                                          *)
Accept(p, v, lookahead) ==
  LET roots(pop) == [i \in DOMAIN pop.slices |-> Root(p.made + i, pop.slices[i].trees)]
      best(trees) == FoldLeft(LAMBDA acc, r : IF SelectTree(acc, r) THEN r ELSE acc, p.finished, trees)
      accepted(pop, trees) ==
        IF trees = << >> \/ NoTree \in ToSet(trees) THEN [p EXCEPT !.failed = TRUE]
        ELSE Halting([p EXCEPT !.stack = RemoveVersion(pop.stack, pop.slices[1].version),
                               !.made = @ + Len(trees) + 1, !.finished = best(trees)], v)
      after(pop) == accepted(pop, roots(pop))
  IN  after(PopAll(PushTree(p, v, [lookahead EXCEPT !.extra = TRUE], 1).stack, v))

(* parser__recover: the token is both skipped, in a version of its own,    *)
(* and taken for the first one of what follows.                            *)
SkipOrResume(p, v, state, lookahead) ==
  LET new     == Count(p) + 1
      copied  == [p EXCEPT !.stack = CopyVersion(@, v)]
      skipped == ShiftToken(copied, new, ErrorState, lookahead)
  IN  ShiftToken(StaysIfGood(Judge(skipped, v, new), new), v, state, lookahead)

(* At the end of the text all is wrapped up in an ERROR before that.       *)
RecoverVersion(p, v, state, lookahead) ==
  SkipOrResume(IF lookahead.symbol # EndSymbol THEN p
               ELSE Accept(PushTree(p, v, ErrorNode(p.made, << >>), 1), v, lookahead),
               v, state, lookahead)

-----------------------------------------------------------------------------
(* What parser__do_potential_reductions finds in the table for a state.    *)
Potential ==
  [state \in ParseStates |->
     LET row == FlattenSeq([i \in DOMAIN TokenNames |-> TableActions(state, TokenNames[i])])
         add(set, a) == IF a \in ToSet(set) THEN set ELSE Append(set, a)
     IN  [shifts |-> \E a \in ToSet(row) : a.type \in {"shift", "recover"},
          reductions |-> FoldLeft(add, << >>, Reductions(row))]]

(* parser__do_potential_reductions; "keep" is what it returns: the version *)
(* itself is kept beside those it was reduced to.                          *)
PotentialReduction(acc, r) ==
  IF r.stopped
    THEN [acc EXCEPT !.parser = [r.parser EXCEPT !.stack = RemoveVersion(@, r.slices[1].version)]]
    ELSE [parser |-> r.parser, reduced |-> TRUE]

DoPotentialReductions(p, v) ==
  LET here == Potential[TopState(p, v)]
      result(all) ==
        IF all.reduced /\ ~ here.shifts
          THEN [parser |-> [all.parser EXCEPT !.stack = RenumberVersion(@, Count(p) + 1, v)], keep |-> FALSE]
          ELSE [parser |-> all.parser, keep |-> TRUE]
  IN  result(FoldLeft(LAMBDA acc, a :
                        PotentialReduction(acc, ReduceVersion(acc.parser, v, a.symbol, a.count, FALSE)),
                      [parser |-> p, reduced |-> FALSE], here.reductions))

RECURSIVE ReduceAll(_, _, _, _)
ReduceAll(p, v, from, current) ==
  LET goOn(r) == ReduceAll(r.parser, v, from,
                           IF ~ r.keep THEN current ELSE IF current = v THEN from ELSE current + 1)
  IN  IF current > Count(p) THEN p ELSE goOn(DoPotentialReductions(p, current))

(* parser__skip_preceding_trees                                            *)
SkipPrecedingTrees(p, v, lookahead) ==
  LET skip(acc, w, trees) ==
        LET error == [ErrorNode(acc.made, trees) EXCEPT !.extra = TRUE]
        IN  PushTree([acc EXCEPT !.made = @ + 1], w, error, TopState(acc, w))
      skipAll(pop) == FoldLeft(LAMBDA acc, w : skip(acc, w, SlicesOf(pop, w)[1].trees),
                               [p EXCEPT !.stack = pop.stack], NewVersions(p, pop.stack))
  IN  skipAll(Iterate(p.stack, v, [kind |-> "skip", lookahead |-> lookahead]))

(* A discontinuity on every version that came of the error, and all of     *)
(* them merged: the merge is asserted.                                     *)
RECURSIVE MergeAfterError(_, _, _)
MergeAfterError(p, v, from) ==
  LET pushed == PushTree(p, from, NoTree, ErrorState)
  IN  IF Count(p) < from THEN p
      ELSE IF ~ Mergeable(pushed.stack, v, from) THEN [pushed EXCEPT !.failed = TRUE]
      ELSE MergeAfterError([pushed EXCEPT !.stack = Merge(@, v, from)], v, from)

(* Mutant of HandleError: the versions with skipped trees are merged, too. *)
HandleErrorMergesSkipped(p, v, lookahead) ==
  LET judged  == BetterVersionExists(p, v, [Status(p, v) EXCEPT !.count = @ + 1])
      from    == Count(judged.parser) + 1
      reduced == ReduceAll(SkipPrecedingTrees(judged.parser, v, lookahead), v, from, v)
  IN  IF judged.exists THEN Halting(judged.parser, v)
      ELSE MergeAfterError(PushTree(reduced, v, NoTree, ErrorState), v, from)

(* All that may have been reduced at the error, on top of one node.        *)
Interrupt(p, v) ==
  LET from == Count(p) + 1
  IN  MergeAfterError(PushTree(ReduceAll(p, v, from, v), v, NoTree, ErrorState), v, from)

(* parser__handle_error                                                    *)
HandleError(p, v, lookahead) ==
  LET judged == BetterVersionExists(p, v, [Status(p, v) EXCEPT !.count = @ + 1])
  IN  IF judged.exists THEN Halting(judged.parser, v)
      ELSE Interrupt(SkipPrecedingTrees(judged.parser, v, lookahead), v)

-----------------------------------------------------------------------------
(* A reduction that was popped down to an error is followed by a repair.   *)
AfterReduction(acc, r, lookahead, actions) ==
  LET repaired(fix) == [acc EXCEPT !.parser = fix.parser, !.stopped = TRUE,
                                   !.last = IF fix.repaired THEN r.slices[1].version ELSE @]
  IN  IF r.slices = << >> THEN [acc EXCEPT !.parser = r.parser, !.returned = TRUE]
      ELSE IF ~ r.stopped THEN [acc EXCEPT !.parser = r.parser, !.last = r.slices[1].version]
      ELSE repaired(RepairError(r.parser, r.slices[1], lookahead.symbol, actions))

(* parser__advance.  One action of an entry, after the ones before it;     *)
(* "last" is last_reduction_version, "returned" that there is no more to   *)
(* do.                                                                     *)
Act(acc, v, lookahead, actions, a) ==
  LET p == acc.parser
  IN  CASE acc.returned -> acc
        [] ~ acc.returned /\ a.type = "shift" ->
             [acc EXCEPT !.parser = ShiftToken(p, v, a.to, lookahead), !.returned = TRUE]
        [] ~ acc.returned /\ a.type = "recover" ->
             [acc EXCEPT !.parser = RecoverVersion(p, v, a.to, lookahead), !.returned = TRUE]
        [] ~ acc.returned /\ a.type = "accept" ->
             IF Status(p, v).count > 0 THEN acc
             ELSE [acc EXCEPT !.parser = Accept(p, v, lookahead), !.returned = TRUE]
        [] ~ acc.returned /\ a.type = "reduce" ->
             IF acc.stopped THEN acc
             ELSE AfterReduction(acc, ReduceVersion(p, v, a.symbol, a.count, TRUE), lookahead, actions)

RECURSIVE AdvanceVersion(_, _, _), AfterActions(_, _, _, _)
AfterActions(acted, v, state, lookahead) ==
  LET goOn(q) == IF Halted(q, v) \/ q.failed THEN q ELSE AdvanceVersion(q, v, lookahead)
  IN  IF acted.returned \/ acted.parser.failed THEN acted.parser
      ELSE IF acted.last # 0
        THEN AdvanceVersion([acted.parser EXCEPT !.stack = RenumberVersion(@, acted.last, v)], v, lookahead)
      ELSE IF state = ErrorState THEN PushTree(acted.parser, v, lookahead, ErrorState)
      ELSE goOn(HandleError(acted.parser, v, lookahead.symbol))

AdvanceVersion(p, v, lookahead) ==
  LET state   == TopState(p, v)
      actions == Actions(state, lookahead.symbol)
  IN  AfterActions(FoldLeft(LAMBDA acc, a : Act(acc, v, lookahead, actions, a),
                            [parser |-> p, last |-> 0, stopped |-> FALSE, returned |-> FALSE], actions),
                   v, state, lookahead)

(* parser__lex at the top of a version.                                    *)
Lookahead(p, v) ==
  LET at == Top(p.stack, v).position
  IN  IF at = Len(text) THEN Leaf(EndSymbol, 0) ELSE Leaf(text[at + 1], 1)

-----------------------------------------------------------------------------
(* Mutant of CondenseWith: the better version of the two goes.             *)
RECURSIVE CondenseWithSwapped(_, _, _, _)
CondenseWithSwapped(c, i, j, status) ==
  IF j >= i THEN [condensed |-> c, next |-> i + 1]
  ELSE LET order == CompareStatus(status, Status(c.parser, j))
           gone  == IF order = 1 THEN j ELSE i
       IN  IF order = 0 THEN CondenseWithSwapped(c, i, j + 1, status)
           ELSE CondenseWithSwapped([c EXCEPT !.parser.stack = RemoveVersion(@, gone)], i - 1, j, status)

(* parser__condense_stack.  Each version is compared with those before it; *)
(* after it was removed the loop over those goes on, with its status, for  *)
(* the version that has moved up to the number before.                     *)
RECURSIVE CondenseWith(_, _, _, _)
CondenseWith(c, i, j, status) ==
  IF j >= i THEN [condensed |-> c, next |-> i + 1]
  ELSE IF Mergeable(c.parser.stack, j, i)
    THEN [condensed |-> [c EXCEPT !.parser.stack = Merge(@, j, i)], next |-> i]
  ELSE LET order == CompareStatus(status, Status(c.parser, j))
       IN  IF order = -1 THEN CondenseWith([c EXCEPT !.parser.stack = RemoveVersion(@, j)], i - 1, j, status)
           ELSE IF order = 1 THEN CondenseWith([c EXCEPT !.parser.stack = RemoveVersion(@, i)], i - 1, j + 1, status)
           ELSE CondenseWith(c, i, j + 1, status)

(* Mutant of CondenseFrom: halted versions stay.                           *)
RECURSIVE CondenseFromKeepsHalted(_, _)
CondenseFromKeepsHalted(c, i) ==
  IF i > Count(c.parser) THEN c
  ELSE LET status == Status(c.parser, i)
           seen   == [c EXCEPT !.clean = @ \/ status.count = 0]
           r      == CondenseWith(seen, i, 1, status)
       IN  CondenseFromKeepsHalted(r.condensed, r.next)

RECURSIVE CondenseFrom(_, _)
CondenseFrom(c, i) ==
  IF i > Count(c.parser) THEN c
  ELSE IF Halted(c.parser, i) THEN CondenseFrom([c EXCEPT !.parser.stack = RemoveVersion(@, i)], i)
  ELSE LET status == Status(c.parser, i)
           seen   == [c EXCEPT !.clean = @ \/ status.count = 0]
           r      == CondenseWith(seen, i, 1, status)
       IN  CondenseFrom(r.condensed, r.next)

(* parser__halt_parse: the rest of the text becomes one ERROR.             *)
HaltParse(p) ==
  LET filler == Leaf(ErrorSymbol, Len(text) - Top(p.stack, 1).position)
      filled == PushTree(PushTree(p, 1, filler, ErrorState), 1, ErrorNode(p.made, << >>), ErrorState)
  IN  Accept(filled, 1, Leaf(EndSymbol, 0))

-----------------------------------------------------------------------------
(* parser__start                                                           *)
Init ==
  /\ text \in Texts /\ halt_on_error \in BOOLEAN
  /\ parser = [stack |-> NewStack, finished |-> NoTree, made |-> 1, failed |-> FALSE]
  /\ version = 1 /\ position = 0 /\ last_position = 0 /\ done = FALSE

Turn == ~ done /\ ~ parser.failed /\ version <= Count(parser)

Ahead == LET at == Top(parser.stack, version).position
         IN  at > last_position \/ (version > 1 /\ at = last_position)

Advance ==
  /\ Turn /\ ~ Halted(parser, version) /\ ~ Ahead
  /\ position' = Top(parser.stack, version).position
  /\ parser' = AdvanceVersion(parser, version, Lookahead(parser, version))
  /\ UNCHANGED <<text, halt_on_error, version, last_position, done>>

(* The version is halted or has come far enough; the next one begins.      *)
NextVersion ==
  /\ Turn /\ (Halted(parser, version) \/ Ahead)
  /\ position' = IF Halted(parser, version) THEN position ELSE Top(parser.stack, version).position
  /\ last_position' = position'
  /\ version' = version + 1
  /\ UNCHANGED <<text, halt_on_error, parser, done>>

(* The end of a round over the versions; after the last one the stack is   *)
(* cleared.                                                                *)
Condense ==
  /\ ~ done /\ ~ parser.failed /\ version > Count(parser)
  /\ \E c \in {CondenseFrom([parser |-> parser, clean |-> FALSE], 1)} :
       LET halts == halt_on_error /\ ~ c.clean /\ Count(c.parser) > 0
           cleared(last) == IF done' /\ ~ last.failed THEN [last EXCEPT !.stack = Clear(@)] ELSE last
       IN  /\ done' = (halts \/ version = 1)
           /\ parser' = cleared(IF halts THEN HaltParse(c.parser) ELSE c.parser)
  /\ version' = 1 /\ last_position' = position
  /\ UNCHANGED <<text, halt_on_error, position>>

Next == Advance \/ NextVersion \/ Condense

(* WF_vars(Next), written without ENABLED: some step is possible until the *)
(* parse is done, as the guards of the three actions leave nothing out.    *)
(* Nothing else runs while a document is parsed.                           *)
Fairness == []<>(done \/ parser.failed) \/ []<><<TRUE>>_vars

Spec == Init /\ [][Next]_vars /\ Fairness

-----------------------------------------------------------------------------
(* The tokens of a tree; what has no length is none.                       *)
RECURSIVE Spelled(_)
Spelled(tree) ==
  IF tree.children # << >> THEN FlattenSeq([i \in DOMAIN tree.children |-> Spelled(tree.children[i])])
  ELSE IF tree.bytes = 0 THEN << >> ELSE <<tree.symbol>>

SpelledBy(trees) == FlattenSeq([i \in DOMAIN trees |-> Spelled(trees[i])])

RECURSIVE TreesDown(_, _)
TreesDown(ns, n) ==
  IF ns[n].links = << >> THEN {<< >>}
  ELSE UNION {{below \o (IF link.tree = NoTree THEN << >> ELSE <<link.tree>>) :
                 below \in TreesDown(ns, link.node)} : link \in ToSet(ns[n].links)}

(* Whatever was forked, merged, skipped and repaired, every way down from  *)
(* every version is a parse of the text up to its position, and the tree   *)
(* at the end one of the whole text: no token is lost, doubled, or taken   *)
(* from another version.  Only parser__halt_parse makes one ERROR of what  *)
(* is left.                                                                *)
EveryVersionSpellsTheText ==
  /\ \A v \in 1 .. Count(parser) :
       ~ Halted(parser, v) =>
         \A trees \in TreesDown(parser.stack.nodes, parser.stack.heads[v].node) :
           SpelledBy(trees) = SubSeq(text, 1, Top(parser.stack, v).position)
  /\ done /\ parser.finished # NoTree =>
       \/ Spelled(parser.finished) = text
       \/ halt_on_error /\ parser.finished.bytes = Len(text)

(* Every assertion holds, in the parser, the stack and the trees: that of  *)
(* the versions after an error, which does the merging it asserts, too.    *)
NoAssertionFails == ~ parser.failed

RECURSIVE Derives(_, _), DerivesAll(_, _)
Derives(symbol, tokens) ==
  IF IsToken[symbol] THEN tokens = <<symbol>>
  ELSE \E p \in Productions[symbol] : DerivesAll(p, tokens)
DerivesAll(symbols, tokens) ==
  IF symbols = << >> THEN tokens = << >>
  ELSE \E n \in 1 .. Len(tokens) - Len(symbols) + 1 :
         /\ Derives(Head(symbols), SubSeq(tokens, 1, n))
         /\ DerivesAll(Tail(symbols), SubSeq(tokens, n + 1, Len(tokens)))

RECURSIVE TreeNodes(_)
TreeNodes(tree) == {tree} \cup UNION {TreeNodes(tree.children[i]) : i \in DOMAIN tree.children}

(* Whatever was forked, merged, skipped and repaired, the parse ends with  *)
(* a tree, and there is an ERROR in it exactly if the text is no sentence  *)
(* of the grammar.                                                         *)
ErrorsIffNoSentence ==
  done => /\ parser.finished # NoTree
          /\ Derives(StartSymbol, text) <=> \A n \in TreeNodes(parser.finished) : n.symbol # ErrorSymbol

(* A token that some state is left for itself by: the repair does not      *)
(* count it (parser__reductions_after_sequence), so that a node repaired   *)
(* can begin with several of them, as an array with two "[".               *)
KeepsState(symbol) == \E state \in ParseStates \ {ErrorState} : NextState(state, symbol) = state

(* But for those tokens, a node in the tree of the parse is made by a rule *)
(* of the grammar, ERRORs and extras apart, also where it was put together *)
(* by a repair, from trees below and above an error and a reduction that   *)
(* would have been possible elsewhere, or by merging.                      *)
NodesFollowTheGrammar ==
  done /\ parser.finished # NoTree =>
    \A n \in TreeNodes(parser.finished) :
      n.symbol \in DOMAIN Productions =>
        LET kids == SelectSeq(n.children, LAMBDA c : ~ c.extra /\ c.symbol # ErrorSymbol)
            once == {i \in DOMAIN kids : i = 1 \/ kids[i].symbol # kids[i - 1].symbol
                                        \/ ~ KeepsState(kids[i].symbol)}
            row  == SetToSortSeq(once, <)
        IN  [i \in DOMAIN row |-> kids[row[i]].symbol] \in Productions[n.symbol]

(* Condensing the stack drops no version but for a better one: for every   *)
(* version that went on there is one afterwards that it was merged into,   *)
(* or that is better by error_status_compare, which is no order; that the  *)
(* comparisons go on after the compared version was removed, with its      *)
(* status, costs no version that is not worse than any.                    *)
CondenseKeepsTheBest ==
  [][version > Count(parser) /\ ~ done' =>
       \A v \in 1 .. Count(parser) :
         Halted(parser, v) \/ \E w \in 1 .. Count(parser') :
           \/ MergeableTops(Top(parser.stack, v), Top(parser'.stack, w))
           \/ CompareStatus(Status(parser, v), Status(parser', w)) = 1]_vars

(* Every parse ends: error recovery uses up a token in every round, or     *)
(* gives a version up.                                                     *)
Terminates == <>(done \/ parser.failed)
=============================================================================
