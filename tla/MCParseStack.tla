---------------------------- MODULE MCParseStack ----------------------------
(* A token, and an extra token and a node with children that are as long  *)
(* as three of them, so that the same text is parsed in different numbers  *)
(* of trees; the error state, and one other.                               *)
EXTENDS StackWays

MCTrees ==
  {[id |-> 0, symbol |-> 1, bytes |-> 1, extra |-> FALSE, children |-> << >>, cost |-> 0],
   [id |-> 0, symbol |-> 3, bytes |-> 3, extra |-> TRUE, children |-> << >>, cost |-> 0],
   [id |-> 1, symbol |-> 2, bytes |-> 3, extra |-> FALSE, children |-> <<"three tokens">>, cost |-> 0]}

(* Extra trees keep the state, and are pushed outside the error state only *)
(* (a bound); in the error state a node with children may be skipped or    *)
(* recovered with.                                                         *)
MCGoto(state, tree) ==
  IF tree.extra THEN {state} \ {ErrorState}
  ELSE IF tree.children = << >> THEN {BaseState}
  ELSE {state, BaseState}

NoCallback(session, state, it) == [pop |-> FALSE, stop |-> TRUE, session |-> session]

(* Which node of the pool a node lies in tells nothing, and push counts    *)
(* are never compared: states are the same if they are but for the counts, *)
(* after numbering the nodes in the order they are met on the way down     *)
(* from the versions.                                                      *)
RECURSIVE Met(_, _)
Met(order, n) ==
  IF n \in ToSet(order) THEN order
  ELSE FoldLeft(LAMBDA acc, link : Met(acc, link.node), Append(order, n), nodes[n].links)

UpToNumbering ==
  LET order == FoldLeft(LAMBDA acc, h : Met(acc, h.node), << >>, heads)
      at    == [n \in ToSet(order) |-> CHOOSE k \in DOMAIN order : order[k] = n]
  IN  <<[k \in DOMAIN order |->
           LET node == nodes[order[k]]
           IN  [node EXCEPT !.links = [i \in DOMAIN @ |-> [@[i] EXCEPT !.node = at[@], !.pushes = 0]]]],
        [v \in Versions |-> at[heads[v].node]],
        [popped EXCEPT !.slices = [k \in DOMAIN @ |-> [@[k] EXCEPT !.node = at[@]]]]>>
=============================================================================
