---------------------------- MODULE JsonGrammar ----------------------------
(***************************************************************************)
(* The parse table of the JSON parser the application links (json.c): an   *)
(* LR table whose state 0 is the error state, and whose states 27 to 34    *)
(* are where recovery goes on when it does not know what a token belongs   *)
(* to, so that their entries have several actions.                         *)
(***************************************************************************)
EXTENDS Integers, Sequences, TLC

(* symbol_names, in the order of the symbols' numbers.                     *)
Tokens == <<"end", "{", ",", "}", ":", "[", "]", "string", "number", "true", "false", "null">>
Nonterminals == <<"_value", "object", "pair", "array", "object_repeat1", "array_repeat1">>
Hidden == {"end", "_value", "object_repeat1", "array_repeat1"}
States == 0 .. 34

Shift(to) == [type |-> "shift", to |-> to]
Recover(to) == [type |-> "recover", to |-> to]
Reduce(symbol, count) == [type |-> "reduce", symbol |-> symbol, count |-> count]

On(tokens, actions) == [t \in tokens |-> actions]
ByCount(symbol, counts) == [i \in DOMAIN counts |-> Reduce(symbol, counts[i])]

Scalars == {"string", "number", "true", "false", "null"}
Keys == {"string", "number"}
Constants == {"true", "false", "null"}
Follow == {"end", ",", "}", "]"}

ValueRow == On(Scalars, <<Shift(4)>>) @@ ("{" :> <<Shift(2)>>) @@ ("[" :> <<Shift(3)>>)

(* parse_table and parse_actions for the tokens.                           *)
Table ==
  [s \in States |->
    CASE s = 0 -> ("end" :> <<Recover(0)>>) @@ ("{" :> <<Recover(2)>>) @@ ("," :> <<Recover(27)>>)
                    @@ ("}" :> <<Recover(28)>>) @@ (":" :> <<Recover(25)>>) @@ ("[" :> <<Recover(3)>>)
                    @@ ("]" :> <<Recover(29)>>) @@ On(Keys, <<Recover(30)>>) @@ On(Constants, <<Recover(4)>>)
      [] s \in {1, 8, 11, 25} -> ValueRow
      [] s = 2  -> On(Keys, <<Shift(16)>>) @@ ("}" :> <<Shift(15)>>)
      [] s = 3  -> ValueRow @@ ("]" :> <<Shift(6)>>)
      [] s = 4  -> On(Follow, <<Reduce("_value", 1)>>)
      [] s = 5  -> ("end" :> <<[type |-> "accept"]>>)
      [] s = 6  -> On(Follow, <<Reduce("array", 2)>>)
      [] s = 7  -> ("," :> <<Shift(8)>>) @@ ("]" :> <<Shift(9)>>)
      [] s = 9  -> On(Follow, <<Reduce("array", 3)>>)
      [] s = 10 -> ("," :> <<Shift(11)>>) @@ ("]" :> <<Shift(12)>>)
      [] s = 12 -> On(Follow, <<Reduce("array", 4)>>)
      [] s = 13 -> On({",", "]"}, <<Reduce("array_repeat1", 3)>>)
      [] s = 14 -> On({",", "]"}, <<Reduce("array_repeat1", 2)>>)
      [] s = 15 -> On(Follow, <<Reduce("object", 2)>>)
      [] s = 16 -> (":" :> <<Shift(25)>>)
      [] s = 17 -> ("," :> <<Shift(18)>>) @@ ("}" :> <<Shift(19)>>)
      [] s \in {18, 21} -> On(Keys, <<Shift(16)>>)
      [] s = 19 -> On(Follow, <<Reduce("object", 3)>>)
      [] s = 20 -> ("," :> <<Shift(21)>>) @@ ("}" :> <<Shift(22)>>)
      [] s = 22 -> On(Follow, <<Reduce("object", 4)>>)
      [] s = 23 -> On({",", "}"}, <<Reduce("object_repeat1", 3)>>)
      [] s = 24 -> On({",", "}"}, <<Reduce("object_repeat1", 2)>>)
      [] s = 26 -> On({",", "}"}, <<Reduce("pair", 3)>>)
      [] s = 27 -> On(Keys, <<Shift(30)>>) @@ ValueRow
      [] s = 28 -> On(Follow, ByCount("object", <<2, 3, 4>>))
      [] s = 29 -> On(Follow, ByCount("array", <<2, 3, 4>>))
      [] s = 30 -> On(Follow, <<Reduce("_value", 1)>>) @@ (":" :> <<Shift(25)>>)
      [] s = 31 -> ("end" :> <<[type |-> "accept"]>>)
                     @@ ("," :> <<Reduce("array_repeat1", 2), Reduce("pair", 3), Reduce("array_repeat1", 3), Shift(8)>>)
                     @@ ("}" :> <<Reduce("pair", 3)>>)
                     @@ ("]" :> <<Reduce("array_repeat1", 2), Reduce("array_repeat1", 3), Shift(9)>>)
      [] s = 32 -> ("," :> ByCount("object_repeat1", <<2, 3>>) \o <<Shift(18)>>)
                     @@ ("}" :> ByCount("object_repeat1", <<2, 3>>) \o <<Shift(19)>>)
      [] s = 33 -> On({",", "]"}, ByCount("array_repeat1", <<2, 3>>))
      [] s = 34 -> On({",", "}"}, ByCount("object_repeat1", <<2, 3>>))]

(* parse_table for the other symbols; 0 where there is none.               *)
ValueGoto(to) == ("_value" :> to) @@ On({"object", "array"}, 4)

Gotos ==
  [s \in States |->
    CASE s = 0  -> ValueGoto(31) @@ ("pair" :> 32) @@ ("object_repeat1" :> 20) @@ ("array_repeat1" :> 10)
      [] s = 1  -> ValueGoto(5)
      [] s = 2  -> ("pair" :> 17)
      [] s = 3  -> ValueGoto(7)
      [] s \in {7, 31} -> ("array_repeat1" :> 10)
      [] s = 8  -> ValueGoto(14)
      [] s = 11 -> ValueGoto(13)
      [] s \in {17, 32} -> ("object_repeat1" :> 20)
      [] s = 18 -> ("pair" :> 24)
      [] s = 21 -> ("pair" :> 23)
      [] s = 25 -> ValueGoto(26)
      [] s = 27 -> ValueGoto(33) @@ ("pair" :> 34)
      [] OTHER  -> << >>]

Actions(state, token) ==
  IF token \in DOMAIN Table[state] THEN Table[state][token] ELSE << >>

Goto(state, symbol) ==
  IF symbol \in DOMAIN Gotos[state] THEN Gotos[state][symbol] ELSE 0

-----------------------------------------------------------------------------
(* The grammar (grammar.json): what a node of a symbol is made of.  A text *)
(* is a sentence if it is made of one value.                               *)
NodeForms ==
  ("_value" :> ({<<s>> : s \in Scalars} \cup {<<"object">>, <<"array">>}))
    @@ ("pair" :> {<<k, ":", "_value">> : k \in Keys})
    @@ ("object" :> {<<"{", "}">>, <<"{", "pair", "}">>, <<"{", "pair", "object_repeat1", "}">>})
    @@ ("array" :> {<<"[", "]">>, <<"[", "_value", "]">>, <<"[", "_value", "array_repeat1", "]">>})
    @@ ("object_repeat1" :> {<<",", "pair">>, <<"object_repeat1", ",", "pair">>})
    @@ ("array_repeat1" :> {<<",", "_value">>, <<"array_repeat1", ",", "_value">>})
=============================================================================
