------------------------------ MODULE MCParser ------------------------------
(* Every short text of an alphabet, and longer ones of some smaller        *)
(* alphabets, with the parse table of JSON; an ERROR is never beside       *)
(* another one, as parser__lex would skip both at once.                    *)
EXTENDS Parser

CONSTANTS Alphabet, ShortLength, SmallAlphabets, LongLength

Json == INSTANCE JsonGrammar

MCActions(state, token) == Json!Actions(state, token)
MCGoto(state, symbol) == Json!Goto(state, symbol)
MCTokens == Json!Tokens
MCNonterminals == Json!Nonterminals
MCHidden == Json!Hidden
MCStates == Json!States
MCProductions == Json!NodeForms

Rows(tokens, length) == UNION {[1 .. n -> tokens] : n \in 0 .. length}

MCTexts ==
  {t \in Rows(Alphabet, ShortLength) \cup UNION {Rows(tokens, LongLength) : tokens \in SmallAlphabets} :
     \A i \in 1 .. Len(t) - 1 : t[i] # ErrorSymbol \/ t[i + 1] # ErrorSymbol}
=============================================================================
