------------------------------ MODULE Document ------------------------------
(***************************************************************************)
(* document.c: the life of a TSDocument, what it owns and when its tree is *)
(* reused.  Heap objects (trees, string inputs, the payloads of external   *)
(* scanners) are numbered in the order they are made; a parse is one step, *)
(* and its tree is represented by the text and the language it describes.  *)
(*                                                                         *)
(* The client may call the operations in any order, change the text of its *)
(* own input, and tell the document of edits, true or not.                 *)
(***************************************************************************)
EXTENDS Integers, Sequences

CONSTANTS Languages,     \* the languages there are
          Supported,     \* those with TREE_SITTER_LANGUAGE_VERSION
          Scanners,      \* those with an external scanner
          NoLanguage,    \* parser.language == NULL
          Units,         \* the text's characters, one byte each
          MaxUnits,      \* bound: length of a text
          MaxMade        \* bound: heap objects made

ASSUME DocumentAssumption ==
  /\ Supported \subseteq Languages /\ Scanners \subseteq Languages
  /\ NoLanguage \notin Languages
  /\ Units \subseteq Nat
  /\ MaxUnits \in Nat /\ MaxMade \in Nat

VARIABLES exists,      \* ts_document_new was called, ts_document_free was not
          language,    \* parser.language
          scanner,     \* parser.external_scanner_payload: [id, language]
          input,       \* input: [kind, id, text]
          ownsInput,   \* owns_input
          valid,       \* valid
          tree,        \* tree: [id, text, language, changed, described]
          parseCount,  \* parse_count
          live,        \* heap objects not yet freed
          made,        \* heap objects made so far
          contents,    \* the text behind the client's own input
          expects,     \* the text the client has told the document of
          held         \* a node the client keeps: [id, count], of which tree,
                       \* and the parse count when it was asked for

vars == <<exists, language, scanner, input, ownsInput, valid, tree, parseCount,
          live, made, contents, expects, held>>

Texts == UNION {[1 .. n -> Units] : n \in 0 .. MaxUnits}

(* What a parse makes of a text it was told wrong things about, and what a *)
(* client has told of a text that may be any text.                         *)
Mixed == <<-1>>
Any   == <<-2>>

NoScanner == [id |-> 0, language |-> NoLanguage]
NoInput   == [kind |-> "none", id |-> 0, text |-> << >>]
ClientInput == [kind |-> "client", id |-> 0, text |-> << >>]
NoTree == [id |-> 0, text |-> << >>, language |-> NoLanguage, changed |-> FALSE,
           described |-> << >>]
NoNode == [id |-> 0, count |-> 0]

(* What the document would read now.                                       *)
TextNow == IF input.kind = "client" THEN contents ELSE input.text

(* The client has told the document of every change of its text.           *)
Told == expects \in {Any, TextNow}

-----------------------------------------------------------------------------
Blank ==
  /\ language = NoLanguage /\ scanner = NoScanner /\ input = NoInput
  /\ ownsInput = FALSE /\ valid = FALSE /\ tree = NoTree /\ parseCount = 0

Init == /\ exists = FALSE /\ Blank /\ live = {} /\ made = 0
        /\ contents \in Texts /\ expects = Any /\ held = NoNode

(* ts_document_new                                                         *)
New == /\ ~ exists /\ exists' = TRUE
       /\ Blank
       /\ UNCHANGED <<language, scanner, input, ownsInput, valid, tree, parseCount,
                      live, made, contents, expects, held>>

(* parser_set_language: the old scanner's payload is destroyed, the new    *)
(* one's is made.                                                          *)
ParserSetLanguage(l) ==
  /\ language' = l
  /\ IF l \in Scanners
       THEN made' = made + 1 /\ scanner' = [id |-> made + 1, language |-> l]
       ELSE UNCHANGED made   /\ scanner' = NoScanner

(* What ts_document_set_input frees: the input it owns.                    *)
OwnedInput == IF ownsInput THEN {input.id} ELSE {}

(* ts_document_free                                                        *)
Free ==
  /\ exists /\ exists' = FALSE
  /\ ParserSetLanguage(NoLanguage)
  /\ live' = live \ ({scanner.id, tree.id} \cup OwnedInput)
  /\ input' = NoInput /\ ownsInput' = FALSE
  /\ tree' = NoTree /\ valid' = FALSE /\ parseCount' = 0
  /\ held' = NoNode
  /\ expects' = Any
  /\ UNCHANGED contents

(* Mutant of SetLanguage: it also starts the count anew.                   *)
SetLanguageResetsCount(l) ==
  /\ exists /\ l \in Supported /\ made < MaxMade
  /\ valid' = FALSE
  /\ ParserSetLanguage(l)
  /\ tree' = NoTree /\ parseCount' = 0
  /\ live' = (live \ {scanner.id, tree.id}) \cup ({scanner'.id} \ {0})
  /\ expects' = Any
  /\ UNCHANGED <<exists, input, ownsInput, contents, held>>

(* ts_document_set_language: the tree is released, and the parse count     *)
(* stays.  A language of another version is ignored.                       *)
SetLanguage(l) ==
  /\ exists /\ l \in Supported /\ made < MaxMade
  /\ valid' = FALSE
  /\ ParserSetLanguage(l)
  /\ tree' = NoTree
  /\ live' = (live \ {scanner.id, tree.id}) \cup ({scanner'.id} \ {0})
  /\ expects' = Any
  /\ UNCHANGED <<exists, input, ownsInput, parseCount, contents, held>>

(* ts_document_set_input, with an input the client owns, or with none:     *)
(* neither the tree nor valid changes.                                     *)
SetInput(new) ==
  /\ exists /\ new \in {NoInput, ClientInput}
  /\ live' = live \ OwnedInput
  /\ input' = new /\ ownsInput' = FALSE
  /\ UNCHANGED <<exists, language, scanner, valid, tree, parseCount, made, contents, expects, held>>

(* Mutants of SetInputString: set_input's reset of owns_input is the last  *)
(* word; the tree stays valid.                                             *)
SetInputStringForgets(text) ==
  /\ exists /\ made < MaxMade
  /\ valid' = FALSE
  /\ made' = made + 1 /\ live' = (live \ OwnedInput) \cup {made'}
  /\ input' = [kind |-> "string", id |-> made', text |-> text]
  /\ ownsInput' = FALSE
  /\ expects' = Any
  /\ UNCHANGED <<exists, language, scanner, tree, parseCount, contents, held>>

SetInputStringKeepsValid(text) ==
  /\ exists /\ made < MaxMade
  /\ made' = made + 1 /\ live' = (live \ OwnedInput) \cup {made'}
  /\ input' = [kind |-> "string", id |-> made', text |-> text]
  /\ ownsInput' = TRUE
  /\ expects' = Any
  /\ UNCHANGED <<exists, language, scanner, valid, tree, parseCount, contents, held>>

(* ts_document_set_input_string(_with_length): the new string input is     *)
(* made before set_input frees the one that was owned.                     *)
SetInputString(text) ==
  /\ exists /\ made < MaxMade
  /\ valid' = FALSE
  /\ made' = made + 1 /\ live' = (live \ OwnedInput) \cup {made'}
  /\ input' = [kind |-> "string", id |-> made', text |-> text]
  /\ ownsInput' = TRUE
  /\ expects' = Any
  /\ UNCHANGED <<exists, language, scanner, tree, parseCount, contents, held>>

(* The bytes an edit removes: none behind the end of the tree.             *)
BytesRemoved(start, removed) ==
  LET max_bytes == Len(tree.described)
  IN  IF removed > max_bytes - start THEN max_bytes - start ELSE removed

(* The text an edited tree describes.                                      *)
Edited(text, start, removed, inserted) ==
  SubSeq(text, 1, start) \o inserted
    \o SubSeq(text, start + BytesRemoved(start, removed) + 1, Len(text))

(* Mutant of Edit: an edit that leaves the length as it was marks nothing. *)
EditMarksLengthOnly(start, removed, inserted) ==
  /\ exists /\ tree.id # 0 /\ start <= Len(tree.described)
  /\ LET new == Edited(tree.described, start, removed, inserted)
     IN  /\ new \in Texts
         /\ tree' = [tree EXCEPT !.described = new,
                                 !.changed = @ \/ Len(new) # Len(tree.described)]
  /\ expects' = IF expects \in {Any, Mixed} THEN expects
                 ELSE Edited(expects, start, removed, inserted)
  /\ UNCHANGED <<exists, language, scanner, input, ownsInput, valid, parseCount,
                 live, made, contents, held>>

(* ts_document_edit: without a tree, or behind its end, nothing happens.   *)
(* ts_tree_edit marks the root whatever the edit is.                       *)
Edit(start, removed, inserted) ==
  /\ exists /\ tree.id # 0 /\ start <= Len(tree.described)
  /\ LET new == Edited(tree.described, start, removed, inserted)
     IN  new \in Texts /\ tree' = [tree EXCEPT !.described = new, !.changed = TRUE]
  /\ expects' = IF expects \in {Any, Mixed} THEN expects
                 ELSE Edited(expects, start, removed, inserted)
  /\ UNCHANGED <<exists, language, scanner, input, ownsInput, valid, parseCount,
                 live, made, contents, held>>

(* ts_document_invalidate                                                  *)
Invalidate ==
  /\ exists /\ valid' = FALSE
  /\ expects' = Any
  /\ UNCHANGED <<exists, language, scanner, input, ownsInput, tree, parseCount,
                 live, made, contents, held>>

(* Mutant of Reusable: the flag is not looked at.                          *)
ReusableIfAny == IF tree.id # 0 THEN tree ELSE NoTree

(* The tree a parse may take parts of.                                     *)
Reusable == IF valid THEN tree ELSE NoTree

(* ts_document_parse returns before it reads anything, if the tree has no  *)
(* changes.                                                                *)
CanParse == exists /\ input.kind # "none" /\ language # NoLanguage
NothingToParse == Reusable.id # 0 /\ ~ Reusable.changed

(* parser_parse: a tree whose edits were not those of the text, or of      *)
(* another language, spoils what is made of it.                            *)
Parsed(old) ==
  LET sound == old.id # 0 => /\ old.described = TextNow /\ old.text # Mixed
                             /\ old.language = language
      text  == IF sound THEN TextNow ELSE Mixed
  IN  [id |-> made + 1, text |-> text, language |-> language, changed |-> FALSE,
       described |-> TextNow]

(* Mutant of Parse: the old tree is released only if it was reused.        *)
ParseReleasesReused ==
  /\ CanParse /\ ~ NothingToParse /\ made < MaxMade
  /\ tree' = Parsed(Reusable)
  /\ made' = made + 1 /\ live' = (live \ {Reusable.id}) \cup {made'}
  /\ parseCount' = parseCount + 1 /\ valid' = TRUE
  /\ expects' = IF Told THEN TextNow ELSE Mixed
  /\ UNCHANGED <<exists, language, scanner, input, ownsInput, contents, held>>

(* ts_document_parse_with_options; the old tree is released whether it was *)
(* reused or not.                                                          *)
Parse ==
  /\ CanParse /\ ~ NothingToParse /\ made < MaxMade
  /\ tree' = Parsed(Reusable)
  /\ made' = made + 1 /\ live' = (live \ {tree.id}) \cup {made'}
  /\ parseCount' = parseCount + 1 /\ valid' = TRUE
  /\ expects' = IF Told THEN TextNow ELSE Mixed
  /\ UNCHANGED <<exists, language, scanner, input, ownsInput, contents, held>>

-----------------------------------------------------------------------------
(* The client: it changes its text, and keeps a node.                      *)
ChangeText(text) ==
  /\ contents' = text
  /\ UNCHANGED <<exists, language, scanner, input, ownsInput, valid, tree,
                 parseCount, live, made, expects, held>>

(* ts_document_root_node and ts_document_parse_count                       *)
KeepNode ==
  /\ exists /\ tree.id # 0
  /\ held' = [id |-> tree.id, count |-> parseCount]
  /\ UNCHANGED <<exists, language, scanner, input, ownsInput, valid, tree,
                 parseCount, live, made, contents, expects>>

Next ==
  \/ New \/ Free \/ Invalidate \/ Parse \/ KeepNode
  \/ \E l \in Languages : SetLanguage(l)
  \/ \E new \in {NoInput, ClientInput} : SetInput(new)
  \/ \E text \in Texts : SetInputString(text) \/ ChangeText(text)
  \/ \E start, removed \in 0 .. MaxUnits + 1, inserted \in Texts :
       Edit(start, removed, inserted)

Spec == Init /\ [][Next]_vars

-----------------------------------------------------------------------------
(* What is allocated is what the document can still reach and will free:   *)
(* its tree, the input it owns, the payload of its language's scanner.     *)
(* Nothing is leaked, freed twice or used after it was freed, whatever the *)
(* order of the calls.                                                     *)
NothingLeaks ==
  /\ live = {scanner.id, tree.id, IF input.kind = "string" THEN input.id ELSE 0} \ {0}
  /\ ownsInput <=> input.kind = "string"
  /\ scanner.language = IF language \in Scanners THEN language ELSE NoLanguage

(* A client that told the document of every change of the text (or         *)
(* invalidated its tree) has, after a parse that is possible at all, the   *)
(* tree of its text in its language: no early return and no reuse gives    *)
(* it another one (document.c:129-135).                                    *)
ParseFindsTheText ==
  CanParse /\ Told =>
    LET result == IF NothingToParse THEN tree ELSE Parsed(Reusable)
    IN  result.text = TextNow /\ result.language = language

(* A node is good as long as the document has a tree and the parse count   *)
(* is what it was when the node was asked for.  (set_language releases the *)
(* tree and leaves the count alone: the count by itself does not tell.)    *)
NodeOfThisParse ==
  held.id # 0 /\ held.count = parseCount /\ tree.id # 0 => held.id \in live
=============================================================================
