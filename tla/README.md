# TreeSitterTextStorage: specification and proofs

TreeSitterTextStorage is a Swift framework that colours source code while it is
edited. It keeps the text of a document as UTF-16 bytes, lets the tree-sitter
runtime (C, checked out under `Carthage/Checkouts/tree-sitter`) parse those bytes
incrementally, and answers `NSTextStorage` attribute queries from the syntax tree.
This directory holds the TLA+ specification of that pipeline, the TLC runs that
check it on small instances, and the TLAPS proofs of the results that hold for
every instance.

Everything runs on one thread. What makes the code hard is not parallelism but
order: edits, parses and queries arrive in any order and from inside callbacks;
the same text is held as characters, UTF-16 units and bytes; and almost every
part keeps something (a chunk, a mark, a length, a cached answer) that was
computed from a text that may have changed since.

## 1. Inventory: parts, state, operations, interactions

| Part | State | Operations | Talks to |
|---|---|---|---|
| Text data (`Extensions.swift`) | the bytes of `Input.data` | `replaceCharactersInRange` | written by text storage and delegate, read by the input |
| Input (`Input.swift`) | `data`, `position` | `read`, `seek` callbacks | called by the lexer, through the payload pointer |
| Lexer (`lexer.c`) | chunk, chunk start and size, position, lookahead | set_input, reset, start, advance, mark_end | called by the parser and the generated lex functions |
| Document (`document.c`, `Document.swift`) | tree, input, valid flag, parse count, input ownership | new, free, set_language, set_input, set_input_string, edit, parse, invalidate | owns parser and tree |
| Syntax tree (`tree.c`) | sizes, paddings, change marks, reference counts | make, set_children, edit, invalidate_lookahead, retain, release | shared by document, stack, parser |
| Node queries (`node.c`, `Node.swift`) | none | child, parent, sibling, descendant, symbols | reads the tree |
| Changed ranges (`tree_path.h`) | two tree paths, the range array | descend, advance, ascend, get_changes | called by document parse |
| Parse stack (`stack.c`) | graph of nodes and links, heads, slices, node pool | push, pop, merge, split, renumber, halt, clear | called by the parser |
| Parser (`parser.c`, `reusable_node.h`, `error_costs.c`) | versions, reusable node, finished tree, operation limit | lex, reuse, shift, reduce, recover, condense, accept | drives lexer and stack |
| Text storage (`TextStorage.swift`) | document, `_length`, attribute cache | string, attributes(at:), replaceCharacters | document, `NSTextStorage` clients |
| Text storage delegate (`TextStorageHelper.swift`) | document | didProcessEditing, parse(textStorage:) | called by a stock `NSTextStorage` |
| Generated parsers (`json.c`, ...) | none | lex functions, parse tables, external scanners | driven by lexer and parser |
| Language and symbols (`Language.swift`, `Symbol.swift`, ...) | none | symbol lookup, token type | tables |
| Demo (`Demo/*.swift`) | sample, delegate, text view | sample didSet | creates documents and delegates |

What is hard about each part, and what makes it correct:

- **Text data.** The edit shifts the tail of the bytes by a positive, zero or
  negative distance and overwrites the range afterwards. Correct: the result is the
  encoding of the spliced text, with no unit torn and no filler byte left.
- **Input and lexer.** The lexer caches a chunk and leaves out the seek when it
  thinks the input is already there. Correct: the position lies in the chunk, the
  input stands where the chunk ends, and the lookahead is the text's character.
- **Lexing of a token.** A failed lex is retried in error mode, then characters are
  skipped one by one. Correct: it ends, and the leaf's lengths are not negative.
- **Tree editing.** Lengths and marks must follow the text, over padding, over
  several children, and for the bytes a leaf only looked at. Correct: the tree spans
  the text, and a leaf without a mark still stands before the bytes it was made from.
- **Incremental parsing.** The parser walks the edited old tree and the new stack in
  step. Correct: what it takes over is what a parse from nothing would find, the new
  tree has no old marks, and the parse ends.
- **Document.** Ownership of input strings and the tree, and the `valid` flag that
  decides if a parse reuses the tree. Correct: nothing is freed twice or kept, and a
  parse after `invalidate` reuses nothing.
- **Parse stack and parser.** A graph shared by versions, reference counted, with caps
  on links, versions and the node pool. Correct: counts equal references, popping
  gives every path, and dropped versions are the worse ones.
- **Changed ranges, node queries.** Walks over one tree or two in parallel. Correct: every
  byte whose nodes differ is in a range; every query agrees with the plain definition.
- **Text storage.** The cache is purged before the edit, and refilled by whoever asks.
  Correct: no answer outlives the edit after which it is wrong.
- **Delegate.** The view's string and the document's bytes are two copies of the text.
  Correct: they agree, and the parser is told what was done to the bytes.

## 2. Modules

| Module | Models | Status |
|---|---|---|
| `TextBuffer` | the abstract text: a sequence of units that edits splice | abstract specification |
| `TextData` | the bytes and `replaceCharactersInRange` | checked, proved; implements `TextBuffer` |
| `Lexer` | `lexer.c`, `Input.swift`, `parser__start`, `parser__lex`; edits between parses | checked, proved |
| `Relexing` | which leaves an incremental parse lexes and which it reuses, with one stack version; extends `Lexer` | run `lexer_stale` |
| `TreeEdit` | `ts_document_edit`, `ts_tree_edit`, `ts_tree_invalidate_lookahead` | checked, proved |
| `Reparse` | `parser__get_lookahead`, `reusable_node.h`, break-down; extends `TreeEdit` | checked, proved |
| `StackGraph` | `stack.c` as operators: the graph of nodes, push, `stack__iter`, pops, merge, reference counts | used by the next two |
| `ParseStack` | a parser that calls the stack's operations in any order | checked, proved |
| `StackWays` | the ways down from a node and the stacks it stands for: what pops and merges are defined to be | reference definitions |
| `JsonGrammar` | the parse table of `json.c` and the grammar it was made from | used by `MCParser` |
| `Parser` | `parser.c` without an old tree, whole: actions, recovery, repair, condensing; on top of `StackGraph` | checked |
| `Document` | `document.c`: life, ownership, validity | checked, proved |
| `SyntaxTree` | trees as `node.c` and `tree_path.h` read them, and how they come about | used by the next two |
| `NodeQueries` | `node.c`, `Node.swift` | checked |
| `ChangedRanges` | `tree_path.h` | checked |
| `TextStorage` | the attribute cache and `replaceCharacters` | checked, proved |
| `TextStorageDelegate` | the delegate and the Demo's wiring; on top of `TextData` | checked, proved |
| `TextDataProofs`, `LexerProofs`, `DocumentProofs`, `TextStorageProofs`, `TextStorageDelegateProofs` | theorems | proved |
| `ParseStackProofs` | lemmas about the operators of `StackGraph`, and the theorems about `ParseStack` | proved |
| `TreeProofs` | lemmas about trees, and the theorems about `TreeEdit` and `Reparse` | proved |
| `Induction` | induction over the natural numbers and the existence of iterations | proved |
| `MC...` | the instances TLC checks; `MCTreeWalks` composes the three tree modules with `TreeEdit` | |

`PROJECT.json` names for every definition the lines it models. Definitions carry the
source's names where they can (`GetChunk` is `ts_lexer__get_chunk`, `EditSelf` and
`EditKids` are the two halves of `ts_tree_edit`). Operators introduced as *mutants*
are not part of the model: each is a plausible slip in the definition below it, and
shows that a property notices it.

**TextData.** A byte is a pair of a unit and 0 or 1, enough to see a torn unit. The
two steps of the Swift code, shift and overwrite, are two operators, with Foundation's
`Data` operations as in the library. `RefinesTextBuffer` is the refinement mapping
`text <- Decode(data)`.

**Lexer.** State is the `Lexer` struct and the `Input` object, and the loop of
`parser__lex` is split wherever the generated lex function decides: it may advance,
mark the end, accept or fail in any way (`LexFn...` actions). `Data.withUnsafeBytes` lets
the pointer escape, so after an edit a chunk may show the old bytes or the new ones;
the model leaves that open (`InPlace`). Surrogate pairs and broken halves are decoded
as in `utf16.c`. A parse is over when it has the end token: lexed in this parse (`ended`), or reused from the
tree that edits left it (`old`). Which leaves of an edited tree there are to reuse is open in this module, so that its
properties hold for every grammar and every sequence of jumps.

**Relexing.** Closes what `Lexer` leaves open, to see what the chunks of one parse are to the next.
A leaf has its place and the bytes it was lexed from; those that an edit does not mark (`Unmarked`, a closed form of what
`TreeEdit` has node by node) move with the text. A parse reuses the leaf at the top of its stack or lexes one, and ends with the
end's leaf. Texts have no white space in them, no token but the end's is empty, and there is one stack version.

**TreeEdit.** A tree is a function from paths to nodes, the path of a child being its parent's with the
child's number behind it; where a node starts (`Begins`) and what `ts_tree_edit` calls for on it (`Calls`)
are recursive functions on the paths. What the C code does on the way down, a call per child with an edit
or a byte's offset seen from the child, is `CallFor`; `Called` is what the call does to the node itself.
Lengths are bytes. The text is a sequence of marks: byte *i* of the last
parse is *i*, inserted bytes are 0. A leaf remembers where it was lexed, so "would be
lexed the same" is an equality of two windows of marks.

**Reparse.** The reusable node is the path of child indices instead of a pointer, and
its `byte_index` is kept by the code's arithmetic. The version runs until the end's leaf, the only one
without a size, is on the stack (`Finished`). The grammar may refuse any node
(`parser__can_reuse`) or break it down as far as it likes. Reductions are left out: what
was shifted becomes the root's children. New leaves are any leaf of the given shapes.

**StackGraph, ParseStack.** The graph is a function from pool places to nodes; a freed place is
used again. `stack__iter` is kept as it is, an array of iterators that grows and shrinks while
it is counted over, because its order decides which slice comes first; what a callback answers
is `Verdict`, and the two callbacks of `parser.c` come in through the constant `Callback`.
The loops and the two recursive functions are repeated steps (`Repeat`): `stack_node_release` and
`stack_node_add_link` call themselves once per link of a node, and are steps on the list of the links
that are still to be released or added, the innermost call's first. A release gives back one counted
reference per step, so their sum (`References`) is steps enough; a walk takes no more rounds than there
are nodes. The calls of a merge have the bound `MaxCalls`.
In `ParseStack` any operation may be called at any time with the states 0 (error) and 1.

**Parser.** A text is a row of tokens, one byte each, an `ERROR` among them standing for a run
of characters that begins no token. Every function of `parser.c` from `parser__reduce` to
`parser__halt_parse` is an operator on a record of stack, finished tree and a flag for a failed
assertion; the three actions are the steps of `parser_parse`: `Advance` (one call of
`parser__advance`), `NextVersion` (the inner loop's step), `Condense` (the end of a round).
With the table of JSON the model was compared with the C code: the trees of the two agree, node by
node, on 42,000 texts of up to six tokens. JSON's recovery states 27 to 34 give it several actions
per entry, so that versions fork, merge and are dropped though the grammar is unambiguous.

**Document.** Trees, string inputs and scanner payloads are heap objects with numbers; a tree
is represented by the text and the language it was made from, and by the text that the edits
since then have turned it into. The client changes its text, tells the document of it or does not,
and keeps a node. `ParserSetLanguage` is `parser_set_language`, with the payload's end and creation.

**SyntaxTree, ChangedRanges, NodeQueries.** Trees carry paddings, sizes, offsets from the
parent and change marks. `tree_path_get_changes` is one action per round of its loop
(`Round`), with both paths, the visible nodes and the range array. The old tree of a walk
is a tree that `TreeEdit` edited by replacing one byte, or one that was not edited; the new tree is any
that agrees with the old one where reuse makes it agree.

**TextStorage.** An answer is represented by what it was computed from (tree version,
lengths, edits). `replaceCharacters` is split at the two points where it runs other
people's code: `willProcessEditing` and `edited(...)`. `AskPoints` and `ParsePoints` say
from where clients call.

**TextStorageDelegate.** The view's string is a sequence of characters of one or two
units; the document's bytes are `TextData`. Of the parser there is only what it is told of an edit.

## 3. Runs

| Run | Instance | Shows |
|---|---|---|
| `text_data` | 2 units, strings up to 2, texts up to 6 | every edit is the splice asked for |
| `lexer` | texts up to 2 units over a letter, a surrogate pair, NUL | chunk, input and lookahead stay in step; leaves fit; error recovery ends |
| `document` | texts of up to 1 of 2 units, 5 heap objects, three languages | nothing leaks; a parse has the tree of its text; a node lives as long as its parse |
| `tree_edit` | 3 leaves, padding 0–1, size 0–2, lookahead 1–2, one edit | marks reach the root; unmarked leaves intact |
| `reparse` | 2 leaves and the end of the text, up to 2 edits, then a parse | the incremental parse takes over only what is intact, and ends |
| `parse_stack` | up to 6 nodes, 3 versions, 3 bytes, one discontinuity | counts exact, every way down agrees, pops and merges lose nothing |
| `parser` | all texts of up to 4 of 8 kinds of token, and of 5 of two smaller sets of 5 kinds | nothing lost, no assertion fails, errors only where there are some, the best versions stay, the parse ends |
| `tree_walks` | two trees of 3 bytes, one level of inner nodes, visible root | every changed byte is reported, in order; the walk ends; queries agree with their definitions |
| `text_storage` | up to 5 units, 3 edits | answers in the cache are fresh until the next parse |
| `delegate` | 3 characters of one or two units, 2 edits | the parser hears what was done to the data, if no character has two units |
| `lexer_stale`, `tree_walks_hidden_root` | the same or smaller | disagreements of code and text, section 6 |

*Why the bounds are enough.* The byte edit treats the bytes before, in and behind the
range alike, so 6 units hold every relation of the three (and the proof covers the
rest). The lexer's chunk is the whole rest of the text, so two units already give
jumps before, into and behind it, and a surrogate pair cut by each. In `document` a text is
only equal to another or not, and five objects are a scanner, a string input, a tree, and two that
replace some of them. `ts_tree_edit`
distinguishes the first touched child, later touched children and the rest; three
leaves, with at most one node between them and the root, have one of each, and sizes 0 to 2 with one byte added hold every
order of an edit's and a leaf's ends. In `reparse` a second edit turns leaves of one byte
into empty and two-byte leaves; up to four positions with shifted, marked and intact
neighbours occur. In `parse_stack` one tree may be as long as three others, so versions
meet with different numbers of trees above the same node; six nodes are what it takes to pop
one of them down to an error and another past it, and five to merge nodes below two merged
tops. Extra trees are pushed outside the error state only, where a pop counts past them (a pop
never looks below an error state, so an extra tree above one is never counted past). States that differ only in the numbering of the nodes are one (`VIEW UpToNumbering`).
Texts of four tokens of all kinds, and of five of the tokens of an array or of an object, reach
in `parser`: five versions at once, nodes with several links, two discontinuities, halted
versions, repairs that skip tokens, versions dropped while condensing, and ends by `halt_on_error`.
Three bytes hold a node between two others in `tree_walks`, with and without padding, and
every way in which two trees group them. The caps `MaxLinks` and `MaxIterators` are not exceeded.
`MaxCalls` is not met either (the proofs do not need it to be out of reach). `MaxNodes`, `MaxVersions`,
`MaxPosition`, `MaxErrors`, `MaxPop`, `MaxEdits`, `MaxAdded`, `MaxParses`, `MaxLeaves`, `MaxReductions`, `MaxUnits`, `MaxLen`, `MaxLength`,
`MaxCharacters`, `MaxMade`, `ShortLength`, `LongLength`, `Bytes` and `Depth` are these bounds. `Word` (2^32 in C) is larger than
every length, as edits that would make a text longer are not made: an unsigned difference below zero is then beyond every offset.

*Deadlock.* `text_data`, `document`, `lexer` and `parse_stack`, which can always go on, check it. The
others stop at a bound on edits, or when the parse or the walk they are about is over.

*Fairness.* Three properties need it. `LexTerminates` assumes that the generated lex function
returns, and that the C code runs: both are loops that nothing suspends. What it does not
assume is that the lex function accepts a token, or the end. `ParseTerminates` assumes that `parser_parse` keeps
running (weak fairness of its next step, whichever it is), and not that anything can be
reused. `Terminates` assumes the same of a parse from nothing; as one of the three actions of `Parser` is
always enabled until it is done, its weak fairness is written out without `ENABLED`. The walk of
`tree_walks` ends without any: `WalkEnds` bounds its steps. Nothing is assumed of clients: they need
not edit, ask or parse.

*Where properties have limits.* `ReusedLeavesIntact` is about leaves that a parse did not make empty, and
holds for any number of edits if no leaf looks more than one byte ahead, or for any lookahead after one edit;
with three leaves, a lookahead of two and two edits TLC finds it violated. `IntactAfterOneEdit` in `tree_edit`
is about leaves that are not empty now. Section 5 says what goes wrong beyond. `FreshAnswers`
ends at the next parse: `Document.parse` does not purge the cache, and is not said to; and it
is about clients that do not ask in `willProcessEditing`, as is `PurgedByEdits` in the passing run. `TellsEditsAsMade` is about the delegate's
edit and texts without two-unit characters; it says nothing of the edit that `TextStorage` makes. `NoCrashIfVisible` is about visible
roots, `ChangesReportedIfVisible` and `RangesInOrder` about visible roots and tokens (`AllVisible`).
`NodesFollowTheGrammar` counts neighbours of a kind once if some state shifts that token to itself.

## 4. Proofs

All theorems hold for every value of the constants, from the named assumptions of the
modules only: `TextDataAssumption` (the order mark and the filler are no units, strings are
sequences of units), `LexerAssumption` (NUL is a unit and no surrogate, high and low surrogates are
disjoint units), `DocumentAssumption` (supported languages and those with scanners are languages, units and bounds
are natural numbers), `TextStorageAssumption` (bounds are natural numbers), `TextStorageDelegateAssumption` (characters
are sequences of units and not empty), `ParseStackAssumption` (trees that are pushed have bytes
and a cost, equal tokens the same cost, and states lead to states), `TreeEditAssumption` (paddings and sizes are
natural numbers, a leaf looks at least at one byte behind it) and `ReparseAssumption` (no leaf but the end's is made empty).

- **`Induction`.** The provers cannot instantiate the library's induction theorems, whose
  hypothesis is about an operator. `Induct` is induction for a *set* that holds 0 and is closed
  under successors; it follows from the well-foundedness of the natural numbers. `Iteration` is what recursive
  functions need: for a start and a step function for each number, the sequence of iterates exists. So what a
  `CHOOSE`-defined function computes (the library's `FlattenSeq`, `Repeat`, `References`) can be proved.
- **`TextDataProofs`.** `ReplaceIsSplice`: for every text, range and replacement, the byte edit of
  `Encode(s)` is `Encode` of the spliced `s`. It rests on lemmas about lengths and elements of
  the shifted tail, in the cases of growing and shrinking data. `WellFormed` follows
  (`AlwaysWellFormed`), and `ImplementsTextBuffer` gives the refinement: initial states map to
  initial states, every `Replace` to a `Replace` of the buffer.
- **`LexerProofs`.** Neither "the position lies in the chunk" nor "the lookahead is the
  text's" is inductive: `ts_lexer__start` refetches only when the lookahead is empty, and
  `ts_lexer_reset` does nothing at an unchanged position. The invariant is `Sound /\ Ordered`.
  `Sound` ties chunk, input position, lookahead and the token's marks together in each
  phase, including between parses, where only a chunk that starts at byte 0 may be stale.
  `Ordered` keeps token start, token end and position in the order from which the leaf's
  lengths are subtracted. From it: `StaysInChunk`, `InputStaysInStep`, `SeesTheText`,
  `StaleChunksStartAtZero`, `LeavesFit`.
- **`DocumentProofs`.** `NothingLeaks` is inductive with `OneOwner`: heap objects have different numbers, none
  above the last one made, and only a string input has one. From this `NoLeaks`. `NodesLive` rests on
  `HeldInTree`: a node kept with the document's parse count is in the document's tree, if there is one, as only a
  parse makes a tree, and it counts up. `ParsesFindTheText` rests on `DescribesWhatWasTold`: `valid` says that the client
  has told of a text since the last invalidation, and a valid tree describes, once edited, that text, in
  the document's language, and was made from it if it has no changes.
- **`TextStorageProofs`.** If clients do not ask in `willProcessEditing`, the cache is empty between
  the purge and the change (`EmptyBeforeTheChange`), and whatever is cached later was made
  since the edit (`MadeSinceTheEdit`). From both: `EditsPurge` and `AnswersAreFresh`. The hypothesis
  is needed, see section 5.
- **`TextStorageDelegateProofs`.** Whatever the delegate does to the data, it stays the encoding of some text
  (`DocumentHolds`), though not of the view's. So what an edit does to it is known from `ReplaceIsSplice`, and
  `EditsAreToldAsMade` compares the old and the new bytes: what stands before the edit, what behind, and the difference in length. That
  characters of one unit each have as many units as they are is an induction over the flattened text.
- **`ParseStackProofs`.** Every operation of `StackGraph` keeps the graph *sound* (`Sound`). `GraphOK`: a link leads to a node whose
  position, errors and cost are the node's own less the link's tree. `Exact`: a count is the number of heads and
  links that lead to the node, and of those that are given up but not yet released, which is why it holds in the middle of
  a release, too. `Aims`: all of these lead to nodes that are there. A release ends with nothing left to give up, since every step lowers
  the sum of the counts by one (`References`). A link that a merge adds fits where it is put because the nodes it goes
  between agree (`JobOK`): the tops are compared (`MergeableTops`), and one step further down the same tree
  lies above both nodes, or an equal token of the same cost. Error costs would not agree below if the states
  did not: `stack_node_add_link` compares those. That a pushed tree has bytes is an assumption: the code also pushes
  the end's leaf, which `parser__accept` pops again at once, and may push empty external tokens, which are not modelled.
  Of `ParseStack`, the invariant is `StackOK` (sound, nothing left to release) with
  `SlicesNameTheirNodes`. A walk keeps more while it goes (`WalkOK`): its iterators stand on nodes in use, and
  its slices are ordered by version, each new version at the end. That order is why dropping the
  first slice's version (`ts_stack_pop_count`) shifts all the others by exactly one; that an error slice, if it is
  dropped, is the first and not the only one follows from counting the slices against the session's flags.
  `Inductive` is the conjunction; `CountsExact`, `WaysAgree` and `SlicesNamed` are the properties of the run, here for any
  number of links, iterators, versions, nodes and trees, and any states, for the pops of the stack itself.
- **`TreeProofs`.** The inductive invariant of `TreeEdit` (`TreeInv`) has three parts. `SizesAgree`: the tree is
  well-formed, every node spans its children and the root the text. `AsParsed`: before the first edit the tree is
  one that a parse left, its leaves stand where they were lexed, and every node depends on what its
  children depend on. `Marks`: no marks below an unmarked node. For an edit, the loop over the children is put
  into closed form (`KidsLoop`): each child lies left of the edit, is the one touched first, is cut, or lies right of it,
  and the place reached in the new text follows from the place in the old. Going down the tree, each node is in one of these cases
  (`EditedPlaces`: `Touched`, `Cut`, `After`, `Empty`, `Before`), and in the last the node was asked about the byte or ends before it
  (`Asked`). Hence `TreeSpansText`, `MarksReach`, and `IntactAfterEdit`: what is neither touched nor marked has its old bytes in its window.
  For `Reparse`, an edited tree is `Reusable`: its unmarked nodes still cover their children's bytes and have a size, but for
  the end's leaf; its unmarked leaves would be lexed the same. A first edit keeps this since the tree was clean, a second one only
  if no leaf looks further than a byte (`Trusted`): a mark on a node that the first edit touched does not
  help a neighbour whose lookahead reaches past the node's stale `bytes_scanned`. In a parse the root is marked, the reusable node is where its `byte_index` says
  (`CursorAt`; `OnwardAll` follows it from each node to the next), and what is on the stack is a row of
  good trees that ends at the position (`Stacked`), with the end's leaf on top when the version is halted (`Shut`). Breaking up the top
  of the stack keeps this (`TopStacked`), and so does taking over any unmarked node (`Reused`); the tree made from a
  `Shut` stack is one that a parse leaves (`ClosedWhole`, `RenumberedWhole`). The theorems are `ReparseSpansText`, `ReusableNodeInStep`,
  `NoMarkSurvives`, and, under the hypothesis `Trusted`, `ReusedAsLexed`.

The type invariants of `TextData`, `Lexer` and `Document` are proved (`TypeCorrect`) and not part of the runs.

Only model-checked: liveness (`LexTerminates`, `ParseTerminates`, `Terminates`), which the prover does not
reach; `PopsEveryWay` and `MergeKeepsStacks`, which compare with recursive definitions (`StackWays`) and are true below the caps
on links and iterators only; `Parser`, `SyntaxTree`, `NodeQueries` and `ChangedRanges`, whose trees are walked
by `RECURSIVE` operators, for which the prover has no backend.

## 5. Not modelled

- Rows, columns and characters of a `Length`; UTF-8; logging; external scanners and their
  tokens. They accompany the byte arithmetic and decide nothing that is modelled.
- The effective range of attributes: the cached range is assigned from a range of another
  type than the cache declares, so the source does not say what is cached.
- What `TextStorage` tells the tree: its `TSInputEdit` has the start in bytes and the
  removed and added amounts in characters. `TextStorage` models that the tree is edited, not its
  lengths.
- Colour themes, symbol names and the walks over a fresh tree that colour an attributed string or, from the delegate
  (`parse(textStorage:)`), a view; the Demo's views.
- Parses that end early (`halt_on_error`) in `Lexer` and `Relexing`: no caller in Swift asks for one.
- The parser generator, and generated code but for the table of JSON. The generated parsers, which occur up to
  three times in the repository, and `utf8proc` make up nearly all of its 445,000 lines: what is
  modelled is most of the hand-written runtime and Swift code and still a small share of all lines.

Worth knowing when reading on:

- *Edits.* `ts_tree_edit` gives an insertion to the first child it touches
  and only then asks the next one's neighbours to be marked, from an offset that wraps around
  (`tree.c:438`): a single edit misses an empty leaf that had scanned the replaced byte. `bytes_scanned`
  is not adjusted by an edit, so that a second edit misses a leaf with two bytes of lookahead. After an edit
  behind an emptied first child the padding of a node and of that child differ, which the tests'
  `assert_consistent` (`tree_test.cc:10`) would reject.
- *Stack.* `ts_stack_pop_pending` renumbers only its first slice (`stack.c:471`): with several slices
  the others name versions that moved or are gone, and `SlicesNameTheirNodes` leaves them out.
- *Parser.* `parser__reductions_after_sequence` (`parser.c:623`) does not count a tree that leaves the
  state as it is: for `[[1,` a repair makes one array with two `[`. The versions made while an error is
  handled are merged inside an `assert` (`parser.c:1016`): compiled with `NDEBUG` the loop does not
  end. In `parser__condense_stack` the inner loop goes on with the status of a version that was
  removed (`parser.c:187`); on the texts of the run this changes nothing.
- *Document.* `set_language` leaves the parse count alone. `set_input` leaves the tree valid, so that without an edit
  or `ts_document_invalidate` a parse after it returns the old tree; after a halted parse, too, a parse
  returns the halted tree. Setting the input of a document to the string input it owns itself frees the
  payload and keeps using it.
- *Changed ranges.* An unmarked old tree of the same size as the new one is taken for equal and
  reports nothing; hidden tokens with text of their own may be left out of the ranges.
- *Text storage.* An answer that is asked for in `willProcessEditing`, between the purge of the cache
  and the change, survives the edit. The change in length given to `edited` is one too small
  (`uint32range` counts one more than there is), and negative ones trap in `UInt32(delta)`.
- *Delegate.* `didProcessEditing` replaces the range after the edit in the data from before it, by the
  whole new string: the first deletion makes data and string differ, and an insertion at the end traps.
  `README.md:8` says "Text edits mutates the utf-16 data as appropiate."; no run is needed to see that it does not.
  `TellsEditsAsMade` holds whether the data is the string's or not.

## 6. Disagreements of code and documentation found

| Run | The text says | The code does |
|---|---|---|
| `lexer_stale` | the READMEs: tree-sitter operates on the UTF-16 text, and keeps the tree up to date | a chunk that starts at byte 0 survives `ts_lexer__reset`: after two edits and three parses the old text is lexed (seen with the C code, too: JSON `[1,1]`, `[21,1]`, `[-21,1]`) |
| `tree_walks_hidden_root` | a test: every edit of a JSON text is parsed with `ts_document_parse_and_get_changed_ranges` | with a hidden root the walk reads a node that is not there: `[1]` with `]` replaced by `]` stops the process (seen with the C code, too) |

## 7. Plan

In this order:

1. `SyntaxTree` with functions on paths in place of `RECURSIVE` operators, as `TreeEdit` has them, to prove
   `RangesInOrder` and `WalkEnds` of `ChangedRanges` from.
2. `Reparse` with the table of a grammar and the reductions of `Parser`, against a parse from nothing: what
   `parser__can_reuse`, fragile nodes and `breakdown_top_of_stack` are for.
3. `TextStorage` and `TextStorageDelegate` on one document, with `TreeEdit` for its lengths.
4. Reference counts of trees (`tree.c`), external tokens, `bytes_scanned` over the
   two attempts of `parser__lex`, the caps on links and iterators.

Where a later module's run shows a property again on richer behaviour, the smaller run gives way to it.
