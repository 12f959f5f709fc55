--------------------------- MODULE DocumentProofs ---------------------------
(* A document leaks nothing, its nodes live as long as their parse, and a  *)
(* client that tells of its changes gets the tree of its text: for any     *)
(* languages, and texts and numbers of heap objects of any size.           *)
EXTENDS Document, TLAPS

(* Texts as trees and clients know them, with the two that are no text.    *)
Known == Texts \cup {Mixed, Any}

Trees == [id : Nat, text : Known, language : Languages \cup {NoLanguage},
          changed : BOOLEAN, described : Texts]

TypeOK ==
  /\ language \in Languages \cup {NoLanguage}
  /\ scanner \in [id : Nat, language : Languages \cup {NoLanguage}]
  /\ input \in [kind : {"none", "client", "string"}, id : Nat, text : Texts]
  /\ tree \in Trees
  /\ parseCount \in Nat /\ made \in Nat
  /\ contents \in Texts
  /\ held \in [id : Nat, count : Nat]

(* Heap objects have numbers up to made, each is one thing, and only a     *)
(* string input is one.                                                    *)
OneOwner ==
  /\ scanner.id <= made /\ tree.id <= made /\ input.id <= made
  /\ input.id = 0 <=> input.kind # "string"
  /\ scanner.id # 0 => scanner.id \notin {tree.id, input.id}
  /\ tree.id # 0 => tree.id # input.id

(* A node with the count of the last parse is in the tree of that parse.   *)
HeldInTree ==
  /\ held.count <= parseCount
  /\ held.id # 0 /\ held.count = parseCount /\ tree.id # 0 => held.id = tree.id

(* A tree that is valid describes, once edited, the text its client has    *)
(* told of, and was made from that text if it has no changes.              *)
DescribesWhatWasTold ==
  /\ expects \in Known
  /\ valid <=> expects # Any
  /\ valid /\ expects # Mixed =>
       /\ tree.described = expects /\ tree.language = language /\ tree.text # Mixed
       /\ ~ tree.changed => tree.text = expects

-----------------------------------------------------------------------------
(* Texts are neither Mixed nor Any, and the empty one is a text.           *)
LEMMA TextsAreTexts == /\ << >> \in Texts
                       /\ Mixed \notin Texts /\ Any \notin Texts /\ Mixed # Any
<1>1. << >> \in Texts
  <2>1. << >> \in [1 .. 0 -> Units]
    OBVIOUS
  <2>2. 0 \in 0 .. MaxUnits
    BY DocumentAssumption
  <2> QED
    BY <2>1, <2>2 DEF Texts
<1>2. \A t \in Texts : t # << >> => t[1] \in Nat
  <2> SUFFICES ASSUME NEW n \in 0 .. MaxUnits, NEW t \in [1 .. n -> Units], t # << >>
               PROVE  t[1] \in Nat
    BY DEF Texts
  <2>1. n # 0
    OBVIOUS
  <2>2. 1 \in 1 .. n
    BY <2>1, DocumentAssumption
  <2> QED
    BY <2>2, DocumentAssumption
<1> QED
  BY <1>1, <1>2 DEF Mixed, Any

(* What a document reads is a text.                                        *)
LEMMA TextNowIsText == TypeOK => TextNow \in Texts
BY DEF TypeOK, TextNow

(* A parse makes a tree.                                                   *)
LEMMA ParsedIsTree ==
  ASSUME TypeOK, NEW old \in Trees
  PROVE  Parsed(old) \in Trees
BY TextNowIsText DEF Parsed, Trees, TypeOK, Known

LEMMA NoTreeIsTree == NoTree \in Trees
BY TextsAreTexts DEF NoTree, Trees, Known

(* An edit is of a text into a text, as its guard asks.                    *)
LEMMA EditKeepsType ==
  ASSUME TypeOK, NEW start, NEW removed, NEW inserted, Edit(start, removed, inserted)
  PROVE  /\ tree' \in Trees /\ tree'.id = tree.id /\ tree'.language = tree.language
         /\ tree'.text = tree.text /\ tree'.changed
         /\ tree'.described = Edited(tree.described, start, removed, inserted)
         /\ tree'.described \in Texts
BY DEF TypeOK, Trees, Edit

-----------------------------------------------------------------------------
(* Every operation keeps the types.                                        *)
THEOREM TypeCorrect == Spec => []TypeOK
<1>1. Init => TypeOK
  BY TextsAreTexts, NoTreeIsTree
  DEF Init, Blank, TypeOK, NoScanner, NoInput, NoNode, Known
<1>2. TypeOK /\ [Next]_vars => TypeOK'
  <2> SUFFICES ASSUME TypeOK, [Next]_vars PROVE TypeOK'
    OBVIOUS
  <2>1. CASE New
    BY <2>1 DEF New, TypeOK
  <2>2. CASE Free
    BY <2>2, NoTreeIsTree, TextsAreTexts
    DEF Free, ParserSetLanguage, TypeOK, NoScanner, NoInput, NoNode, Known
  <2>3. CASE Invalidate
    BY <2>3 DEF Invalidate, TypeOK, Known
  <2>4. CASE Parse
    <3>1. Reusable \in Trees
      BY NoTreeIsTree DEF Reusable, TypeOK
    <3>2. tree' \in Trees /\ made' \in Nat /\ parseCount' \in Nat
      BY <2>4, <3>1, ParsedIsTree DEF Parse, TypeOK
    <3> QED
      BY <2>4, <3>2 DEF Parse, TypeOK
  <2>5. CASE KeepNode
    BY <2>5 DEF KeepNode, TypeOK, Trees
  <2>6. ASSUME NEW l \in Languages, SetLanguage(l) PROVE TypeOK'
    BY <2>6, NoTreeIsTree
    DEF SetLanguage, ParserSetLanguage, TypeOK, NoScanner, Known
  <2>7. ASSUME NEW new \in {NoInput, ClientInput}, SetInput(new) PROVE TypeOK'
    <3>1. new \in [kind : {"none", "client", "string"}, id : Nat, text : Texts]
      BY TextsAreTexts DEF NoInput, ClientInput
    <3> QED
      BY <2>7, <3>1 DEF SetInput, TypeOK
  <2>8. ASSUME NEW text \in Texts, SetInputString(text) PROVE TypeOK'
    BY <2>8 DEF SetInputString, TypeOK, Known
  <2>9. ASSUME NEW text \in Texts, ChangeText(text) PROVE TypeOK'
    BY <2>9 DEF ChangeText, TypeOK
  <2>10. ASSUME NEW start, NEW removed, NEW inserted, Edit(start, removed, inserted) PROVE TypeOK'
    <3>1. tree' \in Trees
      BY <2>10, EditKeepsType
    <3> QED
      BY <2>10, <3>1 DEF Edit, TypeOK
  <2>11. CASE UNCHANGED vars
    BY <2>11 DEF vars, TypeOK
  <2> QED
    BY <2>1, <2>2, <2>3, <2>4, <2>5, <2>6, <2>7, <2>8, <2>9, <2>10, <2>11 DEF Next
<1> QED
  BY <1>1, <1>2, PTL DEF Spec

-----------------------------------------------------------------------------
(* NothingLeaks, strengthened.                                             *)
Ownership == NothingLeaks /\ OneOwner

(* Nothing is leaked, freed twice or used after it was freed.              *)
THEOREM NoLeaks == Spec => []NothingLeaks
<1>1. Init => Ownership
  BY DEF Init, Blank, Ownership, NothingLeaks, OneOwner, NoScanner, NoInput, NoTree
<1>2. TypeOK /\ Ownership /\ [Next]_vars => Ownership'
  <2> SUFFICES ASSUME TypeOK, Ownership, [Next]_vars PROVE Ownership'
    OBVIOUS
  <2> USE DEF Ownership, NothingLeaks, OneOwner, TypeOK, Trees, OwnedInput
  <2>1. CASE New
    BY <2>1 DEF New
  <2>2. CASE Free
    BY <2>2, DocumentAssumption DEF Free, ParserSetLanguage, NoScanner, NoInput, NoTree
  <2>3. CASE Invalidate
    BY <2>3 DEF Invalidate
  <2>4. CASE Parse
    BY <2>4 DEF Parse, Parsed
  <2>5. CASE KeepNode
    BY <2>5 DEF KeepNode
  <2>6. ASSUME NEW l \in Languages, SetLanguage(l) PROVE Ownership'
    BY <2>6, DocumentAssumption DEF SetLanguage, ParserSetLanguage, NoScanner, NoTree
  <2>7. ASSUME NEW new \in {NoInput, ClientInput}, SetInput(new) PROVE Ownership'
    BY <2>7 DEF SetInput, NoInput, ClientInput
  <2>8. ASSUME NEW text \in Texts, SetInputString(text) PROVE Ownership'
    BY <2>8 DEF SetInputString
  <2>9. ASSUME NEW text \in Texts, ChangeText(text) PROVE Ownership'
    BY <2>9 DEF ChangeText
  <2>10. ASSUME NEW start, NEW removed, NEW inserted, Edit(start, removed, inserted) PROVE Ownership'
    <3>1. tree'.id = tree.id
      BY <2>10, EditKeepsType
    <3> QED
      BY <2>10, <3>1 DEF Edit
  <2>11. CASE UNCHANGED vars
    BY <2>11 DEF vars
  <2> QED
    BY <2>1, <2>2, <2>3, <2>4, <2>5, <2>6, <2>7, <2>8, <2>9, <2>10, <2>11 DEF Next
<1>3. Ownership => NothingLeaks
  BY DEF Ownership
<1> QED
  BY <1>1, <1>2, <1>3, TypeCorrect, PTL DEF Spec

-----------------------------------------------------------------------------
(* A node lives as long as the tree of its parse.                          *)
THEOREM NodesLive == Spec => []NodeOfThisParse
<1>1. Init => HeldInTree
  BY DEF Init, Blank, HeldInTree, NoNode, NoTree
<1>2. TypeOK /\ HeldInTree /\ [Next]_vars => HeldInTree'
  <2> SUFFICES ASSUME TypeOK, HeldInTree, [Next]_vars PROVE HeldInTree'
    OBVIOUS
  <2> USE DEF HeldInTree, TypeOK, Trees
  <2>1. CASE New
    BY <2>1 DEF New
  <2>2. CASE Free
    BY <2>2 DEF Free, NoNode
  <2>3. CASE Invalidate
    BY <2>3 DEF Invalidate
  <2>4. CASE Parse
    BY <2>4 DEF Parse
  <2>5. CASE KeepNode
    BY <2>5 DEF KeepNode
  <2>6. ASSUME NEW l \in Languages, SetLanguage(l) PROVE HeldInTree'
    BY <2>6 DEF SetLanguage, NoTree
  <2>7. ASSUME NEW new \in {NoInput, ClientInput}, SetInput(new) PROVE HeldInTree'
    BY <2>7 DEF SetInput
  <2>8. ASSUME NEW text \in Texts, SetInputString(text) PROVE HeldInTree'
    BY <2>8 DEF SetInputString
  <2>9. ASSUME NEW text \in Texts, ChangeText(text) PROVE HeldInTree'
    BY <2>9 DEF ChangeText
  <2>10. ASSUME NEW start, NEW removed, NEW inserted, Edit(start, removed, inserted) PROVE HeldInTree'
    <3>1. tree'.id = tree.id
      BY <2>10, EditKeepsType
    <3> QED
      BY <2>10, <3>1 DEF Edit
  <2>11. CASE UNCHANGED vars
    BY <2>11 DEF vars
  <2> QED
    BY <2>1, <2>2, <2>3, <2>4, <2>5, <2>6, <2>7, <2>8, <2>9, <2>10, <2>11 DEF Next
<1>3. HeldInTree /\ NothingLeaks => NodeOfThisParse
  BY DEF HeldInTree, NothingLeaks, NodeOfThisParse
<1> QED
  BY <1>1, <1>2, <1>3, TypeCorrect, NoLeaks, PTL DEF Spec

-----------------------------------------------------------------------------
(* What a parse makes of a tree, if the client has told of its changes.    *)
LEMMA ToldParseIsSound ==
  ASSUME TypeOK, DescribesWhatWasTold, Told
  PROVE  /\ Parsed(Reusable).text = TextNow
         /\ NothingToParse => tree.text = TextNow /\ tree.language = language
<1>1. TextNow \in Texts
  BY TextNowIsText
<1>2. CASE expects = Any
  <2>1. ~ valid
    BY <1>2 DEF DescribesWhatWasTold
  <2>2. Reusable = NoTree
    BY <2>1 DEF Reusable
  <2> QED
    BY <2>2 DEF Parsed, NoTree, NothingToParse
<1>3. CASE expects = TextNow
  <2>1. expects # Any /\ expects # Mixed
    BY <1>1, <1>3, TextsAreTexts
  <2>2. valid
    BY <2>1 DEF DescribesWhatWasTold
  <2>3. Reusable = tree
    BY <2>2 DEF Reusable
  <2>4. /\ tree.described = TextNow /\ tree.language = language /\ tree.text # Mixed
        /\ ~ tree.changed => tree.text = TextNow
    BY <1>3, <2>1, <2>2 DEF DescribesWhatWasTold
  <2> QED
    BY <2>3, <2>4 DEF Parsed, NothingToParse
<1> QED
  BY <1>2, <1>3 DEF Told

(* No early return and no reuse gives a client another text's tree, or one *)
(* in another language.                                                    *)
THEOREM ParsesFindTheText == Spec => []ParseFindsTheText
<1>1. Init => DescribesWhatWasTold
  BY DEF Init, Blank, DescribesWhatWasTold, Known
<1>2. TypeOK /\ DescribesWhatWasTold /\ [Next]_vars => DescribesWhatWasTold'
  <2> SUFFICES ASSUME TypeOK, DescribesWhatWasTold, [Next]_vars PROVE DescribesWhatWasTold'
    OBVIOUS
  <2>1. CASE New
    BY <2>1 DEF New, DescribesWhatWasTold
  <2>2. CASE Free
    BY <2>2 DEF Free, DescribesWhatWasTold, Known
  <2>3. CASE Invalidate
    BY <2>3 DEF Invalidate, DescribesWhatWasTold, Known
  <2>4. CASE Parse
    <3>1. TextNow \in Texts /\ TextNow # Any /\ TextNow # Mixed
      BY TextNowIsText, TextsAreTexts
    <3>2. /\ valid' /\ expects' = (IF Told THEN TextNow ELSE Mixed)
          /\ tree' = Parsed(Reusable) /\ language' = language
      BY <2>4 DEF Parse
    <3>3. tree'.described = TextNow /\ tree'.language = language
      BY <3>2 DEF Parsed
    <3>4. CASE Told
      BY <3>1, <3>2, <3>3, <3>4, ToldParseIsSound DEF DescribesWhatWasTold, Known
    <3>5. CASE ~ Told
      BY <3>1, <3>2, <3>5, TextsAreTexts DEF DescribesWhatWasTold, Known
    <3> QED
      BY <3>4, <3>5
  <2>5. CASE KeepNode
    BY <2>5 DEF KeepNode, DescribesWhatWasTold
  <2>6. ASSUME NEW l \in Languages, SetLanguage(l) PROVE DescribesWhatWasTold'
    BY <2>6 DEF SetLanguage, DescribesWhatWasTold, Known
  <2>7. ASSUME NEW new \in {NoInput, ClientInput}, SetInput(new) PROVE DescribesWhatWasTold'
    BY <2>7 DEF SetInput, DescribesWhatWasTold
  <2>8. ASSUME NEW text \in Texts, SetInputString(text) PROVE DescribesWhatWasTold'
    BY <2>8 DEF SetInputString, DescribesWhatWasTold, Known
  <2>9. ASSUME NEW text \in Texts, ChangeText(text) PROVE DescribesWhatWasTold'
    BY <2>9 DEF ChangeText, DescribesWhatWasTold
  <2>10. ASSUME NEW start, NEW removed, NEW inserted, Edit(start, removed, inserted)
         PROVE  DescribesWhatWasTold'
    <3>1. /\ tree'.language = tree.language /\ tree'.text = tree.text /\ tree'.changed
          /\ tree'.described = Edited(tree.described, start, removed, inserted)
          /\ tree'.described \in Texts
      BY <2>10, EditKeepsType
    <3>2. /\ valid' = valid /\ language' = language
          /\ expects' = IF expects \in {Any, Mixed} THEN expects
                         ELSE Edited(expects, start, removed, inserted)
      BY <2>10 DEF Edit
    <3>3. CASE expects \in {Any, Mixed}
      BY <3>1, <3>2, <3>3 DEF DescribesWhatWasTold
    <3>4. CASE expects \notin {Any, Mixed}
      <4>1. valid /\ tree.described = expects /\ tree.language = language /\ tree.text # Mixed
        BY <3>4 DEF DescribesWhatWasTold
      <4>2. expects' = tree'.described
        BY <3>1, <3>2, <3>4, <4>1
      <4> QED
        BY <3>1, <3>2, <4>1, <4>2, TextsAreTexts DEF DescribesWhatWasTold, Known
    <3> QED
      BY <3>3, <3>4
  <2>11. CASE UNCHANGED vars
    BY <2>11 DEF vars, DescribesWhatWasTold
  <2> QED
    BY <2>1, <2>2, <2>3, <2>4, <2>5, <2>6, <2>7, <2>8, <2>9, <2>10, <2>11 DEF Next
<1>3. TypeOK /\ DescribesWhatWasTold => ParseFindsTheText
  BY ToldParseIsSound DEF ParseFindsTheText, Parsed
<1> QED
  BY <1>1, <1>2, <1>3, TypeCorrect, PTL DEF Spec
=============================================================================
