------------------------- MODULE TextStorageProofs -------------------------
(* The cache of TextStorage never holds an answer from before an edit, for *)
(* texts and numbers of edits of any size.  What the callers must keep to  *)
(* is a hypothesis of each theorem.                                        *)
EXTENDS TextStorage, TLAPS

(* Both theorems rest on the same fact: when replaceCharacters is about to *)
(* change the tree and the text, the cache is empty.                       *)
EmptyBeforeTheChange ==
  pc = "will" => \A location \in DOMAIN cache : cache[location] = None

(* Answers made since the last edit; the strengthening of PurgedByEdits,   *)
(* at every point of replaceCharacters.                                    *)
MadeSinceTheEdit ==
  \A location \in DOMAIN cache :
    cache[location] # None => cache[location].edits = edits

-----------------------------------------------------------------------------
(* Asking for attributes adds an answer made now, or none.                 *)
LEMMA AttributesAddsOrigin ==
  ASSUME NEW location, NEW nodeFound, NEW rangeWanted,
         Attributes(location, nodeFound, rangeWanted)
  PROVE  /\ DOMAIN cache' = DOMAIN cache
         /\ \A i \in DOMAIN cache : cache'[i] = cache[i] \/ cache'[i] = Origin
         /\ Origin' = Origin
BY DEF Attributes, Origin

(* The cache replaceCharacters makes is empty.                             *)
LEMMA PurgeEmpties ==
  ASSUME NEW location, NEW len, NEW chars, NEW units, Purge(location, len, chars, units)
  PROVE  \/ \A i \in DOMAIN cache' : cache'[i] = None
         \/ cache' = cache /\ pc' = pc /\ Origin' = Origin /\ edits' = edits /\ pc = "idle"
<1>1. CASE chars - Uint32RangeCount(len) < 0
  BY <1>1 DEF Purge, Origin
<1>2. CASE ~ (chars - Uint32RangeCount(len) < 0)
  <2>1. cache' = EmptyCache(known')
    BY <1>2 DEF Purge
  <2> QED BY <2>1 DEF EmptyCache
<1> QED BY <1>1, <1>2

LEMMA EmptyCacheIsEmpty ==
  ASSUME NEW n PROVE \A i \in DOMAIN EmptyCache(n) : EmptyCache(n)[i] = None
BY DEF EmptyCache

-----------------------------------------------------------------------------
(* Nobody is answered between the purge and the change, so the cache is    *)
(* still empty when the change is made.                                    *)
THEOREM NothingIsCachedHalfway ==
  ASSUME "will" \notin AskPoints
  PROVE  Spec => []EmptyBeforeTheChange
<1>1. Init => EmptyBeforeTheChange
  BY DEF Init, EmptyBeforeTheChange
<1>2. EmptyBeforeTheChange /\ [Next]_vars => EmptyBeforeTheChange'
  <2> SUFFICES ASSUME EmptyBeforeTheChange, [Next]_vars PROVE EmptyBeforeTheChange'
    OBVIOUS
  <2>1. ASSUME NEW location, NEW nodeFound, NEW rangeWanted,
               Attributes(location, nodeFound, rangeWanted)
        PROVE  EmptyBeforeTheChange'
    BY <2>1 DEF Attributes, EmptyBeforeTheChange
  <2>2. ASSUME NEW location, NEW len, NEW chars, NEW units, Purge(location, len, chars, units)
        PROVE  EmptyBeforeTheChange'
    BY <2>2, PurgeEmpties DEF EmptyBeforeTheChange
  <2>3. CASE Apply
    BY <2>3 DEF Apply, EmptyBeforeTheChange
  <2>4. CASE Return
    BY <2>4 DEF Return, EmptyBeforeTheChange
  <2>5. CASE Parse
    BY <2>5 DEF Parse, EmptyBeforeTheChange
  <2>6. CASE UNCHANGED vars
    BY <2>6 DEF vars, EmptyBeforeTheChange
  <2> QED BY <2>1, <2>2, <2>3, <2>4, <2>5, <2>6 DEF Next
<1> QED BY <1>1, <1>2, PTL DEF Spec

(* "Cache is purged on each text edit": after replaceCharacters no answer  *)
(* from before it is left, however often clients parse the document.       *)
THEOREM EditsPurge ==
  ASSUME "will" \notin AskPoints
  PROVE  Spec => []PurgedByEdits
<1>1. Init => MadeSinceTheEdit
  BY EmptyCacheIsEmpty DEF Init, MadeSinceTheEdit
<1>2. MadeSinceTheEdit /\ EmptyBeforeTheChange /\ [Next]_vars => MadeSinceTheEdit'
  <2> SUFFICES ASSUME MadeSinceTheEdit, EmptyBeforeTheChange, [Next]_vars
               PROVE  MadeSinceTheEdit'
    OBVIOUS
  <2>1. ASSUME NEW location, NEW nodeFound, NEW rangeWanted,
               Attributes(location, nodeFound, rangeWanted)
        PROVE  MadeSinceTheEdit'
    <3>1. edits' = edits /\ Origin.edits = edits
      BY <2>1 DEF Attributes, Origin
    <3> QED BY <2>1, <3>1, AttributesAddsOrigin DEF MadeSinceTheEdit
  <2>2. ASSUME NEW location, NEW len, NEW chars, NEW units, Purge(location, len, chars, units)
        PROVE  MadeSinceTheEdit'
    BY <2>2, PurgeEmpties DEF MadeSinceTheEdit
  <2>3. CASE Apply
    BY <2>3 DEF Apply, MadeSinceTheEdit, EmptyBeforeTheChange
  <2>4. CASE Return
    BY <2>4 DEF Return, MadeSinceTheEdit
  <2>5. CASE Parse
    BY <2>5 DEF Parse, MadeSinceTheEdit
  <2>6. CASE UNCHANGED vars
    BY <2>6 DEF vars, MadeSinceTheEdit
  <2> QED BY <2>1, <2>2, <2>3, <2>4, <2>5, <2>6 DEF Next
<1>3. MadeSinceTheEdit => PurgedByEdits
  BY DEF MadeSinceTheEdit, PurgedByEdits
<1> QED BY <1>1, <1>2, <1>3, NothingIsCachedHalfway, PTL DEF Spec

(* After an edit, and until somebody parses the document, every answer the *)
(* storage gives from its cache is the one the tree and the text would     *)
(* give now.                                                               *)
THEOREM AnswersAreFresh ==
  ASSUME "will" \notin AskPoints
  PROVE  Spec => []FreshAnswers
<1>1. Init => FreshAnswers
  BY EmptyCacheIsEmpty DEF Init, FreshAnswers
<1>2. FreshAnswers /\ EmptyBeforeTheChange /\ [Next]_vars => FreshAnswers'
  <2> SUFFICES ASSUME FreshAnswers, EmptyBeforeTheChange, [Next]_vars
               PROVE  FreshAnswers'
    OBVIOUS
  <2>1. ASSUME NEW location, NEW nodeFound, NEW rangeWanted,
               Attributes(location, nodeFound, rangeWanted)
        PROVE  FreshAnswers'
    <3>1. UNCHANGED tree
      BY <2>1 DEF Attributes
    <3> QED BY <2>1, <3>1, AttributesAddsOrigin DEF FreshAnswers
  <2>2. ASSUME NEW location, NEW len, NEW chars, NEW units, Purge(location, len, chars, units)
        PROVE  FreshAnswers'
    <3>1. UNCHANGED tree
      BY <2>2 DEF Purge
    <3> QED BY <2>2, <3>1, PurgeEmpties DEF FreshAnswers
  <2>3. CASE Apply
    BY <2>3 DEF Apply, FreshAnswers, EmptyBeforeTheChange
  <2>4. CASE Return
    <3>1. Origin' = Origin
      BY <2>4 DEF Return, Origin
    <3> QED BY <2>4, <3>1 DEF Return, FreshAnswers
  <2>5. CASE Parse
    BY <2>5 DEF Parse, FreshAnswers
  <2>6. CASE UNCHANGED vars
    <3>1. Origin' = Origin
      BY <2>6 DEF vars, Origin
    <3> QED BY <2>6, <3>1 DEF vars, FreshAnswers
  <2> QED BY <2>1, <2>2, <2>3, <2>4, <2>5, <2>6 DEF Next
<1> QED BY <1>1, <1>2, NothingIsCachedHalfway, PTL DEF Spec
=============================================================================
