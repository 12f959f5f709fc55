---------------------------- MODULE TextStorage ----------------------------
(***************************************************************************)
(* TextStorage.swift: an NSTextStorage whose attributes are computed from  *)
(* the syntax tree of its Document and cached by location.  Colours are    *)
(* not modelled: an answer is represented by what it was computed from,    *)
(* and is right as long as that is what it would be computed from now.     *)
(*                                                                         *)
(* replaceCharacters is split where it lets other code run: the delegate's *)
(* willProcessEditing in the middle, and edited(...), from which AppKit    *)
(* notifies the delegate and the layout managers, at the end.  Between     *)
(* those points it runs without interruption, on the main thread.          *)
(***************************************************************************)
EXTENDS Integers, Sequences

CONSTANTS MaxLength,     \* bound: UTF-16 units of the text
          MaxEdits,      \* bound: calls of replaceCharacters
          None,          \* no cached answer
          AskPoints,     \* where clients ask for attributes, and where they
          ParsePoints    \* parse the document: a subset of Points

Points == {"idle", "will", "notified"}

ASSUME TextStorageAssumption ==
  /\ MaxLength \in Nat /\ MaxEdits \in Nat
  /\ AskPoints \subseteq Points /\ ParsePoints \subseteq Points

VARIABLES length,     \* UTF-16 units of document.input.data: the length of string
          known,      \* _length
          cache,      \* location -> what the cached answer was computed from
          tree,       \* the document's tree: [version, edited]
          edit,       \* units removed and added by the replaceCharacters that runs
          edits,      \* edits made to the data so far
          pc,         \* where it stands
          trapped     \* a Swift precondition failed: the process has stopped

vars == <<length, known, cache, tree, edit, edits, pc, trapped>>

(* What an answer depends on, besides the location: the tree, and the two  *)
(* lengths its guards compare a node's range with.                         *)
Origin == [tree |-> tree.version, length |-> length, known |-> known, edits |-> edits]

EmptyCache(n) == [location \in 0 .. n - 1 |-> None]

NoEdit == [removed |-> 0, units |-> 0]

-----------------------------------------------------------------------------
(* The cache is made one entry per byte of the data, order mark included.  *)
Init ==
  /\ length \in 0 .. MaxLength
  /\ known = length
  /\ cache = EmptyCache(2 * length + 2)
  /\ tree = [version |-> 0, edited |-> FALSE]
  /\ edit = NoEdit /\ edits = 0 /\ pc = "idle" /\ trapped = FALSE

(* attributes(at:effectiveRange:).  A node's answer is always cached, the  *)
(* default colour only if the caller wants the effective range.  Indexing  *)
(* the cache behind its end traps.                                         *)
Attributes(location, nodeFound, rangeWanted) ==
  /\ ~ trapped /\ pc \in AskPoints /\ location < length
  /\ IF location \notin DOMAIN cache
       THEN trapped' = TRUE /\ UNCHANGED cache
       ELSE /\ cache' = IF cache[location] = None /\ (nodeFound \/ rangeWanted)
                          THEN [cache EXCEPT ![location] = Origin] ELSE cache
            /\ UNCHANGED trapped
  /\ UNCHANGED <<length, known, tree, edit, edits, pc>>

(* NSRange.uint32range counts one more than the range is long.             *)
Uint32RangeCount(len) == len + 1

(* Mutant of Purge: the cache is cut or grown to the new length, not made  *)
(* anew.                                                                   *)
PurgeKeepsAnswers(location, len, chars, units) ==
  LET delta == chars - Uint32RangeCount(len)
  IN  /\ ~ trapped /\ pc = "idle" /\ edits < MaxEdits
      /\ location + len <= length /\ length - len + units <= MaxLength
      /\ IF delta < 0
           THEN trapped' = TRUE /\ UNCHANGED <<known, cache, edit, pc>>
           ELSE /\ known' = known + delta
                /\ cache' = [i \in 0 .. known' - 1 |-> IF i \in DOMAIN cache THEN cache[i] ELSE None]
                /\ edit' = [removed |-> len, units |-> units]
                /\ pc' = "will"
                /\ UNCHANGED trapped
      /\ UNCHANGED <<length, tree, edits>>
(* replaceCharacters up to the delegate's willProcessEditing: the new      *)
(* length and the purge of the cache.  UInt32(delta) traps below zero.     *)
Purge(location, len, chars, units) ==
  LET delta == chars - Uint32RangeCount(len)
  IN  /\ ~ trapped /\ pc = "idle" /\ edits < MaxEdits
      /\ location + len <= length /\ length - len + units <= MaxLength
      /\ IF delta < 0
           THEN trapped' = TRUE /\ UNCHANGED <<known, cache, edit, pc>>
           ELSE /\ known' = known + delta
                /\ cache' = EmptyCache(known')
                /\ edit' = [removed |-> len, units |-> units]
                /\ pc' = "will"
                /\ UNCHANGED trapped
      /\ UNCHANGED <<length, tree, edits>>

(* makeInputEdit, the change of the data, and the call of edited.          *)
Apply ==
  /\ ~ trapped /\ pc = "will"
  /\ tree' = [version |-> tree.version + 1, edited |-> TRUE]
  /\ length' = length - edit.removed + edit.units
  /\ edits' = edits + 1
  /\ pc' = "notified"
  /\ UNCHANGED <<known, cache, edit, trapped>>

Return ==
  /\ ~ trapped /\ pc = "notified"
  /\ pc' = "idle"
  /\ edit' = NoEdit
  /\ UNCHANGED <<length, known, cache, tree, edits, trapped>>

(* Document.parse by a client: a tree that no edit has touched is kept.    *)
Parse ==
  /\ ~ trapped /\ pc \in ParsePoints /\ tree.edited
  /\ tree' = [version |-> tree.version + 1, edited |-> FALSE]
  /\ UNCHANGED <<length, known, cache, edit, edits, pc, trapped>>

(* A character is one or two UTF-16 units.                                 *)
Next ==
  \/ \E location \in 0 .. MaxLength, nodeFound, rangeWanted \in BOOLEAN :
       Attributes(location, nodeFound, rangeWanted)
  \/ \E location, len, chars, units \in 0 .. MaxLength :
       chars <= units /\ units <= 2 * chars /\ Purge(location, len, chars, units)
  \/ Apply
  \/ Return
  \/ Parse

Spec == Init /\ [][Next]_vars

-----------------------------------------------------------------------------
(* Until the document is parsed again after an edit, every cached answer   *)
(* is the one the tree and the text would give now; a parse changes the    *)
(* tree without a purge.                                                   *)
FreshAnswers ==
  tree.edited =>
    \A location \in DOMAIN cache :
      cache[location] # None => cache[location] = Origin

(* "Cache is purged on each text edit." (README.md): when replaceCharacters*)
(* has returned, no answer from before the edit is left.                   *)
PurgedByEdits ==
  pc = "idle" =>
    \A location \in DOMAIN cache :
      cache[location] # None => cache[location].edits = edits
=============================================================================
