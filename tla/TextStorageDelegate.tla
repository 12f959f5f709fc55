------------------------ MODULE TextStorageDelegate ------------------------
(***************************************************************************)
(* TextStorageHelper.swift, as the Demo puts it to use: a UITextView whose *)
(* text storage has a TextStorageDelegate, which carries every edit of the *)
(* view's text over to a Document and parses it.  The text now exists      *)
(* twice: as the view's string and as the data of the document's Input     *)
(* (module TextData).  How the view is coloured from the tree is left out. *)
(*                                                                         *)
(* The view and AppKit's text storage are not in the repository: an edit   *)
(* replaces whole characters, and the delegate is told the range that the  *)
(* new characters have after the edit.                                     *)
(***************************************************************************)
EXTENDS Integers, Sequences, SequencesExt

CONSTANTS Unit, BOM, NUL, Strings, MaxUnits,   \* see TextData
          Characters,     \* characters: sequences of one or two units
          MaxCharacters,  \* bound: characters of the view's text
          MaxEdits        \* bound: edits by the user

ASSUME TextStorageDelegateAssumption ==
  /\ BOM \notin Unit /\ NUL \notin Unit
  /\ Strings \subseteq Seq(Unit) /\ MaxUnits \in Nat
  /\ \A c \in Characters : c \in Seq(Unit) /\ Len(c) \in {1, 2}
  /\ MaxCharacters \in Nat /\ MaxEdits \in Nat

VARIABLES string,     \* the characters the view shows
          data,       \* document.input.data
          told,       \* the last TSInputEdit: [start, removed, added], in bytes
          edits,      \* edits so far
          trapped     \* a Swift precondition failed: the process has stopped

vars == <<string, data, told, edits, trapped>>

InputData == INSTANCE TextData

-----------------------------------------------------------------------------
Units(s) == FlattenSeq(s)

Texts(n) == UNION {[1 .. k -> Characters] : k \in 0 .. n}

(* DetailViewController.sample: the document and the view get the same     *)
(* text before the delegate is attached.                                   *)
Init ==
  /\ string \in Texts(MaxCharacters)
  /\ data = InputData!Encode(Units(string))
  /\ told = [start |-> 0, removed |-> 0, added |-> 0]
  /\ edits = 0 /\ trapped = FALSE

(* Mutant of InputEdit: what was added counted in characters, not bytes.   *)
InputEditInCharacters(loc, len, delta, s) ==
  [start |-> 2 * loc, removed |-> 2 * len, added |-> Len(s)]

(* The edit the parser is told of: two bytes for every unit of the range,  *)
(* and for every character of the string.                                  *)
InputEdit(loc, len, delta, s) ==
  [start |-> 2 * loc, removed |-> 2 * len, added |-> 2 * Len(s)]

(* didProcessEditing, for an edit that left the view with the string s.    *)
DidProcessEditing(s, loc, len, delta) ==
  IF ~ InputData!InBounds(data, loc, len)
    THEN /\ trapped' = TRUE
         /\ UNCHANGED <<data, told>>
    ELSE /\ data' = InputData!ReplaceCharactersInRange(data, loc, len, Units(s))
         /\ told' = InputEdit(loc, len, delta, s)
         /\ UNCHANGED trapped

(* The user replaces the characters behind "from" up to "to", or inserts   *)
(* there if there are none.                                                *)
Edit(from, to, new) ==
  LET loc == Len(Units(SubSeq(string, 1, from)))
      old == Len(Units(SubSeq(string, from + 1, to)))
      len == Len(Units(new))
  IN  /\ ~ trapped /\ edits < MaxEdits
      /\ from <= to /\ to <= Len(string)
      /\ from < to \/ new # << >>
      /\ Len(string) - (to - from) + Len(new) <= MaxCharacters
      /\ string' = SubSeq(string, 1, from) \o new \o SubSeq(string, to + 1, Len(string))
      /\ edits' = edits + 1
      /\ DidProcessEditing(string', loc, len, len - old)

Next ==
  \E from, to \in 0 .. MaxCharacters, new \in Texts(1) : Edit(from, to, new)

Spec == Init /\ [][Next]_vars

-----------------------------------------------------------------------------
(* What the parser is told of an edit is what happened to its bytes: the   *)
(* data keeps its bytes before and behind the edit and changes its length  *)
(* by the difference, so the unchanged parts of the tree stay on the text  *)
(* they were parsed from.  For texts without two-unit characters: they     *)
(* count as one in bytes_added.                                            *)
Body(d) == SubSeq(d, InputData!Padding + 1, Len(d))

TellsEditsAsMade ==
  [][(~ trapped' /\ \A i \in DOMAIN string' : Len(string'[i]) = 1) =>
        LET before == Body(data)
            after  == Body(data')
        IN  /\ Len(after) = Len(before) - told'.removed + told'.added
            /\ SubSeq(after, 1, told'.start) = SubSeq(before, 1, told'.start)
            /\ SubSeq(after, told'.start + told'.added + 1, Len(after))
                 = SubSeq(before, told'.start + told'.removed + 1, Len(before))]_vars
=============================================================================
