----------------------- MODULE MCTextStorageDelegate -----------------------
(* Texts of up to three characters over one one-unit and one two-unit      *)
(* character, and two edits.                                               *)
EXTENDS TextStorageDelegate

CONSTANTS x, high, low

MCUnit == {x, high, low}
MCCharacters == {<<x>>, <<high, low>>}
MCStrings == {}
=============================================================================
