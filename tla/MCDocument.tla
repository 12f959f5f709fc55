----------------------------- MODULE MCDocument -----------------------------
(* One language with an external scanner, one without, and one of another  *)
(* version.                                                                *)
EXTENDS Document
CONSTANTS plain, scanned, foreign
MCLanguages == {plain, scanned, foreign}
MCSupported == {plain, scanned}
MCScanners  == {scanned, foreign}
MCUnits     == 1 .. 2
=============================================================================
