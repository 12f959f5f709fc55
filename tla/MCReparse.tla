----------------------------- MODULE MCReparse -----------------------------
(* Old trees of one or two leaves and the end of the text, in one or two   *)
(* levels of nodes, and up to two edits before a parse.  Leaves of two     *)
(* bytes and empty leaves come from the edits.                             *)
EXTENDS Reparse
=============================================================================
