----------------------------- MODULE MCTreeEdit -----------------------------
(* Trees of up to three leaves of up to three bytes, in one or two levels  *)
(* of nodes, and every edit of their text.  Word only has to be larger     *)
(* than every length.                                                      *)
EXTENDS TreeEdit
=============================================================================
