--------------------------- MODULE MCTextStorage ---------------------------
(* Texts of up to five units and three edits.  Clients ask and parse        *)
(* between edits and when notified, not in willProcessEditing.              *)
EXTENDS TextStorage

MCQuiet == {"idle", "notified"}
=============================================================================
