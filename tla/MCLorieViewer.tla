--------------------------- MODULE MCLorieViewer ---------------------------
(* Small instances of LorieViewer for TLC; the constants are all in the cfg. *)
EXTENDS LorieViewer

=============================================================================
