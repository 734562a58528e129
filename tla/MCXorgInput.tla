---------------------------- MODULE MCXorgInput ----------------------------
(* Small instances of XorgInput for TLC; the constants are all in the cfg. *)
EXTENDS XorgInput

=============================================================================
