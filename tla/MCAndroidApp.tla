---------------------------- MODULE MCAndroidApp ---------------------------
(* Small instances of AndroidApp for TLC; the constants are all in the cfg. *)
EXTENDS AndroidApp

=============================================================================
