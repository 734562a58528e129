-------------------------- MODULE MCLorieRenderer --------------------------
(* Small instances of LorieRenderer for TLC. *)
EXTENDS LorieRenderer

\* Nothing, the limits up to which pixels fit and GL takes them, and a size
\* whose square leaves the ints.
MCDims == {0, 1, 3, 6}

=============================================================================
