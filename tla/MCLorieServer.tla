--------------------------- MODULE MCLorieServer ---------------------------
(* Small instances of LorieServer for TLC. *)
EXTENDS LorieServer, TLC

\* One usable size.
MCOneSize == {[width |-> 8, height |-> 4]}

\* Only the order of damage and buffer events matters, not the box.
MCBoxes == {"box"}

MCSymmetry == Permutations(Conns)

=============================================================================
