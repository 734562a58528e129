--------------------------- MODULE MCLorieSession --------------------------
(* Small instances of LorieSession for TLC. *)
EXTENDS LorieSession, TLC

\* The start size, and one without pixels: the screen goes away and comes back.
MCStart == [width |-> 16, height |-> 4]
MCSizes == {MCStart, [width |-> 0, height |-> 4]}

MCBoxes == SUBSET Cells

=============================================================================
