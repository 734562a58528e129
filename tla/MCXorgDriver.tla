--------------------------- MODULE MCXorgDriver ----------------------------
(* Small instances of XorgDriver for TLC. *)
EXTENDS XorgDriver

\* The start size and a second one.
MCStart == [width |-> 8, height |-> 4]
MCSizes == {MCStart, [width |-> 16, height |-> 4]}

\* With MaxMode = 16: the start size, a larger one, one too large for a mode,
\* and one without a mode.
MCSizesAndModes ==
  {MCStart, [width |-> 16, height |-> 4], [width |-> 24, height |-> 4],
   [width |-> 0, height |-> 4]}

MCBoxes == SUBSET Cells

=============================================================================
