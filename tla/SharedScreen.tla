---------------------------- MODULE SharedScreen ----------------------------
(***************************************************************************)
(* What the whole program promises: a screen in one process is shown by    *)
(* another.  The buffers that the screen has been drawn into are numbered  *)
(* in order.  LorieSession, the X server and a viewer with the sockets     *)
(* between them, implements this specification.                            *)
(***************************************************************************)
EXTENDS Integers

VARIABLES
  newest,        \* the newest buffer there has been, 0 before the first
  screen,        \* the buffer that is drawn into, or 0 for none
  shown,         \* the buffer whose pixels the viewer showed last, or 0
  watching       \* is a viewer there to whom the screen is shown?

vars == <<newest, screen, shown, watching>>

Init ==
  /\ newest = 0
  /\ screen = 0
  /\ shown = 0
  /\ watching = FALSE

\* The screen moves to a new buffer.
Replace ==
  /\ newest' = newest + 1
  /\ screen' = newest'
  /\ UNCHANGED shown

\* There is no screen any more: the server stopped, or had no memory.
Drop ==
  /\ screen' = 0
  /\ UNCHANGED <<newest, shown>>

\* The viewer goes on to a newer buffer, and never back.
Show ==
  /\ shown' \in (shown + 1) .. newest
  /\ UNCHANGED <<newest, screen>>

\* Viewers and servers come and go, also in the middle of the steps above.
Next ==
  /\ Replace \/ Drop \/ Show \/ UNCHANGED <<newest, screen, shown>>
  /\ watching' \in BOOLEAN

\* As long as it stays, a viewer ends up with the screen.
CatchesUp ==
  (watching /\ screen # 0) ~> (shown = screen \/ ~ watching \/ screen = 0)

Spec == Init /\ [][Next]_vars /\ CatchesUp

=============================================================================
