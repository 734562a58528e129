---------------------------- MODULE ReceivedBuffer ----------------------------
(***************************************************************************)
(* What a renderer makes of the descriptors that come with the buffers:    *)
(* one is held, with r->surface pointing at its buffer, and those before   *)
(* it are closed, but for a few that are lost.  LorieViewer, in which a    *)
(* buffer is a number, and LorieRenderer, which computes its size and its  *)
(* place in the descriptor table, both implement this specification.       *)
(***************************************************************************)
CONSTANTS
  Descriptors,
  Unusables,     \* are buffers without a size received?
  Refuses,       \* may a buffer with a size not be mapped?
  Loses          \* may its descriptor be forgotten then?

VARIABLES
  held,          \* the descriptor of the renderer's buffer: a set of one, or {}
  stale,         \* does r->surface point at a buffer that is gone?
  lost           \* descriptors that stay open for ever

vars == <<held, stale, lost>>

Init ==
  /\ held = {}
  /\ stale = FALSE
  /\ lost = {}

Fresh == Descriptors \ (held \cup lost)

\* The buffer is released; the pointer to it stays.
Release ==
  /\ held' = {}
  /\ stale' = (stale \/ held # {})

\* A new window, or an unusable buffer whose descriptor is the one that a stale
\* pointer closes.
Drop == Release /\ UNCHANGED lost

\* The next buffer takes the place of the one before.
Replace ==
  /\ \E d \in Fresh : held' = {d}
  /\ stale' = FALSE
  /\ UNCHANGED lost

\* The next buffer cannot be mapped, or was closed by way of a stale pointer.
Refuse ==
  /\ Refuses \/ stale
  /\ held' = {}
  /\ stale' = FALSE
  /\ UNCHANGED lost

\* There is no memory for the next buffer: its descriptor is left behind.
Lose ==
  /\ Loses
  /\ held' = {}
  /\ stale' = FALSE
  /\ \E d \in Fresh : lost' = lost \cup {d}

\* An unusable buffer releases the one before, and is left behind itself.
Ignore ==
  /\ Unusables
  /\ Release
  /\ \E d \in Fresh : lost' = lost \cup {d}

Next == Drop \/ Replace \/ Refuse \/ Lose \/ Ignore

Spec == Init /\ [][Next]_vars

=============================================================================
