---------------------------- MODULE LorieSession ----------------------------
(***************************************************************************)
(* The whole program: the X server of XorgDriver and one viewer process,   *)
(* that of LorieViewer, with the sockets between them.                     *)
(*                                                                         *)
(* XorgDriver has viewers of whom only the requests and what they read is  *)
(* known, and LorieViewer has a server of whom only the events are known.  *)
(* Here every step that both see is taken by both: a step of the viewer is *)
(* an action of LorieViewer conjoined with the one of LorieServer's socket *)
(* that it performs, and the viewer's socket is a view of the server's.    *)
(* The viewer may disconnect and connect again, each time over a new       *)
(* connection.                                                             *)
(***************************************************************************)
EXTENDS XorgDriver

VARIABLES
  conn,          \* the viewer's connection, or NULL: c->display
  outgoing,      \* requests issued over it and not yet at the server
  held,          \* r->surface: 0 or the memory object it was made for
  \* the other variables of LorieViewer
  process, client, connecting, proxies, outbox, shut, freed, short, openFds,
  window, drawn

ownVars == <<held, process, client, connecting, proxies, outbox, shut, freed,
             short, openFds, window, drawn>>
sessionVars == <<conn, outgoing, ownVars>>
svars == <<xvars, sessionVars>>

-----------------------------------------------------------------------------
(* The socket as the viewer sees it *)

\* The server, or the whole X server, has closed the connection.
Gone ==
  \/ conn \notin clientList \cup backlog
  \/ display = "crashed"
  \/ screen = "dead"

Link ==
  CASE conn = NULL -> "none"
    [] conn # NULL /\ Gone -> "eof"
    [] conn # NULL /\ ~ Gone /\ handshake[conn] = "none" -> "open"
    [] OTHER -> "bound"

\* A descriptor is as good as the memory object behind it; the renderer takes no
\* empty buffer.
AsSeen(event) ==
  IF event.type = "buffer_change_fd"
    THEN [type |-> "buffer_change_fd", id |-> event.buffer.mem,
          valid |-> event.buffer.width > 0 /\ event.buffer.height > 0]
    ELSE [type |-> "damage"]

Inbox ==
  IF conn = NULL THEN <<>>
  ELSE [i \in 1 .. flushed[conn] |-> AsSeen(events[conn][i])]

\* The window stays, as in src/test/test-client.c; AndroidApp has windows that
\* change.  Files are as long as their pixels: in the X server, too, a shorter
\* one would end the process that draws.
V == INSTANCE LorieViewer WITH
       ServerStops <- TRUE, ZeroBuffers <- TRUE, WindowMoves <- FALSE,
       ShortFiles <- FALSE,
       MaxBuffers <- MaxResizes, MaxInbox <- MaxEvents,
       MaxConnects <- Cardinality(Conns),
       display <- conn # NULL, surface <- held, link <- Link, inbox <- Inbox,
       nextBuffer <- 1,
       connects <- Cardinality({c \in Conns : peer[c] # "unused"})

SInit ==
  /\ XInit
  /\ conn = NULL
  /\ outgoing = <<>>
  /\ V!Init

-----------------------------------------------------------------------------
(* The viewer's steps *)

lorie_client_create ==
  /\ UNCHANGED <<xvars, conn, outgoing>>
  /\ V!lorie_client_create(TRUE)

ConnectBegins(c) ==
  /\ V!HostRuns
  /\ conn = NULL
  /\ Connect(c)
  /\ conn' = c
  /\ UNCHANGED <<xorgVars, outgoing>>
  /\ V!ConnectBegins

\* The roundtrip is over once the server has accepted the connection; the
\* resolution of the window is the first request.
ConnectReturns(size) ==
  /\ conn \in clientList
  /\ outgoing' = <<[type |-> "resolution_change", size |-> size]>>
  /\ UNCHANGED <<xvars, conn>>
  /\ V!ConnectReturns

ConnectFails ==
  /\ UNCHANGED <<xvars, conn, outgoing>>
  /\ V!ConnectFails

\* lorie_client_sync with an event to read.
SyncDispatches ==
  /\ conn # NULL
  /\ Read(conn)
  /\ UNCHANGED <<xorgVars, conn, outgoing>>
  /\ V!SyncDispatches

\* lorie_client_sync with nothing to read: the bind requests leave with the
\* first flush.
SyncFlushes ==
  /\ V!HostRuns
  /\ conn # NULL
  /\ IF V!FlushFails
       THEN Close(conn) /\ conn' = NULL /\ outgoing' = <<>>
       ELSE /\ IF Link = "open" THEN Bind(conn) ELSE UNCHANGED vars
            /\ UNCHANGED <<conn, outgoing>>
  /\ UNCHANGED xorgVars
  /\ V!SyncFlushes

\* lorie_client_sync on a socket whose descriptor was closed; the server sees it
\* closed when the process is gone (ViewerDies), at the latest.
SyncExits ==
  /\ UNCHANGED <<xvars, conn, outgoing>>
  /\ V!SyncExits

\* A request that was flushed arrives.
Deliver ==
  /\ conn # NULL
  /\ ~ outbox
  /\ outgoing # <<>>
  /\ Send(conn, Head(outgoing))
  /\ outgoing' = Tail(outgoing)
  /\ UNCHANGED <<xorgVars, conn, ownVars>>

\* The host asks for the buffer or a resolution, or forwards input.
lorie_client_send(request) ==
  /\ conn # NULL
  /\ sent[conn] + Len(outgoing) < MaxRequests
  /\ outgoing' = IF proxies = "live" THEN Append(outgoing, request) ELSE outgoing
  /\ UNCHANGED <<xvars, conn>>
  /\ V!lorie_client_send

HangUp ==
  /\ IF conn = NULL THEN UNCHANGED vars ELSE Close(conn)
  /\ conn' = NULL
  /\ outgoing' = <<>>
  /\ UNCHANGED xorgVars

lorie_client_destroy ==
  /\ V!HostRuns
  /\ HangUp
  /\ V!lorie_client_destroy

\* The kernel closes the socket of a viewer that crashed.
ViewerDies ==
  /\ process = "crashed"
  /\ conn # NULL
  /\ HangUp
  /\ UNCHANGED ownVars

Sync == SyncDispatches \/ SyncFlushes \/ SyncExits

ViewerProcess ==
  \/ lorie_client_create
  \/ \E c \in Conns : ConnectBegins(c)
  \/ \E size \in Sizes : ConnectReturns(size)
  \/ ConnectFails
  \/ Sync
  \/ Deliver
  \/ \E request \in Request : lorie_client_send(request)
  \/ lorie_client_destroy
  \/ ViewerDies

SNext == (XorgProcess /\ UNCHANGED sessionVars) \/ ViewerProcess

\* The X server's loop calls the handler of a ready descriptor, and a callback
\* once begun returns; the viewer's loop calls lorie_client_sync, the kernel
\* delivers what was flushed, and wl_display_roundtrip returns once it is
\* answered.  X clients owe nothing, and the viewer no request.
SFairness ==
  /\ WF_svars(xorg_lorie_handle_event /\ UNCHANGED sessionVars)
  /\ \A c \in Conns : WF_svars(DriverDispatch(c) /\ UNCHANGED sessionVars)
  /\ WF_svars(\E size \in Sizes : ConnectReturns(size))
  /\ WF_svars(Sync)
  /\ WF_svars(Deliver)

SSpec == SInit /\ [][SNext]_svars

SFairSpec == SSpec /\ SFairness

-----------------------------------------------------------------------------
(* Properties *)

\* The viewer has the buffer that X draws into as soon as it has read all that
\* the server posted over its connection, if it was given one: what the server
\* posts while it resizes, resends and answers, what the viewer unmaps and maps,
\* and connections that come and go leave no other buffer in r->surface.
CaughtUp ==
  /\ conn # NULL /\ output_implementation = conn
  /\ display = "up" /\ surface # NoBuffer
  /\ events[conn] = <<>> /\ delivered[conn] # NoBuffer
  /\ ~ freed
  => held \in {0, pixmap.mem}

\* While the viewer has bound and there is a screen nothing kills the X server: no
\* callback and no call of the driver posts through what an earlier viewer left,
\* and what X clients draw finds memory mapped under the screen pixmap.
BoundSessionIsSafe ==
  [][((\E c \in clientList : peer[c] = "open" /\ handshake[c] = "bound")
        /\ surface # NoBuffer /\ screen # "dead")
       => display' # "crashed" /\ screen' # "dead"]_svars

\* Is the viewer's loop running over a connection that the X server serves, and has
\* it not lost the buffer it showed?  (A renderer that was left with a stale pointer
\* has, and still has when destroying it again took the next descriptor.)
Watching ==
  /\ process = "running" /\ client = "alive" /\ ~ connecting
  /\ ~ freed /\ (held = 0 => drawn = 0)
  /\ display = "up" /\ screen = "ready"
  /\ conn \in clientList

\* The viewer has asked for a buffer and was not answered, or has one to read.
UnderWay ==
  \/ \E i \in 1 .. Len(outgoing) : outgoing[i].type # "input"
  \/ \E i \in 1 .. Len(requests[conn]) : requests[conn][i].type # "input"
  \/ ~ NoBufferUnread(conn)

\* No update is lost: a viewer that watches and does not show the buffer that X
\* draws into has an answer or a buffer on its way, however its connecting and
\* binding, resizes that fail, resends, and earlier connections whose pointer the
\* server still holds interleave.  (Unless it could not map what it was sent.)
UpdateIsUnderWay ==
  Watching /\ surface.width > 0
    => drawn = pixmap.mem \/ UnderWay \/ (AllocFails /\ held = 0)

Shared == INSTANCE SharedScreen WITH
            newest <- nextMem - 1,
            screen <- IF surface = NoBuffer THEN 0 ELSE pixmap.mem,
            shown <- drawn,
            watching <- Watching

\* The two processes together are a shared screen: what the viewer draws goes
\* from one buffer of the X screen to a newer one and never back, over
\* reconnections and server generations, and a viewer that stays ends up with the
\* buffer that X draws into.
SharesScreen == Shared!Spec

\* Its safety part.
SharesScreenSafely == Shared!Init /\ [][Shared!Next]_(Shared!vars)

=============================================================================
