---------------------------- MODULE LorieViewer ----------------------------
(***************************************************************************)
(* A viewer: the client library src/client.c with its renderer             *)
(* src/renderer/renderer.c, run by a loop like that of                     *)
(* src/test/test-client.c (connect while disconnected; otherwise forward   *)
(* the window's input and call lorie_client_sync, which does not block).   *)
(*                                                                         *)
(* One thread.  lorie_client_connect waits for a roundtrip, so it is two   *)
(* actions; every other call is one.  The display server is the            *)
(* environment: it listens or not, closes connections, and sends buffer    *)
(* and damage events.  EGL and GL are reduced to whether there is a window *)
(* surface and which buffer was drawn on it last.                          *)
(*                                                                         *)
(* Memory that is used after it was freed leaves the process running or    *)
(* kills it; a null pointer that is followed kills it.                     *)
(***************************************************************************)
EXTENDS Integers, Sequences, FiniteSets

CONSTANTS
  AllocFails,    \* may calloc, mmap and EGL fail?
  ServerStops,   \* may the server close the connection?
  ZeroBuffers,   \* does the server answer with a missing surface (all zeros)?
  ShortFiles,    \* may the file of a buffer be shorter than its pixels?
  WindowMoves,   \* does the host attach other windows?
  \* Bounds of the exploration.
  MaxBuffers,    \* buffer events sent in all
  MaxInbox,      \* unread events
  MaxConnects    \* connections made in all

ASSUME ViewerAssumption ==
  /\ {AllocFails, ServerStops, ZeroBuffers, ShortFiles, WindowMoves} \subseteq BOOLEAN
  /\ {MaxBuffers, MaxInbox, MaxConnects} \subseteq Nat

VARIABLES
  process,       \* "running", or "crashed" once it was killed or has exited
  client,        \* the lorie_client: "unborn", "alive" or "destroyed"
  connecting,    \* is lorie_client_connect waiting for its roundtrip?
  display,       \* c->display # NULL
  proxies,       \* c->input and c->output: "null", "live", or "stale" ones of
                 \* a display that was disconnected
  outbox,        \* are there requests that were not flushed?
  shut,          \* was the socket's descriptor closed along with a stale buffer?
  surface,       \* r->surface: 0 for NULL, or the buffer it was made for
  freed,         \* does r->surface point at freed memory?
  short,         \* is the file behind r->surface shorter than the pixels?
  openFds,       \* buffers whose received descriptor is open
  window,        \* r->sfc # EGL_NO_SURFACE
  drawn,         \* the buffer drawn last, or 0
  \* the connection and the server behind it
  link,          \* "none", "open", "bound" once the bind requests were sent,
                 \* or "eof" once the server closed it
  inbox,         \* events sent and not yet dispatched, oldest first
  nextBuffer,    \* identity of the next buffer sent
  connects       \* connections made

rendererVars == <<surface, freed, short, openFds, window, drawn>>
linkVars == <<link, inbox, nextBuffer, connects>>
clientVars == <<client, connecting, display, proxies, outbox, shut>>
vars == <<process, clientVars, rendererVars, linkVars>>

-----------------------------------------------------------------------------
(* Events *)

\* valid: its width and height are positive.
BufferEvent(b, valid) == [type |-> "buffer_change_fd", id |-> b, valid |-> valid]
DamageEvent == [type |-> "damage"]

Event == [type : {"buffer_change_fd"}, id : 1 .. MaxBuffers, valid : BOOLEAN]
         \cup {DamageEvent}

Init ==
  /\ process = "running"
  /\ client = "unborn"
  /\ connecting = FALSE
  /\ display = FALSE
  /\ proxies = "null"
  /\ outbox = FALSE
  /\ shut = FALSE
  /\ surface = 0
  /\ freed = FALSE
  /\ short = FALSE
  /\ openFds = {}
  /\ window = FALSE
  /\ drawn = 0
  /\ link = "none"
  /\ inbox = <<>>
  /\ nextBuffer = 1
  /\ connects = 0

\* When bad holds, memory is used that may have been freed or lies beyond the end
\* of its file.
Undefined(bad) ==
  \/ UNCHANGED process
  \/ bad /\ process' = "crashed"

HostRuns == process = "running" /\ client = "alive" /\ ~ connecting

-----------------------------------------------------------------------------
(* src/renderer/renderer.c *)

\* lorie_buffer_fd_from_received: what r->surface becomes, and which descriptor
\* is left open.  A failing mmap closes the descriptor; a failing calloc loses
\* it; one that is already closed cannot be mapped.
lorie_buffer_fd_from_received(b, closed) ==
  {[surface |-> b, open |-> {b}]}
  \cup {r \in [surface : {0}, open : {{}, {b}}] : AllocFails}
  \cup {r \in [surface : {0}, open : {{}}] : closed}

\* lorie_buffer_fd_destroy was given a stale pointer: the number it closes may by
\* now be that of the descriptor just received.
DestroysStale == surface # 0 /\ freed

\* By now it may also be the number of the socket.  (That it is not both is left
\* out: the model has that outcome too.)
MayShutSocket == shut' \in {shut} \cup {s \in {TRUE} : DestroysStale /\ display}

\* The server's ftruncate may have failed, or the size overflowed.
MayBeShort == short' \in {FALSE} \cup {s \in {TRUE} : ShortFiles /\ surface' # 0}

\* Faulty variant: the old buffer stays mapped.
AttachKeepsOld(b, valid) ==
  \/ /\ ~ valid
     /\ openFds' = openFds \cup {b}
     /\ UNCHANGED <<surface, freed, short>>
  \/ /\ valid
     /\ surface' = b
     /\ MayBeShort
     /\ freed' = FALSE
     /\ openFds' = openFds \cup {b}

\* Faulty variant: lorie_buffer_fd_destroy leaves the descriptor open.
AttachLeavesOpen(b, valid) ==
  \/ /\ ~ valid
     /\ freed' = (surface # 0)
     /\ openFds' = openFds \cup {b}
     /\ UNCHANGED <<surface, short>>
  \/ /\ valid
     /\ surface' = b
     /\ MayBeShort
     /\ freed' = FALSE
     /\ openFds' = openFds \cup {b}

\* lorie_renderer_buffer_attach.  The old buffer is destroyed first, but
\* lorie_buffer_fd_destroy does not clear the pointer, and with an unusable size
\* nothing else does.
lorie_renderer_buffer_attach(b, valid) ==
  LET kept == openFds \ {surface} IN
  \/ /\ ~ valid
     /\ freed' = (surface # 0)
     /\ openFds' \in {kept \cup {b}} \cup {fds \in {kept} : DestroysStale}
     /\ UNCHANGED <<surface, short>>
  \/ /\ valid
     /\ \E r \in lorie_buffer_fd_from_received(b, DestroysStale) :
          /\ surface' = r.surface
          /\ openFds' = kept \cup r.open
     /\ MayBeShort
     /\ freed' = FALSE

\* lorie_renderer_damage_surface draws the whole buffer, whatever the rectangle.
lorie_renderer_damage_surface ==
  drawn' = IF window /\ surface' # 0 THEN surface' ELSE drawn

\* Both functions above, as an event handler and lorie_client_sync call them,
\* follow r->surface and read all of its pixels.
DrawingIsUnsafe == window /\ surface' # 0 /\ (freed' \/ short')

\* lorie_renderer_attach_window, by way of lorie_client_attach_window: the
\* buffer is destroyed along with the old window.  When EGL fails to make a
\* surface for the new one the renderer is left without.
lorie_client_attach_window(present) ==
  /\ HostRuns
  /\ WindowMoves
  /\ window' \in {present} \cup {w \in {FALSE} : AllocFails}
  /\ openFds' = openFds \ {surface}
  /\ freed' = (surface # 0)
  /\ MayShutSocket
  /\ Undefined(DestroysStale)
  /\ UNCHANGED <<client, connecting, display, proxies, outbox, surface, short,
                 drawn, linkVars>>

-----------------------------------------------------------------------------
(* src/client.c *)

\* lorie_client_create with lorie_renderer_create: without memory for the client
\* the null pointer is followed; without a window or a renderer the client is
\* freed again, and the host has none.
lorie_client_create(present) ==
  /\ process = "running"
  /\ client = "unborn"
  /\ \/ present /\ client' = "alive" /\ window' = TRUE /\ UNCHANGED process
     \/ (~ present \/ AllocFails) /\ UNCHANGED <<client, window, process>>
     \/ AllocFails /\ process' = "crashed" /\ UNCHANGED <<client, window>>
  /\ UNCHANGED <<connecting, display, proxies, outbox, shut, surface, freed,
                 short, openFds, drawn, linkVars>>

\* Faulty variant: the roundtrip is not waited for.
ConnectDoesNotWait ==
  /\ HostRuns
  /\ ~ display
  /\ connects < MaxConnects
  /\ display' = TRUE
  /\ link' = "open"
  /\ connects' = connects + 1
  /\ UNCHANGED <<process, client, connecting, proxies, outbox, shut,
                 rendererVars, inbox, nextBuffer>>

\* The first half of lorie_client_connect, up to wl_display_roundtrip.  Without a
\* server it returns -1 and changes nothing.
ConnectBegins ==
  /\ HostRuns
  /\ ~ display
  /\ connects < MaxConnects
  /\ display' = TRUE
  /\ connecting' = TRUE
  /\ link' = "open"
  /\ connects' = connects + 1
  /\ UNCHANGED <<process, client, proxies, outbox, shut, rendererVars, inbox,
                 nextBuffer>>

\* The server announced its globals: both are bound, and the resolution of the
\* window is sent.
ConnectReturns ==
  /\ process = "running"
  /\ connecting
  /\ link = "open"
  /\ connecting' = FALSE
  /\ proxies' = "live"
  /\ outbox' = TRUE
  /\ UNCHANGED <<process, client, display, shut, rendererVars, linkVars>>

\* The roundtrip failed.  lorie_output_add_listener follows c->output before it
\* is compared with NULL; after an earlier connection it is the proxy of a
\* display that is freed, and passes the comparison.
ConnectFails ==
  /\ process = "running"
  /\ connecting
  /\ link = "eof"
  /\ connecting' = FALSE
  /\ IF proxies = "null" THEN process' = "crashed" ELSE Undefined(TRUE)
  /\ UNCHANGED <<client, display, proxies, outbox, shut, rendererVars, linkVars>>

\* Faulty variant: c->display is not cleared.
DisconnectKeepsDisplay ==
  /\ UNCHANGED display
  /\ proxies' = IF proxies = "live" THEN "stale" ELSE proxies
  /\ outbox' = FALSE
  /\ shut' = FALSE
  /\ link' = "none"
  /\ inbox' = <<>>

\* lorie_client_disconnect; libwayland closes the descriptors of unread events.
Disconnect ==
  /\ display' = FALSE
  /\ proxies' = IF proxies = "live" THEN "stale" ELSE proxies
  /\ outbox' = FALSE
  /\ shut' = FALSE
  /\ link' = "none"
  /\ inbox' = <<>>

\* Faulty variant: nothing is read unless the caller wants to block.
ReadsOnlyBlocking == FALSE

\* bytesAvailable(wl_display_get_fd(display)) > 0, while the socket is open
BytesAvailable == inbox # <<>>

\* wl_display_flush: -1 when there is something to send and nobody to take it,
\* or when the roundtrip of lorie_client_connect has failed before.
FlushFails == link = "eof" /\ (outbox \/ proxies # "live")

\* lorie_client_sync with an event to read: lorie_buffer_change_fd_handler or
\* lorie_damage_handler, and the drawing that follows them.
SyncDispatches ==
  /\ HostRuns
  /\ display /\ ~ shut
  /\ BytesAvailable /\ inbox # <<>>
  /\ inbox' = Tail(inbox)
  /\ outbox' = (outbox /\ link = "eof")
  /\ LET event == Head(inbox) IN
       IF event.type = "buffer_change_fd"
         THEN /\ lorie_renderer_buffer_attach(event.id, event.valid)
              /\ MayShutSocket
              /\ Undefined(DestroysStale \/ DrawingIsUnsafe)
         ELSE /\ UNCHANGED <<shut, surface, freed, short, openFds>>
              /\ Undefined(DrawingIsUnsafe)
  /\ lorie_renderer_damage_surface
  /\ UNCHANGED <<client, connecting, display, proxies, window, link, nextBuffer,
                 connects>>

\* Faulty variant: the result of wl_display_flush is not looked at.
SyncIgnoresFlush ==
  /\ HostRuns
  /\ display /\ ~ shut
  /\ ~ BytesAvailable
  /\ outbox' = FALSE
  /\ link' = IF link = "open" THEN "bound" ELSE link
  /\ UNCHANGED <<display, proxies, inbox, shut, surface, freed, short, openFds, window>>
  /\ lorie_renderer_damage_surface
  /\ Undefined(DrawingIsUnsafe)
  /\ UNCHANGED <<client, connecting, nextBuffer, connects>>

\* lorie_client_sync with nothing to read: it flushes and draws, and the loop of
\* test-client.c disconnects when it returns -1.
SyncFlushes ==
  /\ HostRuns
  /\ display /\ ~ shut
  /\ ~ BytesAvailable
  /\ IF FlushFails
       THEN Disconnect
       ELSE /\ outbox' = FALSE
            /\ link' = IF link = "open" THEN "bound" ELSE link
            /\ UNCHANGED <<display, proxies, inbox, shut>>
  /\ UNCHANGED <<surface, freed, short, openFds, window>>
  /\ lorie_renderer_damage_surface
  /\ Undefined(DrawingIsUnsafe)
  /\ UNCHANGED <<client, connecting, nextBuffer, connects>>

\* lorie_client_sync once the socket's descriptor is closed: ioctl fails and
\* bytesAvailable calls exit(1).  (FIONREAD does not fail on an open socket.)
SyncExits ==
  /\ HostRuns
  /\ display /\ shut
  /\ process' = "crashed"
  /\ UNCHANGED <<clientVars, rendererVars, linkVars>>

\* lorie_client_send_pointer_event, _key_event, _get_current_buffer_request and
\* _resolution_change_request follow c->input or c->output.
SendRequest ==
  /\ outbox' = (outbox \/ proxies = "live")
  /\ IF proxies = "null" THEN process' = "crashed" ELSE Undefined(proxies = "stale")
  /\ UNCHANGED <<client, connecting, display, proxies, shut, rendererVars, linkVars>>

\* A host with one thread that checked lorie_client_is_connected.
lorie_client_send == HostRuns /\ display /\ SendRequest

\* lorie_client_destroy: the renderer, with its buffer, is not destroyed.
lorie_client_destroy ==
  /\ HostRuns
  /\ client' = "destroyed"
  /\ IF display THEN Disconnect
                ELSE UNCHANGED <<display, proxies, outbox, shut, link, inbox>>
  /\ UNCHANGED <<process, connecting, rendererVars, nextBuffer, connects>>

-----------------------------------------------------------------------------
(* The server, as LorieServer shows itself to a bound viewer *)

Served == link = "bound"

ServerSendsBuffer ==
  /\ Served
  /\ nextBuffer <= MaxBuffers
  /\ Len(inbox) < MaxInbox
  /\ \E valid \in {TRUE} \cup {v \in {FALSE} : ZeroBuffers} :
       inbox' = Append(inbox, BufferEvent(nextBuffer, valid))
  /\ nextBuffer' = nextBuffer + 1
  /\ UNCHANGED <<process, clientVars, rendererVars, link, connects>>

ServerSendsDamage ==
  /\ Served
  /\ Len(inbox) < MaxInbox
  /\ inbox' = Append(inbox, DamageEvent)
  /\ UNCHANGED <<process, clientVars, rendererVars, link, nextBuffer, connects>>

ServerCloses ==
  /\ ServerStops
  /\ link \in {"open", "bound"}
  /\ link' = "eof"
  /\ UNCHANGED <<process, clientVars, rendererVars, inbox, nextBuffer, connects>>

-----------------------------------------------------------------------------

Sync == SyncDispatches \/ SyncFlushes \/ SyncExits

Host ==
  \/ lorie_client_create(TRUE)
  \/ ConnectBegins \/ ConnectReturns \/ ConnectFails
  \/ Sync
  \/ lorie_client_send
  \/ \E present \in BOOLEAN : lorie_client_attach_window(present)
  \/ lorie_client_destroy

Server == ServerSendsBuffer \/ ServerSendsDamage \/ ServerCloses

Next == Host \/ Server

Spec == Init /\ [][Next]_vars

\* The loop of test-client.c calls lorie_client_sync over and over.
FairSpec == Spec /\ WF_vars(Sync)

-----------------------------------------------------------------------------
(* Properties *)

TypeOK ==
  /\ process \in {"running", "crashed"}
  /\ client \in {"unborn", "alive", "destroyed"}
  /\ connecting \in BOOLEAN
  /\ display \in BOOLEAN
  /\ proxies \in {"null", "live", "stale"}
  /\ outbox \in BOOLEAN
  /\ shut \in BOOLEAN
  /\ surface \in Nat
  /\ freed \in BOOLEAN
  /\ short \in BOOLEAN
  /\ openFds \subseteq Nat
  /\ window \in BOOLEAN
  /\ drawn \in Nat
  /\ link \in {"none", "open", "bound", "eof"}
  /\ display <=> link # "none"
  /\ inbox \in Seq(Event)
  /\ nextBuffer \in 1 .. (MaxBuffers + 1)
  /\ connects \in 0 .. MaxConnects

\* The renderer holds the one buffer it draws from, and nothing once a new window
\* has made it drop that: over any number of buffers, windows and reconnections
\* no descriptor is leaked and none is closed too early, not even by a renderer
\* that survives destroying its stale pointer a second time.  (For allocations
\* that succeed and buffers of a usable size.)
HoldsOneBuffer == openFds = {b \in {surface} \ {0} : ~ freed}

\* Whatever fails and however windows come and go, r->surface has its descriptor
\* open exactly while it is not freed: none is closed twice or used closed by the
\* renderer as long as the pointer is not followed once freed.
MappedIffOpen == surface # 0 => (surface \in openFds <=> ~ freed)

\* Every buffer that is sent is drawn, or a newer one is, unless the connection,
\* the window or the client goes away first or the renderer is left with a stale
\* pointer, which may kill it.
EveryBufferIsDrawn ==
  \A b \in 1 .. MaxBuffers :
    (\E i \in 1 .. Len(inbox) :
       inbox[i].type = "buffer_change_fd" /\ inbox[i].id = b)
      ~> \/ drawn >= b
         \/ ~ display
         \/ client = "destroyed"
         \/ ~ window
         \/ freed
         \/ process = "crashed"

\* A viewer that sends something after the server hung up notices, and
\* disconnects so that it can connect again, if it lives.
HangupSeenOnSend ==
  (display /\ link = "eof" /\ outbox) ~> (~ display \/ process = "crashed")

\* While the server is there the viewer dies of what its renderer was given only:
\* a connection that it has is one whose proxies it may follow, also after
\* earlier ones that were closed or failed, and whatever their proxies are now.
\* What kills it is a stale pointer, the loss of the socket's descriptor to one,
\* and a buffer whose file is too short.
ServedViewerLives ==
  [][(link \in {"open", "bound"} /\ ~ freed /\ ~ freed' /\ ~ shut /\ ~ short')
       => UNCHANGED process]_vars

\* src/test/test-client.c:17 disconnects when lorie_client_sync returns -1: a
\* viewer whose server hung up gets there.
HangupSeen ==
  (display /\ link = "eof" /\ ~ connecting)
    ~> (~ display \/ client = "destroyed" \/ process = "crashed")

\* src/renderer/renderer.c:163, "Buffer is already mapped. Unmap first.": what
\* r->surface points at when it is not NULL is a mapped buffer.
SurfaceIsMapped == ~ freed

\* src/client.c:111 returns -1 from lorie_client_connect when the server did not
\* announce its globals; the viewer survives that.
ConnectSurvives == process = "running"

Received == INSTANCE ReceivedBuffer WITH
              Descriptors <- 1 .. MaxBuffers,
              Unusables <- ZeroBuffers,
              Refuses <- AllocFails,
              Loses <- AllocFails,
              held <- openFds \cap {surface},
              stale <- surface # 0 /\ freed,
              lost <- openFds \ {surface}

\* However buffers, failures, windows and reconnections follow one another, a
\* descriptor is held, closed when the next one comes, or lost in one of the two
\* ways in which the code loses it: none that was held is lost, and none that was
\* lost is closed.
ReceivesBuffers == Received!Spec

=============================================================================
