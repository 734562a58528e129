---------------------------- MODULE LorieServer ----------------------------
(***************************************************************************)
(* The display server library, src/server.c with src/buffer.c, on top of   *)
(* libwayland-server.                                                      *)
(*                                                                         *)
(* One single-threaded process (the embedder: the X server or              *)
(* test/test-server.c) calls the functions of lorie-server.h.  Viewers are *)
(* other processes: each of their sockets is a connection with a FIFO of   *)
(* requests and a FIFO of events.  lorie_server_process is the only        *)
(* function that dispatches; its dispatch loop is split into one action    *)
(* per callback, and no other call of the embedder can run while the loop  *)
(* still has a ready descriptor.                                           *)
(*                                                                         *)
(* What the embedder does in its resolution_change callback is left open   *)
(* here: it may do nothing, resize the image or resend the current buffer. *)
(* XorgDriver is the embedder that src/xf86-mixed-lorie implements.        *)
(***************************************************************************)
EXTENDS Integers, Sequences, FiniteSets

CONSTANTS
  Conns,         \* connections; every accepted socket is a new one
  Sizes,         \* the [width, height] an embedder asks for
  Boxes,         \* the boxes a damage event can carry
  NULL,          \* the null pointer
  Listen,        \* the listening socket, as a source of the event loop
  AllocFails,    \* may calloc, memfd_create, mmap and wl_resource_create fail?
  \* Bounds of the exploration.
  MaxViewers,    \* sockets that viewers hold open at the same time
  MaxRequests,   \* requests a viewer sends over one connection
  MaxResizes,    \* buffers after which only viewers cause a resize
  MaxEvents,     \* unread events above which the embedder posts no damage
  MaxServers     \* lorie_server objects created one after the other

ASSUME ConstantsAssumption ==
  /\ Sizes \subseteq [width : Int, height : Int]
  /\ NULL \notin Conns
  /\ Listen \notin Conns
  /\ AllocFails \in BOOLEAN
  /\ {MaxViewers, MaxRequests, MaxResizes, MaxEvents, MaxServers} \subseteq Nat

VARIABLES
  \* struct lorie_server and what libwayland keeps for it
  display,                \* "none", "up", or "crashed" with the process
  clientList,             \* the client list of the wl_display
  listeners,              \* clients that have a lorie_server_client
  output_implementation,  \* connection of the resource last bound, or NULL
  surface,                \* the current lorie_buffer
  mapped,                 \* memory the server process has open and mapped
  nextMem,                \* identity of the next memory object created
  servers,                \* how many lorie_server objects were created
  ready,                  \* readable descriptors the running dispatch has left
  hungup,                 \* hung-up connections the running dispatch has left
  \* the sockets
  backlog,                \* connections made and not yet accepted
  requests,               \* viewer -> server
  events,                 \* server -> viewer, oldest first
  flushed,                \* how many of the events have left the server
  \* the viewers' ends
  peer,                   \* "unused", "open" or "closed"
  handshake,              \* "none", "binding" (bind sent) or "bound"
  sent,                   \* requests sent so far
  delivered               \* the buffer last delivered to the viewer

memoryVars == <<surface, mapped, nextMem>>
serverVars == <<listeners, output_implementation, servers>>
viewerVars == <<peer, sent, delivered>>
dispatchVars == <<ready, hungup>>
vars == <<display, clientList, memoryVars, serverVars, dispatchVars, backlog,
          requests, events, flushed, handshake, viewerVars>>

-----------------------------------------------------------------------------
(* Buffers *)

\* A null lorie_buffer reads as zeros: lorie_buffer_fd_fd, _width and _height
\* return 0 when b == NULL.
NoBuffer == [mem |-> 0, width |-> 0, height |-> 0]

\* A buffer is named by the memory object behind its descriptor; memory
\* objects are never reused, descriptor numbers are.
Buffer == [mem : Nat \ {0}, width : Int, height : Int]

ByteSize(size) == size.width * size.height * 4

\* lorie_buffer_fd_create: mmap refuses an empty or negative length, and any of
\* its system calls may fail.  Every failure path frees what was acquired.
lorie_buffer_fd_create(size) ==
  {b \in {[mem |-> nextMem, width |-> size.width, height |-> size.height]} :
      ByteSize(size) > 0}
  \cup {b \in {NoBuffer} : AllocFails \/ ByteSize(size) <= 0}

-----------------------------------------------------------------------------
(* Events and requests *)

BufferEvent(b) == [type |-> "buffer_change_fd", buffer |-> b]
DamageEvent(box) == [type |-> "damage", box |-> box]

Event == [type : {"buffer_change_fd"}, buffer : Buffer \cup {NoBuffer}]
         \cup [type : {"damage"}, box : Boxes]

Request == [type : {"input", "get_current_buffer"}]
           \cup [type : {"resolution_change"}, size : Sizes]

\* lorie_output_send_*(s->lorie_output_implementation, ...).  The pointer is
\* that of the resource bound last.  libwayland frees a client's resources with
\* the client and nothing clears the pointer, so posting is undefined unless
\* the client it belongs to is connected: on NULL the process dies, on freed
\* memory it dies or the event is lost.
Post(ev) ==
  \/ /\ output_implementation \in clientList
     /\ events' = [events EXCEPT ![output_implementation] = Append(@, ev)]
     /\ UNCHANGED display
  \/ /\ output_implementation \notin clientList
     /\ display' = "crashed"
     /\ UNCHANGED events
  \/ /\ output_implementation \notin clientList
     /\ output_implementation # NULL
     /\ UNCHANGED <<display, events>>

\* Every sender first asks whether the client list is empty.
PostIfAnyClient(ev) ==
  IF clientList = {} THEN UNCHANGED <<display, events>> ELSE Post(ev)

-----------------------------------------------------------------------------
(* The functions of lorie-server.h *)

Init ==
  /\ display = "none"
  /\ clientList = {}
  /\ listeners = {}
  /\ output_implementation = NULL
  /\ surface = NoBuffer
  /\ mapped = {}
  /\ nextMem = 1
  /\ servers = 0
  /\ ready = {}
  /\ hungup = {}
  /\ backlog = {}
  /\ requests = [c \in Conns |-> <<>>]
  /\ events = [c \in Conns |-> <<>>]
  /\ flushed = [c \in Conns |-> 0]
  /\ peer = [c \in Conns |-> "unused"]
  /\ handshake = [c \in Conns |-> "none"]
  /\ sent = [c \in Conns |-> 0]
  /\ delivered = [c \in Conns |-> NoBuffer]

\* The embedder runs between two dispatches.
EmbedderRuns == display = "up" /\ ready = {} /\ hungup = {}

\* lorie_server_create: a calloc'ed struct.  A failure leaves no server.
lorie_server_create ==
  /\ display = "none"
  /\ servers < MaxServers
  /\ servers' = servers + 1
  /\ \/ display' = "up"
     \/ AllocFails /\ UNCHANGED display
  /\ UNCHANGED <<clientList, memoryVars, listeners, output_implementation,
                 dispatchVars, backlog, requests, events, flushed, handshake,
                 viewerVars>>

\* Faulty variant: the buffer is announced before it is replaced.
ResizeAnnouncesOld(size) ==
  \E new \in lorie_buffer_fd_create(size) :
    /\ surface' = new
    /\ mapped' = (mapped \ {surface.mem}) \cup ({new.mem} \ {0})
    /\ nextMem' = IF new = NoBuffer THEN nextMem ELSE nextMem + 1
    /\ PostIfAnyClient(BufferEvent(surface))

\* Faulty variant: the old buffer is not destroyed.
ResizeKeepsOld(size) ==
  \E new \in lorie_buffer_fd_create(size) :
    /\ surface' = new
    /\ mapped' = mapped \cup ({new.mem} \ {0})
    /\ nextMem' = IF new = NoBuffer THEN nextMem ELSE nextMem + 1
    /\ IF new = NoBuffer THEN UNCHANGED <<display, events>>
                         ELSE PostIfAnyClient(BufferEvent(new))

\* The body of lorie_server_resize_image, reached from the embedder or from
\* its resolution_change callback.  The old buffer is unmapped and closed
\* first; the descriptor in an event already posted is a duplicate of it.
ResizeImage(size) ==
  \E new \in lorie_buffer_fd_create(size) :
    /\ surface' = new
    /\ mapped' = (mapped \ {surface.mem}) \cup ({new.mem} \ {0})
    /\ nextMem' = IF new = NoBuffer THEN nextMem ELSE nextMem + 1
    /\ IF new = NoBuffer THEN UNCHANGED <<display, events>>
                         ELSE PostIfAnyClient(BufferEvent(new))

\* The body of lorie_server_send_current_buffer.
SendCurrentBuffer ==
  /\ IF surface = NoBuffer THEN UNCHANGED <<display, events>>
                           ELSE PostIfAnyClient(BufferEvent(surface))
  /\ UNCHANGED memoryVars

CallUnchanged ==
  UNCHANGED <<clientList, serverVars, dispatchVars, backlog, requests, flushed,
              handshake, viewerVars>>

\* Room for one more event at the client that is posted to.
Room == output_implementation \in clientList
          => Len(events[output_implementation]) < MaxEvents

lorie_server_resize_image(size) ==
  /\ EmbedderRuns
  /\ nextMem <= MaxResizes
  /\ ResizeImage(size)
  /\ CallUnchanged

lorie_server_send_current_buffer ==
  /\ EmbedderRuns
  /\ Room
  /\ SendCurrentBuffer
  /\ CallUnchanged

lorie_server_send_damage(box) ==
  /\ EmbedderRuns
  /\ Room
  /\ PostIfAnyClient(DamageEvent(box))
  /\ UNCHANGED memoryVars
  /\ CallUnchanged

\* lorie_server_destroy: every client is disconnected (libwayland flushes it
\* first and the destroy listeners free the lorie_server_clients), the listening
\* socket is closed and the struct is freed.  The surface is neither unmapped
\* nor closed.
lorie_server_destroy ==
  /\ EmbedderRuns
  /\ display' = "none"
  /\ clientList' = {}
  /\ listeners' = {}
  /\ output_implementation' = NULL
  /\ surface' = NoBuffer
  /\ backlog' = {}
  /\ requests' = [c \in Conns |-> <<>>]
  /\ flushed' = [c \in Conns |-> IF c \in clientList THEN Len(events[c])
                                                     ELSE flushed[c]]
  /\ UNCHANGED <<mapped, nextMem, servers, dispatchVars, events, handshake,
                 viewerVars>>

-----------------------------------------------------------------------------
(* lorie_server_process: flush, then one dispatch of the event loop *)

\* Faulty variant: the destroy listener does not free its lorie_server_client.
DestroyKeepsListener(gone) ==
  /\ clientList' = clientList \ gone
  /\ requests' = [c \in Conns |-> IF c \in gone THEN <<>> ELSE requests[c]]
  /\ UNCHANGED listeners

\* wl_client_destroy: frees the client with its resources and requests and runs
\* its destroy listener, lorie_display_client_destroyed_handler, which frees the
\* lorie_server_client.  The server's pointer to the resource stays as it is.
wl_client_destroy(gone) ==
  /\ clientList' = clientList \ gone
  /\ listeners' = listeners \ gone
  /\ requests' = [c \in Conns |-> IF c \in gone THEN <<>> ELSE requests[c]]

\* Clients with unsent events whose viewer closed the socket: flushing fails.
Unreachable ==
  {c \in clientList : peer[c] = "closed" /\ flushed[c] < Len(events[c])}

HasInput(c) == handshake[c] = "binding" \/ requests[c] # <<>>

\* The first half: flush every client, then wait (0 ms) for ready descriptors.
\* Events that the callbacks below post are flushed by the next call.
lorie_server_process ==
  LET alive == clientList \ Unreachable IN
  /\ EmbedderRuns
  /\ wl_client_destroy(Unreachable)
  /\ flushed' = [c \in Conns |-> IF c \in alive THEN Len(events[c])
                                               ELSE flushed[c]]
  /\ hungup' = {c \in alive : peer[c] = "closed"}
  /\ ready' = {l \in {Listen} : backlog # {}}
              \cup {c \in alive : peer[c] = "open" /\ HasInput(c)}
  /\ UNCHANGED <<display, memoryVars, output_implementation, servers, backlog,
                 events, handshake, viewerVars>>

\* One accept per readiness of the listening socket.  Then
\* lorie_display_client_created_handler gives the client a destroy listener,
\* unless the calloc for it fails.
DispatchAccept(c) ==
  /\ display = "up"
  /\ Listen \in ready
  /\ c \in backlog
  /\ ready' = ready \ {Listen}
  /\ backlog' = backlog \ {c}
  /\ clientList' = clientList \cup {c}
  /\ \/ listeners' = listeners \cup {c}
     \/ AllocFails /\ UNCHANGED listeners
  /\ UNCHANGED <<display, memoryVars, output_implementation, servers, hungup,
                 requests, events, flushed, handshake, viewerVars>>

\* Faulty variant: the first resource ever bound is kept.
BindKeepsFirst(c) ==
  /\ display = "up"
  /\ c \in ready
  /\ handshake[c] = "binding"
  /\ handshake' = [handshake EXCEPT ![c] = "bound"]
  /\ output_implementation' = IF output_implementation = NULL THEN c
                              ELSE output_implementation
  /\ ready' = IF requests[c] = <<>> THEN ready \ {c} ELSE ready
  /\ UNCHANGED <<clientList, listeners, requests, display, memoryVars, servers,
                 hungup, backlog, events, flushed, viewerVars>>

\* lorie_output_bind (and lorie_input_bind, whose pointer nothing reads): the
\* resource bound last replaces the previous one, whoever owns it.  Without
\* memory for the resource the client is disconnected.
DispatchBind(c) ==
  /\ display = "up"
  /\ c \in ready
  /\ handshake[c] = "binding"
  /\ \/ /\ handshake' = [handshake EXCEPT ![c] = "bound"]
        /\ output_implementation' = c
        /\ ready' = IF requests[c] = <<>> THEN ready \ {c} ELSE ready
        /\ UNCHANGED <<clientList, listeners, requests>>
     \/ /\ AllocFails
        /\ wl_client_destroy({c})
        /\ ready' = ready \ {c}
        /\ UNCHANGED <<handshake, output_implementation>>
  /\ UNCHANGED <<display, memoryVars, servers, hungup, backlog, events,
                 flushed, viewerVars>>

\* Requests of one client are dispatched in order, until none is left.
TakeRequest(c, type) ==
  /\ display = "up"
  /\ c \in ready
  /\ handshake[c] = "bound"
  /\ requests[c] # <<>> /\ Head(requests[c]).type = type
  /\ requests' = [requests EXCEPT ![c] = Tail(@)]
  /\ ready' = IF Len(requests[c]) = 1 THEN ready \ {c} ELSE ready
  /\ UNCHANGED <<clientList, serverVars, hungup, backlog, flushed, handshake,
                 viewerVars>>

\* lorie_pointer_event_handler and lorie_key_event_handler: a callback of the
\* embedder that calls nothing of the library.
DispatchInput(c) ==
  /\ TakeRequest(c, "input")
  /\ UNCHANGED <<display, memoryVars, events>>

\* lorie_get_current_buffer_handler answers the resource bound last, not the
\* one asked through, and does not ask whether there is a surface.
DispatchGetCurrentBuffer(c) ==
  /\ TakeRequest(c, "get_current_buffer")
  /\ PostIfAnyClient(BufferEvent(surface))
  /\ UNCHANGED memoryVars

\* lorie_resolution_change_handler runs the embedder's callback.
DispatchResolutionChange(c) ==
  /\ TakeRequest(c, "resolution_change")
  /\ \/ UNCHANGED <<display, memoryVars, events>>
     \/ \E size \in Sizes : ResizeImage(size)
     \/ SendCurrentBuffer

DispatchHangup(c) ==
  /\ display = "up"
  /\ c \in hungup
  /\ hungup' = hungup \ {c}
  /\ wl_client_destroy({c})
  /\ UNCHANGED <<display, memoryVars, output_implementation, servers, ready,
                 backlog, events, flushed, handshake, viewerVars>>

-----------------------------------------------------------------------------
(* The viewers' side of the sockets, as src/client.c uses it *)

libraryVars == <<display, memoryVars, serverVars, dispatchVars>>

Connect(c) ==
  /\ display = "up"
  /\ peer[c] = "unused"
  /\ Cardinality({d \in Conns : peer[d] = "open"}) < MaxViewers
  /\ peer' = [peer EXCEPT ![c] = "open"]
  /\ backlog' = backlog \cup {c}
  /\ UNCHANGED <<libraryVars, clientList, requests, events, flushed, handshake,
                 sent, delivered>>

\* client_registry_handler binds each global once.
Bind(c) ==
  /\ c \in clientList
  /\ peer[c] = "open"
  /\ handshake[c] = "none"
  /\ handshake' = [handshake EXCEPT ![c] = "binding"]
  /\ UNCHANGED <<libraryVars, clientList, backlog, requests, events, flushed,
                 viewerVars>>

Send(c, request) ==
  /\ c \in clientList
  /\ peer[c] = "open"
  /\ handshake[c] # "none"
  /\ sent[c] < MaxRequests
  /\ sent' = [sent EXCEPT ![c] = @ + 1]
  /\ requests' = [requests EXCEPT ![c] = Append(@, request)]
  /\ UNCHANGED <<libraryVars, clientList, backlog, events, flushed, handshake,
                 peer, delivered>>

\* One event is delivered; the viewer keeps the buffer it was given last.
Read(c) ==
  /\ peer[c] = "open"
  /\ flushed[c] > 0
  /\ flushed' = [flushed EXCEPT ![c] = @ - 1]
  /\ events' = [events EXCEPT ![c] = Tail(@)]
  /\ delivered' = [delivered EXCEPT ![c] =
                     IF Head(events[c]).type = "buffer_change_fd"
                       THEN Head(events[c]).buffer ELSE @]
  /\ UNCHANGED <<libraryVars, clientList, backlog, requests, handshake, peer,
                 sent>>

\* lorie_client_disconnect, or the viewer's process ends.
Close(c) ==
  /\ peer[c] = "open"
  /\ peer' = [peer EXCEPT ![c] = "closed"]
  /\ UNCHANGED <<libraryVars, clientList, backlog, requests, events, flushed,
                 handshake, sent, delivered>>

-----------------------------------------------------------------------------

Embedder ==
  \/ lorie_server_create
  \/ \E size \in Sizes : lorie_server_resize_image(size)
  \/ lorie_server_send_current_buffer
  \/ \E box \in Boxes : lorie_server_send_damage(box)
  \/ lorie_server_process
  \/ lorie_server_destroy

Dispatch(c) ==
  \/ DispatchAccept(c)
  \/ DispatchBind(c)
  \/ DispatchInput(c)
  \/ DispatchGetCurrentBuffer(c)
  \/ DispatchResolutionChange(c)
  \/ DispatchHangup(c)

Viewer(c) ==
  \/ Connect(c)
  \/ Bind(c)
  \/ \E request \in Request : Send(c, request)
  \/ Read(c)
  \/ Close(c)

Next == Embedder \/ \E c \in Conns : Dispatch(c) \/ Viewer(c)

Spec == Init /\ [][Next]_vars

-----------------------------------------------------------------------------
(* Properties *)

\* Types, and the places a connection can be in: an accepted connection has
\* left the backlog for good, only accepted connections are served, and a
\* lorie_server_client lives no longer than its client.
MemoryTypeOK ==
  /\ display \in {"none", "up", "crashed"}
  /\ surface \in Buffer \cup {NoBuffer}
  /\ mapped \subseteq Nat \ {0}
  /\ nextMem \in Nat \ {0}
  /\ servers \in Nat

ConnectionTypeOK ==
  /\ clientList \subseteq Conns
  /\ listeners \subseteq clientList
  /\ output_implementation \in Conns \cup {NULL}
  /\ ready \subseteq clientList \cup {Listen}
  /\ hungup \subseteq clientList \ ready
  /\ backlog \subseteq Conns \ clientList
  /\ peer \in [Conns -> {"unused", "open", "closed"}]
  /\ \A c \in clientList \cup backlog : peer[c] # "unused"
  /\ handshake \in [Conns -> {"none", "binding", "bound"}]

StreamTypeOK ==
  /\ requests \in [Conns -> Seq(Request)]
  /\ sent \in [Conns -> Nat]
  /\ events \in [Conns -> Seq(Event)]
  /\ flushed \in [Conns -> Nat]
  /\ \A c \in Conns : flushed[c] <= Len(events[c])
  /\ delivered \in [Conns -> Buffer \cup {NoBuffer}]

TypeOK == MemoryTypeOK /\ ConnectionTypeOK /\ StreamTypeOK

BufferEventAt(c, i) == events[c][i].type = "buffer_change_fd"

NoBufferUnread(c) == \A i \in 1 .. Len(events[c]) : ~ BufferEventAt(c, i)

\* b is the buffer that c ends up with once it has read everything sent to it.
EndsUpWith(c, b) ==
  \/ \E i \in 1 .. Len(events[c]) :
       /\ events[c][i] = BufferEvent(b)
       /\ \A j \in (i + 1) .. Len(events[c]) : ~ BufferEventAt(c, j)
  \/ NoBufferUnread(c) /\ delivered[c] = b

\* The viewer that is posted to ends up with the current surface or, if it was
\* given no buffer since it bound, with none: a resize, a resend, an answer to
\* get_current_buffer and the damage in between never leave it with memory that
\* the server has dropped (lorie_server_resize_image closes the old buffer
\* before it announces the new one).
NewestBufferIsSurface ==
  display = "up" /\ surface # NoBuffer /\ output_implementation \in clientList
    => \/ EndsUpWith(output_implementation, surface)
       \/ /\ NoBufferUnread(output_implementation)
          /\ delivered[output_implementation] = NoBuffer

\* Resizing never leaks a mapping or loses the one in use: what is mapped is the
\* surface and at most one abandoned surface per destroyed server
\* (lorie_server_destroy frees the struct only).
MappingsAreBounded ==
  /\ surface # NoBuffer => surface.mem \in mapped
  /\ Cardinality(mapped) <= servers

\* The viewer that is connected and bound is the one the server posts to, when
\* viewers follow one another: the pointer set in lorie_output_bind is then
\* never left at a predecessor.  (With two viewers at a time the older one is
\* cut off.)
ViewerIsHeard ==
  \A c \in clientList :
    peer[c] = "open" /\ handshake[c] = "bound" => output_implementation = c

\* src/test/test-server.c calls lorie_server_process and lorie_server_send_damage
\* in turn and expects to survive: the server never posts through a pointer that
\* is NULL or belongs to a client that is gone.
NeverCrashes == display # "crashed"

\* What the code does guarantee of that: no call of the embedder and no callback
\* kills the server once the viewer has bound, when viewers follow one another,
\* whatever its predecessors left behind in lorie_output_implementation.
BoundViewerIsSafe ==
  [][(\E c \in clientList : peer[c] = "open" /\ handshake[c] = "bound")
       => display' # "crashed"]_vars
=============================================================================
