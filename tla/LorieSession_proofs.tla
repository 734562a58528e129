-------------------------- MODULE LorieSession_proofs --------------------------
(***************************************************************************)
(* Theorems about LorieSession: the session is a behaviour of XorgDriver,  *)
(* so what is proved of the X server holds in it; the viewer catches up;   *)
(* the two processes implement the safety part of SharedScreen; the viewer *)
(* is the one that is posted to; and no update is lost: what the viewer    *)
(* lacks was asked for or is on its way.                                   *)
(***************************************************************************)
EXTENDS LorieSession, XorgDriver_proofs

-----------------------------------------------------------------------------
(* Every step of the session is a step of the X server with its viewers *)

SType ==
  /\ conn \in Conns \cup {NULL}
  /\ outgoing \in Seq(Request)

LEMMA SessionType == SType /\ [SNext]_svars => SType'
<1> SUFFICES ASSUME SType, [SNext]_svars PROVE SType'
  OBVIOUS
<1> USE DEF SType
<1>1. CASE UNCHANGED <<conn, outgoing>>
  BY <1>1
<1>2. ASSUME NEW c \in Conns, ConnectBegins(c) PROVE SType'
  BY <1>2 DEF ConnectBegins
<1>3. ASSUME NEW size \in Sizes, ConnectReturns(size) PROVE SType'
  <2>1. [type |-> "resolution_change", size |-> size] \in Request
    BY DEF Request
  <2> QED BY <1>3, <2>1 DEF ConnectReturns
<1>4. CASE conn' = NULL /\ outgoing' = <<>>
  BY <1>4
<1>5. CASE Deliver
  <2>1. conn' = conn /\ outgoing' = Tail(outgoing) /\ outgoing # <<>>
    BY <1>5 DEF Deliver
  <2> QED BY <2>1
<1>6. ASSUME NEW request \in Request, lorie_client_send(request) PROVE SType'
  <2>1. Append(outgoing, request) \in Seq(Request)
    OBVIOUS
  <2> QED BY <1>6, <2>1 DEF lorie_client_send
<1>7. CASE SyncFlushes
  BY <1>1, <1>4, <1>7 DEF SyncFlushes
<1> QED
  BY <1>1, <1>2, <1>3, <1>4, <1>5, <1>6, <1>7
  DEF SNext, ViewerProcess, Sync, sessionVars, svars, lorie_client_create,
      ConnectFails, SyncDispatches, SyncExits, lorie_client_destroy, ViewerDies, HangUp

LEMMA SessionStep ==
  ASSUME SType, [SNext]_svars
  PROVE  [XNext]_xvars
<1> USE DEF SType
<1>1. ASSUME NEW c \in Conns, Viewer(c), UNCHANGED xorgVars PROVE [XNext]_xvars
  BY <1>1 DEF XNext
<1>2. CASE UNCHANGED xvars
  BY <1>2
<1>3. CASE UNCHANGED <<vars, xorgVars>>
  BY <1>3 DEF xvars
<1>4. ASSUME NEW c \in Conns, ConnectBegins(c) PROVE [XNext]_xvars
  BY <1>1, <1>4 DEF ConnectBegins, Viewer
<1>5. CASE SyncDispatches
  BY <1>1, <1>5 DEF SyncDispatches, Viewer
<1>6. CASE SyncFlushes
  <2>1. conn \in Conns /\ UNCHANGED xorgVars
    BY <1>6 DEF SyncFlushes
  <2>2. Close(conn) \/ Bind(conn) \/ UNCHANGED vars
    BY <1>6 DEF SyncFlushes
  <2> QED BY <1>1, <1>3, <2>1, <2>2 DEF Viewer
<1>7. CASE Deliver
  <2>1. conn \in Conns /\ UNCHANGED xorgVars /\ outgoing # <<>>
    BY <1>7 DEF Deliver
  <2>2. Send(conn, Head(outgoing)) /\ Head(outgoing) \in Request
    BY <1>7, <2>1 DEF Deliver
  <2> QED BY <1>1, <2>1, <2>2 DEF Viewer
<1>8. CASE HangUp
  <2>1. CASE conn = NULL
    BY <1>3, <1>8, <2>1 DEF HangUp
  <2>2. CASE conn # NULL
    BY <1>1, <1>8, <2>2 DEF HangUp, Viewer
  <2> QED BY <2>1, <2>2
<1>9. CASE XorgProcess
  BY <1>9 DEF XNext
<1> QED
  BY <1>2, <1>4, <1>5, <1>6, <1>7, <1>8, <1>9
  DEF SNext, ViewerProcess, Sync, svars, lorie_client_create, ConnectReturns,
      ConnectFails, SyncExits, lorie_client_send, lorie_client_destroy, ViewerDies

LEMMA SessionTyped == SSpec => []SType
<1>1. SInit => SType
  BY DEF SInit, SType
<1> QED BY <1>1, SessionType, PTL DEF SSpec

\* The viewer of LorieViewer behaves like one of the viewers that the X server is
\* checked with.
THEOREM SessionIsDriver == SSpec => XSpec
<1>1. SInit => XInit
  BY DEF SInit
<1> QED BY <1>1, SessionStep, SessionTyped, PTL DEF SSpec, XSpec

-----------------------------------------------------------------------------
(* The streams of the server: buffers are announced in order *)

\* The memory object that an event announces, or 0.
Mem(ev) == IF ev.type = "buffer_change_fd" THEN ev.buffer.mem ELSE 0

\* What a step of the server's process does to the buffers and the streams: the
\* screen stays, goes away or becomes the newest buffer there has been; a stream
\* grows at most by one event, and that announces the newest buffer or none.
NewestIsSurface == surface # NoBuffer => surface.mem = nextMem - 1

ScreenMoves ==
  \/ UNCHANGED <<surface, nextMem>>
  \/ surface' = NoBuffer /\ UNCHANGED nextMem
  \/ surface' # NoBuffer /\ surface'.mem = nextMem /\ nextMem' = nextMem + 1

StreamGrows(c) ==
  \/ events'[c] = events[c]
  \/ \E ev \in Event : /\ events'[c] = Append(events[c], ev)
                       /\ Mem(ev) \in {0, nextMem' - 1}

LEMMA PostGrows ==
  ASSUME TypeOK, NEW ev \in Event, Mem(ev) \in {0, nextMem' - 1},
         Post(ev) \/ UNCHANGED events
  PROVE  \A c \in Conns : StreamGrows(c)
<1>1. events \in [Conns -> Seq(Event)]
  BY DEF TypeOK, StreamTypeOK
<1> QED BY <1>1 DEF Post, StreamGrows

LEMMA CurrentGrows ==
  ASSUME TypeOK, NewestIsSurface, UNCHANGED <<surface, nextMem>>,
         Post(BufferEvent(surface)) \/ UNCHANGED events
  PROVE  \A c \in Conns : StreamGrows(c)
<1>1. BufferEvent(surface) \in Event
  BY EventType DEF TypeOK, MemoryTypeOK
<1>2. Mem(BufferEvent(surface)) \in {0, nextMem' - 1}
  BY DEF NewestIsSurface, Mem, BufferEvent, NoBuffer
<1> QED BY <1>1, <1>2, PostGrows

LEMMA ResizeGrows ==
  ASSUME TypeOK, NEW size \in Sizes, ResizeImage(size)
  PROVE  ScreenMoves /\ \A c \in Conns : StreamGrows(c)
<1>1. PICK new \in lorie_buffer_fd_create(size) :
        /\ surface' = new
        /\ nextMem' = IF new = NoBuffer THEN nextMem ELSE nextMem + 1
        /\ IF new = NoBuffer THEN UNCHANGED <<display, events>>
                             ELSE PostIfAnyClient(BufferEvent(new))
  BY DEF ResizeImage
<1>2. nextMem \in Nat \ {0}
  BY DEF TypeOK, MemoryTypeOK
<1>3. new \in Buffer \cup {NoBuffer} /\ (new # NoBuffer => new.mem = nextMem)
  BY <1>2, CreateType
<1>4. ScreenMoves
  BY <1>1, <1>3 DEF ScreenMoves
<1>5. BufferEvent(new) \in Event /\ Mem(BufferEvent(new)) \in {0, nextMem' - 1}
  BY <1>1, <1>2, <1>3, EventType DEF Mem, BufferEvent, NoBuffer
<1>6. Post(BufferEvent(new)) \/ UNCHANGED events
  BY <1>1 DEF PostIfAnyClient
<1> QED BY <1>4, <1>5, <1>6, PostGrows

LEMMA ServerShape ==
  ASSUME TypeOK, NewestIsSurface,
         Embedder \/ (\E c \in Conns : Dispatch(c)) \/ UNCHANGED vars
  PROVE  /\ ScreenMoves
         /\ \A c \in Conns : StreamGrows(c)
         /\ UNCHANGED viewerVars
<1> USE DEF memoryVars, viewerVars, vars
<1>1. ASSUME UNCHANGED <<events, surface, nextMem>>
      PROVE  ScreenMoves /\ \A c \in Conns : StreamGrows(c)
  BY <1>1 DEF ScreenMoves, StreamGrows
<1>2. ASSUME NEW size \in Sizes, lorie_server_resize_image(size)
      PROVE  ScreenMoves /\ (\A c \in Conns : StreamGrows(c)) /\ UNCHANGED viewerVars
  BY <1>2, ResizeGrows DEF lorie_server_resize_image, CallUnchanged
<1>3. ASSUME SendCurrentBuffer
      PROVE  ScreenMoves /\ \A c \in Conns : StreamGrows(c)
  <2>1. /\ UNCHANGED <<surface, nextMem>>
        /\ Post(BufferEvent(surface)) \/ UNCHANGED events
    BY <1>3 DEF SendCurrentBuffer, PostIfAnyClient
  <2> QED BY <2>1, CurrentGrows DEF ScreenMoves
<1>4. ASSUME NEW box \in Boxes, lorie_server_send_damage(box)
      PROVE  ScreenMoves /\ (\A c \in Conns : StreamGrows(c)) /\ UNCHANGED viewerVars
  <2>1. /\ UNCHANGED <<surface, nextMem, viewerVars>>
        /\ Post(DamageEvent(box)) \/ UNCHANGED events
    BY <1>4 DEF lorie_server_send_damage, PostIfAnyClient, CallUnchanged
  <2>2. DamageEvent(box) \in Event /\ Mem(DamageEvent(box)) = 0
    BY EventType DEF Mem, DamageEvent
  <2> QED BY <2>1, <2>2, PostGrows DEF ScreenMoves
<1>5. CASE Embedder
  <2>1. CASE lorie_server_create
    BY <1>1, <2>1 DEF lorie_server_create
  <2>2. CASE lorie_server_send_current_buffer
    BY <1>3, <2>2 DEF lorie_server_send_current_buffer, CallUnchanged
  <2>3. CASE lorie_server_process
    BY <1>1, <2>3 DEF lorie_server_process
  <2>4. CASE lorie_server_destroy
    <3>1. surface' = NoBuffer /\ UNCHANGED <<nextMem, events, viewerVars>>
      BY <2>4 DEF lorie_server_destroy
    <3> QED BY <3>1 DEF ScreenMoves, StreamGrows
  <2> QED BY <1>2, <1>4, <1>5, <2>1, <2>2, <2>3, <2>4 DEF Embedder
<1>6. ASSUME NEW c \in Conns, Dispatch(c)
      PROVE  ScreenMoves /\ (\A d \in Conns : StreamGrows(d)) /\ UNCHANGED viewerVars
  <2>1. CASE DispatchAccept(c) \/ DispatchBind(c) \/ DispatchInput(c) \/ DispatchHangup(c)
    BY <1>1, <2>1
    DEF DispatchAccept, DispatchBind, DispatchInput, DispatchHangup, TakeRequest
  <2>2. CASE DispatchGetCurrentBuffer(c)
    <3>1. /\ UNCHANGED <<surface, nextMem, viewerVars>>
          /\ Post(BufferEvent(surface)) \/ UNCHANGED events
      BY <2>2 DEF DispatchGetCurrentBuffer, PostIfAnyClient, TakeRequest
    <3> QED BY <3>1, CurrentGrows DEF ScreenMoves
  <2>3. CASE DispatchResolutionChange(c)
    <3>1. UNCHANGED viewerVars
      BY <2>3 DEF DispatchResolutionChange, TakeRequest
    <3>2. \/ UNCHANGED <<surface, nextMem, events>>
          \/ \E size \in Sizes : ResizeImage(size)
          \/ SendCurrentBuffer
      BY <2>3 DEF DispatchResolutionChange
    <3> QED BY <1>1, <1>3, <3>1, <3>2, ResizeGrows
  <2> QED BY <1>6, <2>1, <2>2, <2>3 DEF Dispatch
<1>7. CASE UNCHANGED vars
  BY <1>1, <1>7
<1> QED BY <1>5, <1>6, <1>7

\* The buffers of a stream e come in the order in which they were created, and
\* none is from the future.
Ordered(e, n) ==
  \A i \in 1 .. Len(e) :
    /\ Mem(e[i]) < n
    /\ \A j \in 1 .. Len(e) : i < j /\ Mem(e[j]) # 0 => Mem(e[i]) <= Mem(e[j])

\* None is older than m.
NotBefore(e, m) ==
  \A i \in 1 .. Len(e) : Mem(e[i]) # 0 => m <= Mem(e[i])

LEMMA MemType ==
  \A ev \in Event : Mem(ev) \in Nat
  BY DEF Mem, Event, Buffer, NoBuffer

LEMMA AppendOrdered ==
  ASSUME NEW e \in Seq(Event), NEW ev \in Event, NEW n \in Nat, NEW k \in Nat,
         NEW m \in Nat, n <= k, m < n, Mem(ev) \in {0, k - 1},
         Ordered(e, n)
  PROVE  /\ Ordered(Append(e, ev), k)
         /\ NotBefore(e, m) => NotBefore(Append(e, ev), m)
<1> DEFINE f == Append(e, ev)
<1>1. /\ Len(e) \in Nat /\ Len(f) = Len(e) + 1 /\ f[Len(f)] = ev
      /\ \A i \in 1 .. Len(e) : f[i] = e[i] /\ e[i] \in Event
  OBVIOUS
<1>2. \A i \in 1 .. Len(f) : i \in 1 .. Len(e) \/ i = Len(f)
  BY <1>1
<1>3. \A i \in 1 .. Len(e) : Mem(f[i]) = Mem(e[i]) /\ Mem(e[i]) \in Nat
  BY <1>1, MemType
<1>4. Mem(f[Len(f)]) = Mem(ev) /\ Mem(ev) \in Nat /\ (Mem(ev) # 0 => Mem(ev) = k - 1)
  BY <1>1, MemType
<1> HIDE DEF f
<1>5. \A i \in 1 .. Len(e) : Mem(e[i]) < n
  BY DEF Ordered
<1>6. \A i \in 1 .. Len(f) : Mem(f[i]) < k
  BY <1>2, <1>3, <1>4, <1>5
<1>7. ASSUME NEW i \in 1 .. Len(f), NEW j \in 1 .. Len(f), i < j, Mem(f[j]) # 0
      PROVE  Mem(f[i]) <= Mem(f[j])
  <2>1. i \in 1 .. Len(e)
    BY <1>1, <1>7
  <2>2. CASE j \in 1 .. Len(e)
    BY <1>3, <1>7, <2>1, <2>2 DEF Ordered
  <2>3. CASE j = Len(f)
    BY <1>3, <1>4, <1>5, <1>7, <2>1, <2>3
  <2> QED BY <1>2, <2>2, <2>3
<1>8. Ordered(f, k)
  BY <1>6, <1>7 DEF Ordered
<1>9. NotBefore(e, m) => NotBefore(f, m)
  <2> SUFFICES ASSUME NotBefore(e, m), NEW i \in 1 .. Len(f), Mem(f[i]) # 0
               PROVE  m <= Mem(f[i])
    BY DEF NotBefore
  <2>1. CASE i \in 1 .. Len(e)
    BY <1>3, <2>1 DEF NotBefore
  <2>2. CASE i = Len(f)
    BY <1>4, <2>2
  <2> QED BY <1>2, <2>1, <2>2
<1> QED BY <1>8, <1>9 DEF f

LEMMA TailOrdered ==
  ASSUME NEW e \in Seq(Event), e # <<>>, NEW n \in Nat, Ordered(e, n)
  PROVE  /\ Ordered(Tail(e), n)
         /\ NotBefore(Tail(e), Mem(e[1]))
         /\ \A m \in Nat : NotBefore(e, m) => NotBefore(Tail(e), m)
<1> DEFINE f == Tail(e)
<1>1. /\ Len(e) \in Nat /\ Len(f) = Len(e) - 1 /\ 1 \in 1 .. Len(e)
      /\ \A i \in 1 .. Len(f) : i + 1 \in 1 .. Len(e) /\ f[i] = e[i + 1]
  OBVIOUS
<1> HIDE DEF f
<1>2. Ordered(f, n)
  BY <1>1 DEF Ordered
<1>3. NotBefore(f, Mem(e[1]))
  BY <1>1 DEF Ordered, NotBefore
<1>4. \A m \in Nat : NotBefore(e, m) => NotBefore(f, m)
  BY <1>1 DEF NotBefore
<1> QED BY <1>2, <1>3, <1>4 DEF f

-----------------------------------------------------------------------------
(* The connection that is posted to is served as long as its viewer is there *)

ServedInv ==
  /\ \A c \in hungup : peer[c] = "closed"
  /\ output_implementation # NULL /\ peer[output_implementation] = "open"
       => output_implementation \in clientList

LEMMA ServedKept ==
  ASSUME ServedInv,
         UNCHANGED <<hungup, peer, output_implementation, clientList>>
  PROVE  ServedInv'
  BY DEF ServedInv

LEMMA ServedStep == ServedInv /\ BufferInv /\ [Next]_vars => ServedInv'
<1> SUFFICES ASSUME ServedInv, BufferInv, [Next]_vars PROVE ServedInv'
  OBVIOUS
<1> USE DEF dispatchVars, serverVars, viewerVars, libraryVars
<1>1. /\ ConnectionTypeOK /\ UnboundIsSilent
  BY DEF BufferInv, TypeOK
<1>2. CASE Embedder
  <2>1. CASE lorie_server_create
    BY <2>1, ServedKept DEF lorie_server_create
  <2>2. ASSUME NEW size \in Sizes, lorie_server_resize_image(size) PROVE ServedInv'
    BY <2>2, ServedKept DEF lorie_server_resize_image, CallUnchanged
  <2>3. CASE lorie_server_send_current_buffer
    BY <2>3, ServedKept DEF lorie_server_send_current_buffer, CallUnchanged
  <2>4. ASSUME NEW box \in Boxes, lorie_server_send_damage(box) PROVE ServedInv'
    BY <2>4, ServedKept DEF lorie_server_send_damage, CallUnchanged
  <2>5. CASE lorie_server_process
    <3>1. /\ clientList' = clientList \ Unreachable
          /\ UNCHANGED <<output_implementation, peer>>
          /\ \A c \in hungup' : peer[c] = "closed"
      BY <2>5 DEF lorie_server_process, wl_client_destroy
    <3>2. \A c \in Unreachable : peer[c] = "closed"
      BY DEF Unreachable
    <3> QED BY <3>1, <3>2 DEF ServedInv
  <2>6. CASE lorie_server_destroy
    BY <2>6 DEF lorie_server_destroy, ServedInv
  <2> QED BY <1>2, <2>1, <2>2, <2>3, <2>4, <2>5, <2>6 DEF Embedder
<1>3. ASSUME NEW c \in Conns, Dispatch(c) PROVE ServedInv'
  <2>1. CASE DispatchAccept(c)
    BY <2>1 DEF DispatchAccept, ServedInv
  <2>2. CASE DispatchBind(c)
    <3>1. c \in clientList /\ handshake[c] = "binding"
      BY <1>1, <2>2, ConstantsAssumption DEF DispatchBind, ConnectionTypeOK
    <3>2. UNCHANGED <<hungup, peer>>
      BY <2>2 DEF DispatchBind
    <3>3. CASE output_implementation' = c /\ UNCHANGED clientList
      BY <3>1, <3>2, <3>3 DEF ServedInv
    <3>4. CASE wl_client_destroy({c}) /\ UNCHANGED output_implementation
      <4>1. output_implementation # NULL => output_implementation # c
        BY <1>1, <3>1 DEF UnboundIsSilent
      <4> QED BY <3>2, <3>4, <4>1 DEF ServedInv, wl_client_destroy
    <3> QED BY <2>2, <3>3, <3>4 DEF DispatchBind
  <2>3. CASE DispatchInput(c) \/ DispatchGetCurrentBuffer(c) \/ DispatchResolutionChange(c)
    <3>1. UNCHANGED <<hungup, peer, output_implementation, clientList>>
      BY <2>3
      DEF DispatchInput, DispatchGetCurrentBuffer, DispatchResolutionChange, TakeRequest
    <3> QED BY <3>1, ServedKept
  <2>4. CASE DispatchHangup(c)
    <3>1. /\ hungup' = hungup \ {c} /\ c \in hungup /\ clientList' = clientList \ {c}
          /\ UNCHANGED <<output_implementation, peer>>
      BY <2>4 DEF DispatchHangup, wl_client_destroy
    <3> QED BY <3>1 DEF ServedInv
  <2> QED BY <1>3, <2>1, <2>2, <2>3, <2>4 DEF Dispatch
<1>4. ASSUME NEW c \in Conns, Viewer(c) PROVE ServedInv'
  <2>1. CASE Connect(c)
    <3>1. /\ peer[c] = "unused" /\ peer' = [peer EXCEPT ![c] = "open"]
          /\ UNCHANGED <<hungup, output_implementation, clientList>>
      BY <2>1 DEF Connect
    <3>2. c \notin hungup
      BY <3>1 DEF ServedInv
    <3>3. output_implementation # NULL => output_implementation # c
      BY <1>1, <3>1 DEF UnboundIsSilent
    <3>4. \A d \in Conns : d # c => peer'[d] = peer[d]
      BY <1>1, <3>1 DEF ConnectionTypeOK
    <3>5. hungup \subseteq Conns /\ output_implementation \in Conns \cup {NULL}
      BY <1>1 DEF ConnectionTypeOK
    <3> QED BY <3>1, <3>2, <3>3, <3>4, <3>5 DEF ServedInv
  <2>2. CASE Close(c)
    <3>1. /\ peer' = [peer EXCEPT ![c] = "closed"]
          /\ UNCHANGED <<hungup, output_implementation, clientList>>
      BY <2>2 DEF Close
    <3>2. \A d \in Conns : peer'[d] = IF d = c THEN "closed" ELSE peer[d]
      BY <1>1, <3>1 DEF ConnectionTypeOK
    <3>3. hungup \subseteq Conns /\ output_implementation \in Conns \cup {NULL}
      BY <1>1 DEF ConnectionTypeOK
    <3> QED BY <3>1, <3>2, <3>3 DEF ServedInv
  <2>3. CASE Bind(c) \/ Read(c) \/ \E request \in Request : Send(c, request)
    BY <2>3, ServedKept DEF Bind, Read, Send
  <2> QED BY <1>4, <2>1, <2>2, <2>3 DEF Viewer
<1>5. CASE UNCHANGED vars
  BY <1>5, ServedKept DEF vars
<1> QED BY <1>2, <1>3, <1>4, <1>5 DEF Next

LEMMA ServedInvariance == Spec => []ServedInv
<1>1. Init => ServedInv
  BY DEF Init, ServedInv
<1> QED BY <1>1, ServedStep, BufferInvariance, PTL DEF Spec

-----------------------------------------------------------------------------
(* What the viewer holds and shows *)

\* The viewer holds a buffer no older than the one it showed last, all that it
\* has yet to read is no older than either, and what it holds is what was
\* delivered over its connection last, if anything was.
HeldInv ==
  /\ held \in Nat /\ held < nextMem
  /\ drawn \in Nat /\ drawn < nextMem
  /\ held # 0 => drawn <= held

ReadInv ==
  conn # NULL =>
    /\ peer[conn] = "open"
    /\ NotBefore(events[conn], held) /\ NotBefore(events[conn], drawn)
    /\ delivered[conn] # NoBuffer /\ ~ freed => held \in {0, delivered[conn].mem}

StreamInv == NewestIsSurface /\ \A c \in Conns : Ordered(events[c], nextMem)

SessionInv == HeldInv /\ ReadInv /\ StreamInv

LibraryInv == SType /\ BufferInv /\ ServedInv /\ crtcMode \in Sizes

LEMMA SessionInit == SInit => SessionInv
<1> SUFFICES ASSUME SInit PROVE SessionInv
  OBVIOUS
<1>1. Init
  BY DEF SInit, XInit
<1>2. held = 0 /\ drawn = 0 /\ conn = NULL
  BY DEF SInit, V!Init
<1>3. nextMem = 1 /\ surface = NoBuffer /\ events = [c \in Conns |-> <<>>]
  BY <1>1 DEF Init
<1> QED BY <1>2, <1>3
    DEF SessionInv, HeldInv, ReadInv, StreamInv, NewestIsSurface, Ordered

\* The process of the X server.
LEMMA ServerStep ==
  ASSUME LibraryInv, SessionInv, XorgProcess, UNCHANGED sessionVars
  PROVE  SessionInv' /\ ScreenMoves
<1>1. TypeOK
  BY DEF LibraryInv, BufferInv
<1>2. Embedder \/ (\E c \in Conns : Dispatch(c)) \/ UNCHANGED vars
  BY <1>1, ProcessRefines DEF LibraryInv
<1>3. /\ ScreenMoves
      /\ \A c \in Conns : StreamGrows(c)
      /\ UNCHANGED <<peer, delivered>>
  BY <1>1, <1>2, ServerShape DEF SessionInv, StreamInv, viewerVars
<1>4. UNCHANGED <<conn, held, drawn, freed>>
  BY DEF sessionVars, ownVars
<1>5. nextMem \in Nat /\ nextMem' \in Nat /\ nextMem <= nextMem' /\ NewestIsSurface'
  BY <1>1, <1>3
  DEF TypeOK, MemoryTypeOK, ScreenMoves, SessionInv, StreamInv, NewestIsSurface
<1>6. HeldInv'
  BY <1>4, <1>5 DEF SessionInv, HeldInv
<1>7. ASSUME NEW c \in Conns, NEW m \in Nat, m < nextMem
      PROVE  /\ Ordered(events'[c], nextMem')
             /\ NotBefore(events[c], m) => NotBefore(events'[c], m)
  <2>1. events[c] \in Seq(Event) /\ Ordered(events[c], nextMem)
    BY <1>1 DEF TypeOK, StreamTypeOK, SessionInv, StreamInv
  <2>2. CASE events'[c] = events[c]
    <3>1. Ordered(events[c], nextMem')
      <4>1. \A i \in 1 .. Len(events[c]) : Mem(events[c][i]) \in Nat
        BY <2>1, MemType
      <4> QED BY <1>5, <2>1, <4>1 DEF Ordered
    <3> QED BY <2>2, <3>1
  <2>3. CASE \E ev \in Event : /\ events'[c] = Append(events[c], ev)
                              /\ Mem(ev) \in {0, nextMem' - 1}
    BY <1>5, <1>7, <2>1, <2>3, AppendOrdered
  <2> QED BY <1>3, <2>2, <2>3 DEF StreamGrows
<1>8. held \in Nat /\ held < nextMem /\ drawn \in Nat /\ drawn < nextMem
  BY DEF SessionInv, HeldInv
<1>9. StreamInv'
  BY <1>5, <1>7, <1>8 DEF StreamInv
<1>10. ReadInv'
  <2>1. conn \in Conns \cup {NULL}
    BY DEF LibraryInv, SType
  <2> QED BY <1>3, <1>4, <1>7, <1>8, <2>1 DEF SessionInv, ReadInv
<1> QED BY <1>3, <1>6, <1>9, <1>10 DEF SessionInv

\* What the renderer makes of a buffer: it keeps a stale pointer when the size is
\* unusable, and otherwise holds the new buffer unless it cannot map it.
LEMMA AttachHeld ==
  ASSUME NEW b, NEW valid, V!lorie_renderer_buffer_attach(b, valid)
  PROVE  \/ ~ valid /\ held' = held /\ freed' = (held # 0)
         \/ /\ valid /\ freed' = FALSE
            /\ held' = b \/ (held' = 0 /\ (AllocFails \/ held # 0))
  BY DEF V!lorie_renderer_buffer_attach, V!lorie_buffer_fd_from_received,
         V!DestroysStale

\* What the viewer does with the event it reads.
LEMMA ReadShape ==
  ASSUME LibraryInv, SyncDispatches
  PROVE  LET e == events[conn][1] IN
         /\ conn \in Conns /\ UNCHANGED conn /\ Read(conn) /\ events[conn] # <<>>
         /\ \/ /\ e.type = "buffer_change_fd"
               /\ \/ held' = held /\ freed' = (held # 0)
                     /\ ~ (e.buffer.width > 0 /\ e.buffer.height > 0)
                  \/ /\ \/ held' = e.buffer.mem
                        \/ held' = 0 /\ (AllocFails \/ held # 0)
                     /\ freed' = FALSE
                     /\ e.buffer.width > 0 /\ e.buffer.height > 0
            \/ e.type # "buffer_change_fd" /\ UNCHANGED <<held, freed>>
         /\ drawn' = IF window /\ held' # 0 THEN held' ELSE drawn
<1> DEFINE e == events[conn][1]
<1>1. conn \in Conns /\ UNCHANGED conn /\ Read(conn) /\ V!SyncDispatches
  BY DEF SyncDispatches, LibraryInv, SType
<1>2. /\ events[conn] \in Seq(Event) /\ flushed[conn] \in Nat /\ flushed[conn] > 0
      /\ flushed[conn] <= Len(events[conn])
  BY <1>1 DEF Read, LibraryInv, BufferInv, TypeOK, StreamTypeOK
<1>3. events[conn] # <<>>
  BY <1>2
<1>4. Head(Inbox) = AsSeen(e)
  <2> DEFINE n == flushed[conn]
             f == [i \in 1 .. n |-> AsSeen(events[conn][i])]
             S == {AsSeen(events[conn][i]) : i \in 1 .. n}
  <2>1. Inbox = f
    BY <1>1, ConstantsAssumption DEF Inbox
  <2>2. n \in Nat /\ n > 0
    BY <1>2
  <2>3. f \in Seq(S) /\ Len(f) = n
    <3> HIDE DEF n
    <3> QED BY <2>2
  <2>4. f[1] = AsSeen(e) /\ f # <<>>
    BY <2>2, <2>3
  <2> HIDE DEF f, S, e
  <2>5. Head(f) = f[1]
    BY <2>3, <2>4
  <2> QED BY <2>1, <2>4, <2>5
<1>5. drawn' = IF window /\ held' # 0 THEN held' ELSE drawn
  BY <1>1 DEF V!SyncDispatches, V!lorie_renderer_damage_surface
<1>6. IF AsSeen(e).type = "buffer_change_fd"
        THEN V!lorie_renderer_buffer_attach(AsSeen(e).id, AsSeen(e).valid)
        ELSE UNCHANGED <<held, freed>>
  BY <1>1, <1>4 DEF V!SyncDispatches
<1> HIDE DEF e
<1>7. CASE e.type = "buffer_change_fd"
  <2>1. /\ AsSeen(e).type = "buffer_change_fd" /\ AsSeen(e).id = e.buffer.mem
        /\ AsSeen(e).valid = (e.buffer.width > 0 /\ e.buffer.height > 0)
    BY <1>7 DEF AsSeen
  <2>2. V!lorie_renderer_buffer_attach(e.buffer.mem, e.buffer.width > 0 /\ e.buffer.height > 0)
    BY <1>6, <2>1
  <2> QED BY <1>1, <1>3, <1>5, <1>7, <2>2, AttachHeld DEF e
<1>8. CASE e.type # "buffer_change_fd"
  <2>1. AsSeen(e).type # "buffer_change_fd"
    BY <1>8 DEF AsSeen
  <2> QED BY <1>1, <1>3, <1>5, <1>6, <1>8, <2>1 DEF e
<1> QED BY <1>7, <1>8

LEMMA ReadStep ==
  ASSUME LibraryInv, SessionInv, SyncDispatches
  PROVE  /\ SessionInv' /\ drawn <= drawn'
         /\ UNCHANGED <<surface, nextMem, pixmap>>
<1> DEFINE e == events[conn][1]
<1>1. /\ conn \in Conns /\ UNCHANGED conn /\ Read(conn) /\ events[conn] # <<>>
      /\ \/ /\ e.type = "buffer_change_fd"
            /\ \/ held' = held /\ freed' = (held # 0)
                  /\ ~ (e.buffer.width > 0 /\ e.buffer.height > 0)
               \/ held' \in {e.buffer.mem, 0} /\ freed' = FALSE
                  /\ e.buffer.width > 0 /\ e.buffer.height > 0
         \/ e.type # "buffer_change_fd" /\ UNCHANGED <<held, freed>>
      /\ drawn' = IF window /\ held' # 0 THEN held' ELSE drawn
  BY ReadShape
<1>2. /\ events \in [Conns -> Seq(Event)] /\ nextMem \in Nat
      /\ delivered \in [Conns -> Buffer \cup {NoBuffer}]
  BY DEF LibraryInv, BufferInv, TypeOK, StreamTypeOK, MemoryTypeOK
<1>3. events[conn] \in Seq(Event) /\ e \in Event /\ Head(events[conn]) = e
      /\ 1 \in 1 .. Len(events[conn])
  BY <1>1, <1>2
<1>4. /\ events' = [events EXCEPT ![conn] = Tail(@)]
      /\ delivered' = [delivered EXCEPT ![conn] =
                         IF e.type = "buffer_change_fd" THEN e.buffer ELSE @]
      /\ UNCHANGED <<peer, surface, nextMem>>
  BY <1>1, <1>3 DEF Read, libraryVars, memoryVars
<1>5. UNCHANGED pixmap
  BY DEF SyncDispatches, xorgVars, sizeVars
<1>6. /\ held \in Nat /\ held < nextMem /\ drawn \in Nat /\ drawn < nextMem
      /\ held # 0 => drawn <= held
      /\ NotBefore(events[conn], held) /\ NotBefore(events[conn], drawn)
      /\ Ordered(events[conn], nextMem)
  <2>1. conn # NULL
    BY <1>1, ConstantsAssumption
  <2> QED BY <1>1, <2>1 DEF SessionInv, HeldInv, ReadInv, StreamInv
<1>7. /\ Mem(e) \in Nat /\ Mem(e) < nextMem
      /\ Mem(e) # 0 => held <= Mem(e) /\ drawn <= Mem(e)
  BY <1>3, <1>6, MemType DEF Ordered, NotBefore
<1>8. /\ Ordered(Tail(events[conn]), nextMem)
      /\ NotBefore(Tail(events[conn]), Mem(e))
      /\ NotBefore(Tail(events[conn]), held) /\ NotBefore(Tail(events[conn]), drawn)
  BY <1>1, <1>2, <1>3, <1>6, TailOrdered
<1>9. events'[conn] = Tail(events[conn])
      /\ \A c \in Conns \ {conn} : events'[c] = events[c]
  BY <1>1, <1>2, <1>4
<1>10. NotBefore(events'[conn], 0)
  <2>1. Tail(events[conn]) \in Seq(Event)
    BY <1>1, <1>3
  <2>2. \A i \in 1 .. Len(Tail(events[conn])) : Tail(events[conn])[i] \in Event
    BY <2>1
  <2> QED BY <1>9, <2>2, MemType DEF NotBefore
<1>11. held' \in {held, Mem(e), 0}
  BY <1>1 DEF Mem
<1>12. StreamInv'
  BY <1>1, <1>4, <1>8, <1>9 DEF SessionInv, StreamInv, NewestIsSurface
<1>13. /\ held' \in Nat /\ held' < nextMem /\ NotBefore(events'[conn], held')
       /\ held' # 0 => drawn <= held'
  <2>1. 0 < nextMem
    BY <1>2, <1>6
  <2>2. CASE held' = held
    BY <1>6, <1>8, <1>9, <2>2
  <2>3. CASE held' = Mem(e)
    BY <1>7, <1>8, <1>9, <2>3
  <2>4. CASE held' = 0
    BY <1>10, <2>1, <2>4
  <2> QED BY <1>11, <2>2, <2>3, <2>4
<1>14. drawn' = drawn \/ (held' # 0 /\ drawn' = held')
  BY <1>1
<1>15. HeldInv' /\ drawn <= drawn' /\ NotBefore(events'[conn], drawn')
  BY <1>4, <1>6, <1>8, <1>9, <1>13, <1>14 DEF HeldInv
<1>16. ASSUME delivered'[conn] # NoBuffer, ~ freed'
       PROVE  held' \in {0, delivered'[conn].mem}
  <2>1. delivered'[conn] = IF e.type = "buffer_change_fd" THEN e.buffer ELSE delivered[conn]
    BY <1>1, <1>2, <1>4
  <2>2. CASE e.type = "buffer_change_fd"
    BY <1>1, <1>16, <2>1, <2>2
  <2>3. CASE e.type # "buffer_change_fd"
    <3>1. UNCHANGED <<held, freed>> /\ delivered'[conn] = delivered[conn]
      BY <1>1, <2>1, <2>3
    <3>2. conn # NULL
      BY <1>1, ConstantsAssumption
    <3> QED BY <1>16, <3>1, <3>2 DEF SessionInv, ReadInv
  <2> QED BY <2>2, <2>3
<1>17. ReadInv'
  <2>1. peer'[conn] = "open"
    BY <1>1, <1>4 DEF Read
  <2> QED BY <1>1, <1>13, <1>15, <1>16, <2>1 DEF ReadInv
<1> QED BY <1>4, <1>5, <1>12, <1>15, <1>17 DEF SessionInv

\* Every other step of the viewer reads nothing; it may draw what it holds, hang
\* up, or begin a connection over which nothing was sent yet.
LEMMA QuietShape ==
  ASSUME LibraryInv, ViewerProcess, ~ SyncDispatches
  PROVE  /\ UNCHANGED <<events, delivered, held, freed, surface, nextMem, pixmap>>
         /\ drawn' = drawn \/ (held # 0 /\ drawn' = held)
         /\ \/ conn' = NULL
            \/ UNCHANGED conn /\ UNCHANGED peer
            \/ conn' \in Conns /\ peer[conn'] = "unused" /\ peer'[conn'] = "open"
<1> USE DEF vars, xorgVars, sizeVars, xvars, memoryVars, viewerVars, libraryVars
<1>1. ASSUME HangUp
      PROVE  /\ UNCHANGED <<events, delivered, surface, nextMem, pixmap>>
             /\ conn' = NULL
  BY <1>1 DEF HangUp, Close
<1>2. CASE lorie_client_create
  BY <1>2 DEF lorie_client_create, V!lorie_client_create
<1>3. ASSUME NEW c \in Conns, ConnectBegins(c)
      PROVE  /\ UNCHANGED <<events, delivered, held, freed, drawn, surface, nextMem, pixmap>>
             /\ conn' = c /\ peer[c] = "unused" /\ peer'[c] = "open"
  <2>1. peer \in [Conns -> {"unused", "open", "closed"}]
    BY DEF LibraryInv, BufferInv, TypeOK, ConnectionTypeOK
  <2> QED BY <1>3, <2>1 DEF ConnectBegins, Connect, V!ConnectBegins, V!rendererVars
<1>4. ASSUME NEW size \in Sizes, ConnectReturns(size)
      PROVE  UNCHANGED <<vars, pixmap, conn, held, freed, drawn>>
  BY <1>4 DEF ConnectReturns, V!ConnectReturns, V!rendererVars
<1>5. CASE ConnectFails
  BY <1>5 DEF ConnectFails, V!ConnectFails, V!rendererVars
<1>6. CASE SyncFlushes
  <2>1. /\ UNCHANGED <<held, freed>>
        /\ drawn' = IF window /\ held' # 0 THEN held' ELSE drawn
    BY <1>6 DEF SyncFlushes, V!SyncFlushes, V!lorie_renderer_damage_surface
  <2>2. /\ UNCHANGED <<events, delivered, surface, nextMem, pixmap>>
        /\ conn' = NULL \/ (UNCHANGED conn /\ UNCHANGED peer)
    BY <1>6 DEF SyncFlushes, Close, Bind
  <2> QED BY <2>1, <2>2
<1>7. CASE Deliver
  BY <1>7 DEF Deliver, Send, ownVars
<1>8. ASSUME NEW request \in Request, lorie_client_send(request)
      PROVE  UNCHANGED <<vars, pixmap, conn, held, freed, drawn>>
  BY <1>8 DEF lorie_client_send, V!lorie_client_send, V!SendRequest, V!rendererVars
<1>9. CASE lorie_client_destroy
  BY <1>1, <1>9 DEF lorie_client_destroy, V!lorie_client_destroy, V!rendererVars
<1>10. CASE ViewerDies
  BY <1>1, <1>10 DEF ViewerDies, ownVars
<1>11. CASE SyncExits
  BY <1>11 DEF SyncExits, V!SyncExits, V!rendererVars
<1> QED BY <1>2, <1>3, <1>4, <1>5, <1>6, <1>7, <1>8, <1>9, <1>10, <1>11
    DEF ViewerProcess, Sync

LEMMA QuietStep ==
  ASSUME LibraryInv, SessionInv, ViewerProcess, ~ SyncDispatches
  PROVE  /\ SessionInv' /\ drawn <= drawn'
         /\ UNCHANGED <<surface, nextMem, pixmap>>
<1>1. /\ UNCHANGED <<events, delivered, held, freed, surface, nextMem, pixmap>>
      /\ drawn' = drawn \/ (held # 0 /\ drawn' = held)
      /\ \/ conn' = NULL
         \/ UNCHANGED conn /\ UNCHANGED peer
         \/ conn' \in Conns /\ peer[conn'] = "unused" /\ peer'[conn'] = "open"
  BY QuietShape
<1>2. StreamInv'
  BY <1>1 DEF SessionInv, StreamInv, NewestIsSurface
<1>3. HeldInv' /\ drawn <= drawn'
  BY <1>1 DEF SessionInv, HeldInv
<1>4. ReadInv'
  <2>1. CASE conn' = NULL
    BY <2>1 DEF ReadInv
  <2>2. CASE UNCHANGED conn /\ UNCHANGED peer
    BY <1>1, <2>2 DEF SessionInv, ReadInv
  <2>3. CASE conn' \in Conns /\ peer[conn'] = "unused" /\ peer'[conn'] = "open"
    <3>1. handshake[conn'] = "none"
      BY <2>3 DEF LibraryInv, BufferInv, UnboundIsSilent
    <3>2. events[conn'] = <<>> /\ delivered[conn'] = NoBuffer
      BY <2>3, <3>1 DEF LibraryInv, BufferInv, UnboundIsSilent
    <3> QED BY <1>1, <2>3, <3>2 DEF ReadInv, NotBefore
  <2> QED BY <1>1, <2>1, <2>2, <2>3
<1> QED BY <1>1, <1>2, <1>3, <1>4 DEF SessionInv

LEMMA SessionStutter ==
  ASSUME SessionInv, UNCHANGED svars
  PROVE  SessionInv'
<1>1. /\ UNCHANGED <<events, delivered, held, freed, drawn, conn, peer>>
      /\ UNCHANGED <<surface, nextMem>>
  BY DEF svars, xvars, vars, memoryVars, viewerVars, sessionVars, ownVars
<1> QED BY <1>1
    DEF SessionInv, HeldInv, ReadInv, StreamInv, NewestIsSurface, Ordered, NotBefore

LEMMA SessionLibrary == SSpec => []LibraryInv
<1>1. XTypeOK => crtcMode \in Sizes
  BY DEF XTypeOK
<1> QED BY <1>1, SessionTyped, SessionIsDriver, DriverTypeCorrect, DriverUsesLibrary,
           BufferInvariance, ServedInvariance, PTL DEF LibraryInv, UsesLibraryCorrectly

LEMMA SessionInvariance == SSpec => []SessionInv
<1>1. LibraryInv /\ SessionInv /\ [SNext]_svars => SessionInv'
  BY ServerStep, ReadStep, QuietStep, SessionStutter DEF SNext
<1> QED BY <1>1, SessionInit, SessionLibrary, PTL DEF SSpec

-----------------------------------------------------------------------------
(* The viewer catches up *)

\* Once it has read everything, what the viewer holds is the buffer that X draws
\* into.
THEOREM ViewerCaughtUp == SSpec => []CaughtUp
<1>1. LibraryInv /\ SessionInv /\ PixmapIsSurface => CaughtUp
  <2> SUFFICES ASSUME LibraryInv, SessionInv, PixmapIsSurface,
                      conn # NULL, output_implementation = conn,
                      display = "up", surface # NoBuffer,
                      events[conn] = <<>>, delivered[conn] # NoBuffer, ~ freed
               PROVE  held \in {0, pixmap.mem}
    BY DEF CaughtUp
  <2>1. peer[conn] = "open" /\ held \in {0, delivered[conn].mem}
    BY DEF SessionInv, ReadInv
  <2>2. output_implementation \in clientList
    BY <2>1 DEF LibraryInv, ServedInv
  <2>3. EndsUpWith(conn, surface)
    BY <2>2 DEF LibraryInv, BufferInv, NewestBufferIsSurface
  <2>4. delivered[conn] = surface
    BY <2>3 DEF EndsUpWith
  <2> QED BY <2>1, <2>4 DEF PixmapIsSurface
<1> QED BY <1>1, SessionLibrary, SessionInvariance, SessionIsDriver,
           PixmapFollowsSurface, PTL

-----------------------------------------------------------------------------
(* The session implements the safety part of SharedScreen *)

LEMMA WatchingIsBoolean == Watching' \in BOOLEAN
  BY DEF Watching

LEMMA SharedStep ==
  ASSUME LibraryInv, SessionInv, SessionInv', PixmapIsSurface, PixmapIsSurface',
         [SNext]_svars
  PROVE  [Shared!Next]_(Shared!vars)
<1> DEFINE shownScreen == IF surface = NoBuffer THEN 0 ELSE pixmap.mem
<1>1. drawn \in Nat /\ drawn' \in Nat /\ drawn' < nextMem'
  BY DEF SessionInv, HeldInv
<1>2. nextMem \in Nat
  BY DEF LibraryInv, BufferInv, TypeOK, MemoryTypeOK
<1>3. CASE XorgProcess /\ UNCHANGED sessionVars
  <2>1. ScreenMoves /\ UNCHANGED drawn
    BY <1>3, ServerStep DEF sessionVars, ownVars
  <2>2. /\ surface # NoBuffer => pixmap = surface
        /\ surface' # NoBuffer => pixmap' = surface'
    BY DEF PixmapIsSurface
  <2>3. CASE UNCHANGED <<surface, nextMem>>
    <3>1. UNCHANGED <<nextMem, shownScreen, drawn>>
      BY <2>1, <2>2, <2>3
    <3> QED BY <3>1, WatchingIsBoolean DEF Shared!Next
  <2>4. CASE surface' = NoBuffer /\ UNCHANGED nextMem
    <3>1. shownScreen' = 0 /\ UNCHANGED <<nextMem, drawn>>
      BY <2>1, <2>4
    <3> QED BY <3>1, WatchingIsBoolean DEF Shared!Next, Shared!Drop
  <2>5. CASE surface' # NoBuffer /\ surface'.mem = nextMem /\ nextMem' = nextMem + 1
    <3>1. /\ shownScreen' = nextMem /\ nextMem' - 1 = nextMem - 1 + 1
          /\ nextMem' - 1 = nextMem /\ UNCHANGED drawn
      BY <1>2, <2>1, <2>2, <2>5
    <3> QED BY <3>1, WatchingIsBoolean DEF Shared!Next, Shared!Replace
  <2> QED BY <2>1, <2>3, <2>4, <2>5 DEF ScreenMoves
<1>4. CASE ViewerProcess
  <2>1. drawn <= drawn' /\ UNCHANGED <<surface, nextMem, pixmap>>
    BY <1>4, ReadStep, QuietStep
  <2>2. UNCHANGED <<nextMem, shownScreen>>
    BY <2>1
  <2>3. CASE drawn' = drawn
    BY <2>2, <2>3, WatchingIsBoolean DEF Shared!Next
  <2>4. CASE drawn' # drawn
    <3>1. drawn' \in (drawn + 1) .. (nextMem - 1)
      BY <1>1, <1>2, <2>1, <2>4
    <3> QED BY <2>2, <3>1, WatchingIsBoolean DEF Shared!Next, Shared!Show
  <2> QED BY <2>3, <2>4
<1>5. CASE UNCHANGED svars
  <2>1. UNCHANGED <<nextMem, surface, pixmap, drawn>>
    BY <1>5 DEF svars, xvars, vars, memoryVars, xorgVars, sizeVars, sessionVars, ownVars
  <2> QED BY <2>1, WatchingIsBoolean DEF Shared!Next
<1> QED BY <1>3, <1>4, <1>5 DEF SNext

\* The X server and a viewer that connects and reconnects share the screen: the
\* viewer draws one buffer of the screen after another, never an older one.
THEOREM SessionSharesScreen == SSpec => SharesScreenSafely
<1>1. SInit => Shared!Init
  BY DEF SInit, XInit, Init, V!Init, Shared!Init, Watching
<1> QED BY <1>1, SharedStep, SessionLibrary, SessionInvariance, SessionIsDriver,
           PixmapFollowsSurface, PTL DEF SSpec, SharesScreenSafely

-----------------------------------------------------------------------------
(* No other viewer: the one that is connected and bound is posted to *)

OnlyOpen == \A c \in Conns : peer[c] = "open" => c = conn

\* What the viewer's process does to the sockets.
LEMMA ViewerShape ==
  ASSUME SType, ViewerProcess
  PROVE  \/ UNCHANGED <<vars, conn>>
         \/ \E c \in Conns : Connect(c) /\ conn = NULL /\ conn' = c
         \/ /\ conn \in Conns /\ UNCHANGED conn
            /\ \/ Bind(conn) \/ Read(conn)
               \/ \E request \in Request : Send(conn, request)
         \/ conn \in Conns /\ conn' = NULL /\ Close(conn)
<1> USE DEF SType, xvars
<1>1. CASE HangUp
  BY <1>1 DEF HangUp
<1>2. ASSUME NEW c \in Conns, ConnectBegins(c)
      PROVE  Connect(c) /\ conn = NULL /\ conn' = c
  BY <1>2 DEF ConnectBegins
<1>3. CASE SyncFlushes
  <2>1. conn \in Conns
    BY <1>3 DEF SyncFlushes
  <2>2. \/ Close(conn) /\ conn' = NULL
        \/ Bind(conn) /\ UNCHANGED conn
        \/ UNCHANGED <<vars, conn>>
    BY <1>3 DEF SyncFlushes
  <2> QED BY <2>1, <2>2
<1>4. CASE Deliver
  <2>1. conn \in Conns /\ UNCHANGED conn /\ Head(outgoing) \in Request
    BY <1>4 DEF Deliver
  <2> QED BY <1>4, <2>1 DEF Deliver
<1> QED
  BY <1>1, <1>2, <1>3, <1>4
  DEF ViewerProcess, Sync, lorie_client_create, ConnectReturns, ConnectFails,
      SyncDispatches, SyncExits, lorie_client_send, lorie_client_destroy, ViewerDies

LEMMA SessionHeard ==
  ASSUME LibraryInv, NewestIsSurface, HeardInv, OnlyOpen, [SNext]_svars
  PROVE  HeardInv' /\ OnlyOpen'
<1>1. SType /\ BufferInv /\ TypeOK /\ peer \in [Conns -> {"unused", "open", "closed"}]
  BY DEF LibraryInv, BufferInv, TypeOK, ConnectionTypeOK
<1>2. CASE XorgProcess /\ UNCHANGED sessionVars
  <2>1. Embedder \/ (\E c \in Conns : Dispatch(c)) \/ UNCHANGED vars
    BY <1>1, <1>2, ProcessRefines DEF LibraryInv
  <2>2. UNCHANGED <<peer, conn>>
    BY <1>1, <1>2, <2>1, ServerShape DEF viewerVars, sessionVars
  <2>3. UNCHANGED vars => HeardInv'
    BY HeardKept DEF vars, serverVars, dispatchVars, viewerVars
  <2> QED BY <1>1, <2>1, <2>2, <2>3, EmbedderHeard, DispatchHeard DEF OnlyOpen
<1>3. CASE UNCHANGED <<vars, conn>>
  BY <1>3, HeardKept DEF vars, serverVars, dispatchVars, viewerVars, OnlyOpen
<1>4. ASSUME NEW c \in Conns, Connect(c), conn = NULL, conn' = c
      PROVE  HeardInv' /\ OnlyOpen'
  <2>1. \A d \in Conns : peer[d] # "open"
    BY <1>4, ConstantsAssumption DEF OnlyOpen
  <2>2. peer' = [peer EXCEPT ![c] = "open"]
    BY <1>4 DEF Connect
  <2> QED BY <1>1, <1>4, <2>1, <2>2, ViewerHeard DEF Viewer, OnlyOpen
<1>5. ASSUME conn \in Conns, UNCHANGED conn,
             \/ Bind(conn) \/ Read(conn)
             \/ \E request \in Request : Send(conn, request)
      PROVE  HeardInv' /\ OnlyOpen'
  <2>1. UNCHANGED peer
    BY <1>5 DEF Bind, Read, Send, viewerVars
  <2>2. ~ Connect(conn)
    BY <1>1, <1>5, <2>1 DEF Connect
  <2> QED BY <1>1, <1>5, <2>1, <2>2, ViewerHeard DEF Viewer, OnlyOpen
<1>6. ASSUME conn \in Conns, conn' = NULL, Close(conn)
      PROVE  HeardInv' /\ OnlyOpen'
  <2>1. peer[conn] = "open" /\ peer' = [peer EXCEPT ![conn] = "closed"]
    BY <1>6 DEF Close
  <2>2. ~ Connect(conn)
    BY <2>1 DEF Connect
  <2> QED BY <1>1, <1>6, <2>1, <2>2, ViewerHeard DEF Viewer, OnlyOpen
<1>7. CASE ViewerProcess
  BY <1>1, <1>3, <1>4, <1>5, <1>6, <1>7, ViewerShape
<1>8. CASE UNCHANGED svars
  BY <1>3, <1>8 DEF svars, xvars, sessionVars
<1> QED BY <1>2, <1>7, <1>8 DEF SNext

LEMMA SessionHeardInvariance == SSpec => [](HeardInv /\ OnlyOpen)
<1>1. SInit => HeardInv /\ OnlyOpen
  BY DEF SInit, XInit, Init, HeardInv, OneOpen, OneReady, ReadyIsLatest,
         ViewerIsHeard, OnlyOpen
<1>2. SessionInv => NewestIsSurface
  BY DEF SessionInv, StreamInv
<1> QED BY <1>1, <1>2, SessionHeard, SessionLibrary, SessionInvariance, PTL DEF SSpec

\* In the session nobody else is posted to, whatever MaxViewers is.
THEOREM SessionHeardViewer == SSpec => []ViewerIsHeard
<1>1. HeardInv => ViewerIsHeard
  BY DEF HeardInv
<1> QED BY <1>1, SessionHeardInvariance, PTL

\* Only drawing ends the X server on its own, and only on memory that is not mapped.
LEMMA DeathIsUnmapped ==
  ASSUME [SNext]_svars, screen # "dead", screen' = "dead"
  PROVE  pixmap.mem \notin mapped
<1>1. CASE XorgProcess
  BY <1>1
  DEF XorgProcess, DUMMYScreenInit, DUMMYCreateScreenResources, RRSetScreenSize,
      RRSetCrtcConfig, Draw, DUMMYBlockHandler, xorg_lorie_handle_event,
      DUMMYCloseScreen, DriverDispatch, xorg_lorie_resolution_change_handler
<1>2. CASE ViewerProcess
  BY <1>2
  DEF ViewerProcess, Sync, lorie_client_create, ConnectBegins, ConnectReturns,
      ConnectFails, SyncDispatches, SyncFlushes, SyncExits, Deliver, lorie_client_send,
      lorie_client_destroy, ViewerDies, HangUp, xorgVars, xvars
<1>3. CASE UNCHANGED svars
  BY <1>3 DEF svars, xvars, xorgVars
<1> QED BY <1>1, <1>2, <1>3 DEF SNext

\* While the viewer has bound and there is a screen, no step of either process
\* kills the X server: none posts through a dead pointer, and none draws on memory
\* that is not mapped.  (After a resize that failed there is no screen, and drawing
\* may: the X server's pixmap is then the old memory.)
THEOREM SessionSafeWhileBound == SSpec => BoundSessionIsSafe
<1>1. SInit => CrashInv
  BY DEF SInit, XInit, Init, CrashInv
<1>2. LibraryInv /\ [SNext]_svars => [Next]_vars
  BY SessionStep, StepRefines DEF LibraryInv, BufferInv
<1>3. LibraryInv /\ ViewerIsHeard /\ CrashInv /\ [SNext]_svars => CrashInv'
  BY <1>2, CrashStep DEF LibraryInv, BufferInv
<1>4. LibraryInv /\ ViewerIsHeard /\ CrashInv /\ PixmapIsSurface /\ MappingsAreBounded
        /\ [SNext]_svars
        => [(ViewerBound /\ surface # NoBuffer /\ screen # "dead")
              => display' # "crashed" /\ screen' # "dead"]_svars
  <2> SUFFICES ASSUME LibraryInv, ViewerIsHeard, CrashInv, PixmapIsSurface,
                      MappingsAreBounded, [SNext]_svars,
                      ViewerBound, surface # NoBuffer, screen # "dead"
               PROVE  display' # "crashed" /\ screen' # "dead"
    OBVIOUS
  <2>1. display' # "crashed"
    BY <1>2, BoundStepIsSafe DEF CrashInv
  <2>2. pixmap.mem \in mapped
    BY DEF PixmapIsSurface, MappingsAreBounded
  <2> QED BY <2>1, <2>2, DeathIsUnmapped
<1> QED BY <1>1, <1>3, <1>4, SessionHeardViewer, SessionLibrary, SessionIsDriver,
           PixmapFollowsSurface, DriverMappings, PTL
    DEF SSpec, BoundSessionIsSafe, ViewerBound

\* In the session, too, the X server watches exactly the sockets of its clients.
THEOREM SessionWatched == SSpec => []NotifyIsExact
  BY SessionIsDriver, WatchedExactly, PTL

-----------------------------------------------------------------------------
(* UpdateIsUnderWay: what the X server does to a request that it was sent *)

\* Posting a buffer leaves one to read at the connection that is posted to.
LEMMA PostAnnounces ==
  ASSUME TypeOK, NEW b \in Buffer \cup {NoBuffer}, PostIfAnyClient(BufferEvent(b)),
         NEW c \in Conns, c = output_implementation, c \in clientList
  PROVE  ~ NoBufferIn(events'[c])
<1> DEFINE e == events[c]
           f == Append(e, BufferEvent(b))
<1>1. events \in [Conns -> Seq(Event)]
  BY DEF TypeOK, StreamTypeOK
<1>2. events' = [events EXCEPT ![c] = f]
  BY DEF PostIfAnyClient, Post
<1>3. Len(f) = Len(e) + 1 /\ Len(e) \in Nat /\ f[Len(f)] = BufferEvent(b)
  BY <1>1, EventType
<1>4. Len(f) \in 1 .. Len(f) /\ events'[c] = f
  BY <1>1, <1>2, <1>3
<1> HIDE DEF f
<1>5. f[Len(f)].type = "buffer_change_fd"
  BY <1>3 DEF BufferEvent
<1> QED BY <1>4, <1>5 DEF NoBufferIn

LEMMA ResizeAnnounces ==
  ASSUME TypeOK, NEW size \in Sizes, ResizeImage(size),
         NEW c \in Conns, c = output_implementation, c \in clientList
  PROVE  surface' = NoBuffer \/ ~ NoBufferIn(events'[c])
<1>1. PICK new \in lorie_buffer_fd_create(size) :
        /\ surface' = new
        /\ IF new = NoBuffer THEN UNCHANGED <<display, events>>
                             ELSE PostIfAnyClient(BufferEvent(new))
  BY DEF ResizeImage
<1>2. new \in Buffer \cup {NoBuffer}
  BY CreateType DEF TypeOK, MemoryTypeOK
<1> QED BY <1>1, <1>2, PostAnnounces

LEMMA ResendAnnounces ==
  ASSUME TypeOK, SendCurrentBuffer,
         NEW c \in Conns, c = output_implementation, c \in clientList
  PROVE  surface' = NoBuffer \/ ~ NoBufferIn(events'[c])
<1>1. surface \in Buffer \cup {NoBuffer} /\ UNCHANGED surface
  BY DEF TypeOK, MemoryTypeOK, SendCurrentBuffer, memoryVars
<1> QED BY <1>1, PostAnnounces DEF SendCurrentBuffer

\* A stream that grows keeps its buffers.
LEMMA GrowKeepsBuffer ==
  ASSUME TypeOK, NEW c \in Conns, StreamGrows(c), NoBufferIn(events'[c])
  PROVE  NoBufferIn(events[c])
<1>1. events[c] \in Seq(Event)
  BY DEF TypeOK, StreamTypeOK
<1>2. CASE events'[c] = events[c]
  BY <1>2
<1>3. ASSUME NEW ev \in Event, events'[c] = Append(events[c], ev)
      PROVE  NoBufferIn(events[c])
  <2>1. /\ Len(events[c]) \in Nat /\ Len(events'[c]) = Len(events[c]) + 1
        /\ \A i \in 1 .. Len(events[c]) : events'[c][i] = events[c][i]
    BY <1>1, <1>3
  <2> QED BY <2>1 DEF NoBufferIn
<1> QED BY <1>2, <1>3 DEF StreamGrows

\* What becomes of the requests of a viewer c that stays: they wait, or the first
\* was input, or it is answered with the buffer that X draws into (if there is one).
Answered(c) == surface' = NoBuffer \/ ~ NoBufferIn(events'[c])

RequestsMove(c) ==
  \/ requests'[c] = requests[c]
  \/ /\ requests[c] # <<>> /\ Head(requests[c]).type = "input"
     /\ requests'[c] = Tail(requests[c])
  \/ handshake[c] = "bound" /\ Answered(c)

\* A viewer that has bound is told of every new buffer.
SurfaceMoves(c) ==
  handshake[c] = "bound" => UNCHANGED surface \/ Answered(c)

LEMMA DispatchAnswers ==
  ASSUME TypeOK, ViewerIsHeard, NEW d \in Conns, DriverDispatch(d),
         NEW c \in Conns, c \in clientList, c \in clientList', peer[c] = "open"
  PROVE  RequestsMove(c) /\ SurfaceMoves(c) /\ handshake'[c] \in {handshake[c], "bound"}
<1> USE DEF memoryVars, RequestsMove, SurfaceMoves, Answered
<1>1. /\ handshake \in [Conns -> {"none", "binding", "bound"}]
      /\ requests \in [Conns -> Seq(Request)]
      /\ surface \in Buffer \cup {NoBuffer}
      /\ handshake[c] = "bound" => c = output_implementation
  BY DEF TypeOK, ConnectionTypeOK, StreamTypeOK, MemoryTypeOK, ViewerIsHeard
<1>2. CASE DispatchAccept(d)
  BY <1>2 DEF DispatchAccept
<1>3. ASSUME wl_client_destroy({d}) PROVE requests'[c] = requests[c]
  BY <1>3 DEF wl_client_destroy
<1>4. CASE DispatchBind(d)
  <2>1. UNCHANGED surface
    BY <1>4 DEF DispatchBind
  <2>2. requests'[c] = requests[c]
    BY <1>3, <1>4 DEF DispatchBind
  <2>3. handshake' = [handshake EXCEPT ![d] = "bound"] \/ UNCHANGED handshake
    BY <1>4 DEF DispatchBind
  <2> QED BY <1>1, <2>1, <2>2, <2>3
<1>5. CASE DispatchHangup(d)
  BY <1>3, <1>5 DEF DispatchHangup
<1>6. ASSUME NEW type, TakeRequest(d, type)
      PROVE  /\ UNCHANGED handshake
             /\ d # c => requests'[c] = requests[c]
             /\ d = c => /\ handshake[c] = "bound" /\ requests[c] # <<>>
                         /\ Head(requests[c]).type = type
                         /\ requests'[c] = Tail(requests[c])
  BY <1>1, <1>6 DEF TakeRequest
<1>7. CASE DispatchInput(d)
  BY <1>6, <1>7 DEF DispatchInput
<1>8. CASE DispatchGetCurrentBuffer(d)
  <2>1. UNCHANGED surface /\ PostIfAnyClient(BufferEvent(surface))
    BY <1>8 DEF DispatchGetCurrentBuffer
  <2>2. d = c => Answered(c)
    BY <1>1, <1>6, <1>8, <2>1, PostAnnounces DEF DispatchGetCurrentBuffer
  <2> QED BY <1>6, <1>8, <2>1, <2>2 DEF DispatchGetCurrentBuffer
<1>9. CASE xorg_lorie_resolution_change_handler(d)
  <2>1. /\ TakeRequest(d, "resolution_change")
        /\ ReconfigureOrResend(Head(requests[d]).size)
    BY <1>9 DEF xorg_lorie_resolution_change_handler
  <2>2. ModeOf(Head(requests[d]).size) \in Sizes
    BY <2>1, RequestedSize, DriverAssumption
  <2>3. handshake[c] = "bound" => Answered(c)
    BY <1>1, <2>1, <2>2, ResizeAnnounces, ResendAnnounces
       DEF ReconfigureOrResend, Reconfigure
  <2> QED BY <1>6, <2>1, <2>3
<1> QED BY <1>2, <1>4, <1>5, <1>7, <1>8, <1>9 DEF DriverDispatch

LEMMA ServerAnswers ==
  ASSUME TypeOK, ViewerIsHeard, crtcMode \in Sizes, XorgProcess,
         NEW c \in Conns, c \in clientList, c \in clientList', peer[c] = "open"
  PROVE  RequestsMove(c) /\ SurfaceMoves(c) /\ handshake'[c] \in {handshake[c], "bound"}
<1>1. ASSUME UNCHANGED handshake, requests'[c] = requests[c],
             UNCHANGED surface \/ (handshake[c] = "bound" => Answered(c))
      PROVE  RequestsMove(c) /\ SurfaceMoves(c) /\ handshake'[c] \in {handshake[c], "bound"}
  BY <1>1 DEF RequestsMove, SurfaceMoves
<1> USE DEF memoryVars
<1>2. CASE UNCHANGED vars
  BY <1>1, <1>2 DEF vars
<1>3. CASE DUMMYScreenInit
  BY <1>1, <1>3 DEF DUMMYScreenInit, xorg_lorie_server_init, lorie_server_create
<1>4. ASSUME NEW size \in Sizes, lorie_server_resize_image(size)
      PROVE  RequestsMove(c) /\ SurfaceMoves(c) /\ handshake'[c] \in {handshake[c], "bound"}
  <2>1. UNCHANGED <<handshake, requests>> /\ ResizeImage(size)
    BY <1>4 DEF lorie_server_resize_image, CallUnchanged
  <2>2. handshake[c] = "bound" => Answered(c)
    BY <2>1, ResizeAnnounces DEF Answered, ViewerIsHeard
  <2> QED BY <1>1, <2>1, <2>2
<1>5. CASE DUMMYCreateScreenResources
  BY <1>2, <1>4, <1>5 DEF DUMMYCreateScreenResources, DUMMYCrtc_resize
<1>6. ASSUME NEW size \in Sizes, RRSetScreenSize(size)
      PROVE  RequestsMove(c) /\ SurfaceMoves(c) /\ handshake'[c] \in {handshake[c], "bound"}
  BY <1>2, <1>4, <1>6 DEF RRSetScreenSize, DUMMYCrtc_resize
<1>11. ASSUME NEW mode \in Modes, RRSetCrtcConfig(mode) PROVE UNCHANGED vars
  BY <1>11 DEF RRSetCrtcConfig
<1>7. ASSUME NEW cell \in Cells, Draw(cell) PROVE UNCHANGED vars
  BY <1>7 DEF Draw
<1>8. CASE DUMMYBlockHandler
  <2>1. CASE lorie_server_send_damage(damage')
    BY <1>1, <2>1 DEF lorie_server_send_damage, CallUnchanged
  <2> QED BY <1>2, <1>8, <2>1 DEF DUMMYBlockHandler
<1>9. CASE xorg_lorie_handle_event
  <2>1. /\ wl_client_destroy(Unreachable) /\ UNCHANGED <<surface, handshake>>
    BY <1>9 DEF xorg_lorie_handle_event, lorie_server_process
  <2>2. requests'[c] = requests[c]
    BY <2>1 DEF wl_client_destroy
  <2> QED BY <1>1, <2>1, <2>2
<1>10. CASE DUMMYCloseScreen
  <2>1. ~ lorie_server_destroy
    BY DEF lorie_server_destroy
  <2> QED BY <1>2, <1>10, <2>1 DEF DUMMYCloseScreen
<1> QED
  BY <1>2, <1>3, <1>5, <1>6, <1>7, <1>8, <1>9, <1>10, <1>11, DispatchAnswers
  DEF XorgProcess

-----------------------------------------------------------------------------
(* A viewer that was not given a buffer has asked for one *)

Asks(q) == \E i \in 1 .. Len(q) : q[i].type # "input"

Asking == Asks(outgoing) \/ Asks(requests[conn])

\* A connection waits for its acceptance no longer than the viewer waits for its
\* roundtrip; and after that, as long as the viewer has not bound or was given no
\* buffer, its first resolution_change (or a later request) is still to be answered.
AskedInv ==
  /\ conn \in backlog /\ ~ Gone => connecting
  /\ conn \in clientList /\ ~ Gone /\ ~ connecting =>
       /\ handshake[conn] # "bound" => Asking
       /\ surface # NoBuffer /\ NoBufferIn(events[conn]) /\ delivered[conn] = NoBuffer
            => Asking

LEMMA AppendAsks ==
  ASSUME NEW q \in Seq(Request), NEW r \in Request
  PROVE  /\ Asks(q) => Asks(Append(q, r))
         /\ r.type # "input" => Asks(Append(q, r))
<1> DEFINE f == Append(q, r)
<1>1. /\ Len(q) \in Nat /\ Len(f) = Len(q) + 1 /\ f[Len(q) + 1] = r
      /\ \A i \in 1 .. Len(q) : f[i] = q[i] /\ i \in 1 .. Len(f)
  OBVIOUS
<1> HIDE DEF f
<1>2. Len(q) + 1 \in 1 .. Len(f)
  BY <1>1
<1>3. (Asks(q) => Asks(f)) /\ (r.type # "input" => Asks(f))
  BY <1>1, <1>2 DEF Asks
<1> QED BY <1>3 DEF f

LEMMA TailAsks ==
  ASSUME NEW q \in Seq(Request), q # <<>>, Asks(q), Head(q).type = "input"
  PROVE  Asks(Tail(q))
<1> DEFINE f == Tail(q)
<1>1. /\ Len(q) \in Nat /\ Len(f) = Len(q) - 1 /\ q[1].type = "input"
      /\ \A i \in 1 .. Len(f) : f[i] = q[i + 1]
  OBVIOUS
<1> HIDE DEF f
<1>2. PICK i \in 1 .. Len(q) : q[i].type # "input"
  BY DEF Asks
<1>3. i - 1 \in 1 .. Len(f) /\ f[i - 1] = q[i]
  BY <1>1, <1>2
<1>4. Asks(f)
  BY <1>2, <1>3 DEF Asks
<1> QED BY <1>4 DEF f

\* Connections are accepted out of the backlog, and nothing revives a process.
LEMMA LibraryComes ==
  ASSUME Embedder \/ (\E c \in Conns : Dispatch(c)) \/ UNCHANGED vars
  PROVE  /\ clientList' \subseteq clientList \cup backlog
         /\ backlog' \subseteq backlog
         /\ display = "crashed" => display' = "crashed"
<1> USE DEF vars
<1>1. CASE Embedder
  BY <1>1
  DEF Embedder, EmbedderRuns, CallUnchanged, wl_client_destroy, lorie_server_create,
      lorie_server_resize_image, lorie_server_send_current_buffer,
      lorie_server_send_damage, lorie_server_process, lorie_server_destroy
<1>2. ASSUME NEW c \in Conns, Dispatch(c)
      PROVE  /\ clientList' \subseteq clientList \cup backlog
             /\ backlog' \subseteq backlog
             /\ display = "up"
  BY <1>2
  DEF Dispatch, DispatchAccept, DispatchBind, DispatchInput, DispatchGetCurrentBuffer,
      DispatchResolutionChange, DispatchHangup, TakeRequest, wl_client_destroy
<1> QED BY <1>1, <1>2

LEMMA DeadStaysDead ==
  ASSUME XorgProcess, screen = "dead"
  PROVE  screen' = "dead"
  BY DEF XorgProcess, MainLoop, DUMMYScreenInit, DUMMYCreateScreenResources,
         RRSetScreenSize, RRSetCrtcConfig, Draw, DUMMYBlockHandler, xorg_lorie_handle_event,
         DUMMYCloseScreen, DriverDispatch, xorg_lorie_resolution_change_handler

LEMMA ServerAsked ==
  ASSUME LibraryInv, SessionInv, HeardInv, AskedInv, XorgProcess, UNCHANGED sessionVars
  PROVE  AskedInv'
<1>1. /\ TypeOK /\ NewestIsSurface /\ ViewerIsHeard /\ crtcMode \in Sizes
      /\ conn \in Conns \cup {NULL} /\ NULL \notin Conns
      /\ conn # NULL => peer[conn] = "open"
      /\ clientList \subseteq Conns /\ backlog \subseteq Conns \ clientList
      /\ requests \in [Conns -> Seq(Request)]
  BY ConstantsAssumption
  DEF LibraryInv, SType, BufferInv, TypeOK, ConnectionTypeOK, StreamTypeOK,
      SessionInv, StreamInv, ReadInv, HeardInv
<1>2. Embedder \/ (\E c \in Conns : Dispatch(c)) \/ UNCHANGED vars
  BY <1>1, ProcessRefines
<1>3. /\ clientList' \subseteq clientList \cup backlog
      /\ backlog' \subseteq backlog
      /\ Gone /\ conn \in clientList \cup backlog => Gone'
  BY <1>2, LibraryComes, DeadStaysDead DEF Gone, sessionVars
<1>4. UNCHANGED <<conn, outgoing, connecting, delivered, peer>>
  BY <1>1, <1>2, ServerShape DEF sessionVars, ownVars, viewerVars
<1>5. conn \in Conns => StreamGrows(conn)
  BY <1>1, <1>2, ServerShape
<1>6. conn \in backlog' /\ ~ Gone' => connecting'
  BY <1>3, <1>4 DEF AskedInv
<1>7. ASSUME conn \in clientList', ~ Gone', ~ connecting'
      PROVE  /\ handshake'[conn] # "bound" => Asking'
             /\ surface' # NoBuffer /\ NoBufferIn(events'[conn]) /\ delivered'[conn] = NoBuffer
                  => Asking'
  <2>1. ~ Gone /\ conn \in clientList /\ conn \in Conns /\ peer[conn] = "open"
    BY <1>1, <1>3, <1>4, <1>7 DEF AskedInv
  <2>2. /\ RequestsMove(conn) /\ SurfaceMoves(conn)
        /\ handshake'[conn] \in {handshake[conn], "bound"}
    BY <1>1, <1>7, <2>1, ServerAnswers
  <2>3. Asking => Asking' \/ (handshake[conn] = "bound" /\ Answered(conn))
    <3>1. CASE requests'[conn] = requests[conn]
      BY <1>4, <3>1 DEF Asking
    <3>2. CASE /\ requests[conn] # <<>> /\ Head(requests[conn]).type = "input"
               /\ requests'[conn] = Tail(requests[conn])
      <4>1. requests[conn] \in Seq(Request)
        BY <1>1, <2>1
      <4> QED BY <1>4, <3>2, <4>1, TailAsks DEF Asking
    <3> QED BY <2>2, <3>1, <3>2 DEF RequestsMove
  <2>4. handshake[conn] # "bound" => Asking
    BY <1>4, <1>7, <2>1 DEF AskedInv
  <2>5. ASSUME handshake'[conn] # "bound" PROVE Asking'
    BY <2>2, <2>3, <2>4, <2>5
  <2>6. ASSUME surface' # NoBuffer, NoBufferIn(events'[conn]), delivered'[conn] = NoBuffer
        PROVE  Asking'
    <3>1. ~ Answered(conn)
      BY <2>6 DEF Answered
    <3>2. NoBufferIn(events[conn]) /\ delivered[conn] = NoBuffer
      BY <1>1, <1>4, <1>5, <2>1, <2>6, GrowKeepsBuffer
    <3>3. CASE handshake[conn] = "bound"
      BY <1>4, <1>7, <2>1, <2>2, <2>3, <2>6, <3>1, <3>2, <3>3 DEF SurfaceMoves, AskedInv
    <3>4. CASE handshake[conn] # "bound"
      BY <2>3, <2>4, <3>4
    <3> QED BY <3>3, <3>4
  <2> QED BY <2>5, <2>6
<1> QED BY <1>4, <1>6, <1>7 DEF AskedInv

\* What the viewer asked for, and what it was given, it does not forget.
LEMMA AskedKept ==
  ASSUME AskedInv, Asking => Asking',
         UNCHANGED <<conn, connecting, backlog, clientList, display, screen, surface>>,
         handshake'[conn] = handshake[conn] \/ Asking,
         UNCHANGED events, UNCHANGED delivered
  PROVE  AskedInv'
<1>1. Gone' <=> Gone
  BY DEF Gone
<1> QED BY <1>1 DEF AskedInv

\* The buffer that a viewer reads last of all is the surface.
LEMMA ReadAsked ==
  ASSUME LibraryInv, HeardInv, AskedInv, SyncDispatches
  PROVE  AskedInv'
<1>1. /\ TypeOK /\ UnboundIsSilent /\ NewestBufferIsSurface /\ NoServerNoSurface
      /\ ViewerIsHeard
  BY DEF LibraryInv, BufferInv, HeardInv
<1>2. /\ conn \in Conns /\ UNCHANGED conn /\ Read(conn) /\ events[conn] # <<>>
  BY ReadShape
<1>3. UNCHANGED <<outgoing, connecting, screen, requests, backlog, clientList, display,
                  surface, handshake>>
  BY <1>2 DEF SyncDispatches, V!SyncDispatches, xorgVars, Read, libraryVars, memoryVars
<1>4. /\ events[conn] \in Seq(Event) /\ peer[conn] = "open"
      /\ events'[conn] = Tail(events[conn])
      /\ delivered'[conn] = IF Head(events[conn]).type = "buffer_change_fd"
                              THEN Head(events[conn]).buffer ELSE delivered[conn]
  BY <1>1, <1>2 DEF Read, TypeOK, StreamTypeOK
<1>5. (Asking' <=> Asking) /\ (Gone' <=> Gone)
  BY <1>2, <1>3 DEF Asking, Gone
<1>6. ASSUME conn \in clientList, ~ Gone, ~ connecting, surface # NoBuffer,
             NoBufferIn(Tail(events[conn])), delivered'[conn] = NoBuffer
      PROVE  Asking
  <2> DEFINE e == events[conn]
             f == Tail(e)
  <2>1. /\ handshake[conn] = "bound" /\ output_implementation = conn
    BY <1>1, <1>2, <1>4, <1>6 DEF UnboundIsSilent, ViewerIsHeard
  <2>2. display = "up"
    BY <1>1, <1>6 DEF Gone, NoServerNoSurface, TypeOK, MemoryTypeOK
  <2>3. UpToDate(e, delivered[conn], surface)
    BY <1>1, <1>6, <2>1, <2>2, NewestAsUpToDate
  <2>4. /\ Len(e) \in Nat /\ Len(f) = Len(e) - 1 /\ Head(e) = e[1]
        /\ \A i \in 1 .. Len(f) : f[i] = e[i + 1]
    BY <1>2, <1>4
  <2> HIDE DEF e, f
  <2>5. \A i \in 1 .. Len(e) : i # 1 => e[i].type # "buffer_change_fd"
    <3>1. \A i \in 1 .. Len(e) : i # 1 => i - 1 \in 1 .. Len(f) /\ e[i] = f[i - 1]
      BY <2>4
    <3> QED BY <1>6, <3>1 DEF NoBufferIn, f, e
  <2>6. CASE Head(e).type = "buffer_change_fd"
    <3>1. ~ NoBufferIn(e)
      <4>1. 1 \in 1 .. Len(e)
        BY <1>2, <1>4 DEF e
      <4> QED BY <2>4, <2>6, <4>1 DEF NoBufferIn
    <3>2. Head(e) = BufferEvent(surface)
      <4>1. \A i \in 1 .. Len(e) : e[i] = BufferEvent(surface) => i = 1
        BY <2>5 DEF BufferEvent
      <4> QED BY <2>3, <2>4, <3>1, <4>1 DEF UpToDate
    <3>3. delivered'[conn] = surface
      BY <1>4, <2>6, <3>2 DEF BufferEvent, e
    <3> QED BY <1>6, <3>3
  <2>7. CASE Head(e).type # "buffer_change_fd"
    <3>1. delivered[conn] = NoBuffer
      BY <1>4, <1>6, <2>7 DEF e
    <3>2. NoBufferIn(e)
      BY <2>4, <2>5, <2>7 DEF NoBufferIn
    <3> QED BY <1>6, <3>1, <3>2 DEF AskedInv, e
  <2> QED BY <2>6, <2>7
<1> QED BY <1>2, <1>3, <1>4, <1>5, <1>6 DEF AskedInv

\* All its other steps read nothing.
LEMMA QuietAsked ==
  ASSUME LibraryInv, AskedInv, ViewerProcess, ~ SyncDispatches
  PROVE  AskedInv'
<1>1. /\ SType /\ conn \in Conns \cup {NULL} /\ NULL \notin Conns
      /\ outgoing \in Seq(Request) /\ requests \in [Conns -> Seq(Request)]
      /\ clientList \subseteq Conns /\ backlog \subseteq Conns \ clientList
      /\ handshake \in [Conns -> {"none", "binding", "bound"}]
  BY ConstantsAssumption
  DEF LibraryInv, SType, BufferInv, TypeOK, ConnectionTypeOK, StreamTypeOK
<1>2. UNCHANGED <<events, delivered, surface>>
  BY QuietShape
<1>3. ASSUME HangUp PROVE AskedInv'
  <2>1. conn' = NULL /\ UNCHANGED <<clientList, backlog>>
    BY <1>3 DEF HangUp, Close, vars
  <2> QED BY <1>1, <2>1 DEF AskedInv
<1>4. CASE lorie_client_create
  <2>1. UNCHANGED <<xvars, conn, outgoing, connecting>>
    BY <1>4 DEF lorie_client_create, V!lorie_client_create
  <2> QED BY <2>1, AskedKept DEF xvars, vars, xorgVars, memoryVars, viewerVars, Asking
<1>5. ASSUME NEW c \in Conns, ConnectBegins(c) PROVE AskedInv'
  <2>1. connecting' = TRUE
    BY <1>5 DEF ConnectBegins, V!ConnectBegins
  <2> QED BY <2>1 DEF AskedInv
<1>6. ASSUME NEW size \in Sizes, ConnectReturns(size) PROVE AskedInv'
  <2>1. /\ conn \in clientList /\ UNCHANGED <<xvars, conn>>
        /\ outgoing' = <<[type |-> "resolution_change", size |-> size]>>
    BY <1>6 DEF ConnectReturns
  <2>2. Asks(outgoing') /\ conn' \notin backlog'
    BY <1>1, <2>1 DEF Asks, xvars, vars
  <2> QED BY <2>2 DEF AskedInv, Asking
<1>7. CASE ConnectFails
  <2>1. UNCHANGED <<xvars, conn>> /\ Link = "eof"
    BY <1>7 DEF ConnectFails, V!ConnectFails
  <2>2. Gone
    BY <2>1 DEF Link
  <2>3. Gone'
    BY <2>1, <2>2 DEF Gone, xvars, vars, xorgVars
  <2> QED BY <2>3 DEF AskedInv
<1>8. CASE SyncFlushes
  <2>1. UNCHANGED <<xorgVars, connecting>> /\ conn \in Conns /\ ~ connecting
    BY <1>1, <1>8 DEF SyncFlushes, V!SyncFlushes, V!HostRuns
  <2>2. CASE Close(conn) /\ conn' = NULL
    <3>1. UNCHANGED <<clientList, backlog>>
      BY <2>2 DEF Close
    <3> QED BY <1>1, <2>2, <3>1 DEF AskedInv
  <2>3. CASE Bind(conn) /\ UNCHANGED <<conn, outgoing>>
    <3>1. /\ conn \in clientList /\ handshake[conn] = "none"
          /\ UNCHANGED <<conn, outgoing, requests, backlog, clientList, display>>
      BY <2>3 DEF Bind, libraryVars
    <3>2. Asking' <=> Asking
      BY <3>1 DEF Asking
    <3>3. Gone' <=> Gone
      BY <2>1, <3>1 DEF Gone, xorgVars
    <3> QED BY <1>1, <1>2, <2>1, <3>1, <3>2, <3>3 DEF AskedInv
  <2>4. CASE UNCHANGED <<vars, conn, outgoing>>
    BY <2>1, <2>4, AskedKept DEF vars, xorgVars, memoryVars, viewerVars, Asking
  <2> QED BY <1>8, <2>2, <2>3, <2>4 DEF SyncFlushes
<1>9. CASE Deliver
  <2>1. /\ conn \in Conns /\ outgoing # <<>> /\ outgoing' = Tail(outgoing)
        /\ Send(conn, Head(outgoing))
        /\ UNCHANGED <<xorgVars, conn, connecting>>
    BY <1>1, <1>9 DEF Deliver, ownVars
  <2>2. /\ requests'[conn] = Append(requests[conn], Head(outgoing))
        /\ UNCHANGED <<backlog, clientList, display, handshake>>
    BY <1>1, <2>1 DEF Send, libraryVars
  <2>3. Head(outgoing) \in Request /\ requests[conn] \in Seq(Request)
    BY <1>1, <2>1
  <2>4. Asking => Asking'
    BY <1>1, <2>1, <2>2, <2>3, AppendAsks, TailAsks DEF Asking
  <2> QED BY <1>2, <2>1, <2>2, <2>4, AskedKept DEF xorgVars
<1>10. ASSUME NEW request \in Request, lorie_client_send(request) PROVE AskedInv'
  <2>1. /\ UNCHANGED <<xvars, conn, connecting>>
        /\ outgoing' \in {outgoing, Append(outgoing, request)}
    BY <1>10 DEF lorie_client_send, V!lorie_client_send, V!SendRequest
  <2>2. Asking => Asking'
    BY <1>1, <2>1, AppendAsks DEF Asking, xvars, vars
  <2> QED BY <2>1, <2>2, AskedKept DEF xvars, vars, xorgVars, memoryVars, viewerVars
<1>11. CASE SyncExits
  <2>1. UNCHANGED <<xvars, conn, outgoing, connecting>>
    BY <1>11 DEF SyncExits, V!SyncExits, V!clientVars
  <2> QED BY <2>1, AskedKept DEF xvars, vars, xorgVars, memoryVars, viewerVars, Asking
<1> QED
  BY <1>3, <1>4, <1>5, <1>6, <1>7, <1>8, <1>9, <1>10, <1>11
  DEF ViewerProcess, Sync, lorie_client_destroy, ViewerDies

LEMMA SessionAsked == SSpec => []AskedInv
<1>1. SInit => AskedInv
  BY DEF SInit, XInit, Init, AskedInv
<1>2. AskedInv /\ UNCHANGED svars => AskedInv'
  BY AskedKept DEF svars, xvars, vars, xorgVars, memoryVars, viewerVars, sessionVars,
                   ownVars, Asking
<1>3. LibraryInv /\ SessionInv /\ HeardInv /\ AskedInv /\ [SNext]_svars => AskedInv'
  BY <1>2, ServerAsked, ReadAsked, QuietAsked DEF SNext
<1> QED BY <1>1, <1>3, SessionLibrary, SessionInvariance, SessionHeardInvariance,
           PTL DEF SSpec

-----------------------------------------------------------------------------
(* What was delivered is held and shown *)

\* With a window what the viewer holds is drawn; and it holds the usable buffer
\* that was delivered last, unless it could not be mapped (for want of memory, or
\* because destroying a stale pointer closed its descriptor).
ShownInv ==
  /\ client = "alive" => window
  /\ held # 0 => drawn = held
  /\ conn # NULL /\ delivered[conn].width > 0 /\ delivered[conn].height > 0
       => held = delivered[conn].mem \/ (held = 0 /\ (AllocFails \/ drawn # 0))

\* A buffer that is created is not empty.
SizedInv == surface.width > 0 => surface.height > 0

LEMMA CreateSized ==
  ASSUME NEW size \in Sizes, NEW new \in lorie_buffer_fd_create(size), new.width > 0
  PROVE  new.height > 0
<1>1. /\ new = [mem |-> nextMem, width |-> size.width, height |-> size.height]
      /\ size.width * size.height * 4 > 0
  BY DEF lorie_buffer_fd_create, ByteSize, NoBuffer
<1>2. \A w, h \in Int : w > 0 /\ w * h * 4 > 0 => h > 0
  OBVIOUS
<1>3. size.width \in Int /\ size.height \in Int
  BY ConstantsAssumption
<1>4. new.width = size.width /\ new.height = size.height
  BY <1>1
<1> QED BY <1>1, <1>2, <1>3, <1>4

LEMMA SizedStep == SizedInv /\ [Next]_vars => SizedInv'
<1> SUFFICES ASSUME SizedInv, [Next]_vars PROVE SizedInv'
  OBVIOUS
<1> USE DEF memoryVars, libraryVars
<1>1. CASE UNCHANGED surface
  BY <1>1 DEF SizedInv
<1>2. ASSUME NEW size \in Sizes, ResizeImage(size) PROVE SizedInv'
  <2>1. surface' \in lorie_buffer_fd_create(size)
    BY <1>2 DEF ResizeImage
  <2> QED BY <2>1, CreateSized DEF SizedInv
<1>3. CASE Embedder
  BY <1>1, <1>2, <1>3
  DEF Embedder, lorie_server_create, lorie_server_resize_image,
      lorie_server_send_current_buffer, SendCurrentBuffer, lorie_server_send_damage,
      lorie_server_process, lorie_server_destroy, SizedInv, NoBuffer
<1>4. ASSUME NEW c \in Conns, Dispatch(c) PROVE SizedInv'
  BY <1>1, <1>2, <1>4
  DEF Dispatch, DispatchAccept, DispatchBind, DispatchInput, DispatchGetCurrentBuffer,
      DispatchResolutionChange, SendCurrentBuffer, DispatchHangup
<1>5. ASSUME NEW c \in Conns, Viewer(c) PROVE SizedInv'
  BY <1>1, <1>5 DEF Viewer, Connect, Bind, Send, Read, Close
<1>6. CASE UNCHANGED vars
  BY <1>1, <1>6 DEF vars
<1> QED BY <1>3, <1>4, <1>5, <1>6 DEF Next

LEMMA SizedInvariance == Spec => []SizedInv
<1>1. Init => SizedInv
  BY DEF Init, SizedInv, NoBuffer
<1> QED BY <1>1, SizedStep, PTL DEF Spec

LEMMA ReadShown ==
  ASSUME LibraryInv, ShownInv, SyncDispatches
  PROVE  ShownInv'
<1> DEFINE e == events[conn][1]
<1>1. /\ conn \in Conns /\ UNCHANGED conn /\ Read(conn) /\ events[conn] # <<>>
      /\ \/ /\ e.type = "buffer_change_fd"
            /\ \/ held' = held
                  /\ ~ (e.buffer.width > 0 /\ e.buffer.height > 0)
               \/ held' = e.buffer.mem \/ (held' = 0 /\ (AllocFails \/ held # 0))
         \/ e.type # "buffer_change_fd" /\ UNCHANGED held
      /\ drawn' = IF window /\ held' # 0 THEN held' ELSE drawn
  BY ReadShape
<1>2. /\ events[conn] \in Seq(Event) /\ Head(events[conn]) = e
      /\ delivered'[conn] = IF e.type = "buffer_change_fd" THEN e.buffer ELSE delivered[conn]
  BY <1>1 DEF Read, LibraryInv, BufferInv, TypeOK, StreamTypeOK
<1>3. client = "alive" /\ UNCHANGED <<client, window>>
  BY DEF SyncDispatches, V!SyncDispatches, V!HostRuns
<1>4. window /\ drawn' = IF held' # 0 THEN held' ELSE drawn
  BY <1>1, <1>3 DEF ShownInv
<1>5. conn # NULL
  BY <1>1, ConstantsAssumption
<1> HIDE DEF e
<1>6. ASSUME delivered'[conn].width > 0, delivered'[conn].height > 0
      PROVE  \/ held' = delivered'[conn].mem
             \/ held' = 0 /\ (AllocFails \/ drawn' # 0)
  <2>1. CASE e.type = "buffer_change_fd"
    <3>1. e.buffer.width > 0 /\ e.buffer.height > 0
      BY <1>2, <1>6, <2>1
    <3>2. held' = e.buffer.mem \/ (held' = 0 /\ (AllocFails \/ held # 0))
      BY <1>1, <2>1, <3>1
    <3>3. held # 0 => drawn = held
      BY DEF ShownInv
    <3> QED BY <1>2, <1>4, <2>1, <3>2, <3>3
  <2>2. CASE e.type # "buffer_change_fd"
    <3>1. UNCHANGED held /\ delivered'[conn] = delivered[conn]
      BY <1>1, <1>2, <2>2
    <3> QED BY <1>4, <1>5, <1>6, <3>1 DEF ShownInv
  <2> QED BY <2>1, <2>2
<1> QED BY <1>1, <1>3, <1>4, <1>6 DEF ShownInv

LEMMA QuietShown ==
  ASSUME LibraryInv, ShownInv, ViewerProcess, ~ SyncDispatches
  PROVE  ShownInv'
<1>1. /\ UNCHANGED <<delivered, held>>
      /\ drawn' = drawn \/ (held # 0 /\ drawn' = held)
      /\ conn' \in {conn, NULL} \/ (conn' \in Conns /\ peer[conn'] = "unused")
  BY QuietShape
<1>2. client' = "alive" => window'
  <2>1. CASE lorie_client_create
    BY <2>1 DEF lorie_client_create, V!lorie_client_create, ShownInv
  <2>2. CASE lorie_client_destroy
    BY <2>2 DEF lorie_client_destroy, V!lorie_client_destroy
  <2>3. CASE UNCHANGED <<client, window>>
    BY <2>3 DEF ShownInv
  <2> QED BY <2>1, <2>2, <2>3
      DEF ViewerProcess, Sync, ConnectBegins, ConnectReturns, ConnectFails, SyncFlushes,
          Deliver, lorie_client_send, ViewerDies, ownVars, V!ConnectBegins,
          V!ConnectReturns, V!ConnectFails, V!SyncFlushes, V!lorie_client_send,
          V!SendRequest, V!rendererVars, SyncExits, V!SyncExits, V!clientVars
<1>3. held # 0 => drawn = held
  BY DEF ShownInv
<1>4. ASSUME conn' \in Conns, peer[conn'] = "unused" PROVE delivered[conn'] = NoBuffer
  <2>1. handshake[conn'] = "none"
    BY <1>4 DEF LibraryInv, BufferInv, UnboundIsSilent
  <2> QED BY <1>4, <2>1 DEF LibraryInv, BufferInv, UnboundIsSilent
<1> QED BY <1>1, <1>2, <1>3, <1>4 DEF ShownInv, NoBuffer

LEMMA SessionShown == SSpec => []ShownInv
<1>1. SInit => ShownInv
  BY DEF SInit, V!Init, ShownInv
<1>2. UNCHANGED <<sessionVars, delivered>> /\ ShownInv => ShownInv'
  BY DEF sessionVars, ownVars, ShownInv
<1>3. LibraryInv /\ SessionInv /\ ShownInv /\ [SNext]_svars => ShownInv'
  <2> SUFFICES ASSUME LibraryInv, SessionInv, ShownInv, [SNext]_svars PROVE ShownInv'
    OBVIOUS
  <2>1. CASE XorgProcess /\ UNCHANGED sessionVars
    <3>1. TypeOK /\ NewestIsSurface /\ crtcMode \in Sizes
      BY DEF LibraryInv, BufferInv, SessionInv, StreamInv
    <3>2. Embedder \/ (\E c \in Conns : Dispatch(c)) \/ UNCHANGED vars
      BY <2>1, <3>1, ProcessRefines
    <3>3. UNCHANGED delivered
      BY <3>1, <3>2, ServerShape DEF viewerVars
    <3> QED BY <1>2, <2>1, <3>3
  <2>2. CASE ViewerProcess
    BY <2>2, ReadShown, QuietShown
  <2>3. CASE UNCHANGED svars
    BY <1>2, <2>3 DEF svars, xvars, vars, viewerVars
  <2> QED BY <2>1, <2>2, <2>3 DEF SNext
<1> QED BY <1>1, <1>3, SessionLibrary, SessionInvariance, PTL DEF SSpec

\* The viewer watches and does not show the X screen: then it has asked, was
\* answered, or could not map the answer.
THEOREM SessionUpdates == SSpec => []UpdateIsUnderWay
<1>1. /\ LibraryInv /\ SessionInv /\ HeardInv /\ AskedInv /\ ShownInv /\ SizedInv
      /\ PixmapIsSurface
      => UpdateIsUnderWay
  <2> SUFFICES ASSUME LibraryInv, SessionInv, HeardInv, AskedInv, ShownInv, SizedInv,
                      PixmapIsSurface, Watching, surface.width > 0, ~ UnderWay,
                      ~ (AllocFails /\ held = 0)
               PROVE  drawn = pixmap.mem
    BY DEF UpdateIsUnderWay
  <2>1. /\ conn \in clientList /\ conn \in Conns /\ conn # NULL /\ peer[conn] = "open"
        /\ ~ connecting /\ display = "up" /\ ~ Gone
    BY ConstantsAssumption
    DEF Watching, LibraryInv, SType, BufferInv, TypeOK, ConnectionTypeOK, SessionInv,
        ReadInv, Gone
  <2>2. /\ NoBufferUnread(conn) /\ NoBufferIn(events[conn]) /\ ~ Asking
    BY DEF UnderWay, NoBufferUnread, BufferEventAt, NoBufferIn, Asking, Asks
  <2>3. output_implementation = conn
    BY <2>1, <2>2 DEF AskedInv, HeardInv, ViewerIsHeard
  <2>4. surface # NoBuffer /\ delivered[conn] # NoBuffer
    BY <2>1, <2>2 DEF AskedInv, NoBuffer
  <2>5. EndsUpWith(conn, surface)
    BY <2>1, <2>3, <2>4 DEF LibraryInv, BufferInv, NewestBufferIsSurface
  <2>6. delivered[conn] = surface
    <3>1. \A i \in 1 .. Len(events[conn]) : events[conn][i] # BufferEvent(surface)
      BY <2>2 DEF NoBufferIn, BufferEvent
    <3> QED BY <2>5, <3>1 DEF EndsUpWith
  <2>7. held = surface.mem \/ (held = 0 /\ drawn # 0)
    BY <2>1, <2>6 DEF ShownInv, SizedInv
  <2>8. held # 0 /\ held = surface.mem
    <3>1. surface \in Buffer
      BY <2>4 DEF LibraryInv, BufferInv, TypeOK, MemoryTypeOK
    <3> QED BY <2>7, <3>1 DEF Watching, Buffer
  <2> QED BY <2>4, <2>8 DEF ShownInv, PixmapIsSurface
<1> QED BY <1>1, SessionLibrary, SessionInvariance, SessionHeardInvariance, SessionAsked,
           SessionShown, SessionIsDriver, DriverUsesLibrary, SizedInvariance,
           PixmapFollowsSurface, PTL DEF UsesLibraryCorrectly

=============================================================================
