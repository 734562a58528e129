-------------------------- MODULE LorieServer_proofs --------------------------
(***************************************************************************)
(* Theorems about LorieServer, for every set of connections, sizes and     *)
(* boxes and every value of the bounds.                                    *)
(***************************************************************************)
EXTENDS LorieServer, FiniteSetTheorems, TLAPS

USE DEF NoBuffer

-----------------------------------------------------------------------------
(* Buffers and events *)

\* What lorie_buffer_fd_create returns is a buffer with the next identity, or
\* NoBuffer.
LEMMA CreateType ==
  ASSUME nextMem \in Nat \ {0}, NEW size \in Sizes,
         NEW new \in lorie_buffer_fd_create(size)
  PROVE  /\ new \in Buffer \cup {NoBuffer}
         /\ new # NoBuffer => new.mem = nextMem
  BY ConstantsAssumption DEF lorie_buffer_fd_create, Buffer

\* The events the library posts are events of the protocol.
LEMMA EventType ==
  /\ \A b \in Buffer \cup {NoBuffer} : BufferEvent(b) \in Event
  /\ \A box \in Boxes : DamageEvent(box) \in Event
  BY DEF BufferEvent, DamageEvent, Event

\* Posting appends at most one event, at the connection that is posted to.
LEMMA PostType ==
  ASSUME TypeOK, NEW ev \in Event, Post(ev) \/ UNCHANGED <<display, events>>
  PROVE  /\ display' \in {"none", "up", "crashed"}
         /\ events' \in [Conns -> Seq(Event)]
         /\ \A c \in Conns : Len(events[c]) <= Len(events'[c])
<1> USE DEF TypeOK, MemoryTypeOK, ConnectionTypeOK, StreamTypeOK
<1>1. CASE UNCHANGED <<display, events>>
  BY <1>1
<1>2. CASE Post(ev)
  <2>1. CASE /\ output_implementation \in clientList
             /\ events' = [events EXCEPT ![output_implementation] = Append(@, ev)]
             /\ UNCHANGED display
    <3>1. \A c \in Conns : events[c] \in Seq(Event)
      OBVIOUS
    <3>2. \A s \in Seq(Event) : Append(s, ev) \in Seq(Event) /\ Len(Append(s, ev)) = Len(s) + 1
      OBVIOUS
    <3> QED BY <2>1, <3>1, <3>2
  <2>2. CASE /\ output_implementation \notin clientList
             /\ UNCHANGED events
             /\ display' = "crashed" \/ UNCHANGED display
    BY <2>2
  <2> QED BY <1>2, <2>1, <2>2 DEF Post
<1> QED BY <1>1, <1>2

\* A resize posts at most one event and never names a buffer twice.
LEMMA ResizeType ==
  ASSUME TypeOK, NEW size \in Sizes, ResizeImage(size)
  PROVE  /\ surface' \in Buffer \cup {NoBuffer}
         /\ mapped' \subseteq Nat \ {0}
         /\ nextMem' \in Nat \ {0}
         /\ display' \in {"none", "up", "crashed"}
         /\ events' \in [Conns -> Seq(Event)]
         /\ \A c \in Conns : Len(events[c]) <= Len(events'[c])
<1>1. PICK new \in lorie_buffer_fd_create(size) :
        /\ surface' = new
        /\ mapped' = (mapped \ {surface.mem}) \cup ({new.mem} \ {0})
        /\ nextMem' = IF new = NoBuffer THEN nextMem ELSE nextMem + 1
        /\ IF new = NoBuffer THEN UNCHANGED <<display, events>>
                             ELSE PostIfAnyClient(BufferEvent(new))
  BY DEF ResizeImage
<1>2. mapped \subseteq Nat \ {0} /\ nextMem \in Nat \ {0}
  BY DEF TypeOK, MemoryTypeOK
<1>3. new \in Buffer \cup {NoBuffer}
  BY <1>2, CreateType
<1>4. new.mem \in Nat
  BY <1>3 DEF Buffer
<1>5. nextMem' \in Nat \ {0}
  BY <1>1, <1>2
<1>6. mapped' \subseteq Nat \ {0}
  BY <1>1, <1>2, <1>4
<1>7. Post(BufferEvent(new)) \/ UNCHANGED <<display, events>>
  BY <1>1 DEF PostIfAnyClient
<1> QED BY <1>1, <1>3, <1>5, <1>6, <1>7, EventType, PostType

LEMMA SendCurrentType ==
  ASSUME TypeOK, SendCurrentBuffer
  PROVE  /\ display' \in {"none", "up", "crashed"}
         /\ events' \in [Conns -> Seq(Event)]
         /\ \A c \in Conns : Len(events[c]) <= Len(events'[c])
         /\ UNCHANGED <<surface, mapped, nextMem>>
<1>1. surface \in Buffer \cup {NoBuffer}
  BY DEF TypeOK, MemoryTypeOK
<1>2. Post(BufferEvent(surface)) \/ UNCHANGED <<display, events>>
  BY DEF SendCurrentBuffer, PostIfAnyClient
<1> QED BY <1>1, <1>2, EventType, PostType DEF SendCurrentBuffer, memoryVars

-----------------------------------------------------------------------------
(* TypeOK is inductive: one lemma per group of actions *)

\* What posting and resizing may do to the streams.
LEMMA StreamsAfterPost ==
  ASSUME TypeOK,
         events' \in [Conns -> Seq(Event)],
         \A c \in Conns : Len(events[c]) <= Len(events'[c]),
         UNCHANGED <<flushed, sent, delivered>>,
         requests' \in [Conns -> Seq(Request)]
  PROVE  StreamTypeOK'
<1>1. \A c \in Conns : /\ flushed[c] \in Nat /\ flushed[c] <= Len(events[c])
                       /\ Len(events[c]) \in Nat /\ Len(events'[c]) \in Nat
  BY DEF TypeOK, StreamTypeOK
<1>2. \A c \in Conns : flushed'[c] <= Len(events'[c])
  BY <1>1
<1> QED BY <1>2 DEF TypeOK, StreamTypeOK

LEMMA InitType == Init => TypeOK
  BY DEF Init, TypeOK, MemoryTypeOK, ConnectionTypeOK, StreamTypeOK

LEMMA EmbedderType == TypeOK /\ Embedder => TypeOK'
<1> SUFFICES ASSUME TypeOK, Embedder PROVE TypeOK'
  OBVIOUS
<1> USE ConstantsAssumption
<1> USE DEF TypeOK, memoryVars, serverVars, dispatchVars, viewerVars
<1>1. CASE lorie_server_create
  <2>1. MemoryTypeOK'
    BY <1>1 DEF MemoryTypeOK, lorie_server_create
  <2>2. ConnectionTypeOK'
    BY <1>1 DEF ConnectionTypeOK, lorie_server_create
  <2>3. StreamTypeOK'
    BY <1>1 DEF StreamTypeOK, lorie_server_create
  <2> QED BY <2>1, <2>2, <2>3
<1>2. ASSUME NEW size \in Sizes, lorie_server_resize_image(size) PROVE TypeOK'
  <2>1. MemoryTypeOK'
    BY <1>2, ResizeType DEF MemoryTypeOK, lorie_server_resize_image, CallUnchanged
  <2>2. ConnectionTypeOK'
    BY <1>2 DEF ConnectionTypeOK, lorie_server_resize_image, CallUnchanged
  <2>3. requests' \in [Conns -> Seq(Request)] /\ UNCHANGED <<flushed, sent, delivered>>
    BY <1>2 DEF StreamTypeOK, lorie_server_resize_image, CallUnchanged
  <2>4. StreamTypeOK'
    BY <1>2, <2>3, ResizeType, StreamsAfterPost DEF lorie_server_resize_image
  <2> QED BY <2>1, <2>2, <2>4
<1>3. CASE lorie_server_send_current_buffer
  <2>1. MemoryTypeOK'
    BY <1>3, SendCurrentType DEF MemoryTypeOK, lorie_server_send_current_buffer, CallUnchanged
  <2>2. ConnectionTypeOK'
    BY <1>3 DEF ConnectionTypeOK, lorie_server_send_current_buffer, CallUnchanged
  <2>3. requests' \in [Conns -> Seq(Request)] /\ UNCHANGED <<flushed, sent, delivered>>
    BY <1>3 DEF StreamTypeOK, lorie_server_send_current_buffer, CallUnchanged
  <2>4. StreamTypeOK'
    BY <1>3, <2>3, SendCurrentType, StreamsAfterPost DEF lorie_server_send_current_buffer
  <2> QED BY <2>1, <2>2, <2>4
<1>4. ASSUME NEW box \in Boxes, lorie_server_send_damage(box) PROVE TypeOK'
  <2>1. /\ DamageEvent(box) \in Event
        /\ Post(DamageEvent(box)) \/ UNCHANGED <<display, events>>
    BY <1>4, EventType DEF lorie_server_send_damage, PostIfAnyClient
  <2>2. MemoryTypeOK'
    BY <1>4, <2>1, PostType DEF MemoryTypeOK, lorie_server_send_damage, CallUnchanged
  <2>3. ConnectionTypeOK'
    BY <1>4 DEF ConnectionTypeOK, lorie_server_send_damage, CallUnchanged
  <2>4. requests' \in [Conns -> Seq(Request)] /\ UNCHANGED <<flushed, sent, delivered>>
    BY <1>4 DEF StreamTypeOK, lorie_server_send_damage, CallUnchanged
  <2>5. StreamTypeOK'
    BY <2>1, <2>4, PostType, StreamsAfterPost
  <2> QED BY <2>2, <2>3, <2>5
<1>5. CASE lorie_server_process
  <2> USE DEF lorie_server_process, wl_client_destroy, Unreachable, EmbedderRuns
  <2>1. MemoryTypeOK'
    BY <1>5 DEF MemoryTypeOK
  <2>2. ConnectionTypeOK'
    BY <1>5 DEF ConnectionTypeOK
  <2>3. \A c \in Conns : /\ requests[c] \in Seq(Request) /\ events[c] \in Seq(Event)
                         /\ flushed[c] \in Nat /\ flushed[c] <= Len(events[c])
    BY DEF StreamTypeOK
  <2>4. StreamTypeOK'
    BY <1>5, <2>3 DEF StreamTypeOK
  <2> QED BY <2>1, <2>2, <2>4
<1>6. CASE lorie_server_destroy
  <2> USE DEF lorie_server_destroy, EmbedderRuns
  <2>1. MemoryTypeOK'
    BY <1>6 DEF MemoryTypeOK
  <2>2. ConnectionTypeOK'
    BY <1>6 DEF ConnectionTypeOK
  <2>3. StreamTypeOK'
    BY <1>6 DEF StreamTypeOK
  <2> QED BY <2>1, <2>2, <2>3
<1> QED BY <1>1, <1>2, <1>3, <1>4, <1>5, <1>6 DEF Embedder

LEMMA TakeRequestType ==
  ASSUME TypeOK, NEW c \in Conns, NEW type, TakeRequest(c, type)
  PROVE  /\ requests' \in [Conns -> Seq(Request)]
         /\ UNCHANGED <<flushed, sent, delivered, servers>>
         /\ Head(requests[c]) \in Request
         /\ ConnectionTypeOK'
<1>1. requests[c] \in Seq(Request) /\ requests[c] # <<>>
  BY DEF TypeOK, StreamTypeOK, TakeRequest
<1>2. Tail(requests[c]) \in Seq(Request) /\ Head(requests[c]) \in Request
  BY <1>1
<1>3. requests' \in [Conns -> Seq(Request)]
  BY <1>2 DEF TypeOK, StreamTypeOK, TakeRequest
<1>4. ConnectionTypeOK'
  BY DEF TypeOK, ConnectionTypeOK, TakeRequest, serverVars, viewerVars
<1> QED BY <1>2, <1>3, <1>4 DEF TakeRequest, serverVars, viewerVars

LEMMA DispatchType ==
  ASSUME TypeOK, NEW c \in Conns, Dispatch(c)
  PROVE  TypeOK'
<1> USE ConstantsAssumption
<1> USE DEF TypeOK, memoryVars, serverVars, dispatchVars, viewerVars
<1>1. CASE DispatchAccept(c)
  <2>1. MemoryTypeOK'
    BY <1>1 DEF MemoryTypeOK, DispatchAccept
  <2>2. ConnectionTypeOK'
    BY <1>1 DEF ConnectionTypeOK, DispatchAccept
  <2>3. StreamTypeOK'
    BY <1>1 DEF StreamTypeOK, DispatchAccept
  <2> QED BY <2>1, <2>2, <2>3
<1>2. CASE DispatchBind(c)
  <2> USE DEF DispatchBind, wl_client_destroy
  <2>1. MemoryTypeOK'
    BY <1>2 DEF MemoryTypeOK
  <2>2. ConnectionTypeOK'
    BY <1>2 DEF ConnectionTypeOK
  <2>3. requests' \in [Conns -> Seq(Request)]
    <3>1. UNCHANGED requests
            \/ requests' = [d \in Conns |-> IF d \in {c} THEN <<>> ELSE requests[d]]
      BY <1>2
    <3>2. requests \in [Conns -> Seq(Request)] /\ <<>> \in Seq(Request)
      BY DEF StreamTypeOK
    <3> QED BY <3>1, <3>2
  <2>4. UNCHANGED <<flushed, events, sent, delivered>>
    BY <1>2
  <2>5. StreamTypeOK'
    BY <2>3, <2>4 DEF StreamTypeOK
  <2> QED BY <2>1, <2>2, <2>5
<1>3. CASE DispatchInput(c)
  <2>1. MemoryTypeOK' /\ ConnectionTypeOK'
    BY <1>3, TakeRequestType DEF MemoryTypeOK, DispatchInput
  <2>2. StreamTypeOK'
    BY <1>3, TakeRequestType DEF StreamTypeOK, DispatchInput
  <2> QED BY <2>1, <2>2
<1>4. CASE DispatchGetCurrentBuffer(c)
  <2>1. surface \in Buffer \cup {NoBuffer}
    BY DEF MemoryTypeOK
  <2>2. /\ BufferEvent(surface) \in Event
        /\ Post(BufferEvent(surface)) \/ UNCHANGED <<display, events>>
    BY <1>4, <2>1, EventType DEF DispatchGetCurrentBuffer, PostIfAnyClient
  <2>3. MemoryTypeOK' /\ ConnectionTypeOK'
    BY <1>4, <2>2, PostType, TakeRequestType DEF MemoryTypeOK, DispatchGetCurrentBuffer
  <2>4. StreamTypeOK'
    BY <1>4, <2>2, PostType, TakeRequestType, StreamsAfterPost DEF DispatchGetCurrentBuffer
  <2> QED BY <2>3, <2>4
<1>5. CASE DispatchResolutionChange(c)
  <2>1. /\ surface' \in Buffer \cup {NoBuffer}
        /\ mapped' \subseteq Nat \ {0}
        /\ nextMem' \in Nat \ {0}
        /\ display' \in {"none", "up", "crashed"}
        /\ events' \in [Conns -> Seq(Event)]
        /\ \A d \in Conns : Len(events[d]) <= Len(events'[d])
    <3>1. CASE UNCHANGED <<display, memoryVars, events>>
      BY <3>1 DEF MemoryTypeOK, StreamTypeOK
    <3>2. CASE \E size \in Sizes : ResizeImage(size)
      BY <3>2, ResizeType
    <3>3. CASE SendCurrentBuffer
      BY <3>3, SendCurrentType DEF MemoryTypeOK
    <3> QED BY <1>5, <3>1, <3>2, <3>3 DEF DispatchResolutionChange
  <2>2. MemoryTypeOK' /\ ConnectionTypeOK'
    BY <1>5, <2>1, TakeRequestType DEF MemoryTypeOK, DispatchResolutionChange
  <2>3. StreamTypeOK'
    BY <1>5, <2>1, TakeRequestType, StreamsAfterPost DEF DispatchResolutionChange
  <2> QED BY <2>2, <2>3
<1>6. CASE DispatchHangup(c)
  <2> USE DEF DispatchHangup, wl_client_destroy
  <2>1. MemoryTypeOK'
    BY <1>6 DEF MemoryTypeOK
  <2>2. ConnectionTypeOK'
    BY <1>6 DEF ConnectionTypeOK
  <2>3. requests' \in [Conns -> Seq(Request)]
    BY <1>6 DEF StreamTypeOK
  <2>4. StreamTypeOK'
    BY <1>6, <2>3 DEF StreamTypeOK
  <2> QED BY <2>1, <2>2, <2>4
<1> QED BY <1>1, <1>2, <1>3, <1>4, <1>5, <1>6 DEF Dispatch

LEMMA ViewerType ==
  ASSUME TypeOK, NEW c \in Conns, Viewer(c)
  PROVE  TypeOK'
<1> USE DEF TypeOK, libraryVars, memoryVars, serverVars, dispatchVars, viewerVars
<1>1. CASE Connect(c)
  BY <1>1 DEF MemoryTypeOK, ConnectionTypeOK, StreamTypeOK, Connect
<1>2. CASE Bind(c)
  BY <1>2 DEF MemoryTypeOK, ConnectionTypeOK, StreamTypeOK, Bind
<1>3. ASSUME NEW request \in Request, Send(c, request) PROVE TypeOK'
  <2>1. Append(requests[c], request) \in Seq(Request)
    BY DEF StreamTypeOK
  <2>2. StreamTypeOK'
    BY <1>3, <2>1 DEF StreamTypeOK, Send
  <2> QED BY <1>3, <2>2 DEF MemoryTypeOK, ConnectionTypeOK, Send
<1>4. CASE Read(c)
  <2>1. events[c] \in Seq(Event) /\ flushed[c] \in Nat /\ flushed[c] <= Len(events[c])
    BY DEF StreamTypeOK
  <2>2. events[c] # <<>> /\ flushed[c] - 1 \in Nat
    BY <1>4, <2>1 DEF Read
  <2>3. /\ Tail(events[c]) \in Seq(Event)
        /\ Len(Tail(events[c])) = Len(events[c]) - 1
        /\ Head(events[c]) \in Event
    BY <2>1, <2>2
  <2>4. Head(events[c]).type = "buffer_change_fd"
          => Head(events[c]).buffer \in Buffer \cup {NoBuffer}
    BY <2>3 DEF Event
  <2>5. events' \in [Conns -> Seq(Event)]
    BY <1>4, <2>3 DEF StreamTypeOK, Read
  <2>6. flushed' \in [Conns -> Nat]
    BY <1>4, <2>2 DEF StreamTypeOK, Read
  <2>7. \A d \in Conns : flushed'[d] <= Len(events'[d])
    BY <1>4, <2>1, <2>2, <2>3 DEF StreamTypeOK, Read
  <2>8. delivered' \in [Conns -> Buffer \cup {NoBuffer}]
    BY <1>4, <2>4 DEF StreamTypeOK, Read
  <2>9. StreamTypeOK'
    BY <1>4, <2>5, <2>6, <2>7, <2>8 DEF StreamTypeOK, Read
  <2> QED BY <1>4, <2>9 DEF MemoryTypeOK, ConnectionTypeOK, Read
<1>5. CASE Close(c)
  BY <1>5 DEF MemoryTypeOK, ConnectionTypeOK, StreamTypeOK, Close
<1> QED BY <1>1, <1>2, <1>3, <1>4, <1>5 DEF Viewer

LEMMA StutterType == TypeOK /\ UNCHANGED vars => TypeOK'
  BY DEF TypeOK, MemoryTypeOK, ConnectionTypeOK, StreamTypeOK, vars, memoryVars,
         serverVars, dispatchVars, viewerVars

\* Every variable of the library and of the sockets keeps its type, and a
\* connection is in one place: waiting, accepted and served, or gone.
THEOREM TypeCorrect == Spec => []TypeOK
<1>1. TypeOK /\ [Next]_vars => TypeOK'
  BY EmbedderType, DispatchType, ViewerType, StutterType DEF Next
<1> QED BY InitType, <1>1, PTL DEF Spec

-----------------------------------------------------------------------------
(* NewestBufferIsSurface *)

\* What NewestBufferIsSurface says of the stream e and the delivered buffer d of
\* the viewer that is posted to, when b is the surface.
NoBufferIn(e) == \A i \in 1 .. Len(e) : e[i].type # "buffer_change_fd"

UpToDate(e, d, b) ==
  \/ \E i \in 1 .. Len(e) :
       /\ e[i] = BufferEvent(b)
       /\ \A j \in (i + 1) .. Len(e) : e[j].type # "buffer_change_fd"
  \/ NoBufferIn(e) /\ d = b
  \/ NoBufferIn(e) /\ d = NoBuffer

LEMMA NewestAsUpToDate ==
  NewestBufferIsSurface <=>
    (display = "up" /\ surface # NoBuffer /\ output_implementation \in clientList
       => UpToDate(events[output_implementation],
                   delivered[output_implementation], surface))
  BY DEF NewestBufferIsSurface, EndsUpWith, NoBufferUnread, BufferEventAt,
         UpToDate, NoBufferIn

\* A stream that ends in an event with the surface is up to date.
LEMMA BufferAppended ==
  ASSUME NEW e \in Seq(Event), NEW d, NEW b \in Buffer \cup {NoBuffer}
  PROVE  UpToDate(Append(e, BufferEvent(b)), d, b)
<1> DEFINE f == Append(e, BufferEvent(b))
<1>1. Len(f) = Len(e) + 1 /\ Len(e) \in Nat /\ f[Len(f)] = BufferEvent(b)
  BY EventType
<1>2. Len(f) \in 1 .. Len(f) /\ (Len(f) + 1) .. Len(f) = {}
  BY <1>1
<1> QED BY <1>1, <1>2 DEF UpToDate

\* A damage event leaves it so.
LEMMA DamageAppended ==
  ASSUME NEW e \in Seq(Event), NEW d, NEW b, NEW box \in Boxes, UpToDate(e, d, b)
  PROVE  UpToDate(Append(e, DamageEvent(box)), d, b)
<1> DEFINE f == Append(e, DamageEvent(box))
<1>1. /\ Len(f) = Len(e) + 1 /\ Len(e) \in Nat
      /\ \A i \in 1 .. Len(e) : f[i] = e[i]
      /\ f[Len(f)].type = "damage"
  BY EventType DEF DamageEvent
<1> HIDE DEF f
<1>2. \A i \in 1 .. Len(f) : i \in 1 .. Len(e) \/ i = Len(f)
  BY <1>1
<1>3. NoBufferIn(e) => NoBufferIn(f)
  BY <1>1, <1>2 DEF NoBufferIn
<1>4. ASSUME NEW i \in 1 .. Len(e), e[i] = BufferEvent(b),
             \A j \in (i + 1) .. Len(e) : e[j].type # "buffer_change_fd"
      PROVE  /\ i \in 1 .. Len(f) /\ f[i] = BufferEvent(b)
             /\ \A j \in (i + 1) .. Len(f) : f[j].type # "buffer_change_fd"
  BY <1>1, <1>4
<1>5. UpToDate(f, d, b)
  BY <1>3, <1>4 DEF UpToDate
<1> QED BY <1>5 DEF f

\* Reading leaves it so.
LEMMA HeadRead ==
  ASSUME NEW e \in Seq(Event), e # <<>>, NEW d, NEW b, UpToDate(e, d, b),
         NEW n, n = IF Head(e).type = "buffer_change_fd" THEN Head(e).buffer ELSE d
  PROVE  UpToDate(Tail(e), n, b)
<1> DEFINE f == Tail(e)
<1>1. /\ Len(e) \in Nat /\ Len(e) >= 1 /\ Len(f) = Len(e) - 1
      /\ \A i \in 1 .. Len(f) : f[i] = e[i + 1]
      /\ Head(e) = e[1]
  OBVIOUS
<1> HIDE DEF f
<1>2. CASE NoBufferIn(e)
  <2>1. n = d
    BY <1>1, <1>2 DEF NoBufferIn
  <2>2. NoBufferIn(f)
    BY <1>1, <1>2 DEF NoBufferIn
  <2>3. d = b \/ d = NoBuffer
    <3>1. \A i \in 1 .. Len(e) : e[i] # BufferEvent(b)
      BY <1>2 DEF NoBufferIn, BufferEvent
    <3> QED BY <3>1 DEF UpToDate
  <2>4. UpToDate(f, n, b)
    BY <2>1, <2>2, <2>3 DEF UpToDate
  <2> QED BY <2>4 DEF f
<1>3. CASE \E i \in 1 .. Len(e) :
             /\ e[i] = BufferEvent(b)
             /\ \A j \in (i + 1) .. Len(e) : e[j].type # "buffer_change_fd"
  <2>1. PICK i \in 1 .. Len(e) :
             /\ e[i] = BufferEvent(b)
             /\ \A j \in (i + 1) .. Len(e) : e[j].type # "buffer_change_fd"
    BY <1>3
  <2>2. CASE i = 1
    <3>1. NoBufferIn(f)
      BY <1>1, <2>1, <2>2 DEF NoBufferIn
    <3>2. n = b
      BY <1>1, <2>1, <2>2 DEF BufferEvent
    <3>3. UpToDate(f, n, b)
      BY <3>1, <3>2 DEF UpToDate
    <3> QED BY <3>3 DEF f
  <2>3. CASE i # 1
    <3>1. /\ i - 1 \in 1 .. Len(f) /\ f[i - 1] = BufferEvent(b)
          /\ \A j \in ((i - 1) + 1) .. Len(f) : f[j].type # "buffer_change_fd"
      BY <1>1, <2>1, <2>3
    <3>2. UpToDate(f, n, b)
      BY <3>1 DEF UpToDate
    <3> QED BY <3>2 DEF f
  <2> QED BY <2>2, <2>3
<1> QED BY <1>2, <1>3 DEF UpToDate

-----------------------------------------------------------------------------
(* The inductive invariant: a viewer that becomes the one posted to starts with *)
(* an empty stream (UnboundIsSilent), and no server starts with a surface.      *)

NoServerNoSurface == display = "none" => surface = NoBuffer

\* Before its bind nothing was sent to a connection, and the pointer kept by
\* lorie_output_bind is that of one that has bound.
UnboundIsSilent ==
  /\ \A c \in Conns :
       handshake[c] # "bound" => events[c] = <<>> /\ delivered[c] = NoBuffer
  /\ output_implementation # NULL => handshake[output_implementation] = "bound"
  /\ \A c \in Conns :
       c \in backlog \/ peer[c] = "unused" => handshake[c] = "none"

BufferInv == TypeOK /\ UnboundIsSilent /\ NoServerNoSurface /\ NewestBufferIsSurface

LEMMA InitBuffer == Init => BufferInv
<1> SUFFICES ASSUME Init PROVE BufferInv
  OBVIOUS
<1> QED BY InitType DEF Init, BufferInv, UnboundIsSilent, NoServerNoSurface, NewestBufferIsSurface

\* Posting appends to the stream of a bound connection or to none.
LEMMA PostEffect ==
  ASSUME BufferInv, NEW ev, Post(ev)
  PROVE  \/ /\ output_implementation \in clientList
            /\ handshake[output_implementation] = "bound"
            /\ output_implementation \in Conns
            /\ events' = [events EXCEPT ![output_implementation] = Append(@, ev)]
            /\ UNCHANGED display
         \/ /\ output_implementation \notin clientList
            /\ UNCHANGED events
            /\ display' = "crashed" \/ UNCHANGED display
  BY ConstantsAssumption DEF Post, BufferInv, UnboundIsSilent, TypeOK, ConnectionTypeOK

\* The shape of a step that posts at most one event and changes nothing else of
\* what the invariant speaks about: after it, the invariant holds again.
LEMMA AfterPost ==
  ASSUME BufferInv, TypeOK', display = "up",
         UNCHANGED <<clientList, output_implementation, backlog, peer,
                     handshake, delivered>>,
         \/ /\ UNCHANGED <<display, events>>
            /\ UNCHANGED surface \/ surface' = NoBuffer \/ clientList = {}
         \/ Post(BufferEvent(surface'))
         \/ /\ UNCHANGED surface
            /\ \E box \in Boxes : Post(DamageEvent(box))
  PROVE  BufferInv'
<1> DEFINE out == output_implementation
<1>1. /\ surface' \in Buffer \cup {NoBuffer}
      /\ out \in clientList => events[out] \in Seq(Event)
  BY DEF BufferInv, TypeOK, MemoryTypeOK, ConnectionTypeOK, StreamTypeOK
<1>2. NoServerNoSurface'
  BY PostEffect DEF NoServerNoSurface
<1>3. UnboundIsSilent'
  BY PostEffect DEF BufferInv, UnboundIsSilent, TypeOK, StreamTypeOK
<1>4. ASSUME display' = "up", surface' # NoBuffer, out \in clientList
      PROVE  UpToDate(events'[out], delivered[out], surface')
  <2>1. CASE /\ UNCHANGED <<display, events>>
             /\ UNCHANGED surface \/ surface' = NoBuffer \/ clientList = {}
    BY <1>4, <2>1, NewestAsUpToDate DEF BufferInv
  <2>2. CASE Post(BufferEvent(surface'))
    <3>1. events'[out] = Append(events[out], BufferEvent(surface'))
      BY <1>4, <2>2, PostEffect DEF BufferInv, TypeOK, StreamTypeOK
    <3> QED BY <1>1, <1>4, <3>1, BufferAppended
  <2>3. ASSUME UNCHANGED surface, NEW box \in Boxes, Post(DamageEvent(box))
        PROVE  UpToDate(events'[out], delivered[out], surface')
    <3>1. events'[out] = Append(events[out], DamageEvent(box))
      BY <1>4, <2>3, PostEffect DEF BufferInv, TypeOK, StreamTypeOK
    <3>2. UpToDate(events[out], delivered[out], surface)
      BY <1>4, <2>3, NewestAsUpToDate DEF BufferInv
    <3> QED BY <1>1, <1>4, <2>3, <3>1, <3>2, DamageAppended
  <2> QED BY <2>1, <2>2, <2>3
<1>5. NewestBufferIsSurface'
  <2>1. display' = "up" /\ surface' # NoBuffer /\ output_implementation' \in clientList'
          => UpToDate(events'[output_implementation'], delivered'[output_implementation'], surface')
    BY <1>4
  <2> QED
    BY <2>1 DEF NewestBufferIsSurface, EndsUpWith, NoBufferUnread, BufferEventAt,
                UpToDate, NoBufferIn
<1> QED BY <1>2, <1>3, <1>5 DEF BufferInv

LEMMA ResizeBuffer ==
  ASSUME BufferInv, TypeOK', display = "up", NEW size \in Sizes, ResizeImage(size),
         UNCHANGED <<clientList, output_implementation, backlog, peer,
                     handshake, delivered>>
  PROVE  BufferInv'
<1>1. PICK new \in lorie_buffer_fd_create(size) :
        /\ surface' = new
        /\ IF new = NoBuffer THEN UNCHANGED <<display, events>>
                             ELSE PostIfAnyClient(BufferEvent(new))
  BY DEF ResizeImage
<1>2. \/ /\ UNCHANGED <<display, events>>
         /\ surface' = NoBuffer \/ clientList = {}
      \/ Post(BufferEvent(surface'))
  BY <1>1 DEF PostIfAnyClient
<1> QED BY <1>2, AfterPost

LEMMA SendCurrentBufferInv ==
  ASSUME BufferInv, TypeOK', display = "up", SendCurrentBuffer,
         UNCHANGED <<clientList, output_implementation, backlog, peer,
                     handshake, delivered>>
  PROVE  BufferInv'
<1>1. UNCHANGED surface
  BY DEF SendCurrentBuffer, memoryVars
<1>2. UNCHANGED <<display, events>> \/ Post(BufferEvent(surface'))
  BY <1>1 DEF SendCurrentBuffer, PostIfAnyClient
<1> QED BY <1>1, <1>2, AfterPost

LEMMA EmbedderBuffer == BufferInv /\ Embedder => BufferInv'
<1> SUFFICES ASSUME BufferInv, Embedder PROVE BufferInv'
  OBVIOUS
<1> USE DEF memoryVars, serverVars, dispatchVars, viewerVars
<1>1. TypeOK'
  BY EmbedderType DEF BufferInv
<1>2. CASE lorie_server_create
  <2>1. surface = NoBuffer /\ UNCHANGED surface /\ display' \in {"none", "up"}
    BY <1>2 DEF lorie_server_create, BufferInv, NoServerNoSurface
  <2>2. UnboundIsSilent'
    BY <1>2 DEF lorie_server_create, BufferInv, UnboundIsSilent
  <2> QED BY <1>1, <2>1, <2>2 DEF BufferInv, NoServerNoSurface, NewestBufferIsSurface
<1>3. ASSUME NEW size \in Sizes, lorie_server_resize_image(size) PROVE BufferInv'
  BY <1>1, <1>3, ResizeBuffer DEF lorie_server_resize_image, EmbedderRuns, CallUnchanged
<1>4. CASE lorie_server_send_current_buffer
  BY <1>1, <1>4, SendCurrentBufferInv DEF lorie_server_send_current_buffer, EmbedderRuns, CallUnchanged
<1>5. ASSUME NEW box \in Boxes, lorie_server_send_damage(box) PROVE BufferInv'
  <2>1. Post(DamageEvent(box)) \/ UNCHANGED <<display, events>>
    BY <1>5 DEF lorie_server_send_damage, PostIfAnyClient
  <2> QED BY <1>1, <1>5, <2>1, AfterPost DEF lorie_server_send_damage, EmbedderRuns, CallUnchanged
<1>6. CASE lorie_server_process
  <2> USE <1>6 DEF lorie_server_process, wl_client_destroy
  <2>1. UnboundIsSilent'
    BY DEF BufferInv, UnboundIsSilent
  <2>2. NoServerNoSurface'
    BY DEF BufferInv, NoServerNoSurface
  <2>3. NewestBufferIsSurface'
    BY DEF BufferInv, NewestBufferIsSurface, EndsUpWith, NoBufferUnread, BufferEventAt
  <2> QED BY <1>1, <2>1, <2>2, <2>3 DEF BufferInv
<1>7. CASE lorie_server_destroy
  BY <1>1, <1>7 DEF lorie_server_destroy, BufferInv, UnboundIsSilent, NoServerNoSurface,
                    NewestBufferIsSurface
<1> QED BY <1>2, <1>3, <1>4, <1>5, <1>6, <1>7 DEF Embedder

LEMMA DispatchBuffer ==
  ASSUME BufferInv, NEW c \in Conns, Dispatch(c)
  PROVE  BufferInv'
<1> USE DEF memoryVars, serverVars, dispatchVars, viewerVars
<1>1. TypeOK'
  BY DispatchType DEF BufferInv
<1>2. CASE DispatchAccept(c)
  <2> USE <1>2 DEF DispatchAccept
  <2>1. output_implementation # c
    BY ConstantsAssumption DEF BufferInv, UnboundIsSilent
  <2>2. UnboundIsSilent' /\ NoServerNoSurface'
    BY DEF BufferInv, UnboundIsSilent, NoServerNoSurface
  <2>3. NewestBufferIsSurface'
    BY <2>1 DEF BufferInv, NewestBufferIsSurface, EndsUpWith, NoBufferUnread, BufferEventAt
  <2> QED BY <1>1, <2>2, <2>3 DEF BufferInv
<1>3. CASE DispatchBind(c)
  <2>1. CASE handshake' = [handshake EXCEPT ![c] = "bound"] /\ output_implementation' = c
    <3> USE <1>3, <2>1 DEF DispatchBind
    <3>1. events'[c] = <<>> /\ delivered'[c] = NoBuffer
      BY DEF BufferInv, UnboundIsSilent
    <3>2. UnboundIsSilent'
      BY DEF BufferInv, UnboundIsSilent, TypeOK, ConnectionTypeOK
    <3>3. NewestBufferIsSurface'
      BY <3>1 DEF NewestBufferIsSurface, NoBufferUnread
    <3>4. NoServerNoSurface'
      BY DEF BufferInv, NoServerNoSurface
    <3> QED BY <1>1, <3>2, <3>3, <3>4 DEF BufferInv
  <2>2. CASE wl_client_destroy({c}) /\ UNCHANGED <<handshake, output_implementation>>
    <3> USE <1>3, <2>2 DEF DispatchBind, wl_client_destroy
    <3>1. UnboundIsSilent' /\ NoServerNoSurface'
      BY DEF BufferInv, UnboundIsSilent, NoServerNoSurface
    <3>2. NewestBufferIsSurface'
      BY DEF BufferInv, NewestBufferIsSurface, EndsUpWith, NoBufferUnread, BufferEventAt
    <3> QED BY <1>1, <3>1, <3>2 DEF BufferInv
  <2> QED BY <1>3, <2>1, <2>2 DEF DispatchBind
<1>4. CASE DispatchInput(c)
  BY <1>1, <1>4, AfterPost DEF DispatchInput, TakeRequest
<1>5. CASE DispatchGetCurrentBuffer(c)
  <2>1. UNCHANGED <<display, events>> \/ Post(BufferEvent(surface'))
    BY <1>5 DEF DispatchGetCurrentBuffer, PostIfAnyClient
  <2> QED BY <1>1, <1>5, <2>1, AfterPost DEF DispatchGetCurrentBuffer, TakeRequest
<1>6. CASE DispatchResolutionChange(c)
  <2>1. /\ display = "up"
        /\ UNCHANGED <<clientList, output_implementation, backlog, peer,
                       handshake, delivered>>
    BY <1>6 DEF DispatchResolutionChange, TakeRequest
  <2>2. CASE UNCHANGED <<display, memoryVars, events>>
    BY <1>1, <2>1, <2>2, AfterPost
  <2>3. CASE \E size \in Sizes : ResizeImage(size)
    BY <1>1, <2>1, <2>3, ResizeBuffer
  <2>4. CASE SendCurrentBuffer
    BY <1>1, <2>1, <2>4, SendCurrentBufferInv
  <2> QED BY <1>6, <2>2, <2>3, <2>4 DEF DispatchResolutionChange
<1>7. CASE DispatchHangup(c)
  <2> USE <1>7 DEF DispatchHangup, wl_client_destroy
  <2>1. UnboundIsSilent' /\ NoServerNoSurface'
    BY DEF BufferInv, UnboundIsSilent, NoServerNoSurface
  <2>2. NewestBufferIsSurface'
    BY DEF BufferInv, NewestBufferIsSurface, EndsUpWith, NoBufferUnread, BufferEventAt
  <2> QED BY <1>1, <2>1, <2>2 DEF BufferInv
<1> QED BY <1>2, <1>3, <1>4, <1>5, <1>6, <1>7 DEF Dispatch

LEMMA ViewerBuffer ==
  ASSUME BufferInv, NEW c \in Conns, Viewer(c)
  PROVE  BufferInv'
<1> USE DEF libraryVars, memoryVars, serverVars, dispatchVars, viewerVars
<1>1. TypeOK'
  BY ViewerType DEF BufferInv
<1>2. CASE /\ UNCHANGED <<libraryVars, clientList, events, delivered>>
           /\ UnboundIsSilent'
  BY <1>1, <1>2 DEF BufferInv, NoServerNoSurface, NewestBufferIsSurface, EndsUpWith,
                    NoBufferUnread, BufferEventAt
<1>3. CASE Connect(c)
  <2>1. UnboundIsSilent'
    BY <1>3 DEF Connect, BufferInv, UnboundIsSilent, TypeOK, ConnectionTypeOK
  <2> QED BY <1>2, <1>3, <2>1 DEF Connect
<1>4. CASE Bind(c)
  <2>1. UnboundIsSilent'
    BY <1>4 DEF Bind, BufferInv, UnboundIsSilent, TypeOK, ConnectionTypeOK
  <2> QED BY <1>2, <1>4, <2>1 DEF Bind
<1>5. ASSUME NEW request \in Request, Send(c, request) PROVE BufferInv'
  <2>1. UnboundIsSilent'
    BY <1>5 DEF Send, BufferInv, UnboundIsSilent
  <2> QED BY <1>2, <1>5, <2>1 DEF Send
<1>6. CASE Close(c)
  <2>1. UnboundIsSilent'
    BY <1>6 DEF Close, BufferInv, UnboundIsSilent, TypeOK, ConnectionTypeOK
  <2> QED BY <1>2, <1>6, <2>1 DEF Close
<1>7. CASE Read(c)
  <2>1. /\ events[c] \in Seq(Event) /\ events[c] # <<>>
        /\ events' = [events EXCEPT ![c] = Tail(@)]
        /\ delivered' = [delivered EXCEPT ![c] =
                           IF Head(events[c]).type = "buffer_change_fd"
                             THEN Head(events[c]).buffer ELSE @]
        /\ UNCHANGED <<libraryVars, clientList, backlog, peer, handshake>>
    <3>1. events[c] \in Seq(Event) /\ flushed[c] \in Nat /\ flushed[c] <= Len(events[c])
      BY DEF BufferInv, TypeOK, StreamTypeOK
    <3> QED BY <1>7, <3>1 DEF Read
  <2>2. UnboundIsSilent'
    BY <2>1 DEF BufferInv, UnboundIsSilent, TypeOK, StreamTypeOK
  <2>3. NoServerNoSurface'
    BY <2>1 DEF BufferInv, NoServerNoSurface
  <2>4. ASSUME display = "up", surface # NoBuffer, output_implementation \in clientList
        PROVE  UpToDate(events'[output_implementation],
                        delivered'[output_implementation], surface)
    <3>1. UpToDate(events[output_implementation], delivered[output_implementation], surface)
      BY <2>4, NewestAsUpToDate DEF BufferInv
    <3>2. CASE output_implementation = c
      <4>1. /\ events'[c] = Tail(events[c])
            /\ delivered'[c] = IF Head(events[c]).type = "buffer_change_fd"
                                 THEN Head(events[c]).buffer ELSE delivered[c]
        BY <2>1 DEF BufferInv, TypeOK, StreamTypeOK
      <4> QED BY <2>1, <3>1, <3>2, <4>1, HeadRead
    <3>3. CASE output_implementation # c
      BY <2>1, <3>1, <3>3 DEF BufferInv, TypeOK, StreamTypeOK
    <3> QED BY <3>2, <3>3
  <2>5. NewestBufferIsSurface'
    BY <2>1, <2>4 DEF NewestBufferIsSurface, EndsUpWith, NoBufferUnread, BufferEventAt,
                      UpToDate, NoBufferIn
  <2> QED BY <1>1, <2>2, <2>3, <2>5 DEF BufferInv
<1> QED BY <1>3, <1>4, <1>5, <1>6, <1>7 DEF Viewer

LEMMA StutterBuffer == BufferInv /\ UNCHANGED vars => BufferInv'
<1> SUFFICES ASSUME BufferInv, UNCHANGED vars PROVE BufferInv'
  OBVIOUS
<1> USE DEF vars, memoryVars, serverVars, dispatchVars, viewerVars
<1>1. TypeOK' /\ NoServerNoSurface' /\ UnboundIsSilent'
  BY StutterType DEF BufferInv, NoServerNoSurface, UnboundIsSilent
<1>2. NewestBufferIsSurface'
  BY DEF BufferInv, NewestBufferIsSurface, EndsUpWith, NoBufferUnread, BufferEventAt
<1> QED BY <1>1, <1>2 DEF BufferInv

LEMMA BufferInvariance == Spec => []BufferInv
<1>1. BufferInv /\ [Next]_vars => BufferInv'
  BY EmbedderBuffer, DispatchBuffer, ViewerBuffer, StutterBuffer DEF Next
<1> QED BY InitBuffer, <1>1, PTL DEF Spec

\* However resizes, resends, answers, damage, reads, binds and failures
\* interleave, the viewer that is posted to ends up with the current surface.
THEOREM NewestBuffer == Spec => []NewestBufferIsSurface
  BY BufferInvariance, PTL DEF BufferInv

-----------------------------------------------------------------------------
(* MappingsAreBounded *)

\* What is mapped beside the surface: the surfaces of destroyed servers, one at
\* most for each server but the running one.
Abandoned == mapped \ {surface.mem}

MemoryInv ==
  /\ surface # NoBuffer => surface.mem \in mapped
  /\ display # "none" => servers >= 1
  /\ IsFiniteSet(mapped)
  /\ Cardinality(Abandoned) <= IF display = "none" THEN servers ELSE servers - 1

LEMMA AllMapped ==
  ASSUME BufferInv, MemoryInv
  PROVE  MappingsAreBounded
<1>1. IsFiniteSet(Abandoned) /\ Cardinality(Abandoned) \in Nat /\ Cardinality(mapped) \in Nat
  BY FS_RemoveElement, FS_CardinalityType DEF MemoryInv, Abandoned
<1>2. Cardinality(Abandoned) = IF surface.mem \in mapped THEN Cardinality(mapped) - 1
                                                         ELSE Cardinality(mapped)
  BY FS_RemoveElement DEF MemoryInv, Abandoned
<1>3. servers \in Nat /\ mapped \subseteq Nat \ {0}
  BY DEF BufferInv, TypeOK, MemoryTypeOK
<1>4. surface = NoBuffer => surface.mem \notin mapped
  BY <1>3
<1>5. surface # NoBuffer => display # "none"
  BY DEF BufferInv, NoServerNoSurface
<1>6. Cardinality(mapped) <= servers
  BY <1>1, <1>2, <1>3, <1>4, <1>5 DEF MemoryInv
<1> QED BY <1>6 DEF MappingsAreBounded, MemoryInv

\* Posting, dispatching and whatever viewers do leave the memory alone, and no
\* server appears or disappears.
LEMMA MemoryKept ==
  ASSUME MemoryInv, UNCHANGED <<surface, mapped, servers>>,
         (display' = "none") <=> (display = "none")
  PROVE  MemoryInv'
  BY DEF MemoryInv, Abandoned

LEMMA PostLeavesServer ==
  ASSUME NEW ev, display = "up", Post(ev) \/ UNCHANGED <<display, events>>
  PROVE  display' # "none"
  BY DEF Post

\* The new buffer takes the place of the old one.
LEMMA ResizeMemory ==
  ASSUME BufferInv, MemoryInv, display = "up", UNCHANGED servers,
         NEW size \in Sizes, ResizeImage(size)
  PROVE  MemoryInv'
<1>1. PICK new \in lorie_buffer_fd_create(size) :
        /\ surface' = new
        /\ mapped' = (mapped \ {surface.mem}) \cup ({new.mem} \ {0})
        /\ IF new = NoBuffer THEN UNCHANGED <<display, events>>
                             ELSE PostIfAnyClient(BufferEvent(new))
  BY DEF ResizeImage
<1>2. new \in Buffer \cup {NoBuffer}
  BY CreateType DEF BufferInv, TypeOK, MemoryTypeOK
<1>3. new # NoBuffer => new.mem \in {new.mem} \ {0}
  BY <1>2 DEF Buffer
<1>4. display' # "none"
  BY <1>1, PostLeavesServer DEF PostIfAnyClient
<1>5. IsFiniteSet(Abandoned) /\ Cardinality(Abandoned) \in Nat
  BY FS_RemoveElement, FS_CardinalityType DEF MemoryInv, Abandoned
<1>6. mapped' \subseteq Abandoned \cup {new.mem} /\ Abandoned' \subseteq Abandoned
  BY <1>1 DEF Abandoned
<1>7. IsFiniteSet(mapped')
  <2>1. IsFiniteSet(Abandoned \cup {new.mem})
    BY <1>5, FS_AddElement
  <2> QED BY <1>6, <2>1, FS_Subset
<1>8. Cardinality(Abandoned') <= Cardinality(Abandoned) /\ Cardinality(Abandoned') \in Nat
  BY <1>5, <1>6, FS_Subset, FS_CardinalityType
<1>9. servers \in Nat
  BY DEF BufferInv, TypeOK, MemoryTypeOK
<1>10. surface' # NoBuffer => surface'.mem \in mapped'
  BY <1>1, <1>3
<1>11. servers' >= 1 /\ Cardinality(Abandoned') <= servers' - 1
  BY <1>5, <1>8, <1>9 DEF MemoryInv
<1> QED BY <1>4, <1>7, <1>10, <1>11 DEF MemoryInv

LEMMA EmbedderMemory ==
  ASSUME BufferInv, MemoryInv, Embedder
  PROVE  MemoryInv'
<1> USE DEF memoryVars, serverVars, dispatchVars, viewerVars, EmbedderRuns
<1>1. servers \in Nat /\ mapped \subseteq Nat \ {0}
  BY DEF BufferInv, TypeOK, MemoryTypeOK
<1>2. Cardinality(Abandoned) \in Nat
  BY FS_RemoveElement, FS_CardinalityType DEF MemoryInv, Abandoned
<1>3. CASE lorie_server_create
  <2>1. UNCHANGED <<surface, mapped>> /\ servers' = servers + 1 /\ servers' >= 1
    BY <1>1, <1>3 DEF lorie_server_create
  <2>2. Abandoned' = Abandoned /\ Cardinality(Abandoned) <= servers
    BY <1>3, <2>1 DEF lorie_server_create, MemoryInv, Abandoned
  <2>3. Cardinality(Abandoned') <= servers' - 1
    BY <1>1, <1>2, <2>1, <2>2
  <2>4. Cardinality(Abandoned') <= servers'
    BY <1>1, <1>2, <2>1, <2>2
  <2> QED BY <2>1, <2>3, <2>4 DEF MemoryInv
<1>4. ASSUME NEW size \in Sizes, lorie_server_resize_image(size) PROVE MemoryInv'
  BY <1>4, ResizeMemory DEF lorie_server_resize_image, CallUnchanged
<1>5. CASE lorie_server_send_current_buffer
  <2>1. Post(BufferEvent(surface)) \/ UNCHANGED <<display, events>>
    BY <1>5 DEF lorie_server_send_current_buffer, SendCurrentBuffer, PostIfAnyClient
  <2>2. UNCHANGED <<surface, mapped, servers>> /\ display = "up"
    BY <1>5 DEF lorie_server_send_current_buffer, SendCurrentBuffer, CallUnchanged
  <2> QED BY <2>1, <2>2, PostLeavesServer, MemoryKept
<1>6. ASSUME NEW box \in Boxes, lorie_server_send_damage(box) PROVE MemoryInv'
  <2>1. Post(DamageEvent(box)) \/ UNCHANGED <<display, events>>
    BY <1>6 DEF lorie_server_send_damage, PostIfAnyClient
  <2>2. UNCHANGED <<surface, mapped, servers>> /\ display = "up"
    BY <1>6 DEF lorie_server_send_damage, CallUnchanged
  <2> QED BY <2>1, <2>2, PostLeavesServer, MemoryKept
<1>7. CASE lorie_server_process
  BY <1>7, MemoryKept DEF lorie_server_process
<1>8. CASE lorie_server_destroy
  <2>1. Cardinality(mapped) <= servers
    BY AllMapped DEF MappingsAreBounded
  <2>2. surface' = NoBuffer /\ UNCHANGED <<mapped, servers>> /\ display' = "none"
    BY <1>8 DEF lorie_server_destroy
  <2>3. Abandoned' = mapped
    BY <1>1, <2>2 DEF Abandoned
  <2> QED BY <2>1, <2>2, <2>3 DEF MemoryInv
<1> QED BY <1>3, <1>4, <1>5, <1>6, <1>7, <1>8 DEF Embedder

LEMMA DispatchMemory ==
  ASSUME BufferInv, MemoryInv, NEW c \in Conns, Dispatch(c)
  PROVE  MemoryInv'
<1> USE DEF memoryVars, serverVars
<1>1. CASE DispatchAccept(c) \/ DispatchBind(c) \/ DispatchHangup(c)
  BY <1>1, MemoryKept DEF DispatchAccept, DispatchBind, DispatchHangup
<1>2. CASE DispatchInput(c)
  BY <1>2, MemoryKept DEF DispatchInput, TakeRequest
<1>3. CASE DispatchGetCurrentBuffer(c)
  <2>1. Post(BufferEvent(surface)) \/ UNCHANGED <<display, events>>
    BY <1>3 DEF DispatchGetCurrentBuffer, PostIfAnyClient
  <2> QED BY <1>3, <2>1, PostLeavesServer, MemoryKept DEF DispatchGetCurrentBuffer, TakeRequest
<1>4. CASE DispatchResolutionChange(c)
  <2>1. display = "up" /\ UNCHANGED servers
    BY <1>4 DEF DispatchResolutionChange, TakeRequest
  <2>2. CASE UNCHANGED <<display, memoryVars, events>>
    BY <2>1, <2>2, MemoryKept
  <2>3. CASE \E size \in Sizes : ResizeImage(size)
    BY <2>1, <2>3, ResizeMemory
  <2>4. CASE SendCurrentBuffer
    <3>1. Post(BufferEvent(surface)) \/ UNCHANGED <<display, events>>
      BY <2>4 DEF SendCurrentBuffer, PostIfAnyClient
    <3> QED BY <2>1, <2>4, <3>1, PostLeavesServer, MemoryKept DEF SendCurrentBuffer
  <2> QED BY <1>4, <2>2, <2>3, <2>4 DEF DispatchResolutionChange
<1> QED BY <1>1, <1>2, <1>3, <1>4 DEF Dispatch

LEMMA MemoryInvariance == Spec => []MemoryInv
<1>1. Init => MemoryInv
  <2> SUFFICES ASSUME Init PROVE MemoryInv
    OBVIOUS
  <2>1. mapped = {} /\ Abandoned = {} /\ servers = 0 /\ display = "none" /\ surface = NoBuffer
    BY DEF Init, Abandoned
  <2> QED BY <2>1, FS_EmptySet DEF MemoryInv
<1>2. BufferInv /\ MemoryInv /\ [Next]_vars => MemoryInv'
  <2> SUFFICES ASSUME BufferInv, MemoryInv, [Next]_vars PROVE MemoryInv'
    OBVIOUS
  <2>1. ASSUME NEW c \in Conns, Viewer(c) PROVE MemoryInv'
    BY <2>1, MemoryKept DEF Viewer, Connect, Bind, Send, Read, Close, libraryVars,
                            memoryVars, serverVars
  <2>2. CASE UNCHANGED vars
    BY <2>2, MemoryKept DEF vars, memoryVars, serverVars
  <2> QED BY <2>1, <2>2, EmbedderMemory, DispatchMemory DEF Next
<1> QED BY <1>1, <1>2, BufferInvariance, PTL DEF Spec

\* The library leaks no buffer over any number of resizes, failed ones included:
\* beside the surface only those of destroyed servers stay mapped.
THEOREM BoundedMappings == Spec => []MappingsAreBounded
  BY AllMapped, BufferInvariance, MemoryInvariance, PTL

-----------------------------------------------------------------------------
(* ViewerIsHeard, when viewers follow one another *)

\* A bind that is still to be dispatched could point the server at a viewer that
\* has left meanwhile.  It comes before any bind of its successor: the successor
\* is not served before the running dispatch has ended.
OneOpen == \A c, d \in Conns : peer[c] = "open" /\ peer[d] = "open" => c = d

OneReady == \A c, d \in ready \ {Listen} : c = d

ReadyIsLatest ==
  \A c \in ready \ {Listen}, d \in clientList :
    peer[d] = "open" /\ handshake[d] = "bound" => c = d

HeardInv == OneOpen /\ OneReady /\ ReadyIsLatest /\ ViewerIsHeard

\* What leaves the connections alone keeps HeardInv.
LEMMA HeardKept ==
  ASSUME HeardInv, clientList' \subseteq clientList, ready' \subseteq ready,
         UNCHANGED <<output_implementation, peer, handshake>>
  PROVE  HeardInv'
  BY DEF HeardInv, OneOpen, OneReady, ReadyIsLatest, ViewerIsHeard

LEMMA EmbedderHeard ==
  ASSUME BufferInv, HeardInv, Embedder
  PROVE  HeardInv'
<1> USE DEF memoryVars, serverVars, dispatchVars, viewerVars, CallUnchanged
<1>1. CASE \/ lorie_server_create
           \/ \E size \in Sizes : lorie_server_resize_image(size)
           \/ lorie_server_send_current_buffer
           \/ \E box \in Boxes : lorie_server_send_damage(box)
  BY <1>1, HeardKept DEF lorie_server_create, lorie_server_resize_image,
                         lorie_server_send_current_buffer, lorie_server_send_damage
<1>2. CASE lorie_server_process
  <2>1. /\ clientList' \subseteq clientList
        /\ \A c \in ready' \ {Listen} : c \in Conns /\ peer[c] = "open"
        /\ UNCHANGED <<output_implementation, peer, handshake>>
    BY <1>2 DEF lorie_server_process, wl_client_destroy, BufferInv, TypeOK, ConnectionTypeOK
  <2>2. clientList \subseteq Conns
    BY DEF BufferInv, TypeOK, ConnectionTypeOK
  <2> QED BY <2>1, <2>2 DEF HeardInv, OneOpen, OneReady, ReadyIsLatest, ViewerIsHeard
<1>3. CASE lorie_server_destroy
  <2>1. clientList' = {} /\ UNCHANGED <<ready, peer, handshake>>
    BY <1>3 DEF lorie_server_destroy
  <2> QED BY <2>1 DEF HeardInv, OneOpen, OneReady, ReadyIsLatest, ViewerIsHeard
<1> QED BY <1>1, <1>2, <1>3 DEF Embedder

LEMMA DispatchHeard ==
  ASSUME BufferInv, HeardInv, NEW c \in Conns, Dispatch(c)
  PROVE  HeardInv'
<1> USE DEF memoryVars, serverVars, dispatchVars, viewerVars
<1>1. /\ clientList \subseteq Conns /\ backlog \subseteq Conns \ clientList
      /\ handshake \in [Conns -> {"none", "binding", "bound"}]
      /\ \A d \in backlog : handshake[d] = "none"
      /\ Listen \notin Conns
  BY ConstantsAssumption DEF BufferInv, TypeOK, ConnectionTypeOK, UnboundIsSilent
<1>2. CASE DispatchAccept(c)
  <2>1. /\ clientList' = clientList \cup {c} /\ ready' \subseteq ready
        /\ handshake[c] = "none"
        /\ UNCHANGED <<output_implementation, peer, handshake>>
    BY <1>1, <1>2 DEF DispatchAccept
  <2> QED BY <2>1 DEF HeardInv, OneOpen, OneReady, ReadyIsLatest, ViewerIsHeard
<1>3. CASE DispatchBind(c)
  <2>1. c \in ready \ {Listen}
    BY <1>1, <1>3 DEF DispatchBind
  <2>2. CASE /\ handshake' = [handshake EXCEPT ![c] = "bound"]
             /\ output_implementation' = c
             /\ ready' \subseteq ready
             /\ UNCHANGED <<clientList, peer>>
    BY <1>1, <2>1, <2>2 DEF HeardInv, OneOpen, OneReady, ReadyIsLatest, ViewerIsHeard
  <2>3. CASE /\ clientList' \subseteq clientList /\ ready' \subseteq ready
             /\ UNCHANGED <<output_implementation, peer, handshake>>
    BY <2>3, HeardKept
  <2> QED BY <1>3, <2>2, <2>3 DEF DispatchBind, wl_client_destroy
<1>4. CASE DispatchInput(c) \/ DispatchGetCurrentBuffer(c) \/ DispatchResolutionChange(c)
  <2>1. /\ ready' \subseteq ready
        /\ UNCHANGED <<clientList, output_implementation, peer, handshake>>
    BY <1>4 DEF DispatchInput, DispatchGetCurrentBuffer, DispatchResolutionChange, TakeRequest
  <2> QED BY <2>1, HeardKept
<1>5. CASE DispatchHangup(c)
  BY <1>5, HeardKept DEF DispatchHangup, wl_client_destroy
<1> QED BY <1>2, <1>3, <1>4, <1>5 DEF Dispatch

\* A socket is opened only when none is open.
LEMMA NoneOpen ==
  ASSUME MaxViewers = 1, OneOpen, NEW c \in Conns, Connect(c)
  PROVE  \A d \in Conns : peer[d] # "open"
<1> DEFINE open == {d \in Conns : peer[d] = "open"}
<1>1. ASSUME NEW d \in open PROVE FALSE
  <2>1. open = {d}
    BY DEF OneOpen
  <2>2. Cardinality(open) = 1
    BY <2>1, FS_Singleton
  <2> QED BY <2>2 DEF Connect
<1> QED BY <1>1

LEMMA ViewerHeard ==
  ASSUME BufferInv, HeardInv, NEW c \in Conns, Viewer(c),
         Connect(c) => \A d \in Conns : peer[d] # "open"
  PROVE  HeardInv'
<1> USE DEF libraryVars, memoryVars, serverVars, dispatchVars, viewerVars
<1>1. /\ clientList \subseteq Conns
      /\ peer \in [Conns -> {"unused", "open", "closed"}]
      /\ handshake \in [Conns -> {"none", "binding", "bound"}]
      /\ \A d \in clientList : peer[d] # "unused"
  BY DEF BufferInv, TypeOK, ConnectionTypeOK
<1>2. CASE Connect(c)
  <2>1. \A d \in Conns : peer[d] # "open"
    BY <1>2
  <2>2. /\ c \notin clientList /\ peer' = [peer EXCEPT ![c] = "open"]
        /\ UNCHANGED <<clientList, ready, output_implementation, handshake>>
    BY <1>1, <1>2 DEF Connect
  <2> QED BY <1>1, <2>1, <2>2 DEF HeardInv, OneOpen, OneReady, ReadyIsLatest, ViewerIsHeard
<1>3. CASE Bind(c)
  BY <1>1, <1>3 DEF Bind, HeardInv, OneOpen, OneReady, ReadyIsLatest, ViewerIsHeard
<1>4. CASE (\E request \in Request : Send(c, request)) \/ Read(c)
  BY <1>4, HeardKept DEF Send, Read
<1>5. CASE Close(c)
  <2>1. /\ peer' = [peer EXCEPT ![c] = "closed"]
        /\ UNCHANGED <<clientList, ready, output_implementation, handshake>>
    BY <1>5 DEF Close
  <2> QED BY <1>1, <2>1 DEF HeardInv, OneOpen, OneReady, ReadyIsLatest, ViewerIsHeard
<1> QED BY <1>2, <1>3, <1>4, <1>5 DEF Viewer

LEMMA HeardInvariance ==
  ASSUME MaxViewers = 1
  PROVE  Spec => []HeardInv
<1>1. Init => HeardInv
  BY DEF Init, HeardInv, OneOpen, OneReady, ReadyIsLatest, ViewerIsHeard
<1>2. BufferInv /\ HeardInv /\ [Next]_vars => HeardInv'
  <2> SUFFICES ASSUME BufferInv, HeardInv, [Next]_vars PROVE HeardInv'
    OBVIOUS
  <2>1. CASE UNCHANGED vars
    BY <2>1, HeardKept DEF vars, serverVars, dispatchVars, viewerVars
  <2>2. ASSUME NEW c \in Conns, Viewer(c) PROVE HeardInv'
    BY <2>2, NoneOpen, ViewerHeard DEF HeardInv
  <2> QED BY <2>1, <2>2, EmbedderHeard, DispatchHeard DEF Next
<1> QED BY <1>1, <1>2, BufferInvariance, PTL DEF Spec

\* If a viewer connects only after its predecessor has closed its socket, the
\* server posts to the one that is connected and bound, however late it notices
\* that the other has gone.
THEOREM HeardViewer ==
  ASSUME MaxViewers = 1
  PROVE  Spec => []ViewerIsHeard
<1>1. HeardInv => ViewerIsHeard
  BY DEF HeardInv
<1> QED BY <1>1, HeardInvariance, PTL

-----------------------------------------------------------------------------
(* BoundViewerIsSafe *)

\* Is a viewer connected and bound?
ViewerBound == \E c \in clientList : peer[c] = "open" /\ handshake[c] = "bound"

\* A process that has died serves nobody: no connection binds after it.
CrashInv == display = "crashed" => ~ ViewerBound

\* Posting is safe while the pointer is that of a client.
LEMMA PostIsSafe ==
  ASSUME ViewerIsHeard, ViewerBound, NEW ev,
         Post(ev) \/ PostIfAnyClient(ev) \/ UNCHANGED display
  PROVE  UNCHANGED display
  BY DEF ViewerIsHeard, ViewerBound, PostIfAnyClient, Post

LEMMA ResizeIsSafe ==
  ASSUME ViewerIsHeard, ViewerBound, NEW size, ResizeImage(size)
  PROVE  UNCHANGED display
  BY PostIsSafe DEF ResizeImage

LEMMA ResendIsSafe ==
  ASSUME ViewerIsHeard, ViewerBound, SendCurrentBuffer
  PROVE  UNCHANGED display
  BY PostIsSafe DEF SendCurrentBuffer

\* With a viewer bound, no call and no callback ends the process.
LEMMA BoundStepIsSafe ==
  ASSUME ViewerIsHeard, ViewerBound, display # "crashed", [Next]_vars
  PROVE  display' # "crashed"
<1> USE DEF libraryVars, memoryVars, vars
<1>1. CASE \/ lorie_server_create \/ lorie_server_process \/ lorie_server_destroy
           \/ UNCHANGED vars
  BY <1>1 DEF lorie_server_create, lorie_server_process, lorie_server_destroy
<1>2. CASE \/ \E size \in Sizes : lorie_server_resize_image(size)
           \/ lorie_server_send_current_buffer
           \/ \E box \in Boxes : lorie_server_send_damage(box)
  BY <1>2, PostIsSafe, ResizeIsSafe, ResendIsSafe
  DEF lorie_server_resize_image, lorie_server_send_current_buffer, lorie_server_send_damage
<1>3. ASSUME NEW c \in Conns, Dispatch(c) PROVE display' # "crashed"
  <2>1. CASE DispatchAccept(c) \/ DispatchBind(c) \/ DispatchInput(c) \/ DispatchHangup(c)
    BY <2>1 DEF DispatchAccept, DispatchBind, DispatchInput, DispatchHangup
  <2>2. CASE DispatchGetCurrentBuffer(c)
    BY <2>2, PostIsSafe DEF DispatchGetCurrentBuffer
  <2>3. CASE DispatchResolutionChange(c)
    BY <2>3, ResizeIsSafe, ResendIsSafe DEF DispatchResolutionChange
  <2> QED BY <1>3, <2>1, <2>2, <2>3 DEF Dispatch
<1>4. ASSUME NEW c \in Conns, Viewer(c) PROVE UNCHANGED display
  BY <1>4 DEF Viewer, Connect, Bind, Send, Read, Close
<1> QED BY <1>1, <1>2, <1>3, <1>4 DEF Next, Embedder

\* A step of a viewer binds nobody, and only such steps follow a crash.
LEMMA CrashStep ==
  ASSUME TypeOK, ViewerIsHeard, CrashInv, [Next]_vars
  PROVE  CrashInv'
<1> USE DEF libraryVars, memoryVars, serverVars, dispatchVars, viewerVars, vars
<1> SUFFICES ASSUME display' = "crashed", ViewerBound' PROVE FALSE
  BY DEF CrashInv
<1>1. /\ peer \in [Conns -> {"unused", "open", "closed"}]
      /\ handshake \in [Conns -> {"none", "binding", "bound"}]
      /\ clientList \subseteq Conns
  BY DEF TypeOK, ConnectionTypeOK
<1>2. ASSUME clientList' \subseteq clientList, UNCHANGED <<peer, handshake>>
      PROVE  FALSE
  <2>1. ViewerBound
    BY <1>2 DEF ViewerBound
  <2> QED BY <2>1, BoundStepIsSafe DEF CrashInv
<1>3. CASE Embedder
  BY <1>2, <1>3
  DEF Embedder, lorie_server_create, lorie_server_resize_image,
      lorie_server_send_current_buffer, lorie_server_send_damage,
      lorie_server_process, lorie_server_destroy, CallUnchanged, wl_client_destroy
<1>4. ASSUME NEW c \in Conns, Dispatch(c) PROVE FALSE
  <2>1. CASE DispatchAccept(c) \/ DispatchBind(c)
    BY <2>1 DEF DispatchAccept, DispatchBind
  <2>2. CASE \/ DispatchInput(c) \/ DispatchGetCurrentBuffer(c)
             \/ DispatchResolutionChange(c) \/ DispatchHangup(c)
    BY <1>2, <2>2
    DEF DispatchInput, DispatchGetCurrentBuffer, DispatchResolutionChange, TakeRequest,
        DispatchHangup, wl_client_destroy
  <2> QED BY <1>4, <2>1, <2>2 DEF Dispatch
<1>5. ASSUME NEW c \in Conns, Viewer(c) PROVE FALSE
  <2>1. display = "crashed" /\ UNCHANGED clientList
    BY <1>5 DEF Viewer, Connect, Bind, Send, Read, Close
  <2>2. CASE Connect(c)
    BY <2>1, <2>2 DEF Connect
  <2>3. CASE Bind(c)
    BY <1>1, <2>1, <2>3 DEF Bind, ViewerBound, CrashInv
  <2>4. CASE Close(c)
    BY <1>1, <2>1, <2>4 DEF Close, ViewerBound, CrashInv
  <2>5. CASE (\E request \in Request : Send(c, request)) \/ Read(c)
    BY <1>2, <2>1, <2>5 DEF Send, Read
  <2> QED BY <1>5, <2>2, <2>3, <2>4, <2>5 DEF Viewer
<1>6. CASE UNCHANGED vars
  BY <1>2, <1>6
<1> QED BY <1>3, <1>4, <1>5, <1>6 DEF Next

\* Once the viewer that is there has bound, nothing that it, its predecessors or
\* the embedder do makes the server post through a dead pointer.
THEOREM SafeWhileBound ==
  ASSUME MaxViewers = 1
  PROVE  Spec => BoundViewerIsSafe
<1>1. Init => CrashInv
  BY DEF Init, CrashInv
<1>2. TypeOK /\ ViewerIsHeard /\ CrashInv /\ [Next]_vars => CrashInv'
  BY CrashStep
<1>3. ViewerIsHeard /\ CrashInv /\ [Next]_vars => [ViewerBound => display' # "crashed"]_vars
  BY BoundStepIsSafe DEF CrashInv
<1> QED BY <1>1, <1>2, <1>3, HeardViewer, TypeCorrect, PTL
    DEF Spec, BoundViewerIsSafe, ViewerBound

=============================================================================
