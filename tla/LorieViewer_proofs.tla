------------------------- MODULE LorieViewer_proofs -------------------------
(***************************************************************************)
(* What is proved about LorieViewer for every value of its constants: type *)
(* correctness, that the renderer's buffer has its descriptor open exactly *)
(* while it is not freed, that a viewer holds one buffer at a time, that   *)
(* it lives as long as it is served, and that it implements ReceivedBuffer.*)
(***************************************************************************)
EXTENDS LorieViewer, TLAPS

-----------------------------------------------------------------------------
(* Type correctness *)

LEMMA AttachType ==
  ASSUME TypeOK, NEW b \in 1 .. MaxBuffers, NEW valid \in BOOLEAN,
         lorie_renderer_buffer_attach(b, valid)
  PROVE  /\ surface' \in Nat /\ freed' \in BOOLEAN /\ short' \in BOOLEAN
         /\ openFds' \subseteq Nat
<1>1. b \in Nat /\ surface \in Nat /\ openFds \subseteq Nat
  BY DEF TypeOK
<1>2. \A r \in lorie_buffer_fd_from_received(b, DestroysStale) :
        r.surface \in {0, b} /\ r.open \subseteq {b}
  BY DEF lorie_buffer_fd_from_received
<1>3. CASE ~ valid
  BY <1>1, <1>3 DEF lorie_renderer_buffer_attach, TypeOK
<1>4. CASE valid
  <2>1. PICK r \in lorie_buffer_fd_from_received(b, DestroysStale) :
          /\ surface' = r.surface
          /\ openFds' = (openFds \ {surface}) \cup r.open
    BY <1>4 DEF lorie_renderer_buffer_attach
  <2>2. freed' = FALSE /\ short' \in BOOLEAN
    BY <1>4 DEF lorie_renderer_buffer_attach, MayBeShort
  <2>3. r.surface \in {0, b} /\ r.open \subseteq {b}
    BY <1>2
  <2>4. surface' \in Nat
    BY <1>1, <2>1, <2>3
  <2>5. openFds' \subseteq Nat
    BY <1>1, <2>1, <2>3
  <2> QED BY <2>2, <2>4, <2>5
<1> QED BY <1>3, <1>4

LEMMA SurfaceChangeType ==
  ASSUME TypeOK, lorie_renderer_damage_surface, surface' \in Nat
  PROVE  drawn' \in Nat
  BY DEF TypeOK, lorie_renderer_damage_surface

LEMMA ProcessType ==
  ASSUME NEW bad, TypeOK, Undefined(bad)
  PROVE  process' \in {"running", "crashed"}
  BY DEF TypeOK, Undefined

LEMMA EventType ==
  /\ \A b \in 1 .. MaxBuffers, valid \in BOOLEAN : BufferEvent(b, valid) \in Event
  /\ DamageEvent \in Event
  BY DEF Event, BufferEvent, DamageEvent

LEMMA DisconnectType ==
  ASSUME TypeOK, Disconnect
  PROVE  /\ display' \in BOOLEAN
         /\ proxies' \in {"null", "live", "stale"}
         /\ outbox' \in BOOLEAN
         /\ shut' \in BOOLEAN
         /\ inbox' \in Seq(Event)
         /\ link' = "none" /\ ~ display'
<1>1. <<>> \in Seq(Event)
  OBVIOUS
<1> QED BY <1>1 DEF Disconnect, TypeOK

LEMMA HostType == TypeOK /\ Host => TypeOK'
<1> SUFFICES ASSUME TypeOK, Host PROVE TypeOK'
  OBVIOUS
<1> USE ViewerAssumption DEF TypeOK, rendererVars, linkVars, clientVars
<1>1. CASE lorie_client_create(TRUE)
  BY <1>1 DEF lorie_client_create
<1>2. CASE ConnectBegins
  BY <1>2 DEF ConnectBegins, HostRuns
<1>3. CASE ConnectReturns
  BY <1>3 DEF ConnectReturns
<1>4. CASE ConnectFails
  BY <1>4, ProcessType DEF ConnectFails
<1>5. CASE SyncDispatches
  <2>1. inbox # <<>> /\ Head(inbox) \in Event /\ Tail(inbox) \in Seq(Event)
    BY <1>5 DEF SyncDispatches
  <2>2. /\ surface' \in Nat /\ freed' \in BOOLEAN /\ short' \in BOOLEAN
        /\ openFds' \subseteq Nat /\ shut' \in BOOLEAN
    <3>1. CASE Head(inbox).type = "buffer_change_fd"
      <4>1. Head(inbox).id \in 1 .. MaxBuffers /\ Head(inbox).valid \in BOOLEAN
        BY <2>1, <3>1 DEF Event, DamageEvent
      <4>2. lorie_renderer_buffer_attach(Head(inbox).id, Head(inbox).valid)
        BY <1>5, <3>1 DEF SyncDispatches
      <4>3. shut' \in BOOLEAN
        BY <1>5, <3>1 DEF SyncDispatches, MayShutSocket
      <4> QED BY <4>1, <4>2, <4>3, AttachType
    <3>2. CASE Head(inbox).type # "buffer_change_fd"
      BY <1>5, <3>2 DEF SyncDispatches
    <3> QED BY <3>1, <3>2
  <2>3. drawn' \in Nat
    BY <1>5, <2>2, SurfaceChangeType DEF SyncDispatches
  <2>4. process' \in {"running", "crashed"}
    BY <1>5 DEF SyncDispatches, Undefined
  <2> QED BY <1>5, <2>1, <2>2, <2>3, <2>4 DEF SyncDispatches
<1>6. CASE SyncFlushes
  <2>1. drawn' \in Nat
    BY <1>6, SurfaceChangeType DEF SyncFlushes
  <2>2. process' \in {"running", "crashed"}
    BY <1>6 DEF SyncFlushes, Undefined
  <2>3. CASE FlushFails
    BY <1>6, <2>1, <2>2, <2>3, DisconnectType DEF SyncFlushes
  <2>4. CASE ~ FlushFails
    BY <1>6, <2>1, <2>2, <2>4 DEF SyncFlushes
  <2> QED BY <2>3, <2>4
<1>7. CASE lorie_client_send
  BY <1>7 DEF lorie_client_send, SendRequest, Undefined
<1>8. ASSUME NEW present \in BOOLEAN, lorie_client_attach_window(present)
      PROVE  TypeOK'
  <2>1. window' \in BOOLEAN /\ shut' \in BOOLEAN
    BY <1>8 DEF lorie_client_attach_window, MayShutSocket
  <2>2. process' \in {"running", "crashed"}
    BY <1>8 DEF lorie_client_attach_window, Undefined
  <2>3. openFds' \subseteq Nat /\ freed' \in BOOLEAN
    BY <1>8 DEF lorie_client_attach_window
  <2> QED BY <1>8, <2>1, <2>2, <2>3 DEF lorie_client_attach_window
<1>10. CASE SyncExits
  BY <1>10 DEF SyncExits
<1>9. CASE lorie_client_destroy
  <2>1. CASE display
    BY <1>9, <2>1, DisconnectType DEF lorie_client_destroy
  <2>2. CASE ~ display
    BY <1>9, <2>2 DEF lorie_client_destroy
  <2> QED BY <2>1, <2>2
<1> QED
  BY <1>1, <1>2, <1>3, <1>4, <1>5, <1>6, <1>7, <1>8, <1>9, <1>10 DEF Host, Sync

LEMMA ServerType == TypeOK /\ Server => TypeOK'
<1> SUFFICES ASSUME TypeOK, Server PROVE TypeOK'
  OBVIOUS
<1> USE ViewerAssumption DEF TypeOK, rendererVars, clientVars
<1>1. CASE ServerSendsBuffer
  <2>1. PICK valid \in BOOLEAN : inbox' = Append(inbox, BufferEvent(nextBuffer, valid))
    BY <1>1 DEF ServerSendsBuffer
  <2>2. BufferEvent(nextBuffer, valid) \in Event
    BY <1>1, EventType DEF ServerSendsBuffer
  <2> QED BY <1>1, <2>1, <2>2 DEF ServerSendsBuffer
<1>2. CASE ServerSendsDamage
  BY <1>2, EventType DEF ServerSendsDamage
<1>3. CASE ServerCloses
  BY <1>3 DEF ServerCloses
<1> QED BY <1>1, <1>2, <1>3 DEF Server

LEMMA InitType == Init => TypeOK
<1>1. <<>> \in Seq(Event)
  OBVIOUS
<1>2. 1 \in 1 .. (MaxBuffers + 1) /\ 0 \in 0 .. MaxConnects
  BY ViewerAssumption
<1>3. {} \subseteq Nat /\ 0 \in Nat /\ TRUE \in BOOLEAN /\ FALSE \in BOOLEAN
  OBVIOUS
<1> SUFFICES ASSUME Init PROVE TypeOK
  OBVIOUS
<1>4. inbox \in Seq(Event) /\ nextBuffer \in 1 .. (MaxBuffers + 1)
      /\ connects \in 0 .. MaxConnects
  BY <1>1, <1>2 DEF Init
<1> QED BY <1>3, <1>4 DEF Init, TypeOK

LEMMA StutterType == TypeOK /\ UNCHANGED vars => TypeOK'
  BY DEF TypeOK, vars, clientVars, rendererVars, linkVars

\* Type correctness of the viewer, in every environment.
THEOREM ViewerTypeCorrect == Spec => []TypeOK
<1>1. TypeOK /\ [Next]_vars => TypeOK'
  BY HostType, ServerType, StutterType DEF Next
<1> QED BY InitType, <1>1, PTL DEF Spec

-----------------------------------------------------------------------------
(* MappedIffOpen *)

IsBuffer(event) == event.type = "buffer_change_fd"

\* Buffers are received in the order of their identities: those in the inbox are
\* newer than the renderer's, so a descriptor that comes in is never the one that
\* the renderer has just closed.
InboxIsNewer ==
  /\ surface < nextBuffer
  /\ \A i \in 1 .. Len(inbox) :
       IsBuffer(inbox[i]) =>
         /\ surface < inbox[i].id
         /\ inbox[i].id < nextBuffer
  /\ \A i, j \in 1 .. Len(inbox) :
       i < j /\ IsBuffer(inbox[i]) /\ IsBuffer(inbox[j])
         => inbox[i].id < inbox[j].id

MappedInv == TypeOK /\ InboxIsNewer /\ MappedIffOpen

\* What attaching a received buffer does to the renderer.
LEMMA AttachMapped ==
  ASSUME MappedInv, NEW b \in 1 .. MaxBuffers, surface < b, NEW valid \in BOOLEAN,
         lorie_renderer_buffer_attach(b, valid)
  PROVE  MappedIffOpen' /\ surface' \in {surface, b, 0}
<1>1. surface \in Nat /\ b \in Nat /\ b # 0 /\ b # surface
  BY DEF MappedInv, TypeOK
<1>2. \A r \in lorie_buffer_fd_from_received(b, DestroysStale) :
        r.surface = 0 \/ (r.surface = b /\ r.open = {b})
  BY DEF lorie_buffer_fd_from_received
<1>3. CASE ~ valid
  BY <1>1, <1>3 DEF lorie_renderer_buffer_attach, MappedIffOpen
<1>4. CASE valid
  <2>1. PICK r \in lorie_buffer_fd_from_received(b, DestroysStale) :
          /\ surface' = r.surface
          /\ openFds' = (openFds \ {surface}) \cup r.open
    BY <1>4 DEF lorie_renderer_buffer_attach
  <2>2. freed' = FALSE
    BY <1>4 DEF lorie_renderer_buffer_attach
  <2> QED BY <1>2, <2>1, <2>2 DEF MappedIffOpen
<1> QED BY <1>3, <1>4

\* Dispatching the first event keeps the order of the others.
LEMMA DispatchMapped == MappedInv /\ SyncDispatches => InboxIsNewer' /\ MappedIffOpen'
<1> SUFFICES ASSUME MappedInv, SyncDispatches
             PROVE  InboxIsNewer' /\ MappedIffOpen'
  OBVIOUS
<1>1. /\ inbox \in Seq(Event) /\ inbox # <<>>
      /\ inbox' = Tail(inbox)
      /\ nextBuffer' = nextBuffer
  BY DEF MappedInv, TypeOK, SyncDispatches
<1>2. /\ Len(inbox') = Len(inbox) - 1
      /\ Len(inbox) \in Nat \ {0}
      /\ \A i \in 1 .. Len(inbox') : inbox'[i] = inbox[i + 1]
      /\ Head(inbox) = inbox[1] /\ inbox[1] \in Event
  BY <1>1
<1>3. \A i \in 1 .. Len(inbox') : i + 1 \in 1 .. Len(inbox) /\ 1 < i + 1
  BY <1>2
<1>4. surface \in Nat /\ nextBuffer \in Nat
  BY ViewerAssumption DEF MappedInv, TypeOK
<1>5. \A i \in 1 .. Len(inbox) : inbox[i] \in Event /\ (IsBuffer(inbox[i]) => inbox[i].id \in Nat)
  BY <1>1 DEF Event, DamageEvent, IsBuffer
<1> DEFINE MappedAndBelow ==
      /\ MappedIffOpen'
      /\ surface' < nextBuffer'
      /\ \A i \in 1 .. Len(inbox') : IsBuffer(inbox'[i]) => surface' < inbox'[i].id
<1>6. ASSUME IsBuffer(inbox[1]) PROVE MappedAndBelow
  <2>1. inbox[1].id \in 1 .. MaxBuffers /\ inbox[1].valid \in BOOLEAN
    BY <1>2, <1>6 DEF Event, DamageEvent, IsBuffer
  <2>2. surface < inbox[1].id /\ inbox[1].id < nextBuffer
    BY <1>2, <1>6 DEF MappedInv, InboxIsNewer
  <2>3. lorie_renderer_buffer_attach(inbox[1].id, inbox[1].valid)
    BY <1>2, <1>6 DEF SyncDispatches, IsBuffer
  <2>4. MappedIffOpen' /\ surface' \in {surface, inbox[1].id, 0}
    BY <2>1, <2>2, <2>3, AttachMapped
  <2>5. surface' < nextBuffer'
    BY <1>1, <1>4, <2>1, <2>2, <2>4
  <2>6. ASSUME NEW i \in 1 .. Len(inbox'), IsBuffer(inbox'[i])
        PROVE  surface' < inbox'[i].id
    <3>1. i + 1 \in 1 .. Len(inbox) /\ 1 \in 1 .. Len(inbox) /\ 1 < i + 1
          /\ inbox'[i] = inbox[i + 1] /\ inbox[i + 1].id \in Nat
      BY <1>2, <1>3, <1>5, <2>6
    <3>2. inbox[1].id < inbox[i + 1].id
      BY <1>6, <2>6, <3>1 DEF MappedInv, InboxIsNewer
    <3> QED BY <1>4, <2>1, <2>2, <2>4, <3>1, <3>2
  <2> QED BY <2>4, <2>5, <2>6
<1>7. ASSUME ~ IsBuffer(inbox[1]) PROVE MappedAndBelow
  <2>1. UNCHANGED <<surface, freed, openFds>>
    BY <1>2, <1>7 DEF SyncDispatches, IsBuffer
  <2>2. MappedIffOpen'
    BY <2>1 DEF MappedInv, MappedIffOpen
  <2>3. surface' < nextBuffer'
    BY <1>1, <2>1 DEF MappedInv, InboxIsNewer
  <2>4. ASSUME NEW i \in 1 .. Len(inbox'), IsBuffer(inbox'[i])
        PROVE  surface' < inbox'[i].id
    BY <1>2, <1>3, <2>1, <2>4 DEF MappedInv, InboxIsNewer
  <2> QED BY <2>2, <2>3, <2>4
<1>8. MappedAndBelow
  BY <1>6, <1>7, Zenon
<1>9. \A i \in 1 .. Len(inbox') : IsBuffer(inbox'[i]) => inbox'[i].id < nextBuffer'
  BY <1>1, <1>2, <1>3 DEF MappedInv, InboxIsNewer
<1>10. ASSUME NEW i \in 1 .. Len(inbox'), NEW j \in 1 .. Len(inbox'), i < j,
              IsBuffer(inbox'[i]), IsBuffer(inbox'[j])
       PROVE  inbox'[i].id < inbox'[j].id
  <2>1. i + 1 \in 1 .. Len(inbox) /\ j + 1 \in 1 .. Len(inbox) /\ i + 1 < j + 1
    BY <1>3, <1>10
  <2> QED BY <1>2, <1>10, <2>1 DEF MappedInv, InboxIsNewer
<1> QED BY <1>8, <1>9, <1>10 DEF InboxIsNewer

LEMMA SendMapped == MappedInv /\ ServerSendsBuffer => InboxIsNewer'
<1> SUFFICES ASSUME MappedInv, ServerSendsBuffer PROVE InboxIsNewer'
  OBVIOUS
<1>1. PICK valid \in BOOLEAN : inbox' = Append(inbox, BufferEvent(nextBuffer, valid))
  BY DEF ServerSendsBuffer
<1>2. /\ inbox \in Seq(Event)
      /\ Len(inbox') = Len(inbox) + 1
      /\ \A i \in 1 .. Len(inbox) : inbox'[i] = inbox[i]
      /\ inbox'[Len(inbox) + 1].id = nextBuffer
  BY <1>1 DEF MappedInv, TypeOK, BufferEvent
<1>3. /\ nextBuffer \in Nat /\ nextBuffer' = nextBuffer + 1
      /\ surface \in Nat /\ surface' = surface /\ Len(inbox) \in Nat
  BY <1>2, ViewerAssumption DEF MappedInv, TypeOK, ServerSendsBuffer, rendererVars
<1>4. \A i \in 1 .. Len(inbox) : IsBuffer(inbox[i]) => inbox[i].id \in Nat
  BY <1>2 DEF Event, DamageEvent, IsBuffer
<1>5. \A i \in 1 .. Len(inbox') : i \in 1 .. Len(inbox) \/ i = Len(inbox) + 1
  BY <1>2, <1>3
<1>6. surface' < nextBuffer'
  BY <1>3 DEF MappedInv, InboxIsNewer
<1>7. ASSUME NEW i \in 1 .. Len(inbox'), IsBuffer(inbox'[i])
      PROVE  surface' < inbox'[i].id /\ inbox'[i].id < nextBuffer'
  <2>1. CASE i \in 1 .. Len(inbox)
    BY <1>2, <1>3, <1>4, <1>7, <2>1 DEF MappedInv, InboxIsNewer
  <2>2. CASE i = Len(inbox) + 1
    BY <1>2, <1>3, <2>2 DEF MappedInv, InboxIsNewer
  <2> QED BY <1>5, <2>1, <2>2
<1>8. ASSUME NEW i \in 1 .. Len(inbox'), NEW j \in 1 .. Len(inbox'), i < j,
             IsBuffer(inbox'[i]), IsBuffer(inbox'[j])
      PROVE  inbox'[i].id < inbox'[j].id
  <2>1. i \in 1 .. Len(inbox)
    BY <1>2, <1>3, <1>5, <1>8
  <2>2. CASE j \in 1 .. Len(inbox)
    BY <1>2, <1>8, <2>1, <2>2 DEF MappedInv, InboxIsNewer
  <2>3. CASE j = Len(inbox) + 1
    BY <1>2, <1>8, <2>1, <2>3 DEF MappedInv, InboxIsNewer
  <2> QED BY <1>5, <2>2, <2>3
<1> QED BY <1>6, <1>7, <1>8 DEF InboxIsNewer

LEMMA DamageMapped == MappedInv /\ ServerSendsDamage => InboxIsNewer'
<1> SUFFICES ASSUME MappedInv, ServerSendsDamage PROVE InboxIsNewer'
  OBVIOUS
<1>1. /\ inbox \in Seq(Event) /\ Len(inbox) \in Nat
      /\ inbox' = Append(inbox, DamageEvent)
      /\ UNCHANGED <<surface, nextBuffer>>
  BY DEF MappedInv, TypeOK, ServerSendsDamage, rendererVars
<1>2. /\ Len(inbox') = Len(inbox) + 1
      /\ \A i \in 1 .. Len(inbox) : inbox'[i] = inbox[i]
      /\ inbox'[Len(inbox) + 1] = DamageEvent
  BY <1>1
<1>3. ~ IsBuffer(DamageEvent)
  BY DEF IsBuffer, DamageEvent
<1>4. \A i \in 1 .. Len(inbox') : IsBuffer(inbox'[i]) => i \in 1 .. Len(inbox)
  BY <1>1, <1>2, <1>3
<1> QED BY <1>1, <1>2, <1>4 DEF MappedInv, InboxIsNewer

LEMMA StepMapped == MappedInv /\ [Next]_vars => InboxIsNewer' /\ MappedIffOpen'
<1> SUFFICES ASSUME MappedInv, [Next]_vars PROVE InboxIsNewer' /\ MappedIffOpen'
  OBVIOUS
<1>1. ASSUME UNCHANGED <<surface, freed, openFds, nextBuffer>>,
             UNCHANGED inbox \/ inbox' = <<>>
      PROVE  InboxIsNewer' /\ MappedIffOpen'
  BY <1>1 DEF MappedInv, InboxIsNewer, MappedIffOpen
<1>2. CASE SyncDispatches
  BY <1>2, DispatchMapped
<1>3. CASE ServerSendsBuffer
  BY <1>3, SendMapped DEF ServerSendsBuffer, rendererVars, MappedInv, MappedIffOpen
<1>4. CASE ServerSendsDamage
  BY <1>4, DamageMapped DEF ServerSendsDamage, rendererVars, MappedInv, MappedIffOpen
<1>5. ASSUME NEW present \in BOOLEAN, lorie_client_attach_window(present)
      PROVE  InboxIsNewer' /\ MappedIffOpen'
  BY <1>5
  DEF lorie_client_attach_window, linkVars, MappedInv, InboxIsNewer, MappedIffOpen
<1>6. CASE SyncFlushes \/ lorie_client_destroy
  BY <1>1, <1>6 DEF SyncFlushes, lorie_client_destroy, Disconnect, rendererVars
<1>7. CASE \/ lorie_client_create(TRUE) \/ ConnectBegins \/ ConnectReturns
           \/ ConnectFails \/ SyncExits \/ lorie_client_send \/ ServerCloses
           \/ UNCHANGED vars
  BY <1>1, <1>7
  DEF lorie_client_create, ConnectBegins, ConnectReturns, ConnectFails,
      SyncExits, lorie_client_send, SendRequest, ServerCloses, vars, rendererVars,
      linkVars
<1> QED
  BY <1>2, <1>3, <1>4, <1>5, <1>6, <1>7 DEF Next, Host, Sync, Server

\* The renderer's buffer has its descriptor open exactly while it is not freed,
\* whatever fails and however windows come and go.
THEOREM DescriptorFollowsBuffer == Spec => []MappedIffOpen
<1>1. Init => MappedInv
  <2>1. Init => InboxIsNewer /\ MappedIffOpen
    BY DEF Init, InboxIsNewer, MappedIffOpen
  <2> QED BY <2>1, InitType DEF MappedInv
<1>2. MappedInv /\ [Next]_vars => MappedInv'
  BY StepMapped, HostType, ServerType, StutterType DEF MappedInv, Next
<1>3. MappedInv => MappedIffOpen
  BY DEF MappedInv
<1> QED BY <1>1, <1>2, <1>3, PTL DEF Spec

-----------------------------------------------------------------------------
(* HoldsOneBuffer *)

\* Only buffers of a usable size are received.
InboxIsUsable ==
  \A i \in 1 .. Len(inbox) : IsBuffer(inbox[i]) => inbox[i].valid = TRUE

OneBufferInv == TypeOK /\ InboxIsUsable /\ HoldsOneBuffer

LEMMA StepOneBuffer ==
  ASSUME ~ AllocFails, ~ ZeroBuffers, OneBufferInv, [Next]_vars
  PROVE  InboxIsUsable' /\ HoldsOneBuffer'
<1>1. ASSUME UNCHANGED <<surface, freed, openFds>>, UNCHANGED inbox \/ inbox' = <<>>
      PROVE  InboxIsUsable' /\ HoldsOneBuffer'
  BY <1>1 DEF OneBufferInv, InboxIsUsable, HoldsOneBuffer
<1>2. CASE SyncDispatches
  <2>1. /\ inbox \in Seq(Event) /\ inbox # <<>> /\ inbox' = Tail(inbox)
        /\ surface \in Nat
    BY <1>2 DEF OneBufferInv, TypeOK, SyncDispatches
  <2>2. /\ Len(inbox') = Len(inbox) - 1
        /\ Len(inbox) \in Nat \ {0}
        /\ \A i \in 1 .. Len(inbox') : inbox'[i] = inbox[i + 1]
        /\ Head(inbox) = inbox[1] /\ inbox[1] \in Event
    BY <2>1
  <2>3. InboxIsUsable'
    BY <2>2 DEF OneBufferInv, InboxIsUsable
  <2>4. HoldsOneBuffer'
    <3>1. CASE IsBuffer(inbox[1])
      <4> DEFINE b == inbox[1].id
      <4>1. b \in Nat \ {0} /\ inbox[1].valid = TRUE
        BY <2>2, <3>1, ViewerAssumption
        DEF Event, DamageEvent, IsBuffer, OneBufferInv, InboxIsUsable
      <4>2. lorie_renderer_buffer_attach(b, TRUE)
        BY <1>2, <2>2, <3>1, <4>1 DEF SyncDispatches, IsBuffer
      <4>3. openFds \ {surface} = {}
        BY DEF OneBufferInv, HoldsOneBuffer
      <4>4. \A r \in lorie_buffer_fd_from_received(b, DestroysStale) :
              \/ r.surface = b /\ r.open = {b}
              \/ r.surface = 0 /\ r.open = {}
        BY DEF lorie_buffer_fd_from_received
      <4>5. /\ freed' = FALSE
            /\ \/ surface' = b /\ openFds' = {b}
               \/ surface' = 0 /\ openFds' = {}
        <5> HIDE DEF b
        <5> QED BY <4>2, <4>3, <4>4 DEF lorie_renderer_buffer_attach
      <4> QED BY <4>1, <4>5 DEF HoldsOneBuffer
    <3>2. CASE ~ IsBuffer(inbox[1])
      BY <1>2, <2>2, <3>2 DEF SyncDispatches, IsBuffer, OneBufferInv, HoldsOneBuffer
    <3> QED BY <3>1, <3>2
  <2> QED BY <2>3, <2>4
<1>3. CASE ServerSendsBuffer
  <2>1. /\ inbox \in Seq(Event) /\ Len(inbox) \in Nat
        /\ inbox' = Append(inbox, BufferEvent(nextBuffer, TRUE))
    <3>1. PICK valid \in {TRUE} \cup {v \in {FALSE} : ZeroBuffers} :
            inbox' = Append(inbox, BufferEvent(nextBuffer, valid))
      BY <1>3 DEF ServerSendsBuffer
    <3>2. valid = TRUE
      OBVIOUS
    <3>3. inbox \in Seq(Event) /\ Len(inbox) \in Nat
      BY DEF OneBufferInv, TypeOK
    <3>4. inbox' = Append(inbox, BufferEvent(nextBuffer, TRUE))
      BY <3>1, <3>2, Zenon
    <3> QED BY <3>3, <3>4
  <2>2. /\ Len(inbox') = Len(inbox) + 1
        /\ \A i \in 1 .. Len(inbox) : inbox'[i] = inbox[i]
        /\ inbox'[Len(inbox) + 1].valid = TRUE
    BY <2>1 DEF BufferEvent
  <2>3. ASSUME NEW i \in 1 .. Len(inbox'), IsBuffer(inbox'[i])
        PROVE  inbox'[i].valid = TRUE
    <3>1. CASE i \in 1 .. Len(inbox)
      BY <2>2, <2>3, <3>1 DEF OneBufferInv, InboxIsUsable
    <3>2. CASE i = Len(inbox) + 1
      BY <2>2, <3>2
    <3>3. i \in 1 .. Len(inbox) \/ i = Len(inbox) + 1
      BY <2>1, <2>2
    <3> QED BY <3>1, <3>2, <3>3, Zenon
  <2>4. InboxIsUsable'
    BY <2>3 DEF InboxIsUsable
  <2> QED BY <1>3, <2>4 DEF ServerSendsBuffer, rendererVars, OneBufferInv, HoldsOneBuffer
<1>4. CASE ServerSendsDamage
  <2>1. /\ inbox \in Seq(Event) /\ Len(inbox) \in Nat
        /\ inbox' = Append(inbox, DamageEvent)
    BY <1>4 DEF OneBufferInv, TypeOK, ServerSendsDamage
  <2>2. /\ Len(inbox') = Len(inbox) + 1
        /\ \A i \in 1 .. Len(inbox) : inbox'[i] = inbox[i]
        /\ ~ IsBuffer(inbox'[Len(inbox) + 1])
    BY <2>1 DEF DamageEvent, IsBuffer
  <2>3. InboxIsUsable'
    BY <2>1, <2>2 DEF OneBufferInv, InboxIsUsable
  <2> QED BY <1>4, <2>3 DEF ServerSendsDamage, rendererVars, OneBufferInv, HoldsOneBuffer
<1>5. CASE SyncFlushes \/ lorie_client_destroy
  BY <1>1, <1>5 DEF SyncFlushes, lorie_client_destroy, Disconnect, rendererVars
<1>6. CASE \/ lorie_client_create(TRUE) \/ ConnectBegins \/ ConnectReturns
           \/ ConnectFails \/ SyncExits \/ lorie_client_send \/ ServerCloses
           \/ UNCHANGED vars
  BY <1>1, <1>6
  DEF lorie_client_create, ConnectBegins, ConnectReturns, ConnectFails,
      SyncExits, lorie_client_send, SendRequest, ServerCloses, vars, rendererVars,
      linkVars
<1>7. CASE \E present \in BOOLEAN : lorie_client_attach_window(present)
  <2>1. /\ openFds' = openFds \ {surface}
        /\ freed' = (surface # 0)
        /\ UNCHANGED <<surface, inbox>>
    BY <1>7 DEF lorie_client_attach_window, linkVars
  <2>2. InboxIsUsable'
    BY <2>1 DEF OneBufferInv, InboxIsUsable
  <2>3. openFds' = {} /\ (surface' # 0 => freed' = TRUE)
    BY <2>1 DEF OneBufferInv, HoldsOneBuffer
  <2> QED BY <2>2, <2>3 DEF HoldsOneBuffer
<1> QED
  BY <1>2, <1>3, <1>4, <1>5, <1>6, <1>7 DEF Next, Host, Sync, Server

\* A viewer whose allocations succeed and which is sent usable buffers holds the
\* one buffer it draws from, or none once that was dropped with a window, over
\* any number of buffers, windows and reconnections.
THEOREM OneBuffer ==
  ASSUME ~ AllocFails, ~ ZeroBuffers
  PROVE  Spec => []HoldsOneBuffer
<1>1. Init => OneBufferInv
  <2>1. Init => InboxIsUsable /\ HoldsOneBuffer
    BY DEF Init, InboxIsUsable, HoldsOneBuffer
  <2> QED BY <2>1, InitType DEF OneBufferInv
<1>2. OneBufferInv /\ [Next]_vars => OneBufferInv'
  BY StepOneBuffer, HostType, ServerType, StutterType DEF OneBufferInv, Next
<1>3. OneBufferInv => HoldsOneBuffer
  BY DEF OneBufferInv
<1> QED BY <1>1, <1>2, <1>3, PTL DEF Spec

-----------------------------------------------------------------------------
(* ServedViewerLives *)

\* Proxies left from an earlier connection, or none, are only to be found while the
\* roundtrip of the next one lasts and once the server has gone.
ProxyInv ==
  /\ connecting => display
  /\ client = "unborn" => ~ display
  /\ ~ connecting /\ link \in {"open", "bound"} => proxies = "live"

LEMMA ProxyStep == TypeOK /\ ProxyInv /\ [Next]_vars => ProxyInv'
<1> SUFFICES ASSUME TypeOK, ProxyInv, [Next]_vars PROVE ProxyInv'
  OBVIOUS
<1> USE DEF ProxyInv, rendererVars, linkVars, clientVars
<1>1. CASE lorie_client_create(TRUE)
  BY <1>1 DEF lorie_client_create
<1>2. CASE ConnectBegins \/ ConnectReturns \/ ConnectFails
  BY <1>2 DEF ConnectBegins, ConnectReturns, ConnectFails, HostRuns
<1>3. CASE SyncDispatches
  <2>1. UNCHANGED <<client, connecting, display, proxies, link>>
    BY <1>3 DEF SyncDispatches
  <2> QED BY <2>1
<1>9. CASE SyncExits
  BY <1>9 DEF SyncExits
<1>4. CASE SyncFlushes
  BY <1>4 DEF SyncFlushes, Disconnect, HostRuns
<1>5. CASE lorie_client_send \/ \E present \in BOOLEAN : lorie_client_attach_window(present)
  <2>1. UNCHANGED <<client, connecting, display, proxies, link>>
    BY <1>5 DEF lorie_client_send, SendRequest, lorie_client_attach_window
  <2> QED BY <2>1
<1>6. CASE lorie_client_destroy
  BY <1>6 DEF lorie_client_destroy, Disconnect, HostRuns
<1>7. CASE Server
  <2>1. UNCHANGED <<client, connecting, display, proxies>> /\ link' \in {link, "eof"}
    BY <1>7 DEF Server, ServerSendsBuffer, ServerSendsDamage, ServerCloses
  <2> QED BY <2>1
<1>8. CASE UNCHANGED vars
  BY <1>8 DEF vars
<1> QED BY <1>1, <1>2, <1>3, <1>4, <1>5, <1>6, <1>7, <1>8, <1>9 DEF Next, Host, Sync

\* What may kill the viewer is a pointer of the renderer that is stale, and the
\* socket closed through it, a buffer that is too short, or proxies that are stale.
LEMMA ServedStepLives ==
  ASSUME TypeOK, ProxyInv, [Next]_vars,
         link \in {"open", "bound"}, ~ freed, ~ freed', ~ shut, ~ short'
  PROVE  UNCHANGED process
<1>1. display /\ client # "unborn" /\ (~ connecting => proxies = "live")
  BY DEF TypeOK, ProxyInv
<1>2. CASE lorie_client_create(TRUE) \/ ConnectFails
  BY <1>1, <1>2 DEF lorie_client_create, ConnectFails
<1>3. CASE Sync
  BY <1>3 DEF Sync, SyncDispatches, SyncFlushes, SyncExits, Undefined, DestroysStale,
              DrawingIsUnsafe
<1>4. CASE lorie_client_send
  BY <1>1, <1>4 DEF lorie_client_send, HostRuns, SendRequest, Undefined
<1>5. CASE \E present \in BOOLEAN : lorie_client_attach_window(present)
  BY <1>5 DEF lorie_client_attach_window, Undefined, DestroysStale
<1>6. CASE ConnectBegins \/ ConnectReturns \/ lorie_client_destroy \/ Server
  BY <1>6 DEF ConnectBegins, ConnectReturns, lorie_client_destroy, Server,
              ServerSendsBuffer, ServerSendsDamage, ServerCloses
<1>7. CASE UNCHANGED vars
  BY <1>7 DEF vars
<1> QED BY <1>2, <1>3, <1>4, <1>5, <1>6, <1>7 DEF Next, Host, Sync

\* Whatever connections came and went before, failed ones included, a viewer that
\* the server has not left follows no dead proxy: it lives, unless its renderer has
\* a stale pointer, or a buffer without all of its pixels, or has closed the socket
\* through such a pointer.
THEOREM ServedLives == Spec => ServedViewerLives
<1>1. Init => ProxyInv
  BY DEF Init, ProxyInv
<1>2. TypeOK /\ ProxyInv /\ [Next]_vars
        => [(link \in {"open", "bound"} /\ ~ freed /\ ~ freed' /\ ~ shut /\ ~ short')
              => UNCHANGED process]_vars
  BY ServedStepLives
<1> QED BY <1>1, <1>2, ProxyStep, ViewerTypeCorrect, PTL DEF Spec, ServedViewerLives

-----------------------------------------------------------------------------
(* ReceivesBuffers *)

\* The descriptors that are open are those of buffers received earlier than the
\* ones in the inbox, so the next one is none of them.
InboxIsFresh ==
  /\ 0 \notin openFds
  /\ \A b \in openFds : b < nextBuffer
  /\ \A i \in 1 .. Len(inbox) :
       IsBuffer(inbox[i]) =>
         /\ ZeroBuffers \/ inbox[i].valid
         /\ \A b \in openFds : b < inbox[i].id

ReceivedInv == MappedInv /\ InboxIsFresh

\* A buffer that is received is replaced, refused, lost or ignored.
LEMMA AttachReceives ==
  ASSUME ReceivedInv, NEW b \in 1 .. MaxBuffers, b \notin openFds, surface < b,
         NEW valid \in BOOLEAN, ZeroBuffers \/ valid,
         lorie_renderer_buffer_attach(b, valid)
  PROVE  /\ [Received!Next]_(Received!vars)
         /\ openFds' \subseteq openFds \cup {b}
<1>1. /\ b # 0 /\ surface # b /\ 0 \notin openFds
      /\ surface # 0 => (surface \in openFds <=> ~ freed)
  BY DEF ReceivedInv, InboxIsFresh, MappedInv, TypeOK, MappedIffOpen
<1> DEFINE kept == openFds \ {surface}
<1>2. CASE ~ valid
  <2>1. /\ freed' = (surface # 0) /\ surface' = surface
        /\ openFds' = kept \cup {b} \/ (openFds' = kept /\ DestroysStale)
    BY <1>2 DEF lorie_renderer_buffer_attach
  <2>2. CASE openFds' = kept \cup {b}
    <3>1. /\ b \in (1 .. MaxBuffers) \ ((openFds \cap {surface}) \cup kept)
          /\ openFds' \ {surface'} = kept \cup {b}
      BY <1>1, <2>1, <2>2
    <3>2. /\ openFds' \cap {surface'} = {}
          /\ (surface' # 0 /\ freed')
               = ((surface # 0 /\ freed) \/ openFds \cap {surface} # {})
      BY <1>1, <2>1, <2>2
    <3>3. Received!Ignore
      BY <1>2, <3>1, <3>2 DEF Received!Ignore, Received!Release, Received!Fresh
    <3> QED BY <2>2, <3>3 DEF Received!Next
  <2>3. CASE openFds' = kept /\ DestroysStale
    <3>1. Received!Drop
      BY <1>1, <2>1, <2>3 DEF Received!Drop, Received!Release, DestroysStale
    <3> QED BY <2>3, <3>1 DEF Received!Next
  <2> QED BY <2>1, <2>2, <2>3
<1>3. CASE valid
  <2>1. PICK r \in lorie_buffer_fd_from_received(b, DestroysStale) :
          surface' = r.surface /\ openFds' = kept \cup r.open
    BY <1>3 DEF lorie_renderer_buffer_attach
  <2>2. freed' = FALSE
    BY <1>3 DEF lorie_renderer_buffer_attach
  <2>3. \/ r.surface = b /\ r.open = {b}
        \/ r.surface = 0 /\ r.open = {} /\ (AllocFails \/ DestroysStale)
        \/ r.surface = 0 /\ r.open = {b} /\ AllocFails
    BY DEF lorie_buffer_fd_from_received
  <2>4. CASE surface' = b /\ openFds' = kept \cup {b}
    <3>1. Received!Replace
      BY <1>1, <2>2, <2>4 DEF Received!Replace, Received!Fresh
    <3> QED BY <2>4, <3>1 DEF Received!Next
  <2>5. CASE surface' = 0 /\ openFds' = kept /\ (AllocFails \/ DestroysStale)
    <3>1. Received!Refuse
      BY <1>1, <2>2, <2>5 DEF Received!Refuse, DestroysStale
    <3> QED BY <2>5, <3>1 DEF Received!Next
  <2>6. CASE surface' = 0 /\ openFds' = kept \cup {b} /\ AllocFails
    <3>1. Received!Lose
      BY <1>1, <2>2, <2>6 DEF Received!Lose, Received!Fresh
    <3> QED BY <2>6, <3>1 DEF Received!Next
  <2> QED BY <2>1, <2>3, <2>4, <2>5, <2>6
<1> QED BY <1>2, <1>3

LEMMA DispatchReceives ==
  ASSUME ReceivedInv, SyncDispatches
  PROVE  InboxIsFresh' /\ [Received!Next]_(Received!vars)
<1>1. /\ inbox \in Seq(Event) /\ inbox # <<>> /\ inbox' = Tail(inbox)
      /\ nextBuffer' = nextBuffer
  BY DEF ReceivedInv, MappedInv, TypeOK, SyncDispatches
<1>2. /\ Len(inbox') = Len(inbox) - 1 /\ Len(inbox) \in Nat \ {0}
      /\ \A i \in 1 .. Len(inbox') :
           inbox'[i] = inbox[i + 1] /\ i + 1 \in 1 .. Len(inbox) /\ 1 < i + 1
      /\ Head(inbox) = inbox[1] /\ inbox[1] \in Event /\ 1 \in 1 .. Len(inbox)
  BY <1>1
<1>3. CASE IsBuffer(inbox[1])
  <2> DEFINE b == inbox[1].id
  <2>1. b \in 1 .. MaxBuffers /\ inbox[1].valid \in BOOLEAN
    BY <1>2, <1>3 DEF Event, DamageEvent, IsBuffer
  <2>2. lorie_renderer_buffer_attach(b, inbox[1].valid)
    BY <1>2, <1>3 DEF SyncDispatches, IsBuffer
  <2>3. /\ surface < b /\ b < nextBuffer
        /\ ZeroBuffers \/ inbox[1].valid
        /\ \A d \in openFds : d < b
    BY <1>2, <1>3 DEF ReceivedInv, InboxIsFresh, MappedInv, InboxIsNewer
  <2>4. b \notin openFds
    BY <2>1, <2>3
  <2>5. openFds' \subseteq openFds \cup {b} /\ [Received!Next]_(Received!vars)
    BY <2>1, <2>2, <2>3, <2>4, AttachReceives
  <2>6. ASSUME NEW i \in 1 .. Len(inbox'), IsBuffer(inbox'[i])
        PROVE  b < inbox'[i].id
    BY <1>2, <1>3, <2>6 DEF ReceivedInv, MappedInv, InboxIsNewer
  <2>7. 0 \notin openFds'
    BY <2>1, <2>5 DEF ReceivedInv, InboxIsFresh
  <2>8. \A d \in openFds' : d < nextBuffer'
    BY <1>1, <2>3, <2>5 DEF ReceivedInv, InboxIsFresh
  <2>9. ASSUME NEW i \in 1 .. Len(inbox'), IsBuffer(inbox'[i])
        PROVE  /\ ZeroBuffers \/ inbox'[i].valid
               /\ \A d \in openFds' : d < inbox'[i].id
    BY <1>2, <2>5, <2>6, <2>9 DEF ReceivedInv, InboxIsFresh
  <2> QED BY <2>5, <2>7, <2>8, <2>9 DEF InboxIsFresh
<1>4. CASE ~ IsBuffer(inbox[1])
  <2>1. UNCHANGED <<surface, freed, openFds>>
    BY <1>2, <1>4 DEF SyncDispatches, IsBuffer
  <2>2. InboxIsFresh'
    BY <1>1, <1>2, <2>1 DEF ReceivedInv, InboxIsFresh
  <2> QED BY <2>1, <2>2 DEF Received!vars
<1> QED BY <1>3, <1>4

LEMMA StepReceives ==
  ASSUME ReceivedInv, [Next]_vars
  PROVE  InboxIsFresh' /\ [Received!Next]_(Received!vars)
<1>1. ASSUME UNCHANGED <<surface, freed, openFds, nextBuffer>>,
             UNCHANGED inbox \/ inbox' = <<>>
      PROVE  InboxIsFresh' /\ UNCHANGED Received!vars
  BY <1>1 DEF ReceivedInv, InboxIsFresh, Received!vars
<1>2. CASE ServerSendsBuffer
  <2>1. PICK valid \in BOOLEAN : /\ inbox' = Append(inbox, BufferEvent(nextBuffer, valid))
                                 /\ ZeroBuffers \/ valid
    BY <1>2 DEF ServerSendsBuffer
  <2>2. /\ inbox \in Seq(Event) /\ Len(inbox) \in Nat
        /\ nextBuffer \in Nat /\ nextBuffer' = nextBuffer + 1
        /\ UNCHANGED <<surface, freed, openFds>> /\ openFds \subseteq Nat
    BY <1>2, ViewerAssumption
    DEF ServerSendsBuffer, rendererVars, ReceivedInv, MappedInv, TypeOK
  <2>3. /\ Len(inbox') = Len(inbox) + 1
        /\ \A i \in 1 .. Len(inbox) : inbox'[i] = inbox[i]
        /\ inbox'[Len(inbox) + 1].id = nextBuffer
        /\ inbox'[Len(inbox) + 1].valid = valid
    BY <2>1, <2>2 DEF BufferEvent
  <2>4. \A d \in openFds' : d < nextBuffer /\ d < nextBuffer'
    BY <2>2 DEF ReceivedInv, InboxIsFresh
  <2>5. ASSUME NEW i \in 1 .. Len(inbox'), IsBuffer(inbox'[i])
        PROVE  /\ ZeroBuffers \/ inbox'[i].valid
               /\ \A d \in openFds' : d < inbox'[i].id
    <3>1. i \in 1 .. Len(inbox) \/ i = Len(inbox) + 1
      BY <2>2, <2>3
    <3>2. CASE i \in 1 .. Len(inbox)
      BY <2>2, <2>3, <2>5, <3>2 DEF ReceivedInv, InboxIsFresh
    <3>3. CASE i = Len(inbox) + 1
      BY <2>1, <2>3, <2>4, <3>3
    <3> QED BY <3>1, <3>2, <3>3
  <2>6. InboxIsFresh'
    BY <2>2, <2>4, <2>5 DEF ReceivedInv, InboxIsFresh
  <2> QED BY <2>2, <2>6 DEF Received!vars
<1>3. CASE ServerSendsDamage
  <2>1. /\ inbox \in Seq(Event) /\ Len(inbox) \in Nat
        /\ inbox' = Append(inbox, DamageEvent)
        /\ UNCHANGED <<surface, freed, openFds, nextBuffer>>
    BY <1>3 DEF ReceivedInv, MappedInv, TypeOK, ServerSendsDamage, rendererVars
  <2>2. /\ Len(inbox') = Len(inbox) + 1
        /\ \A i \in 1 .. Len(inbox) : inbox'[i] = inbox[i]
        /\ ~ IsBuffer(inbox'[Len(inbox) + 1])
    BY <2>1 DEF DamageEvent, IsBuffer
  <2>3. InboxIsFresh'
    BY <2>1, <2>2 DEF ReceivedInv, InboxIsFresh
  <2> QED BY <2>1, <2>3 DEF Received!vars
<1>4. ASSUME NEW present \in BOOLEAN, lorie_client_attach_window(present)
      PROVE  InboxIsFresh' /\ Received!Drop
  <2>1. /\ openFds' = openFds \ {surface}
        /\ freed' = (surface # 0)
        /\ UNCHANGED <<surface, inbox, nextBuffer>>
    BY <1>4 DEF lorie_client_attach_window, linkVars
  <2>2. InboxIsFresh'
    BY <2>1 DEF ReceivedInv, InboxIsFresh
  <2>3. 0 \notin openFds /\ (surface # 0 => (surface \in openFds <=> ~ freed))
    BY DEF ReceivedInv, InboxIsFresh, MappedInv, MappedIffOpen
  <2> QED BY <2>1, <2>2, <2>3 DEF Received!Drop, Received!Release
<1>5. CASE SyncFlushes \/ lorie_client_destroy
  BY <1>1, <1>5 DEF SyncFlushes, lorie_client_destroy, Disconnect, rendererVars
<1>6. CASE \/ lorie_client_create(TRUE) \/ ConnectBegins \/ ConnectReturns
           \/ ConnectFails \/ SyncExits \/ lorie_client_send \/ ServerCloses
           \/ UNCHANGED vars
  BY <1>1, <1>6
  DEF lorie_client_create, ConnectBegins, ConnectReturns, ConnectFails,
      SyncExits, lorie_client_send, SendRequest, ServerCloses, vars, rendererVars,
      linkVars
<1> QED
  BY <1>2, <1>3, <1>4, <1>5, <1>6, DispatchReceives
  DEF Next, Host, Sync, Server, Received!Next

LEMMA InitReceives == Init => ReceivedInv /\ Received!Init
<1>1. Init => InboxIsNewer /\ MappedIffOpen /\ InboxIsFresh
  BY DEF Init, InboxIsNewer, MappedIffOpen, InboxIsFresh
<1>2. Init => Received!Init
  BY DEF Init, Received!Init
<1> QED BY <1>1, <1>2, InitType DEF MappedInv, ReceivedInv

\* The viewer implements what is said of its renderer: a descriptor is held, closed
\* when the next one comes, or lost for one of the reasons the code has.
THEOREM ViewerReceives == Spec => ReceivesBuffers
<1>1. ReceivedInv /\ [Next]_vars => ReceivedInv'
  BY StepReceives, StepMapped, HostType, ServerType, StutterType
  DEF ReceivedInv, MappedInv, Next
<1>2. ReceivedInv /\ [Next]_vars => [Received!Next]_(Received!vars)
  BY StepReceives
<1> QED BY InitReceives, <1>1, <1>2, PTL DEF Spec, ReceivesBuffers, Received!Spec

=============================================================================
