-------------------------- MODULE AndroidApp_proofs --------------------------
(***************************************************************************)
(* What is proved about AndroidApp for every value of its constants: type  *)
(* correctness, that the renderer's descriptor stays sound under the two   *)
(* threads, and that no window is drawn on once its surface is gone.       *)
(***************************************************************************)
EXTENDS AndroidApp, LorieViewer_proofs

-----------------------------------------------------------------------------
(* What the two threads do to the client *)

\* Every step is one of the viewer's, but for a send that the UI thread checked
\* too early and a client that is created without a window.
LEMMA StepOfClient ==
  ASSUME [ANext]_avars
  PROVE  \/ [Next]_vars
         \/ SendRequest
         \/ \E present \in BOOLEAN : lorie_client_create(present)
<1>1. CASE UIThread
  BY <1>1 DEF UIThread, StorePendingWin, WriteSurfaceCreated, nativeSurfaceDestroyed,
              CheckConnected, SendChecked
<1>2. CASE taskRead \/ ClearPendingWin
  BY <1>2 DEF taskRead, ClearPendingWin
<1>3. CASE HandleSurfaceCreated \/ HandleSurfaceDestroyed
  <2>1. (pendingWin # 0) \in BOOLEAN
    OBVIOUS
  <2> QED BY <1>3, <2>1 DEF HandleSurfaceCreated, HandleSurfaceDestroyed, Next, Host
<1>4. CASE Serve \/ FinishConnect
  BY <1>4 DEF Serve, FinishConnect, Next, Host
<1>5. CASE Server \/ UNCHANGED avars
  BY <1>5 DEF Next, avars
<1> QED BY <1>1, <1>2, <1>3, <1>4, <1>5 DEF ANext, taskThread

LEMMA ClientType ==
  ASSUME TypeOK, [ANext]_avars
  PROVE  TypeOK'
<1>1. CASE [Next]_vars
  BY <1>1, HostType, ServerType, StutterType DEF Next
<1>2. CASE SendRequest
  BY <1>2 DEF TypeOK, SendRequest, Undefined, rendererVars, linkVars
<1>3. CASE \E present \in BOOLEAN : lorie_client_create(present)
  <2>1. /\ UNCHANGED <<connecting, display, proxies, outbox, shut>>
        /\ UNCHANGED <<surface, freed, short, openFds, drawn>>
        /\ UNCHANGED <<link, inbox, nextBuffer, connects>>
    BY <1>3 DEF lorie_client_create, linkVars
  <2>2. /\ process' \in {process, "crashed"}
        /\ client' \in {client, "alive"}
        /\ window' \in {window, TRUE}
    BY <1>3 DEF lorie_client_create
  <2>3. /\ process' \in {"running", "crashed"}
        /\ client' \in {"unborn", "alive", "destroyed"}
        /\ window' \in BOOLEAN
    BY <2>2 DEF TypeOK
  <2> QED BY <2>1, <2>3 DEF TypeOK
<1> QED BY <1>1, <1>2, <1>3, StepOfClient

\* The renderer's descriptor is sound under the two threads, too.
THEOREM AppDescriptors == ASpec => []MappedIffOpen
<1>1. AInit => MappedInv
  BY InitType, ViewerAssumption DEF AInit, Init, MappedInv, InboxIsNewer, MappedIffOpen
<1>2. MappedInv /\ [ANext]_avars => MappedInv'
  <2> SUFFICES ASSUME MappedInv, [ANext]_avars PROVE MappedInv'
    OBVIOUS
  <2>1. TypeOK'
    BY ClientType DEF MappedInv
  <2>2. CASE [Next]_vars
    BY <2>1, <2>2, StepMapped DEF MappedInv
  <2>3. CASE UNCHANGED <<surface, freed, openFds, inbox, nextBuffer>>
    BY <2>1, <2>3 DEF MappedInv, InboxIsNewer, MappedIffOpen
  <2>4. CASE SendRequest \/ \E present \in BOOLEAN : lorie_client_create(present)
    BY <2>3, <2>4 DEF SendRequest, lorie_client_create, rendererVars, linkVars
  <2> QED BY <2>2, <2>4, StepOfClient
<1>3. MappedInv => MappedIffOpen
  BY DEF MappedInv
<1> QED BY <1>1, <1>2, <1>3, PTL DEF ASpec

\* So is what becomes of the descriptors that it receives: no interleaving of the
\* threads closes or loses another one.
THEOREM AppReceives == ASpec => ReceivesBuffers
<1>1. AInit => ReceivedInv /\ Received!Init
  BY InitReceives DEF AInit
<1>2. ReceivedInv /\ [ANext]_avars => ReceivedInv' /\ [Received!Next]_(Received!vars)
  <2> SUFFICES ASSUME ReceivedInv, [ANext]_avars
               PROVE  ReceivedInv' /\ [Received!Next]_(Received!vars)
    OBVIOUS
  <2>1. TypeOK'
    BY ClientType DEF ReceivedInv, MappedInv
  <2>2. CASE [Next]_vars
    BY <2>1, <2>2, StepMapped, StepReceives DEF ReceivedInv, MappedInv
  <2>3. ASSUME UNCHANGED <<surface, freed, openFds, inbox, nextBuffer>>
        PROVE  ReceivedInv' /\ UNCHANGED Received!vars
    BY <2>1, <2>3
    DEF ReceivedInv, MappedInv, InboxIsNewer, InboxIsFresh, MappedIffOpen, Received!vars
  <2>4. CASE SendRequest \/ \E present \in BOOLEAN : lorie_client_create(present)
    BY <2>3, <2>4 DEF SendRequest, lorie_client_create, rendererVars, linkVars
  <2> QED BY <2>2, <2>4, StepOfClient
<1> QED BY <1>1, <1>2, PTL DEF ASpec, ReceivesBuffers, Received!Spec

-----------------------------------------------------------------------------
(* Type correctness *)

\* A client that was never created has no window.
UnbornIsBlank == client = "unborn" => ~ window

AppTypeOK ==
  /\ ui \in {"idle", "stored", "checked"}
  /\ javaSurface \in 0 .. MaxSurfaces
  /\ nextSurface \in 1 .. (MaxSurfaces + 1)
  /\ overrun \in BOOLEAN
  /\ queue \in Seq(Message)
  /\ pendingWin \in 0 .. MaxSurfaces
  /\ task \in Message \cup {"drain", "used", "serve", "connect"}
  /\ shown \in 0 .. MaxSurfaces
  /\ refused \in BOOLEAN

\* The renderer's window is the one recorded, and only the task thread connects.
AppMatchesClient ==
  /\ window <=> shown # 0
  /\ connecting => task = "connect"

LEMMA AppParts == ATypeOK <=> TypeOK /\ AppTypeOK /\ AppMatchesClient
  BY DEF ATypeOK, AppTypeOK, AppMatchesClient

LEMMA AppPartsNext == ATypeOK' <=> TypeOK' /\ AppTypeOK' /\ AppMatchesClient'
  BY DEF ATypeOK, AppTypeOK, AppMatchesClient

\* The messages that the threads write and read.
LEMMA QueueType ==
  ASSUME AppTypeOK
  PROVE  /\ \A m \in Message : Append(queue, m) \in Seq(Message)
         /\ queue # <<>> => Head(queue) \in Message /\ Tail(queue) \in Seq(Message)
  BY DEF AppTypeOK

LEMMA AppStepType ==
  ASSUME AppTypeOK, [ANext]_avars
  PROVE  AppTypeOK'
<1> USE AppAssumption, QueueType DEF AppTypeOK
<1>1. CASE StorePendingWin
  BY <1>1 DEF StorePendingWin, taskVars, TakenOver
<1>2. CASE WriteSurfaceCreated
  BY <1>2 DEF WriteSurfaceCreated, taskVars, Message
<1>3. CASE nativeSurfaceDestroyed
  BY <1>3 DEF nativeSurfaceDestroyed, taskVars, Message
<1>4. CASE CheckConnected \/ SendChecked
  BY <1>4 DEF CheckConnected, SendChecked, taskVars
<1>5. CASE taskRead
  BY <1>5 DEF taskRead, uiVars
<1>6. CASE HandleSurfaceCreated \/ HandleSurfaceDestroyed
  <2>1. shown' \in {0, pendingWin} /\ task' \in {"used", "drain"} /\ refused' \in BOOLEAN
    BY <1>6 DEF HandleSurfaceCreated, HandleSurfaceDestroyed
  <2>2. UNCHANGED <<uiVars, queue, pendingWin>>
    BY <1>6 DEF HandleSurfaceCreated, HandleSurfaceDestroyed
  <2> QED BY <2>1, <2>2 DEF uiVars
<1>7. CASE ClearPendingWin
  BY <1>7 DEF ClearPendingWin, uiVars
<1>8. CASE Serve \/ FinishConnect
  BY <1>8 DEF Serve, FinishConnect, uiVars
<1>9. CASE UNCHANGED appVars
  BY <1>9 DEF appVars, uiVars, taskVars
<1> QED
  BY <1>1, <1>2, <1>3, <1>4, <1>5, <1>6, <1>7, <1>8, <1>9
  DEF ANext, UIThread, taskThread, avars

\* A viewer's step neither moves the window nor begins a connection, unless it is
\* one of these.
LEMMA ClientKeepsWindow ==
  ASSUME \/ Sync \/ ConnectReturns \/ ConnectFails \/ Server \/ SendRequest
         \/ UNCHANGED vars
  PROVE  /\ UNCHANGED <<window, client>>
         /\ connecting' => connecting
<1> USE DEF rendererVars, clientVars
<1>1. CASE Sync
  BY <1>1 DEF Sync, SyncDispatches, SyncFlushes, SyncExits
<1>2. CASE ConnectReturns \/ ConnectFails
  BY <1>2 DEF ConnectReturns, ConnectFails
<1>3. CASE Server
  <2>1. UNCHANGED <<window, client, connecting>>
    BY <1>3 DEF Server, ServerSendsBuffer, ServerSendsDamage, ServerCloses
  <2> QED BY <2>1
<1>4. CASE SendRequest \/ UNCHANGED vars
  BY <1>4 DEF SendRequest, vars
<1> QED BY <1>1, <1>2, <1>3, <1>4

LEMMA MatchStays ==
  ASSUME AppMatchesClient, UnbornIsBlank, UNCHANGED <<shown, window, client>>,
         connecting' => connecting /\ task' = task
  PROVE  AppMatchesClient' /\ UnbornIsBlank'
  BY DEF AppMatchesClient, UnbornIsBlank

LEMMA AppStepMatches ==
  ASSUME AppMatchesClient, UnbornIsBlank, [ANext]_avars
  PROVE  AppMatchesClient' /\ UnbornIsBlank'
<1>1. CASE UIThread
  BY <1>1, ClientKeepsWindow, MatchStays
  DEF UIThread, StorePendingWin, WriteSurfaceCreated, nativeSurfaceDestroyed,
      CheckConnected, SendChecked, taskVars
<1>2. CASE taskRead \/ ClearPendingWin
  BY <1>2, ClientKeepsWindow, MatchStays
  DEF taskRead, ClearPendingWin, TaskRuns, AppMatchesClient
<1>3. CASE HandleSurfaceCreated
  <2>1. task = "MSG_SURFACE_CREATED" /\ ~ connecting
    BY <1>3 DEF HandleSurfaceCreated, TaskRuns, AppMatchesClient
  <2>2. shown' = IF window' THEN pendingWin ELSE 0
    BY <1>3 DEF HandleSurfaceCreated
  <2>3. CASE lorie_client_create(pendingWin # 0)
    <3>1. connecting' = connecting /\ client = "unborn" /\ ~ window
      BY <2>3 DEF lorie_client_create, UnbornIsBlank
    <3>2. \/ pendingWin # 0 /\ client' = "alive" /\ window' = TRUE
          \/ UNCHANGED <<client, window>>
      BY <2>3 DEF lorie_client_create
    <3> QED BY <2>1, <2>2, <3>1, <3>2 DEF AppMatchesClient, UnbornIsBlank
  <2>4. CASE lorie_client_attach_window(pendingWin # 0)
    <3>1. /\ window' \in {pendingWin # 0, FALSE}
          /\ connecting' = connecting /\ client' = "alive"
      BY <2>4 DEF lorie_client_attach_window, clientVars, HostRuns
    <3> QED BY <2>1, <2>2, <3>1 DEF AppMatchesClient, UnbornIsBlank
  <2> QED BY <1>3, <2>3, <2>4 DEF HandleSurfaceCreated
<1>4. CASE HandleSurfaceDestroyed
  <2>1. task = "MSG_SURFACE_DESTROYED" /\ ~ connecting /\ shown' = 0
    BY <1>4 DEF HandleSurfaceDestroyed, TaskRuns, AppMatchesClient
  <2>2. CASE lorie_client_attach_window(FALSE)
    <3>1. window' = FALSE /\ connecting' = connecting
      BY <2>2 DEF lorie_client_attach_window, clientVars
    <3> QED BY <2>1, <3>1 DEF AppMatchesClient, UnbornIsBlank
  <2>3. CASE client = "unborn" /\ UNCHANGED vars
    <3>1. UNCHANGED <<window, client, connecting>>
      BY <2>3 DEF vars, rendererVars, clientVars
    <3> QED BY <2>1, <2>3, <3>1 DEF AppMatchesClient, UnbornIsBlank
  <2> QED BY <1>4, <2>2, <2>3 DEF HandleSurfaceDestroyed
<1>5. CASE Serve
  <2>1. ~ connecting /\ UNCHANGED shown
    BY <1>5 DEF Serve, TaskRuns, AppMatchesClient
  <2>2. CASE ConnectBegins /\ task' = "connect"
    BY <2>1, <2>2 DEF ConnectBegins, rendererVars, AppMatchesClient, UnbornIsBlank
  <2>3. CASE Sync \/ UNCHANGED vars
    BY <2>1, <2>3, ClientKeepsWindow, MatchStays
  <2> QED BY <1>5, <2>2, <2>3 DEF Serve
<1>6. CASE FinishConnect
  <2>1. ~ connecting' /\ UNCHANGED shown
    BY <1>6 DEF FinishConnect, ConnectReturns, ConnectFails
  <2> QED BY <1>6, <2>1, ClientKeepsWindow, MatchStays DEF FinishConnect
<1>7. CASE (Server \/ UNCHANGED vars) /\ UNCHANGED appVars
  BY <1>7, ClientKeepsWindow, MatchStays DEF appVars, taskVars
<1> QED
  BY <1>1, <1>2, <1>3, <1>4, <1>5, <1>6, <1>7 DEF ANext, taskThread, avars

\* The state of the application keeps its type, the window that is recorded is
\* that of the renderer, and connections are made by the task thread only.
THEOREM AppTypeCorrect == ASpec => []ATypeOK
<1> DEFINE Inv == ATypeOK /\ UnbornIsBlank
<1>1. AInit => Inv
  <2> SUFFICES ASSUME AInit PROVE Inv
    OBVIOUS
  <2>1. TypeOK /\ AppMatchesClient /\ UnbornIsBlank
    BY InitType DEF AInit, Init, AppMatchesClient, UnbornIsBlank
  <2>2. <<>> \in Seq(Message) /\ 0 \in 0 .. MaxSurfaces /\ 1 \in 1 .. (MaxSurfaces + 1)
    BY AppAssumption
  <2>3. AppTypeOK
    BY <2>2 DEF AInit, AppTypeOK
  <2> QED BY <2>1, <2>3, AppParts
<1>2. Inv /\ [ANext]_avars => Inv'
  BY AppParts, AppPartsNext, ClientType, AppStepType, AppStepMatches
<1> QED BY <1>1, <1>2, PTL DEF ASpec

-----------------------------------------------------------------------------
(* DeadWindowIsDropped *)

Queued(m) == \E i \in 1 .. Len(queue) : queue[i] = m

\* Between its two statements nativeSurfaceCreated has a surface, and pendingWin is
\* that surface unless the task thread has cleared it.
StoredIsCurrent == ui = "stored" => javaSurface # 0 /\ pendingWin \in {0, javaSurface}

\* A pendingWin that is not about to be cleared will be looked at.
PendingIsAnnounced ==
  pendingWin # 0 /\ ui # "stored" /\ task # "used"
    => task = "MSG_SURFACE_CREATED" \/ Queued("MSG_SURFACE_CREATED")

\* A pendingWin whose surface is gone is followed by the message that revokes it.
StaleIsRevoked ==
  pendingWin \notin {0, javaSurface} /\ task # "used"
    => /\ javaSurface = 0
       /\ queue # <<>> /\ queue[Len(queue)] = "MSG_SURFACE_DESTROYED"

\* A window that is shown although its surface is gone is about to be dropped.
DeadIsDoomed ==
  shown \notin {0, javaSurface}
    => task = "MSG_SURFACE_DESTROYED" \/ Queued("MSG_SURFACE_DESTROYED")

WindowInv ==
  StoredIsCurrent /\ PendingIsAnnounced /\ StaleIsRevoked /\ DeadIsDoomed

\* What writing a message does to the queue.
LEMMA Written ==
  ASSUME AppTypeOK, NEW m \in Message, queue' = Append(queue, m)
  PROVE  /\ Queued(m)'
         /\ \A n \in Message : Queued(n) => Queued(n)'
         /\ queue' # <<>> /\ queue'[Len(queue')] = m
<1>1. /\ Len(queue) \in Nat /\ Len(queue') = Len(queue) + 1
      /\ queue'[Len(queue) + 1] = m
      /\ \A i \in 1 .. Len(queue) : queue'[i] = queue[i]
  BY DEF AppTypeOK
<1>2. queue' # <<>>
  BY DEF AppTypeOK
<1> QED BY <1>1, <1>2 DEF Queued

\* What reading a message does to it.
LEMMA WasRead ==
  ASSUME AppTypeOK, queue # <<>>, queue' = Tail(queue)
  PROVE  /\ \A n \in Message : Queued(n) /\ Head(queue) # n => Queued(n)' /\ queue' # <<>>
         /\ queue' # <<>> => queue'[Len(queue')] = queue[Len(queue)]
<1>1. /\ Len(queue) \in Nat \ {0} /\ Len(queue') = Len(queue) - 1
      /\ Head(queue) = queue[1]
      /\ \A i \in 1 .. Len(queue') : queue'[i] = queue[i + 1]
  BY DEF AppTypeOK
<1>2. queue' # <<>> => Len(queue') # 0
  BY DEF AppTypeOK
<1>3. Len(queue') # 0 => queue' # <<>>
  BY DEF AppTypeOK
<1>4. ASSUME NEW n \in Message, Queued(n), Head(queue) # n
      PROVE  Queued(n)' /\ queue' # <<>>
  <2>1. PICK i \in 1 .. Len(queue) : queue[i] = n
    BY <1>4 DEF Queued
  <2>2. i - 1 \in 1 .. Len(queue') /\ queue'[i - 1] = n
    BY <1>1, <1>4, <2>1
  <2> QED BY <1>1, <1>3, <2>2 DEF Queued
<1>5. queue' # <<>> => queue'[Len(queue')] = queue[Len(queue)]
  <2>1. SUFFICES ASSUME queue' # <<>> PROVE queue'[Len(queue')] = queue[Len(queue)]
    OBVIOUS
  <2>2. Len(queue') \in 1 .. Len(queue') /\ Len(queue') + 1 = Len(queue)
    BY <1>1, <1>2, <2>1
  <2> QED BY <1>1, <2>2
<1> QED BY <1>4, <1>5

LEMMA QueueKept ==
  ASSUME UNCHANGED queue
  PROVE  \A n \in Message : Queued(n)' <=> Queued(n)
  BY DEF Queued

LEMMA UIStepWindow ==
  ASSUME AppTypeOK, WindowInv, UIThread
  PROVE  WindowInv'
<1> USE DEF WindowInv, StoredIsCurrent, PendingIsAnnounced, StaleIsRevoked, DeadIsDoomed
<1>1. CASE StorePendingWin
  <2>1. /\ javaSurface = 0 /\ javaSurface' = nextSurface /\ javaSurface' # 0
        /\ pendingWin' = nextSurface
        /\ ui' = "stored"
        /\ UNCHANGED <<queue, task, shown>>
    BY <1>1 DEF StorePendingWin, taskVars, AppTypeOK
  <2> QED BY <2>1, QueueKept DEF Message
<1>2. CASE WriteSurfaceCreated
  <2>1. /\ ui = "stored" /\ ui' = "idle"
        /\ queue' = Append(queue, "MSG_SURFACE_CREATED")
        /\ UNCHANGED <<javaSurface, pendingWin, task, shown>>
    BY <1>2 DEF WriteSurfaceCreated, taskVars
  <2>2. Queued("MSG_SURFACE_CREATED")'
    BY <2>1, Written DEF Message
  <2>3. Queued("MSG_SURFACE_DESTROYED") => Queued("MSG_SURFACE_DESTROYED")'
    BY <2>1, Written DEF Message
  <2> QED BY <2>1, <2>2, <2>3
<1>3. CASE nativeSurfaceDestroyed
  <2>1. /\ ui = "idle" /\ UNCHANGED ui
        /\ javaSurface' = 0
        /\ queue' = Append(queue, "MSG_SURFACE_DESTROYED")
        /\ UNCHANGED <<pendingWin, task, shown>>
    BY <1>3 DEF nativeSurfaceDestroyed, UIRuns, taskVars
  <2>2. /\ Queued("MSG_SURFACE_DESTROYED")'
        /\ Queued("MSG_SURFACE_CREATED") => Queued("MSG_SURFACE_CREATED")'
        /\ queue' # <<>> /\ queue'[Len(queue')] = "MSG_SURFACE_DESTROYED"
    BY <2>1, Written DEF Message
  <2> QED BY <2>1, <2>2
<1>4. CASE CheckConnected \/ SendChecked
  <2>1. /\ ui # "stored" /\ ui' # "stored"
        /\ UNCHANGED <<javaSurface, queue, pendingWin, task, shown>>
    BY <1>4 DEF CheckConnected, SendChecked, UIRuns, taskVars
  <2> QED BY <2>1, QueueKept DEF Message
<1> QED BY <1>1, <1>2, <1>3, <1>4 DEF UIThread

LEMMA TaskStepWindow ==
  ASSUME AppTypeOK, WindowInv, taskThread
  PROVE  WindowInv'
<1> USE DEF WindowInv, StoredIsCurrent, PendingIsAnnounced, StaleIsRevoked, DeadIsDoomed
<1>1. UNCHANGED <<ui, javaSurface>>
  BY DEF taskThread, taskRead, HandleSurfaceCreated, ClearPendingWin,
         HandleSurfaceDestroyed, Serve, FinishConnect, uiVars
<1>2. CASE taskRead
  <2>1. task = "drain" /\ UNCHANGED <<pendingWin, shown>>
    BY <1>2 DEF taskRead, TaskRuns
  <2>2. CASE queue = <<>>
    <3>1. task' = "serve" /\ UNCHANGED queue
      BY <1>2, <2>2 DEF taskRead
    <3> QED BY <1>1, <2>1, <3>1, QueueKept DEF Message
  <2>3. CASE queue # <<>>
    <3>1. /\ task' = Head(queue) /\ queue' = Tail(queue)
          /\ Head(queue) \in Message
      BY <1>2, <2>3 DEF taskRead, AppTypeOK
    <3>2. /\ Queued("MSG_SURFACE_CREATED") /\ Head(queue) # "MSG_SURFACE_CREATED"
               => Queued("MSG_SURFACE_CREATED")'
          /\ Queued("MSG_SURFACE_DESTROYED") /\ Head(queue) # "MSG_SURFACE_DESTROYED"
               => Queued("MSG_SURFACE_DESTROYED")'
          /\ queue' # <<>> => queue'[Len(queue')] = queue[Len(queue)]
      BY <2>3, <3>1, WasRead DEF Message
    <3>3. StoredIsCurrent' /\ PendingIsAnnounced' /\ DeadIsDoomed'
      BY <1>1, <2>1, <3>1, <3>2
    <3>4. ASSUME pendingWin \notin {0, javaSurface} PROVE queue' # <<>>
      <4>1. ui # "stored" /\ Queued("MSG_SURFACE_CREATED")
        BY <2>1, <3>4
      <4>2. CASE Head(queue) # "MSG_SURFACE_CREATED"
        BY <2>3, <3>1, <4>1, <4>2, WasRead DEF Message
      <4>3. CASE Head(queue) = "MSG_SURFACE_CREATED"
        <5>1. queue[Len(queue)] # Head(queue)
          BY <2>1, <3>4, <4>3
        <5>2. Len(queue) \in Nat \ {0} /\ Len(queue) # 1
          BY <2>3, <5>1 DEF AppTypeOK
        <5>3. Len(queue') # 0
          BY <3>1, <5>2 DEF AppTypeOK
        <5> QED BY <5>3
      <4> QED BY <4>2, <4>3
    <3>5. StaleIsRevoked'
      BY <1>1, <2>1, <3>2, <3>4
    <3> QED BY <3>3, <3>5
  <2> QED BY <2>2, <2>3
<1>3. CASE HandleSurfaceCreated
  <2>1. /\ task = "MSG_SURFACE_CREATED" /\ task' = "used"
        /\ shown' \in {0, pendingWin}
        /\ UNCHANGED <<queue, pendingWin>>
    BY <1>3 DEF HandleSurfaceCreated, TaskRuns
  <2>2. queue # <<>> /\ queue[Len(queue)] = "MSG_SURFACE_DESTROYED"
          => Queued("MSG_SURFACE_DESTROYED")
    <3>1. queue # <<>> => Len(queue) \in 1 .. Len(queue)
      BY DEF AppTypeOK
    <3> QED BY <3>1 DEF Queued
  <2> QED BY <1>1, <2>1, <2>2, QueueKept DEF Message
<1>4. CASE ClearPendingWin
  <2>1. pendingWin' = 0 /\ task = "used" /\ task' = "drain" /\ UNCHANGED <<queue, shown>>
    BY <1>4 DEF ClearPendingWin, TaskRuns
  <2> QED BY <1>1, <2>1, QueueKept DEF Message
<1>5. CASE HandleSurfaceDestroyed
  <2>1. /\ task = "MSG_SURFACE_DESTROYED" /\ task' = "drain" /\ shown' = 0
        /\ UNCHANGED <<queue, pendingWin>>
    BY <1>5 DEF HandleSurfaceDestroyed, TaskRuns
  <2> QED BY <1>1, <2>1, QueueKept DEF Message
<1>6. CASE Serve \/ FinishConnect
  <2>1. /\ task \in {"serve", "connect"} /\ task' \in {"drain", "connect"}
        /\ UNCHANGED <<queue, pendingWin, shown>>
    BY <1>6 DEF Serve, FinishConnect, TaskRuns
  <2> QED BY <1>1, <2>1, QueueKept DEF Message
<1> QED BY <1>2, <1>3, <1>4, <1>5, <1>6 DEF taskThread

\* Once the messages are handled, nothing is drawn on a window whose surface is
\* gone, however the threads interleave and however many surfaces there are.
THEOREM DeadWindow == ASpec => []DeadWindowIsDropped
<1> DEFINE Inv == AppTypeOK /\ WindowInv
<1>1. AInit => Inv
  <2>1. AInit => AppTypeOK
    <3>1. <<>> \in Seq(Message) /\ 0 \in 0 .. MaxSurfaces /\ 1 \in 1 .. (MaxSurfaces + 1)
      BY AppAssumption
    <3> QED BY <3>1 DEF AInit, AppTypeOK
  <2>2. AInit => WindowInv
    BY DEF AInit, WindowInv, StoredIsCurrent, PendingIsAnnounced, StaleIsRevoked,
           DeadIsDoomed
  <2> QED BY <2>1, <2>2
<1>2. Inv /\ [ANext]_avars => Inv'
  <2> SUFFICES ASSUME Inv, [ANext]_avars PROVE Inv'
    OBVIOUS
  <2>1. CASE UNCHANGED appVars
    <3>1. UNCHANGED <<ui, javaSurface, queue, pendingWin, task, shown>>
      BY <2>1 DEF appVars, uiVars, taskVars
    <3>2. WindowInv'
      BY <3>1, QueueKept
      DEF WindowInv, StoredIsCurrent, PendingIsAnnounced, StaleIsRevoked, DeadIsDoomed,
          Message
    <3> QED BY <3>2, AppStepType
  <2> QED
    BY <2>1, AppStepType, UIStepWindow, TaskStepWindow DEF ANext, avars
<1>3. Inv => DeadWindowIsDropped
  <2> SUFFICES ASSUME Inv, Settled PROVE shown \in {0, javaSurface}
    BY DEF DeadWindowIsDropped
  <2>1. ~ Queued("MSG_SURFACE_DESTROYED") /\ task # "MSG_SURFACE_DESTROYED"
    BY DEF Settled, Queued
  <2> QED BY <2>1 DEF WindowInv, DeadIsDoomed
<1> QED BY <1>1, <1>2, <1>3, PTL DEF ASpec

-----------------------------------------------------------------------------
(* WindowIsSurface *)

\* A surface that was created after its predecessor was taken over is stored; then
\* it is announced by the last message of the queue, the only one of its kind; then
\* the task thread has that message; and then it has the surface.
Stored ==
  /\ ui = "stored"
  /\ pendingWin = javaSurface
  /\ task \notin {"MSG_SURFACE_CREATED", "used"}
  /\ \A i \in 1 .. Len(queue) : queue[i] # "MSG_SURFACE_CREATED"

Announced ==
  /\ ui # "stored"
  /\ pendingWin = javaSurface
  /\ task \notin {"MSG_SURFACE_CREATED", "used"}
  /\ queue # <<>>
  /\ queue[Len(queue)] = "MSG_SURFACE_CREATED"
  /\ \A i \in 1 .. (Len(queue) - 1) : queue[i] # "MSG_SURFACE_CREATED"

BeingTaken ==
  /\ ui # "stored"
  /\ pendingWin = javaSurface
  /\ task = "MSG_SURFACE_CREATED"
  /\ queue = <<>>

Taken ==
  /\ ui # "stored"
  /\ task \in {"used", "drain", "serve", "connect"}
  /\ queue = <<>>
  /\ client = "alive" => shown = javaSurface \/ refused

SurfaceInv ==
  javaSurface # 0 /\ ~ overrun => Stored \/ Announced \/ BeingTaken \/ Taken

\* Writing to a queue without the message, and reading from one that ends with it.
LEMMA CreatedWritten ==
  ASSUME AppTypeOK, queue' = Append(queue, "MSG_SURFACE_CREATED"),
         \A i \in 1 .. Len(queue) : queue[i] # "MSG_SURFACE_CREATED"
  PROVE  /\ queue' # <<>>
         /\ queue'[Len(queue')] = "MSG_SURFACE_CREATED"
         /\ \A i \in 1 .. (Len(queue') - 1) : queue'[i] # "MSG_SURFACE_CREATED"
<1>1. /\ Len(queue) \in Nat /\ Len(queue') = Len(queue) + 1
      /\ queue'[Len(queue) + 1] = "MSG_SURFACE_CREATED"
      /\ \A i \in 1 .. Len(queue) : queue'[i] = queue[i]
  BY DEF AppTypeOK, Message
<1>2. queue' # <<>>
  BY DEF AppTypeOK, Message
<1> QED BY <1>1, <1>2

LEMMA LastRead ==
  ASSUME AppTypeOK, queue # <<>>, queue' = Tail(queue),
         queue[Len(queue)] = "MSG_SURFACE_CREATED",
         \A i \in 1 .. (Len(queue) - 1) : queue[i] # "MSG_SURFACE_CREATED"
  PROVE  \/ Head(queue) = "MSG_SURFACE_CREATED" /\ queue' = <<>>
         \/ /\ Head(queue) # "MSG_SURFACE_CREATED"
            /\ queue' # <<>>
            /\ queue'[Len(queue')] = "MSG_SURFACE_CREATED"
            /\ \A i \in 1 .. (Len(queue') - 1) : queue'[i] # "MSG_SURFACE_CREATED"
<1>1. /\ Len(queue) \in Nat \ {0} /\ Len(queue') = Len(queue) - 1
      /\ Head(queue) = queue[1]
      /\ \A i \in 1 .. Len(queue') : queue'[i] = queue[i + 1]
  BY DEF AppTypeOK
<1>2. queue' # <<>> <=> Len(queue') # 0
  <2>1. queue' # <<>> => Len(queue') # 0
    BY DEF AppTypeOK
  <2>2. Len(queue') # 0 => queue' # <<>>
    BY DEF AppTypeOK
  <2> QED BY <2>1, <2>2
<1>3. CASE Len(queue) = 1
  BY <1>1, <1>2, <1>3
<1>4. CASE Len(queue) # 1
  <2>1. queue[1] # "MSG_SURFACE_CREATED" /\ Len(queue') # 0
    BY <1>1, <1>4
  <2>2. Len(queue') \in 1 .. Len(queue') /\ Len(queue') + 1 = Len(queue)
    BY <1>1, <1>4
  <2>3. ASSUME NEW i \in 1 .. (Len(queue') - 1)
        PROVE  queue'[i] # "MSG_SURFACE_CREATED"
    BY <1>1, <2>3
  <2> QED BY <1>1, <1>2, <2>1, <2>2, <2>3
<1> QED BY <1>3, <1>4

LEMMA NoneRead ==
  ASSUME AppTypeOK, queue # <<>>, queue' = Tail(queue),
         \A i \in 1 .. Len(queue) : queue[i] # "MSG_SURFACE_CREATED"
  PROVE  /\ Head(queue) # "MSG_SURFACE_CREATED"
         /\ \A i \in 1 .. Len(queue') : queue'[i] # "MSG_SURFACE_CREATED"
<1>1. /\ Len(queue) \in Nat \ {0} /\ Len(queue') = Len(queue) - 1
      /\ Head(queue) = queue[1]
      /\ \A i \in 1 .. Len(queue') : queue'[i] = queue[i + 1]
  BY DEF AppTypeOK
<1> QED BY <1>1

LEMMA UIStepSurface ==
  ASSUME AppTypeOK, SurfaceInv, UIThread
  PROVE  SurfaceInv'
<1> USE DEF SurfaceInv, Stored, Announced, BeingTaken, Taken
<1>1. CASE StorePendingWin
  <2>1. /\ ui' = "stored" /\ pendingWin' = javaSurface' /\ overrun' = ~ TakenOver
        /\ UNCHANGED <<queue, task>>
    BY <1>1 DEF StorePendingWin, taskVars
  <2> QED BY <2>1 DEF TakenOver
<1>2. CASE WriteSurfaceCreated
  <2>1. /\ ui = "stored" /\ ui' = "idle"
        /\ queue' = Append(queue, "MSG_SURFACE_CREATED")
        /\ UNCHANGED <<javaSurface, overrun, pendingWin, task>>
    BY <1>2 DEF WriteSurfaceCreated, taskVars
  <2>2. SUFFICES ASSUME javaSurface # 0, ~ overrun PROVE Announced'
    BY <2>1
  <2>3. Stored
    BY <2>1, <2>2
  <2>4. /\ queue' # <<>>
        /\ queue'[Len(queue')] = "MSG_SURFACE_CREATED"
        /\ \A i \in 1 .. (Len(queue') - 1) : queue'[i] # "MSG_SURFACE_CREATED"
    BY <2>1, <2>3, CreatedWritten
  <2> QED BY <2>1, <2>3, <2>4
<1>3. CASE nativeSurfaceDestroyed
  BY <1>3 DEF nativeSurfaceDestroyed
<1>4. CASE CheckConnected \/ SendChecked
  <2>1. /\ ui # "stored" /\ ui' # "stored"
        /\ UNCHANGED <<javaSurface, overrun, queue, pendingWin, task, shown, refused>>
    BY <1>4 DEF CheckConnected, SendChecked, UIRuns, taskVars
  <2>2. UNCHANGED client
    BY <1>4 DEF CheckConnected, SendChecked, SendRequest, vars, clientVars
  <2> QED BY <2>1, <2>2
<1> QED BY <1>1, <1>2, <1>3, <1>4 DEF UIThread

LEMMA TaskStepSurface ==
  ASSUME AppTypeOK, SurfaceInv, taskThread
  PROVE  SurfaceInv'
<1> USE DEF SurfaceInv, Stored, Announced, BeingTaken, Taken
<1>1. UNCHANGED <<ui, javaSurface, overrun>>
  BY DEF taskThread, taskRead, HandleSurfaceCreated, ClearPendingWin,
         HandleSurfaceDestroyed, Serve, FinishConnect, uiVars
<1>2. CASE taskRead
  <2>1. task = "drain" /\ UNCHANGED <<pendingWin, shown, refused, client>>
    BY <1>2 DEF taskRead, TaskRuns, vars, clientVars
  <2>2. CASE queue = <<>>
    <3>1. task' = "serve" /\ UNCHANGED queue
      BY <1>2, <2>2 DEF taskRead
    <3> QED BY <1>1, <2>1, <3>1
  <2>3. CASE queue # <<>>
    <3>1. task' = Head(queue) /\ queue' = Tail(queue) /\ Head(queue) \in Message
      BY <1>2, <2>3 DEF taskRead, AppTypeOK
    <3>2. ASSUME Stored PROVE Stored'
      BY <1>1, <2>1, <2>3, <3>1, <3>2, NoneRead DEF Message
    <3>3. ASSUME Announced PROVE Announced' \/ BeingTaken'
      BY <1>1, <2>1, <2>3, <3>1, <3>3, LastRead DEF Message
    <3> QED BY <1>1, <2>1, <2>3, <3>2, <3>3
  <2> QED BY <2>2, <2>3
<1>3. CASE HandleSurfaceCreated
  <2>1. /\ task = "MSG_SURFACE_CREATED" /\ task' = "used"
        /\ shown' = IF window' THEN pendingWin ELSE 0
        /\ UNCHANGED <<queue, pendingWin>>
    BY <1>3 DEF HandleSurfaceCreated, TaskRuns
  <2>2. client' = "alive" /\ pendingWin # 0 => window' \/ refused'
    BY <1>3 DEF HandleSurfaceCreated, lorie_client_create, lorie_client_attach_window,
                HostRuns, clientVars
  <2> QED BY <1>1, <2>1, <2>2
<1>4. CASE ClearPendingWin
  <2>1. task = "used" /\ task' = "drain" /\ UNCHANGED <<queue, shown, refused, client>>
    BY <1>4 DEF ClearPendingWin, TaskRuns, vars, clientVars
  <2> QED BY <1>1, <2>1
<1>5. CASE HandleSurfaceDestroyed
  <2>1. /\ task = "MSG_SURFACE_DESTROYED" /\ task' = "drain"
        /\ UNCHANGED <<queue, pendingWin>>
    BY <1>5 DEF HandleSurfaceDestroyed, TaskRuns
  <2> QED BY <1>1, <2>1
<1>6. CASE Serve \/ FinishConnect
  <2>1. /\ task \in {"serve", "connect"} /\ task' \in {"drain", "connect"}
        /\ UNCHANGED <<queue, pendingWin, shown, refused>>
    BY <1>6 DEF Serve, FinishConnect, TaskRuns
  <2>2. UNCHANGED client
    BY <1>6, ClientKeepsWindow DEF Serve, FinishConnect, ConnectBegins
  <2> QED BY <1>1, <2>1, <2>2
<1> QED BY <1>2, <1>3, <1>4, <1>5, <1>6 DEF taskThread

\* A surface that was not created too early and that EGL accepted is the one drawn on
\* once the messages are handled, for every interleaving of the two threads over
\* pendingWin and every failure before it.
THEOREM WindowFollowsSurface == ASpec => []WindowIsSurface
<1>1. AInit => SurfaceInv
  BY DEF AInit, SurfaceInv
<1>2. ATypeOK /\ SurfaceInv /\ [ANext]_avars => SurfaceInv'
  <2> SUFFICES ASSUME AppTypeOK, SurfaceInv, [ANext]_avars PROVE SurfaceInv'
    BY AppParts
  <2>1. CASE UNCHANGED appVars /\ (Server \/ UNCHANGED vars)
    <3>1. UNCHANGED <<ui, javaSurface, overrun, queue, pendingWin, task, shown, refused, client>>
      BY <2>1, ClientKeepsWindow DEF appVars, uiVars, taskVars
    <3> QED BY <3>1 DEF SurfaceInv, Stored, Announced, BeingTaken, Taken
  <2> QED BY <2>1, UIStepSurface, TaskStepSurface DEF ANext, avars
<1>3. SurfaceInv /\ DeadWindowIsDropped => WindowIsSurface
  BY DEF SurfaceInv, Stored, Announced, BeingTaken, Taken, DeadWindowIsDropped,
         WindowIsSurface, Settled
<1> QED BY <1>1, <1>2, <1>3, AppTypeCorrect, DeadWindow, PTL DEF ASpec

=============================================================================
