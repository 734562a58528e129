-------------------------- MODULE XorgDriver_proofs --------------------------
(***************************************************************************)
(* Theorems about XorgDriver: it is a use of the library that LorieServer  *)
(* allows, so what is proved there holds of the X server; X draws into the *)
(* memory that viewers are shown; and X watches the sockets that are open. *)
(***************************************************************************)
EXTENDS XorgDriver, LorieServer_proofs

-----------------------------------------------------------------------------
(* Every step of the driver is a step of the library, or none *)

LEMMA RequestedSize ==
  ASSUME TypeOK, NEW c \in Conns, TakeRequest(c, "resolution_change")
  PROVE  Head(requests[c]).size \in Sizes
<1>1. Head(requests[c]) \in Request /\ Head(requests[c]).type = "resolution_change"
  BY TakeRequestType DEF TakeRequest
<1> QED BY <1>1 DEF Request

LEMMA ResolutionIsDispatch ==
  ASSUME TypeOK, NEW c \in Conns, xorg_lorie_resolution_change_handler(c)
  PROVE  DispatchResolutionChange(c)
<1>1. TakeRequest(c, "resolution_change") /\ ReconfigureOrResend(Head(requests[c]).size)
  BY DEF xorg_lorie_resolution_change_handler
<1>2. ModeOf(Head(requests[c]).size) \in Sizes
  BY <1>1, RequestedSize, DriverAssumption
<1> QED BY <1>1, <1>2 DEF DispatchResolutionChange, ReconfigureOrResend, Reconfigure

LEMMA DriverDispatchRefines ==
  ASSUME TypeOK, NEW c \in Conns, DriverDispatch(c)
  PROVE  Dispatch(c)
  BY ResolutionIsDispatch DEF DriverDispatch, Dispatch

\* A step of the X server's process is a call or a callback of the library.
LEMMA ProcessRefines ==
  ASSUME TypeOK, crtcMode \in Sizes, XorgProcess
  PROVE  Embedder \/ (\E c \in Conns : Dispatch(c)) \/ UNCHANGED vars
<1>1. CASE DUMMYScreenInit
  BY <1>1 DEF DUMMYScreenInit, xorg_lorie_server_init, Embedder
<1>2. ASSUME NEW size \in Sizes, DUMMYCrtc_resize(size)
      PROVE  Embedder \/ UNCHANGED vars
  BY <1>2 DEF DUMMYCrtc_resize, Embedder
<1>3. CASE DUMMYCreateScreenResources
  BY <1>2, <1>3 DEF DUMMYCreateScreenResources
<1>4. ASSUME NEW size \in Sizes, RRSetScreenSize(size) PROVE Embedder \/ UNCHANGED vars
  BY <1>2, <1>4 DEF RRSetScreenSize
<1>10. ASSUME NEW mode \in Modes, RRSetCrtcConfig(mode) PROVE UNCHANGED vars
  BY <1>10 DEF RRSetCrtcConfig
<1>5. ASSUME NEW cell \in Cells, Draw(cell) PROVE UNCHANGED vars
  BY <1>5 DEF Draw
<1>6. CASE DUMMYBlockHandler
  <2>1. damage' = {} /\ {} \in Boxes
    BY <1>6, DriverAssumption DEF DUMMYBlockHandler
  <2> QED BY <1>6, <2>1 DEF DUMMYBlockHandler, Embedder
<1>7. CASE xorg_lorie_handle_event
  BY <1>7 DEF xorg_lorie_handle_event, Embedder
<1>8. CASE DUMMYCloseScreen
  BY <1>8 DEF DUMMYCloseScreen, Embedder
<1>9. ASSUME NEW c \in Conns, DriverDispatch(c) PROVE Dispatch(c)
  BY <1>9, DriverDispatchRefines
<1> QED BY <1>1, <1>3, <1>4, <1>5, <1>6, <1>7, <1>8, <1>9, <1>10 DEF XorgProcess

LEMMA StepRefines ==
  ASSUME TypeOK, crtcMode \in Sizes, [XNext]_xvars
  PROVE  [Next]_vars
<1>1. CASE XorgProcess
  BY <1>1, ProcessRefines DEF Next
<1>2. ASSUME NEW c \in Conns, Viewer(c) PROVE [Next]_vars
  BY <1>2 DEF Next
<1>3. CASE UNCHANGED xvars
  BY <1>3 DEF xvars
<1> QED BY <1>1, <1>2, <1>3 DEF XNext

-----------------------------------------------------------------------------
(* Types *)

LEMMA NotifyStaysTyped ==
  ASSUME TypeOK', notify \subseteq Conns \cup {Listen}, NotifyFollowsClients
  PROVE  notify' \subseteq Conns \cup {Listen}
  BY DEF NotifyFollowsClients, TypeOK, ConnectionTypeOK

LEMMA PixmapStaysTyped ==
  ASSUME TypeOK', pixmap \in Buffer \cup {NoBuffer}, PointPixmapAtSurface
  PROVE  pixmap' \in Buffer \cup {NoBuffer}
  BY DEF PointPixmapAtSurface, TypeOK, MemoryTypeOK

LEMMA DriverType == XTypeOK /\ [XNext]_xvars => XTypeOK'
<1> SUFFICES ASSUME XTypeOK, [XNext]_xvars PROVE XTypeOK'
  OBVIOUS
<1> USE DEF XTypeOK
<1>1. TypeOK'
  BY StepRefines, EmbedderType, DispatchType, ViewerType, StutterType DEF Next
<1>2. CASE DUMMYScreenInit
  BY <1>1, <1>2 DEF DUMMYScreenInit, xorg_lorie_server_init
<1>3. CASE DUMMYCreateScreenResources
  BY <1>1, <1>3, PixmapStaysTyped DEF DUMMYCreateScreenResources, DUMMYCrtc_resize
<1>4. ASSUME NEW size \in Sizes, RRSetScreenSize(size) PROVE XTypeOK'
  BY <1>1, <1>4, PixmapStaysTyped DEF RRSetScreenSize, DUMMYCrtc_resize
<1>11. ASSUME NEW mode \in Modes, RRSetCrtcConfig(mode) PROVE XTypeOK'
  BY <1>1, <1>11 DEF RRSetCrtcConfig, Modes
<1>5. ASSUME NEW cell \in Cells, Draw(cell) PROVE XTypeOK'
  BY <1>1, <1>5 DEF Draw, sizeVars
<1>6. CASE DUMMYBlockHandler
  BY <1>1, <1>6 DEF DUMMYBlockHandler, sizeVars
<1>7. CASE xorg_lorie_handle_event
  BY <1>1, <1>7, NotifyStaysTyped DEF xorg_lorie_handle_event, sizeVars
<1>8. CASE DUMMYCloseScreen
  BY <1>1, <1>8 DEF DUMMYCloseScreen
<1>9. ASSUME NEW c \in Conns, DriverDispatch(c) PROVE XTypeOK'
  <2>1. CASE xorg_lorie_resolution_change_handler(c)
    <3>1. Head(requests[c]).size \in Sizes
      BY <2>1, RequestedSize DEF xorg_lorie_resolution_change_handler
    <3>2. UNCHANGED <<screen, notify, damage>>
      BY <2>1 DEF xorg_lorie_resolution_change_handler
    <3>3. ASSUME NEW size \in Sizes, Reconfigure(size) PROVE XTypeOK'
      <4>1. crtcMode' \in Sizes
        BY <3>3, DriverAssumption DEF Reconfigure, xf86SetSingleMode, Modes
      <4> QED BY <1>1, <3>2, <3>3, <4>1, PixmapStaysTyped DEF Reconfigure
    <3>4. CASE UNCHANGED sizeVars
      BY <1>1, <3>2, <3>4 DEF sizeVars
    <3> QED BY <2>1, <3>1, <3>3, <3>4
        DEF xorg_lorie_resolution_change_handler, ReconfigureOrResend
  <2>2. CASE NotifyFollowsClients /\ UNCHANGED <<screen, damage, sizeVars>>
    BY <1>1, <2>2, NotifyStaysTyped DEF sizeVars
  <2> QED BY <1>9, <2>1, <2>2 DEF DriverDispatch
<1>10. CASE UNCHANGED xorgVars
  BY <1>1, <1>10 DEF xorgVars, sizeVars
<1> QED
  BY <1>2, <1>3, <1>4, <1>5, <1>6, <1>7, <1>8, <1>9, <1>10, <1>11
  DEF XNext, XorgProcess, xvars

LEMMA DriverInit == XInit => XTypeOK
<1> SUFFICES ASSUME XInit PROVE XTypeOK
  OBVIOUS
<1> QED BY InitType, DriverAssumption DEF XInit, XTypeOK

\* The state of the driver keeps its type; in particular the CRTC only ever has
\* a mode that came from a size the driver was given.
THEOREM DriverTypeCorrect == XSpec => []XTypeOK
  BY DriverInit, DriverType, PTL DEF XSpec

\* The driver is a use of the library that LorieServer allows: its steps map to
\* steps of the library, or to stuttering.
THEOREM DriverUsesLibrary == XSpec => UsesLibraryCorrectly
<1>1. XInit => Init
  BY DEF XInit
<1>2. XTypeOK /\ [XNext]_xvars => [Next]_vars
  BY StepRefines DEF XTypeOK
<1> QED BY <1>1, <1>2, DriverTypeCorrect, PTL DEF XSpec, Spec, UsesLibraryCorrectly

\* So the X server's viewer ends up with the current surface, too.
THEOREM DriverNewestBuffer == XSpec => []NewestBufferIsSurface
  BY DriverUsesLibrary, NewestBuffer, PTL DEF UsesLibraryCorrectly

\* And the X server leaks one buffer per server generation at most.
THEOREM DriverMappings == XSpec => []MappingsAreBounded
  BY DriverUsesLibrary, BoundedMappings, PTL DEF UsesLibraryCorrectly

-----------------------------------------------------------------------------
(* PixmapIsSurface *)

\* A step that keeps the surface keeps the claim if the pixmap stays; one that
\* changes it also points the pixmap at it.
LEMMA PixmapFollows ==
  ASSUME PixmapIsSurface,
         \/ UNCHANGED <<surface, pixmap>>
         \/ PointPixmapAtSurface
         \/ surface' = NoBuffer
  PROVE  PixmapIsSurface'
  BY DEF PixmapIsSurface, PointPixmapAtSurface

LEMMA PixmapStep ==
  PixmapIsSurface /\ NoServerNoSurface /\ [XNext]_xvars => PixmapIsSurface'
<1> SUFFICES ASSUME PixmapIsSurface, NoServerNoSurface, [XNext]_xvars
             PROVE  PixmapIsSurface'
  OBVIOUS
<1> USE DEF memoryVars, vars, sizeVars
<1>1. CASE DUMMYScreenInit
  BY <1>1, PixmapFollows
  DEF DUMMYScreenInit, xorg_lorie_server_init, lorie_server_create, NoServerNoSurface
<1>2. CASE DUMMYCreateScreenResources
  BY <1>2, PixmapFollows DEF DUMMYCreateScreenResources, DUMMYCrtc_resize
<1>3. ASSUME NEW size \in Sizes, RRSetScreenSize(size) PROVE PixmapIsSurface'
  BY <1>3, PixmapFollows DEF RRSetScreenSize, DUMMYCrtc_resize
<1>11. ASSUME NEW mode \in Modes, RRSetCrtcConfig(mode) PROVE PixmapIsSurface'
  BY <1>11, PixmapFollows DEF RRSetCrtcConfig
<1>4. ASSUME NEW cell \in Cells, Draw(cell) PROVE PixmapIsSurface'
  BY <1>4, PixmapFollows DEF Draw
<1>5. CASE DUMMYBlockHandler
  BY <1>5, PixmapFollows DEF DUMMYBlockHandler, lorie_server_send_damage
<1>6. CASE xorg_lorie_handle_event
  BY <1>6, PixmapFollows DEF xorg_lorie_handle_event, lorie_server_process
<1>7. CASE DUMMYCloseScreen
  BY <1>7, PixmapFollows DEF DUMMYCloseScreen, lorie_server_destroy, NoServerNoSurface
<1>8. ASSUME NEW c \in Conns, DriverDispatch(c) PROVE PixmapIsSurface'
  <2>1. CASE xorg_lorie_resolution_change_handler(c)
    BY <2>1, PixmapFollows
    DEF xorg_lorie_resolution_change_handler, ReconfigureOrResend, Reconfigure, SendCurrentBuffer
  <2>2. CASE /\ \/ DispatchAccept(c) \/ DispatchBind(c) \/ DispatchHangup(c)
                \/ DispatchInput(c) \/ DispatchGetCurrentBuffer(c)
             /\ UNCHANGED pixmap
    BY <2>2, PixmapFollows
    DEF DispatchAccept, DispatchBind, DispatchHangup, DispatchInput, DispatchGetCurrentBuffer
  <2> QED BY <1>8, <2>1, <2>2 DEF DriverDispatch
<1>9. ASSUME NEW c \in Conns, Viewer(c), UNCHANGED xorgVars PROVE PixmapIsSurface'
  BY <1>9, PixmapFollows DEF Viewer, Connect, Bind, Send, Read, Close, libraryVars, xorgVars
<1>10. CASE UNCHANGED xvars
  BY <1>10, PixmapFollows DEF xvars, xorgVars
<1> QED
  BY <1>1, <1>2, <1>3, <1>4, <1>5, <1>6, <1>7, <1>8, <1>9, <1>10, <1>11
  DEF XNext, XorgProcess

\* X draws into the surface whenever there is one, across resizes by viewers and
\* by X clients, failures and server generations.
THEOREM PixmapFollowsSurface == XSpec => []PixmapIsSurface
<1>1. XInit => PixmapIsSurface
  BY DEF XInit, Init, PixmapIsSurface
<1>2. XSpec => []NoServerNoSurface
  BY DriverUsesLibrary, BufferInvariance, PTL DEF UsesLibraryCorrectly, BufferInv
<1> QED BY <1>1, <1>2, PixmapStep, PTL DEF XSpec

-----------------------------------------------------------------------------
(* ConfiguredSizeIsShown *)

SizeOf(buffer) == [width |-> buffer.width, height |-> buffer.height]

\* The mode is that of the configured size, or the CRTC is off: what the next
\* server generation starts with.
ConfiguredInv ==
  ~ randrIsLast /\ ModeListed(ModeOf(configuredSize)) =>
    /\ surface # NoBuffer => SizeOf(surface) = ModeOf(configuredSize)
    /\ IsOn(crtcMode) => crtcMode = ModeOf(configuredSize)

\* A buffer that is created has the size that was asked for.
LEMMA ResizeFits ==
  ASSUME NEW size, ResizeImage(ModeOf(size))
  PROVE  surface' # NoBuffer => SizeOf(surface') = ModeOf(size)
  BY DEF ResizeImage, lorie_buffer_fd_create, SizeOf, ModeOf

\* A step that does not reconfigure keeps the claim if it keeps the surface or
\* gives it up.
LEMMA ConfiguredKept ==
  ASSUME ConfiguredInv, UNCHANGED <<crtcMode, configuredSize, randrIsLast>>,
         UNCHANGED surface \/ surface' = NoBuffer
  PROVE  ConfiguredInv'
  BY DEF ConfiguredInv

\* What X clients set is not claimed to be what a viewer configured.
LEMMA NothingConfigured ==
  ASSUME randrIsLast'
  PROVE  ConfiguredInv'
  BY DEF ConfiguredInv

LEMMA ConfiguredAfterReconfigure ==
  ASSUME NEW size, Reconfigure(size)
  PROVE  ConfiguredInv'
<1>1. configuredSize' = size /\ (surface' # NoBuffer => SizeOf(surface') = ModeOf(size))
  BY ResizeFits DEF Reconfigure
<1>2. ModeListed(ModeOf(size)) /\ IsOn(crtcMode') => crtcMode' = ModeOf(size)
  BY DEF Reconfigure, xf86SetSingleMode
<1> QED BY <1>1, <1>2 DEF ConfiguredInv

\* A new generation's screen has the size of the mode.
LEMMA ConfiguredAfterRestart ==
  ASSUME XTypeOK, ConfiguredInv, NoServerNoSurface, DUMMYCrtc_resize(crtcMode),
         IsOn(crtcMode), UNCHANGED <<crtcMode, configuredSize, randrIsLast>>
  PROVE  ConfiguredInv'
<1>1. CASE ResizeImage(crtcMode)
  <2>1. surface' # NoBuffer
          => surface'.width = crtcMode.width /\ surface'.height = crtcMode.height
    BY <1>1 DEF ResizeImage, lorie_buffer_fd_create
  <2> QED BY <2>1 DEF ConfiguredInv, SizeOf, ModeOf
<1>2. CASE display = "none" /\ UNCHANGED vars
  BY <1>2, ConfiguredKept DEF vars, memoryVars
<1> QED BY <1>1, <1>2 DEF DUMMYCrtc_resize, lorie_server_resize_image

LEMMA ConfiguredStep ==
  ConfiguredInv /\ XTypeOK /\ NoServerNoSurface /\ [XNext]_xvars => ConfiguredInv'
<1> SUFFICES ASSUME ConfiguredInv, XTypeOK, NoServerNoSurface, [XNext]_xvars
             PROVE  ConfiguredInv'
  OBVIOUS
<1> USE DEF memoryVars, vars, sizeVars
<1>1. CASE DUMMYScreenInit
  BY <1>1, ConfiguredKept
  DEF DUMMYScreenInit, xorg_lorie_server_init, lorie_server_create
<1>2. CASE DUMMYCreateScreenResources
  BY <1>2, ConfiguredAfterRestart, ConfiguredKept DEF DUMMYCreateScreenResources
<1>3. ASSUME NEW size \in Sizes, RRSetScreenSize(size) PROVE ConfiguredInv'
  BY <1>3, NothingConfigured DEF RRSetScreenSize
<1>4. ASSUME NEW mode \in Modes, RRSetCrtcConfig(mode) PROVE ConfiguredInv'
  BY <1>4, NothingConfigured DEF RRSetCrtcConfig
<1>5. ASSUME NEW cell \in Cells, Draw(cell) PROVE ConfiguredInv'
  BY <1>5, ConfiguredKept DEF Draw
<1>6. CASE DUMMYBlockHandler
  BY <1>6, ConfiguredKept DEF DUMMYBlockHandler, lorie_server_send_damage
<1>7. CASE xorg_lorie_handle_event
  BY <1>7, ConfiguredKept DEF xorg_lorie_handle_event, lorie_server_process
<1>8. CASE DUMMYCloseScreen
  BY <1>8, ConfiguredKept DEF DUMMYCloseScreen, lorie_server_destroy
<1>9. ASSUME NEW c \in Conns, DriverDispatch(c) PROVE ConfiguredInv'
  <2>1. CASE xorg_lorie_resolution_change_handler(c)
    BY <2>1, ConfiguredAfterReconfigure, ConfiguredKept
    DEF xorg_lorie_resolution_change_handler, ReconfigureOrResend, SendCurrentBuffer
  <2>2. CASE /\ \/ DispatchAccept(c) \/ DispatchBind(c) \/ DispatchHangup(c)
                \/ DispatchInput(c) \/ DispatchGetCurrentBuffer(c)
             /\ UNCHANGED sizeVars
    BY <2>2, ConfiguredKept
    DEF DispatchAccept, DispatchBind, DispatchHangup, DispatchInput, DispatchGetCurrentBuffer
  <2> QED BY <1>9, <2>1, <2>2 DEF DriverDispatch
<1>10. ASSUME NEW c \in Conns, Viewer(c), UNCHANGED xorgVars PROVE ConfiguredInv'
  BY <1>10, ConfiguredKept
  DEF Viewer, Connect, Bind, Send, Read, Close, libraryVars, xorgVars
<1>11. CASE UNCHANGED xvars
  BY <1>11, ConfiguredKept DEF xvars, xorgVars
<1> QED
  BY <1>1, <1>2, <1>3, <1>4, <1>5, <1>6, <1>7, <1>8, <1>9, <1>10, <1>11
  DEF XNext, XorgProcess

\* The screen that viewers are shown has the size that a viewer was the last to
\* configure, as far as it has a mode and until an X client sets another:
\* whatever failed and whatever was asked for before, and in the next server
\* generation, too.
THEOREM ConfiguredShown == XSpec => []ConfiguredSizeIsShown
<1>1. XInit => ConfiguredInv
  BY DEF XInit, Init, ConfiguredInv
<1>2. XSpec => []NoServerNoSurface
  BY DriverUsesLibrary, BufferInvariance, PTL DEF UsesLibraryCorrectly, BufferInv
<1>3. ConfiguredInv => ConfiguredSizeIsShown
  BY DEF ConfiguredInv, ConfiguredSizeIsShown, SizeOf
<1> QED BY <1>1, <1>2, <1>3, ConfiguredStep, DriverTypeCorrect, PTL DEF XSpec

-----------------------------------------------------------------------------
(* NotifyIsExact *)

\* Without a server there are no clients, which is why closing the screen leaves
\* none unwatched; and while calloc succeeds every client has the listener that
\* gives its descriptor up.
WatchInv ==
  /\ NotifyIsExact
  /\ display = "none" => clientList = {}
  /\ AllocFails \/ listeners = clientList

\* A step that accepts and destroys no client; it may end the process.
LEMMA WatchStays ==
  ASSUME WatchInv, UNCHANGED <<clientList, listeners, notify>>,
         \/ UNCHANGED display
         \/ display # "none" /\ display' = "crashed"
  PROVE  WatchInv'
  BY DEF WatchInv, NotifyIsExact

\* Clients are destroyed.
LEMMA WatchAfterDestroy ==
  ASSUME WatchInv, XTypeOK, UNCHANGED display, display # "none", NEW gone,
         wl_client_destroy(gone), NotifyFollowsClients
  PROVE  WatchInv'
<1>1. /\ clientList' = clientList \ gone
      /\ listeners' = listeners \ gone
      /\ notify' = (notify \ (listeners \ listeners')) \cup (clientList' \ clientList)
  BY DEF wl_client_destroy, NotifyFollowsClients
<1>2. listeners \subseteq clientList /\ Listen \notin clientList
  BY ConstantsAssumption DEF XTypeOK, TypeOK, ConnectionTypeOK
<1> QED BY <1>1, <1>2 DEF WatchInv, NotifyIsExact

\* Of the library's steps, those that run a server keep it.
LEMMA PostKeepsServer ==
  ASSUME NEW ev, display = "up", PostIfAnyClient(ev)
  PROVE  UNCHANGED display \/ display' = "crashed"
  BY DEF PostIfAnyClient, Post

LEMMA ResizeKeepsServer ==
  ASSUME NEW size, display = "up", ResizeImage(size)
  PROVE  UNCHANGED display \/ display' = "crashed"
  BY PostKeepsServer DEF ResizeImage

LEMMA ResendKeepsServer ==
  ASSUME display = "up", SendCurrentBuffer
  PROVE  UNCHANGED display \/ display' = "crashed"
  BY PostKeepsServer DEF SendCurrentBuffer

LEMMA WatchAfterDispatch ==
  ASSUME WatchInv, XTypeOK, NEW c \in Conns, DriverDispatch(c)
  PROVE  WatchInv'
<1>1. CASE xorg_lorie_resolution_change_handler(c)
  <2>1. /\ display = "up"
        /\ UNCHANGED <<clientList, listeners, notify>>
    BY <1>1 DEF xorg_lorie_resolution_change_handler, TakeRequest, serverVars
  <2>2. UNCHANGED display \/ display' = "crashed"
    BY <1>1, <2>1, ResizeKeepsServer, ResendKeepsServer
    DEF xorg_lorie_resolution_change_handler, ReconfigureOrResend, Reconfigure
  <2> QED BY <2>1, <2>2, WatchStays
<1>2. ASSUME UNCHANGED <<clientList, listeners>>, NotifyFollowsClients
      PROVE  UNCHANGED notify
  BY <1>2 DEF NotifyFollowsClients
<1>3. CASE DispatchAccept(c) /\ NotifyFollowsClients
  <2>1. /\ clientList' = clientList \cup {c}
        /\ display = "up" /\ UNCHANGED display
        /\ notify' = (notify \ (listeners \ listeners')) \cup (clientList' \ clientList)
    BY <1>3 DEF DispatchAccept, NotifyFollowsClients
  <2>2. \/ listeners' = listeners \cup {c}
        \/ AllocFails /\ UNCHANGED listeners
    BY <1>3, Zenon DEF DispatchAccept
  <2>3. listeners \ listeners' = {} /\ c # Listen
    BY <2>2, ConstantsAssumption
  <2> QED BY <2>1, <2>2, <2>3 DEF WatchInv, NotifyIsExact
<1>4. CASE DispatchBind(c) /\ NotifyFollowsClients
  <2>1. display = "up" /\ UNCHANGED display
    BY <1>4 DEF DispatchBind
  <2>2. CASE wl_client_destroy({c})
    BY <1>4, <2>1, <2>2, WatchAfterDestroy
  <2>3. CASE UNCHANGED <<clientList, listeners>>
    BY <1>2, <1>4, <2>1, <2>3, WatchStays
  <2> QED BY <1>4, <2>2, <2>3 DEF DispatchBind
<1>5. CASE DispatchHangup(c) /\ NotifyFollowsClients
  BY <1>5, WatchAfterDestroy DEF DispatchHangup
<1>6. CASE (DispatchInput(c) \/ DispatchGetCurrentBuffer(c)) /\ NotifyFollowsClients
  <2>1. display = "up" /\ UNCHANGED <<clientList, listeners>>
    BY <1>6 DEF DispatchInput, DispatchGetCurrentBuffer, TakeRequest, serverVars
  <2>2. UNCHANGED display \/ display' = "crashed"
    BY <1>6, <2>1, PostKeepsServer DEF DispatchInput, DispatchGetCurrentBuffer
  <2> QED BY <1>2, <1>6, <2>1, <2>2, WatchStays
<1> QED BY <1>1, <1>3, <1>4, <1>5, <1>6 DEF DriverDispatch

LEMMA WatchAfterResize ==
  ASSUME WatchInv, NEW size, DUMMYCrtc_resize(size), UNCHANGED notify
  PROVE  WatchInv'
<1>1. CASE lorie_server_resize_image(size)
  <2>1. display = "up" /\ UNCHANGED <<clientList, listeners>>
    BY <1>1
    DEF lorie_server_resize_image, EmbedderRuns, CallUnchanged, serverVars
  <2>2. UNCHANGED display \/ display' = "crashed"
    BY <1>1, <2>1, ResizeKeepsServer DEF lorie_server_resize_image
  <2> QED BY <2>1, <2>2, WatchStays
<1>2. CASE UNCHANGED vars
  BY <1>2, WatchStays DEF vars, serverVars
<1> QED BY <1>1, <1>2 DEF DUMMYCrtc_resize

LEMMA WatchStep == WatchInv /\ XTypeOK /\ [XNext]_xvars => WatchInv'
<1> SUFFICES ASSUME WatchInv, XTypeOK, [XNext]_xvars PROVE WatchInv'
  OBVIOUS
<1>1. CASE DUMMYScreenInit
  <2>1. /\ display = "none" /\ display' \in {"none", "up"}
        /\ notify' = notify \cup {l \in {Listen} : display' = "up"}
        /\ UNCHANGED <<clientList, listeners>>
    BY <1>1 DEF DUMMYScreenInit, xorg_lorie_server_init, lorie_server_create
  <2> QED BY <2>1 DEF WatchInv, NotifyIsExact
<1>2. CASE DUMMYCreateScreenResources
  BY <1>2, WatchAfterResize, WatchStays DEF DUMMYCreateScreenResources, vars, serverVars
<1>3. ASSUME NEW size \in Sizes, RRSetScreenSize(size) PROVE WatchInv'
  BY <1>3, WatchAfterResize DEF RRSetScreenSize
<1>11. ASSUME NEW mode \in Modes, RRSetCrtcConfig(mode) PROVE WatchInv'
  BY <1>11, WatchStays DEF RRSetCrtcConfig, vars, serverVars
<1>4. ASSUME NEW cell \in Cells, Draw(cell) PROVE WatchInv'
  BY <1>4, WatchStays DEF Draw, vars, serverVars
<1>5. CASE DUMMYBlockHandler
  <2>1. CASE lorie_server_send_damage(damage')
    <3>1. display = "up" /\ UNCHANGED <<clientList, listeners>>
      BY <2>1 DEF lorie_server_send_damage, EmbedderRuns, CallUnchanged, serverVars
    <3>2. UNCHANGED display \/ display' = "crashed"
      BY <2>1, <3>1, PostKeepsServer DEF lorie_server_send_damage
    <3> QED BY <1>5, <3>1, <3>2, WatchStays DEF DUMMYBlockHandler
  <2>2. CASE UNCHANGED vars
    BY <1>5, <2>2, WatchStays DEF DUMMYBlockHandler, vars, serverVars
  <2> QED BY <1>5, <2>1, <2>2 DEF DUMMYBlockHandler
<1>6. CASE xorg_lorie_handle_event
  BY <1>6, WatchAfterDestroy
  DEF xorg_lorie_handle_event, lorie_server_process, EmbedderRuns
<1>7. CASE DUMMYCloseScreen
  <2>1. notify' = notify \ ({Listen} \cup listeners)
    BY <1>7 DEF DUMMYCloseScreen
  <2>2. clientList' = {} /\ listeners' = {} /\ display' = "none"
    <3>1. CASE lorie_server_destroy
      BY <3>1 DEF lorie_server_destroy
    <3>2. CASE display = "none" /\ UNCHANGED vars
      BY <3>2 DEF vars, serverVars, WatchInv, XTypeOK, TypeOK, ConnectionTypeOK
    <3> QED BY <1>7, <3>1, <3>2 DEF DUMMYCloseScreen
  <2> QED BY <2>1, <2>2 DEF WatchInv, NotifyIsExact
<1>8. ASSUME NEW c \in Conns, DriverDispatch(c) PROVE WatchInv'
  BY <1>8, WatchAfterDispatch
<1>9. ASSUME NEW c \in Conns, Viewer(c), UNCHANGED xorgVars PROVE WatchInv'
  BY <1>9, WatchStays
  DEF Viewer, Connect, Bind, Send, Read, Close, libraryVars, serverVars, xorgVars
<1>10. CASE UNCHANGED xvars
  BY <1>10, WatchStays DEF xvars, xorgVars, vars, serverVars
<1> QED
  BY <1>1, <1>2, <1>3, <1>4, <1>5, <1>6, <1>7, <1>8, <1>9, <1>10, <1>11
  DEF XNext, XorgProcess

\* The X server watches exactly the open sockets of the library, from acceptance
\* to destruction, however clients end (or, when calloc fails, those at least).
THEOREM WatchedExactly == XSpec => []NotifyIsExact
<1>1. XInit => WatchInv
  BY DEF XInit, Init, WatchInv, NotifyIsExact
<1>2. WatchInv => NotifyIsExact
  BY DEF WatchInv
<1> QED BY <1>1, <1>2, WatchStep, DriverTypeCorrect, PTL DEF XSpec

=============================================================================
