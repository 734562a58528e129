----------------------------- MODULE XorgDriver -----------------------------
(***************************************************************************)
(* The X server as the embedder of the display server library:             *)
(* src/xf86-mixed-lorie/dummy_driver.c around LorieServer.                 *)
(*                                                                         *)
(* The X server has one thread.  Its main loop runs the block handlers,    *)
(* waits for the descriptors given to SetNotifyFd, and runs their handler  *)
(* and the X clients' requests; an action of this module is one such step. *)
(* Every step keeps LorieServer's state up with an action of that module,  *)
(* so the driver is checked (and proved) to be a use of the library that   *)
(* LorieServer allows.                                                     *)
(*                                                                         *)
(* RandR and the mode code of the X server are external: they are modelled *)
(* by what they do to this driver's state.                                 *)
(***************************************************************************)
EXTENDS LorieServer

CONSTANTS
  Cells,         \* the parts of the screen that drawing can touch
  StartSize,     \* the size set up in DUMMYPreInit
  MaxMode,       \* the greatest side of a mode that xf86ProbeOutputModes keeps
  MaxXrandr      \* bound: buffers after which no X client sets screen or mode

\* xf86CVTMode rounds the width down to a multiple of 8.
ModeOf(size) == [width |-> size.width - (size.width % 8), height |-> size.height]

\* A CRTC that is off has a mode without pixels.
IsOn(mode) == mode.width > 0 /\ mode.height > 0

\* xf86ProbeOutputModes drops what is larger, here from the list of the output.
ModeListed(mode) == IsOn(mode) /\ mode.width <= MaxMode /\ mode.height <= MaxMode

\* What the CRTC may be set to: a mode of the list, or off.
Modes == {mode \in Sizes : mode = ModeOf(mode) /\ (IsOn(mode) => ModeListed(mode))}

ASSUME DriverAssumption ==
  /\ Boxes = SUBSET Cells
  /\ StartSize \in Sizes
  /\ \A size \in Sizes : ModeOf(size) \in Sizes
  /\ MaxMode \in Nat
  /\ ModeListed(ModeOf(StartSize))
  /\ MaxXrandr \in Nat

VARIABLES
  screen,         \* "closed", "initialised" (after ScreenInit), "ready", or
                  \* "dead" with the X server
  notify,         \* the descriptors given to SetNotifyFd, by what they are
  damage,         \* the region of dPtr->damage
  configuredSize, \* dPtr->configuredWidth and configuredHeight
  crtcMode,       \* the mode of the only CRTC
  pixmap,         \* the buffer the screen pixmap points into
  randrIsLast     \* (history) did an X client set the screen or the mode after
                  \* the last viewer that reconfigured them?

sizeVars == <<configuredSize, crtcMode, pixmap, randrIsLast>>
xorgVars == <<screen, notify, damage, sizeVars>>
xvars == <<vars, xorgVars>>

XInit ==
  /\ Init
  /\ screen = "closed"
  /\ notify = {}
  /\ damage = {}
  /\ configuredSize = StartSize
  /\ crtcMode = ModeOf(StartSize)
  /\ pixmap = NoBuffer
  /\ randrIsLast = FALSE

-----------------------------------------------------------------------------
(* Callbacks *)

\* Faulty variant: the socket of a client that is gone stays watched.
NotifyOnlyGrows == notify' = notify \cup clientList'

\* xorg_lorie_client_created_handler and xorg_lorie_client_destroyed_handler:
\* the socket of a client is watched from its acceptance to the call of its
\* destroy listener.
NotifyFollowsClients ==
  notify' = (notify \ (listeners \ listeners')) \cup (clientList' \ clientList)

\* Faulty variant: ModifyPixmapHeader is only called for the first buffer.
PointPixmapOnce ==
  pixmap' = IF surface' = NoBuffer \/ pixmap # NoBuffer THEN pixmap ELSE surface'

\* DUMMYCrtc_resize after lorie_server_resize_image: without a buffer it returns
\* FALSE and leaves the screen pixmap where it was.
PointPixmapAtSurface ==
  pixmap' = IF surface' = NoBuffer THEN pixmap ELSE surface'

\* xf86SetSingleMode (external): the mode of the output's list that is closest,
\* if any.  A CRTC that is off is passed over.
xf86SetSingleMode(mode) ==
  crtcMode' \in (IF ModeListed(mode) THEN {mode} ELSE Modes)
                  \cup {m \in {crtcMode} : ~ IsOn(m)}

\* The size is taken for configured and the CRTC gets its mode whether or not
\* RRScreenSizeSet, which calls DUMMYCrtc_resize, succeeds, and the screen gets
\* its size whether or not the mode is one of the output's list.
Reconfigure(size) ==
  /\ ResizeImage(ModeOf(size))
  /\ PointPixmapAtSurface
  /\ xf86SetSingleMode(ModeOf(size))
  /\ configuredSize' = size
  /\ randrIsLast' = FALSE

\* Faulty variant: a viewer that asks for the configured size is not answered.
ReconfigureOnly(size) ==
  \/ size # configuredSize /\ Reconfigure(size)
  \/ size = configuredSize /\ UNCHANGED <<display, memoryVars, events, sizeVars>>

\* xorg_lorie_resolution_change_handler.
ReconfigureOrResend(size) ==
  \/ size # configuredSize /\ Reconfigure(size)
  \/ size = configuredSize /\ SendCurrentBuffer /\ UNCHANGED sizeVars

xorg_lorie_resolution_change_handler(c) ==
  /\ TakeRequest(c, "resolution_change")
  /\ ReconfigureOrResend(Head(requests[c]).size)
  /\ UNCHANGED <<screen, notify, damage>>

DriverDispatch(c) ==
  \/ /\ \/ DispatchAccept(c) \/ DispatchBind(c) \/ DispatchHangup(c)
        \/ DispatchInput(c) \/ DispatchGetCurrentBuffer(c)
     /\ NotifyFollowsClients
     /\ UNCHANGED <<screen, damage, sizeVars>>
  \/ xorg_lorie_resolution_change_handler(c)

-----------------------------------------------------------------------------
(* The X server's main loop *)

\* No handler of the driver is running and the process is alive.
MainLoop == screen = "ready" /\ display # "crashed" /\ ready = {} /\ hungup = {}

\* The listening socket is watched when there is a server.  The one that the code
\* would destroy first is gone: DUMMYCloseScreen has destroyed it.
xorg_lorie_server_init ==
  /\ lorie_server_create
  /\ notify' = notify \cup {l \in {Listen} : display' = "up"}

\* The result of xorg_lorie_server_init is ignored; any other failure of
\* DUMMYScreenInit ends the X server.
DUMMYScreenInit ==
  /\ screen = "closed"
  /\ screen' = "initialised"
  /\ xorg_lorie_server_init
  /\ pixmap' = NoBuffer
  /\ UNCHANGED <<damage, configuredSize, crtcMode, randrIsLast>>

\* DUMMYCrtc_resize.  Every function of the library does nothing when
\* dPtr->lorie_server is NULL.
DUMMYCrtc_resize(size) ==
  /\ \/ lorie_server_resize_image(size)
     \/ display = "none" /\ UNCHANGED vars
  /\ PointPixmapAtSurface

\* Faulty variant: a new generation starts at the size of DUMMYPreInit.
ScreenResourcesAtStartSize ==
  /\ screen = "initialised"
  /\ screen' = "ready"
  /\ damage' = {}
  /\ DUMMYCrtc_resize(ModeOf(StartSize))
  /\ UNCHANGED <<notify, configuredSize, crtcMode, randrIsLast>>

\* DUMMYCreateScreenResources, after which RandR (external) sizes the screen to
\* the mode of the CRTC, unless that is off.
DUMMYCreateScreenResources ==
  /\ screen = "initialised"
  /\ screen' = "ready"
  /\ damage' = {}
  /\ IF IsOn(crtcMode)
       THEN DUMMYCrtc_resize(crtcMode)
       ELSE UNCHANGED <<vars, pixmap>>
  /\ UNCHANGED <<notify, configuredSize, crtcMode, randrIsLast>>

\* An X client resizes the screen or sets a mode through RandR (external), which
\* are requests of their own; SetScreenConfig of RandR 1.0 makes one of the
\* other.  That a mode has to fit into the screen is left out.
RRSetScreenSize(size) ==
  /\ MainLoop
  /\ IsOn(size)
  /\ nextMem <= MaxXrandr
  /\ DUMMYCrtc_resize(size)
  /\ randrIsLast' = TRUE
  /\ UNCHANGED <<screen, notify, damage, configuredSize, crtcMode>>

RRSetCrtcConfig(mode) ==
  /\ MainLoop
  /\ nextMem <= MaxXrandr
  /\ crtcMode' = mode
  /\ randrIsLast' = TRUE
  /\ UNCHANGED <<vars, screen, notify, damage, configuredSize, pixmap>>

\* An X client draws.  After a resize that failed the screen pixmap points to
\* memory that is unmapped: the X server dies, unless something else was mapped
\* there since.
Draw(cell) ==
  /\ MainLoop
  /\ \/ screen' = screen
     \/ pixmap.mem \notin mapped /\ screen' = "dead"
  /\ damage' = damage \cup {cell}
  /\ UNCHANGED <<vars, notify, sizeVars>>

\* The extents are read after DamageEmpty has made the region empty.
DUMMYBlockHandler ==
  /\ MainLoop
  /\ damage # {}
  /\ damage' = {}
  /\ \/ lorie_server_send_damage(damage')
     \/ display = "none" /\ UNCHANGED vars
  /\ UNCHANGED <<screen, notify, sizeVars>>

\* Faulty variant: the sockets are watched for X_NOTIFY_READ only.
OnlyReadable ==
  \/ Listen \in notify /\ backlog # {}
  \/ \E c \in clientList \cap notify : peer[c] = "closed" \/ HasInput(c)

\* The clients' sockets are watched with X_NOTIFY_WRITE too, and are writable
\* (or hung up) all the time; the listening socket is ready when a connection
\* waits on it.
SomeFdIsReady ==
  \/ Listen \in notify /\ backlog # {}
  \/ clientList \cap notify # {}

xorg_lorie_handle_event ==
  /\ MainLoop
  /\ SomeFdIsReady
  /\ lorie_server_process
  /\ NotifyFollowsClients
  /\ UNCHANGED <<screen, damage, sizeVars>>

\* Faulty variant: the server is freed without disconnecting its clients.
CloseScreenWithoutDestroy ==
  /\ MainLoop
  /\ screen' = "closed"
  /\ display' = "none"
  /\ surface' = NoBuffer
  /\ notify' = notify \ {Listen}
  /\ damage' = {}
  /\ pixmap' = NoBuffer
  /\ UNCHANGED <<clientList, mapped, nextMem, serverVars, dispatchVars, backlog,
                 requests, events, flushed, handshake, viewerVars,
                 configuredSize, crtcMode, randrIsLast>>

\* The end of a server generation.  The ScrnInfoRec, and with it the configured
\* size and the CRTC, survives into the next one.
DUMMYCloseScreen ==
  /\ MainLoop
  /\ screen' = "closed"
  /\ \/ lorie_server_destroy
     \/ display = "none" /\ UNCHANGED vars
  /\ notify' = notify \ ({Listen} \cup listeners)
  /\ damage' = {}
  /\ pixmap' = NoBuffer
  /\ UNCHANGED <<configuredSize, crtcMode, randrIsLast>>

-----------------------------------------------------------------------------

XorgProcess ==
  \/ DUMMYScreenInit
  \/ DUMMYCreateScreenResources
  \/ \E size \in Sizes : RRSetScreenSize(size)
  \/ \E mode \in Modes : RRSetCrtcConfig(mode)
  \/ \E cell \in Cells : Draw(cell)
  \/ DUMMYBlockHandler
  \/ xorg_lorie_handle_event
  \/ DUMMYCloseScreen
  \/ \E c \in Conns : DriverDispatch(c)

XNext ==
  \/ XorgProcess
  \/ \E c \in Conns : Viewer(c) /\ UNCHANGED xorgVars

XSpec == XInit /\ [][XNext]_xvars

-----------------------------------------------------------------------------
(* Properties *)

XTypeOK ==
  /\ TypeOK
  /\ screen \in {"closed", "initialised", "ready", "dead"}
  /\ notify \subseteq Conns \cup {Listen}
  /\ damage \subseteq Cells
  /\ configuredSize \in Sizes
  /\ crtcMode \in Sizes
  /\ pixmap \in Buffer \cup {NoBuffer}
  /\ randrIsLast \in BOOLEAN

\* The X server watches exactly the sockets of the library that are open: no
\* client is left unserved and, unless a lorie_server_client could not be
\* allocated, no handler outlives its client
\* (xorg_lorie_client_created_handler and xorg_lorie_client_destroyed_handler).
NotifyIsExact ==
  /\ Listen \in notify <=> display # "none"
  /\ clientList \subseteq notify
  /\ AllocFails \/ notify \subseteq clientList \cup {Listen}

\* X draws into the memory that viewers are shown.  Only after a resize that
\* failed does the pixmap point elsewhere, and then there is no surface at all
\* (DUMMYCrtc_resize against lorie_server_resize_image).
PixmapIsSurface == surface # NoBuffer => pixmap = surface

\* A screen that no X client has changed since has the size that a viewer was the
\* last to configure, as far as it has a mode: after resizes and modes that were
\* refused, other viewers' sizes, and into the next server generation, which
\* starts at the mode and knows of no size.  (The handler compares a request with
\* configuredWidth and configuredHeight only, and does not look at the screen.)
ConfiguredSizeIsShown ==
  surface # NoBuffer /\ ~ randrIsLast /\ ModeListed(ModeOf(configuredSize))
    => [width |-> surface.width, height |-> surface.height] = ModeOf(configuredSize)

\* Whatever the driver does to the library is a use that LorieServer allows.
UsesLibraryCorrectly == Spec

\* src/protocol/lorie.xml: the damage event carries the rectangle x0, y0, x1, y1
\* that changed.  What was drawn is covered by the box that is posted.
DamageIsAnnounced ==
  [][\A c \in Conns :
       Len(events'[c]) > Len(events[c])
         /\ events'[c][Len(events'[c])].type = "damage"
       => damage \subseteq events'[c][Len(events'[c])].box]_xvars

=============================================================================
