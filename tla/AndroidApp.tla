----------------------------- MODULE AndroidApp -----------------------------
(***************************************************************************)
(* The Android viewer, src/android/lorie_app.c: two threads on one         *)
(* lorie_client, around LorieViewer.                                       *)
(*                                                                         *)
(* The UI thread runs the native methods that Java calls as surfaces come  *)
(* and go and the user touches the screen.  The task thread owns the       *)
(* client: it drains a queue of messages, then connects or synchronises    *)
(* once, and starts over.  The threads share the queue (a socket pair),    *)
(* pendingWin and the client, without a lock; a step of this module is what *)
(* one thread does between two points at which the other one can see it.   *)
(***************************************************************************)
EXTENDS LorieViewer

CONSTANTS
  MaxSurfaces    \* bound: surfaces created in all

ASSUME AppAssumption ==
  /\ WindowMoves
  /\ MaxSurfaces \in Nat

VARIABLES
  \* the UI thread, and Java behind it
  ui,            \* "idle", "stored" (between the two statements of
                 \* nativeSurfaceCreated) or "checked" (connection checked)
  javaSurface,   \* the surface that exists, or 0
  nextSurface,   \* the identity of the next surface
  overrun,       \* history: was the current surface created before its
                 \* predecessor was taken over?
  \* shared
  queue,         \* messages written and not yet read
  pendingWin,    \* the window to attach, or 0
  \* the task thread
  task,          \* "drain", a message being handled, "used" (pendingWin was read
                 \* and is to be cleared), "serve" or "connect"
  shown,         \* the window behind the renderer's EGL surface, or 0
  refused        \* history: did EGL make no surface for the window attached last?

uiVars == <<ui, javaSurface, nextSurface, overrun>>
taskVars == <<task, shown, refused>>
appVars == <<uiVars, queue, pendingWin, taskVars>>
avars == <<vars, appVars>>

Message == {"MSG_SURFACE_CREATED", "MSG_SURFACE_DESTROYED"}

AInit ==
  /\ Init
  /\ ui = "idle"
  /\ javaSurface = 0
  /\ nextSurface = 1
  /\ overrun = FALSE
  /\ queue = <<>>
  /\ pendingWin = 0
  /\ task = "drain"
  /\ shown = 0
  /\ refused = FALSE

-----------------------------------------------------------------------------
(* The UI thread *)

UIRuns == process = "running" /\ ui = "idle"

\* Has the task thread taken over every surface that was created?
TakenOver ==
  /\ \A i \in 1 .. Len(queue) : queue[i] # "MSG_SURFACE_CREATED"
  /\ task \notin {"MSG_SURFACE_CREATED", "used"}

\* nativeSurfaceCreated, up to the assignment of pendingWin.
StorePendingWin ==
  /\ UIRuns
  /\ javaSurface = 0
  /\ nextSurface <= MaxSurfaces
  /\ javaSurface' = nextSurface
  /\ nextSurface' = nextSurface + 1
  /\ overrun' = ~ TakenOver
  /\ pendingWin' = nextSurface
  /\ ui' = "stored"
  /\ UNCHANGED <<vars, queue, taskVars>>

\* nativeSurfaceCreated, from there on.
WriteSurfaceCreated ==
  /\ process = "running"
  /\ ui = "stored"
  /\ queue' = Append(queue, "MSG_SURFACE_CREATED")
  /\ ui' = "idle"
  /\ UNCHANGED <<vars, javaSurface, nextSurface, overrun, pendingWin, taskVars>>

\* The task thread is told; pendingWin stays as it is.
nativeSurfaceDestroyed ==
  /\ UIRuns
  /\ javaSurface # 0
  /\ javaSurface' = 0
  /\ queue' = Append(queue, "MSG_SURFACE_DESTROYED")
  /\ UNCHANGED <<vars, ui, nextSurface, overrun, pendingWin, taskVars>>

\* nativeTouch and nativeSurfaceChanged ask lorie_client_is_connected, which is
\* true from the start of lorie_client_connect on ...
CheckConnected ==
  /\ UIRuns
  /\ javaSurface # 0
  /\ client = "alive" /\ display
  /\ ui' = "checked"
  /\ UNCHANGED <<vars, javaSurface, nextSurface, overrun, queue, pendingWin,
                 taskVars>>

\* ... and send, whatever the task thread has done since.
SendChecked ==
  /\ process = "running"
  /\ ui = "checked"
  /\ SendRequest
  /\ ui' = "idle"
  /\ UNCHANGED <<javaSurface, nextSurface, overrun, queue, pendingWin, taskVars>>

-----------------------------------------------------------------------------
(* The task thread *)

TaskRuns(pc) == process = "running" /\ task = pc

\* taskRead: without a whole message the queue counts as drained.
taskRead ==
  /\ TaskRuns("drain")
  /\ IF queue = <<>>
       THEN task' = "serve" /\ UNCHANGED queue
       ELSE task' = Head(queue) /\ queue' = Tail(queue)
  /\ UNCHANGED <<vars, uiVars, pendingWin, shown, refused>>

\* Faulty variant: a client that exists is not given the window.
CreatedOnlyOnce ==
  /\ TaskRuns("MSG_SURFACE_CREATED")
  /\ \/ lorie_client_create(pendingWin # 0)
     \/ client = "alive" /\ UNCHANGED vars
  /\ shown' = IF window /\ window' THEN shown ELSE IF window' THEN pendingWin ELSE 0
  /\ refused' = FALSE
  /\ task' = "used"
  /\ UNCHANGED <<uiVars, queue, pendingWin>>

\* The client is created on its first window and given every later one.  A client
\* that exists stays when EGL makes no surface for its new window.
HandleSurfaceCreated ==
  /\ TaskRuns("MSG_SURFACE_CREATED")
  /\ \/ lorie_client_create(pendingWin # 0)
     \/ lorie_client_attach_window(pendingWin # 0)
  /\ shown' = IF window' THEN pendingWin ELSE 0
  /\ refused' = (client = "alive" /\ pendingWin # 0 /\ ~ window')
  /\ task' = "used"
  /\ UNCHANGED <<uiVars, queue, pendingWin>>

ClearPendingWin ==
  /\ TaskRuns("used")
  /\ pendingWin' = 0
  /\ task' = "drain"
  /\ UNCHANGED <<vars, uiVars, queue, shown, refused>>

\* Faulty variant: the window is only given up while connected.
DestroyedNeedsConnection ==
  /\ TaskRuns("MSG_SURFACE_DESTROYED")
  /\ \/ display /\ lorie_client_attach_window(FALSE) /\ shown' = 0
     \/ ~ display /\ UNCHANGED <<vars, shown>>
  /\ refused' = FALSE
  /\ task' = "drain"
  /\ UNCHANGED <<uiVars, queue, pendingWin>>

HandleSurfaceDestroyed ==
  /\ TaskRuns("MSG_SURFACE_DESTROYED")
  /\ \/ lorie_client_attach_window(FALSE)
     \/ client = "unborn" /\ UNCHANGED vars
  /\ shown' = 0
  /\ refused' = FALSE
  /\ task' = "drain"
  /\ UNCHANGED <<uiVars, queue, pendingWin>>

\* Faulty variant: lorie_client_sync is asked to block.
ServeBlocking ==
  /\ TaskRuns("serve")
  /\ \/ ConnectBegins /\ task' = "connect"
     \/ client = "unborn" /\ UNCHANGED vars /\ task' = "drain"
     \/ SyncDispatches /\ task' = "drain"
  /\ UNCHANGED <<uiVars, queue, pendingWin, shown, refused>>

\* One connection attempt, or one lorie_client_sync with the disconnect after a
\* failure.  An attempt without a server sleeps and changes nothing.
Serve ==
  /\ TaskRuns("serve")
  /\ \/ ConnectBegins /\ task' = "connect"
     \/ ~ display /\ UNCHANGED vars /\ task' = "drain"
     \/ Sync /\ task' = "drain"
  /\ UNCHANGED <<uiVars, queue, pendingWin, shown, refused>>

\* The resolution that lorie_client_connect has sent is sent again.
FinishConnect ==
  /\ TaskRuns("connect")
  /\ ConnectReturns \/ ConnectFails
  /\ task' = "drain"
  /\ UNCHANGED <<uiVars, queue, pendingWin, shown, refused>>

-----------------------------------------------------------------------------

UIThread ==
  \/ StorePendingWin
  \/ WriteSurfaceCreated
  \/ nativeSurfaceDestroyed
  \/ CheckConnected
  \/ SendChecked

taskThread ==
  \/ taskRead
  \/ HandleSurfaceCreated
  \/ ClearPendingWin
  \/ HandleSurfaceDestroyed
  \/ Serve
  \/ FinishConnect

ANext == UIThread \/ taskThread \/ (Server /\ UNCHANGED appVars)

ASpec == AInit /\ [][ANext]_avars

\* Both threads are scheduled: the task thread loops for ever and the roundtrip
\* of lorie_client_connect is answered or ends with the connection; a native
\* method that has begun returns.  Java and the server owe nothing else.
AFairSpec ==
  /\ ASpec
  /\ WF_avars(taskThread)
  /\ WF_avars(WriteSurfaceCreated)

-----------------------------------------------------------------------------
(* Properties *)

ATypeOK ==
  /\ TypeOK
  /\ ui \in {"idle", "stored", "checked"}
  /\ javaSurface \in 0 .. MaxSurfaces
  /\ nextSurface \in 1 .. (MaxSurfaces + 1)
  /\ overrun \in BOOLEAN
  /\ queue \in Seq(Message)
  /\ pendingWin \in 0 .. MaxSurfaces
  /\ task \in Message \cup {"drain", "used", "serve", "connect"}
  /\ shown \in 0 .. MaxSurfaces
  /\ refused \in BOOLEAN
  /\ window <=> shown # 0
  /\ connecting => task = "connect"

\* Neither thread is in the middle of handling a surface.
Settled ==
  /\ process = "running"
  /\ ui # "stored"
  /\ queue = <<>>
  /\ task \in {"drain", "serve", "connect"}

\* Once the messages are handled, nothing is drawn on a window whose surface is
\* gone, however the two threads interleave over pendingWin: the task thread may
\* lose a window (lorie_app.c clears pendingWin after it was set again), but what
\* it is attached to is never a predecessor of the current one.
DeadWindowIsDropped == Settled => shown \in {0, javaSurface}

\* A surface that is not created before its predecessor was taken over is the one
\* that is drawn on, unless there was no memory to create the client or EGL made
\* no surface for its window; and after such a failure the next one is again.
WindowIsSurface ==
  Settled /\ ~ overrun /\ ~ refused /\ client = "alive" => shown = javaSurface

\* Such a surface is shown in the end (with the same exceptions), whatever the
\* connection does meanwhile: the task thread drains its queue between any two attempts and synchronisations.
SurfaceIsShown ==
  \A w \in 1 .. MaxSurfaces :
    javaSurface = w ~> \/ shown = w
                       \/ javaSurface # w
                       \/ overrun
                       \/ process = "crashed"
                       \/ Settled /\ (client = "unborn" \/ refused)

=============================================================================
