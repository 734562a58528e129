----------------------------- MODULE XorgInput ------------------------------
(***************************************************************************)
(* The way of an input event from a viewer's window to the X server:       *)
(* src/test/x11-window.c and src/client.c in the viewer, the request       *)
(* handlers of src/server.c, the input callbacks of                        *)
(* src/xf86-mixed-lorie/dummy_driver.c, and the input device that          *)
(* src/xf86-mixed-lorie/dummy_input.c registers and that they post to.     *)
(*                                                                         *)
(* The driver finds the device through one global pointer,                 *)
(* lorie_input_info; devices come and go as the X server plugs, disables   *)
(* and removes them and as it regenerates.  Connections are the FIFOs that *)
(* LorieServer and LorieViewer have in detail.                             *)
(***************************************************************************)
EXTENDS Integers, Sequences, FiniteSets

CONSTANTS
  Viewers,       \* processes like src/test/test-client.c
  Devices,       \* every device that is plugged in is a new one
  Buttons, Keys, \* what can be pressed
  Places,        \* where the pointer can be
  Origin,        \* where it is before anything is posted
  NULL,          \* the null pointer, and nobody
  Failing,       \* what allocation may fail for: "device", "key", "button" and
                 \* "valuator"
  MaxInputs      \* bound: what the users do in all

ASSUME InputAssumption ==
  /\ NULL \notin Devices \cup Viewers
  /\ Buttons \cap Keys = {}
  /\ Origin \in Places
  /\ Failing \subseteq {"device", "key", "button", "valuator"}
  /\ MaxInputs \in Nat

Switch == Buttons \cup Keys

VARIABLES
  \* the X server
  xserver,       \* "running" or "crashed"
  device,        \* "unborn", "off", "on", or "gone" once it is freed
  classes,       \* the classes of a device that were initialised
  masks,         \* devices whose mt_mask is allocated
  lorie_input_info,
  location,      \* of the X pointer
  mover,         \* history: the viewer that the location came from, or NULL
  pressedBy,     \* what is down in X, by the viewers that pressed it
  \* the viewers
  link,          \* "none", "open", "eof" once the server closed it, or "left"
  window,        \* events of the window not yet taken from Xlib
  requests,      \* sent and not yet dispatched
  \* the users
  held,          \* what a user holds down over the window
  at,            \* where the user's pointer is
  inputs         \* what the users did so far

deviceVars == <<device, classes, masks, lorie_input_info>>
pointerVars == <<location, mover, pressedBy>>
viewerVars == <<link, window, requests>>
userVars == <<held, at, inputs>>
ivars == <<xserver, deviceVars, pointerVars, viewerVars, userVars>>

NothingPressed == [s \in Switch |-> {}]

IInit ==
  /\ xserver = "running"
  /\ device = [d \in Devices |-> "unborn"]
  /\ classes = [d \in Devices |-> {}]
  /\ masks = {}
  /\ lorie_input_info = NULL
  /\ location = Origin
  /\ mover = NULL
  /\ pressedBy = NothingPressed
  /\ link = [v \in Viewers |-> "none"]
  /\ window = [v \in Viewers |-> <<>>]
  /\ requests = [v \in Viewers |-> <<>>]
  /\ held = [v \in Viewers |-> {}]
  /\ at = [v \in Viewers |-> Origin]
  /\ inputs = 0

-----------------------------------------------------------------------------
(* src/xf86-mixed-lorie/dummy_input.c *)

Plugged == {d \in Devices : device[d] \in {"off", "on"}}

\* Faulty variant: only the first device is remembered.
SetOnlyOnce(d) ==
  lorie_input_info' = IF lorie_input_info = NULL THEN d ELSE lorie_input_info

\* Called by EvdevOpenDevice; nothing ever sets it back to NULL.
lorie_set_input_driver_ptr(d) == lorie_input_info' = d

\* What each class initialisation can leave behind.
EvdevAddKeyClass == {{"key"}, {"key"} \ Failing}
EvdevAddButtonClass == {{"button"}, {"button"} \ Failing}

\* A failure frees the mask, but not the class if it comes after that.
EvdevAddAbsValuatorClass ==
  {[classes |-> {"valuator"}, masked |-> TRUE]}
  \cup {r \in [classes : {{}, {"valuator"}}, masked : {FALSE}] :
          "valuator" \in Failing}

\* EvdevInit, DEVICE_INIT of EvdevProc: the results of all three are ignored.
EvdevInit(d) ==
  \E key \in EvdevAddKeyClass, button \in EvdevAddButtonClass,
     valuator \in EvdevAddAbsValuatorClass :
    /\ classes' = [classes EXCEPT ![d] = key \cup button \cup valuator.classes]
    /\ masks' = IF valuator.masked THEN masks \cup {d} ELSE masks

\* The X server (external) makes a device of the one InputDevice section that
\* names this driver: EvdevPreInit, which opens it, and then DEVICE_INIT.  When
\* EvdevAlloc fails nothing has happened; when the X server cannot allocate its
\* own part, EvdevUnInit frees what lorie_input_info points at.
EvdevPreInit(d) ==
  /\ xserver = "running"
  /\ device[d] = "unborn"
  /\ Plugged = {}
  /\ \/ /\ lorie_set_input_driver_ptr(d)
        /\ device' = [device EXCEPT ![d] = "off"]
        /\ EvdevInit(d)
     \/ /\ "device" \in Failing
        /\ device' = [device EXCEPT ![d] = "gone"]
        /\ lorie_set_input_driver_ptr(d) \/ UNCHANGED lorie_input_info
        /\ UNCHANGED <<classes, masks>>
  /\ UNCHANGED <<xserver, pointerVars, viewerVars, userVars>>

\* DEVICE_ON of EvdevProc.
EvdevOn(d) ==
  /\ xserver = "running"
  /\ device[d] = "off"
  /\ lorie_set_input_driver_ptr(d)
  /\ device' = [device EXCEPT ![d] = "on"]
  /\ UNCHANGED <<xserver, classes, masks, pointerVars, viewerVars, userVars>>

\* Disabling a device releases what it holds down (external).
NothingDown == pressedBy' = NothingPressed /\ mover' = NULL

\* DEVICE_OFF of EvdevProc.
EvdevOff(d) ==
  /\ xserver = "running"
  /\ device[d] = "on"
  /\ device' = [device EXCEPT ![d] = "off"]
  /\ NothingDown
  /\ UNCHANGED <<xserver, classes, masks, lorie_input_info, location, viewerVars,
                 userVars>>

\* Faulty variant: DEVICE_CLOSE does not free the mask.
CloseKeepsMasks(ds) ==
  /\ device' = [d \in Devices |-> IF d \in ds THEN "gone" ELSE device[d]]
  /\ UNCHANGED <<masks, classes, lorie_input_info>>

\* DEVICE_OFF and DEVICE_CLOSE of EvdevProc, then EvdevUnInit, which frees the
\* InputInfoRec.
EvdevClose(ds) ==
  /\ device' = [d \in Devices |-> IF d \in ds THEN "gone" ELSE device[d]]
  /\ masks' = masks \ ds
  /\ classes' = [d \in Devices |-> IF d \in ds THEN {} ELSE classes[d]]
  /\ UNCHANGED lorie_input_info

EvdevUnInit(d) ==
  /\ xserver = "running"
  /\ d \in Plugged
  /\ EvdevClose({d})
  /\ NothingDown
  /\ UNCHANGED <<xserver, location, viewerVars, userVars>>

\* The end of a server generation: the devices are removed and
\* lorie_server_destroy drops the connections with what was not dispatched.
Regenerate ==
  /\ xserver = "running"
  /\ \E v \in Viewers : link[v] = "open"
  /\ EvdevClose(Plugged)
  /\ NothingDown
  /\ location' = Origin
  /\ link' = [v \in Viewers |-> IF link[v] = "open" THEN "eof" ELSE link[v]]
  /\ requests' = [v \in Viewers |-> <<>>]
  /\ UNCHANGED <<xserver, window, userVars>>

-----------------------------------------------------------------------------
(* The callbacks of src/xf86-mixed-lorie/dummy_driver.c *)

\* The X server (external) refuses events of a device that is disabled or lacks
\* their class.
Accepts(class) ==
  device[lorie_input_info] = "on" /\ class \in classes[lorie_input_info]

xf86PostMotionEvent(v, place) ==
  IF Accepts("valuator")
    THEN location' = place /\ mover' = v
    ELSE UNCHANGED <<location, mover>>

\* xf86PostButtonEvent and xf86PostKeyboardEvent
PostSwitchEvent(v, class, switch, down) ==
  pressedBy' = IF Accepts(class)
                 THEN [pressedBy EXCEPT ![switch] = IF down THEN @ \cup {v} ELSE {}]
                 ELSE pressedBy

\* Faulty variant: a motion is posted for motions only, and the button event
\* carries no valuators.
MotionOnlyForMotion(v, r) ==
  IF r.state = "motion"
    THEN xf86PostMotionEvent(v, r.at) /\ UNCHANGED pressedBy
    ELSE /\ PostSwitchEvent(v, "button", r.button, r.state = "down")
         /\ UNCHANGED <<location, mover>>

\* Faulty variant: the case label for a release is missing.
ReleaseIsForgotten(v, r) ==
  /\ xf86PostMotionEvent(v, r.at)
  /\ IF r.state = "down"
       THEN PostSwitchEvent(v, "button", r.button, TRUE)
       ELSE UNCHANGED pressedBy

\* A motion is always posted, and a button event follows unless there is none.
\* The button event carries the same valuators: it moves the pointer, too, which
\* the motion has just put there.
xorg_lorie_pointer_event_handler(v, r) ==
  /\ xf86PostMotionEvent(v, r.at)
  /\ IF r.state \in {"up", "down"}
       THEN PostSwitchEvent(v, "button", r.button, r.state = "down")
       ELSE UNCHANGED pressedBy

xorg_lorie_key_event_handler(v, r) ==
  /\ PostSwitchEvent(v, "key", r.key, r.state = "down")
  /\ UNCHANGED <<location, mover>>

\* lorie_pointer_event_handler and lorie_key_event_handler of src/server.c.  With
\* no device yet the event is lost; one that was freed is followed.
DispatchInput(v) ==
  /\ xserver = "running"
  /\ requests[v] # <<>>
  /\ requests' = [requests EXCEPT ![v] = Tail(@)]
  /\ LET r == Head(requests[v]) IN
       \/ /\ lorie_input_info \in Plugged
          /\ \/ r.type = "pointer" /\ xorg_lorie_pointer_event_handler(v, r)
             \/ r.type = "key" /\ xorg_lorie_key_event_handler(v, r)
          /\ UNCHANGED xserver
       \/ /\ lorie_input_info \notin Plugged
          /\ \/ UNCHANGED xserver
             \/ lorie_input_info # NULL /\ xserver' = "crashed"
          /\ UNCHANGED pointerVars
  /\ UNCHANGED <<deviceVars, link, window, userVars>>

-----------------------------------------------------------------------------
(* The viewers *)

\* What lorie_renderer_x11_window_process_events sends for an event.
RequestOf(e) ==
  CASE e.type = "MotionNotify" ->
         [type |-> "pointer", state |-> "motion", button |-> 0, at |-> e.at]
    [] e.type \in {"ButtonPress", "ButtonRelease"} ->
         [type |-> "pointer", button |-> e.switch, at |-> e.at,
          state |-> IF e.type = "ButtonPress" THEN "down" ELSE "up"]
    [] e.type \in {"KeyPress", "KeyRelease"} ->
         [type |-> "key", key |-> e.switch,
          state |-> IF e.type = "KeyPress" THEN "down" ELSE "up"]

\* loop, disconnected: what happens in the window waits for the connection.
LoopConnects(v) ==
  /\ xserver = "running"
  /\ link[v] = "none"
  /\ link' = [link EXCEPT ![v] = "open"]
  /\ UNCHANGED <<xserver, deviceVars, pointerVars, window, requests, userVars>>

\* loop, connected: all events of the window are sent and flushed.  If that fails
\* they are lost with the connection; without events nothing fails.
LoopForwards(v) ==
  /\ link[v] \in {"open", "eof"}
  /\ window[v] # <<>>
  /\ window' = [window EXCEPT ![v] = <<>>]
  /\ IF link[v] = "open"
       THEN /\ requests' = [requests EXCEPT ![v] =
                 @ \o [i \in 1 .. Len(window[v]) |-> RequestOf(window[v][i])]]
            /\ UNCHANGED link
       ELSE /\ link' = [link EXCEPT ![v] = "none"]
            /\ UNCHANGED requests
  /\ UNCHANGED <<xserver, deviceVars, pointerVars, userVars>>

\* The process ends; libwayland drops a hung-up client with its unread requests.
ViewerLeaves(v) ==
  /\ xserver = "running"
  /\ link[v] # "left"
  /\ link' = [link EXCEPT ![v] = "left"]
  /\ window' = [window EXCEPT ![v] = <<>>]
  /\ requests' = [requests EXCEPT ![v] = <<>>]
  /\ held' = [held EXCEPT ![v] = {}]
  /\ at' = [at EXCEPT ![v] = Origin]
  /\ UNCHANGED <<xserver, deviceVars, pointerVars, inputs>>

-----------------------------------------------------------------------------
(* The users *)

\* Bound: with the X server gone there is nobody left to tell.
Watched == xserver = "running" /\ inputs < MaxInputs

\* A press or a release can come where the pointer has entered the window, with
\* no motion before it.
WindowEvent(v) ==
  [type : {"MotionNotify"}, at : Places]
  \cup [type : {"ButtonPress"}, switch : Buttons \ held[v], at : Places]
  \cup [type : {"ButtonRelease"}, switch : Buttons \cap held[v], at : Places]
  \cup [type : {"KeyPress"}, switch : Keys \ held[v], at : {at[v]}]
  \cup [type : {"KeyRelease"}, switch : Keys \cap held[v], at : {at[v]}]

UserActs(v) ==
  /\ link[v] # "left"
  /\ Watched
  /\ inputs' = inputs + 1
  /\ \E e \in WindowEvent(v) :
       /\ window' = [window EXCEPT ![v] = Append(@, e)]
       /\ at' = [at EXCEPT ![v] = e.at]
       /\ held' = [held EXCEPT ![v] =
            IF e.type \in {"ButtonPress", "KeyPress"} THEN @ \cup {e.switch}
            ELSE IF e.type = "MotionNotify" THEN @ ELSE @ \ {e.switch}]
  /\ UNCHANGED <<xserver, deviceVars, pointerVars, link, requests>>

-----------------------------------------------------------------------------

XServer ==
  \/ \E d \in Devices : EvdevPreInit(d) \/ EvdevOn(d) \/ EvdevOff(d) \/ EvdevUnInit(d)
  \/ Regenerate
  \/ \E v \in Viewers : DispatchInput(v)

INext ==
  \/ XServer
  \/ \E v \in Viewers :
       LoopConnects(v) \/ LoopForwards(v) \/ ViewerLeaves(v) \/ UserActs(v)

ISpec == IInit /\ [][INext]_ivars

\* The viewers' loops run and the X server's loop calls lorie_server_process.
\* Users and the plugging of devices owe nothing.
IFairSpec ==
  /\ ISpec
  /\ \A v \in Viewers : /\ WF_ivars(DispatchInput(v))
                        /\ WF_ivars(LoopConnects(v))
                        /\ WF_ivars(LoopForwards(v))

-----------------------------------------------------------------------------
(* Properties *)

Input ==
  [type : {"pointer"}, state : {"motion"}, button : {0}, at : Places]
  \cup [type : {"pointer"}, state : {"up", "down"}, button : Buttons, at : Places]
  \cup [type : {"key"}, state : {"up", "down"}, key : Keys]

Happening ==
  [type : {"MotionNotify"}, at : Places]
  \cup [type : {"ButtonPress", "ButtonRelease"}, switch : Buttons, at : Places]
  \cup [type : {"KeyPress", "KeyRelease"}, switch : Keys, at : Places]

\* With it, a device that is gone has left no mask behind (EvdevFreeMasks).
ITypeOK ==
  /\ xserver \in {"running", "crashed"}
  /\ device \in [Devices -> {"unborn", "off", "on", "gone"}]
  /\ classes \in [Devices -> SUBSET {"key", "button", "valuator"}]
  /\ masks \subseteq Plugged
  /\ lorie_input_info \in Devices \cup {NULL}
  /\ location \in Places
  /\ mover \in Viewers \cup {NULL}
  /\ pressedBy \in [Switch -> SUBSET Viewers]
  /\ link \in [Viewers -> {"none", "open", "eof", "left"}]
  /\ window \in [Viewers -> Seq(Happening)]
  /\ requests \in [Viewers -> Seq(Input)]
  /\ held \in [Viewers -> SUBSET Switch]
  /\ at \in [Viewers -> Places]
  /\ inputs \in 0 .. MaxInputs

ReleasesOf(s) ==
  {e \in Happening : e.type \in {"ButtonRelease", "KeyRelease"} /\ e.switch = s}

ReleaseRequests(s) == {RequestOf(e) : e \in ReleasesOf(s)}

\* Through any sequence of plugging, disabling, removing and regenerating, with
\* allocations that fail at any point, the driver posts to the device that is
\* there: a stale lorie_input_info is only followed while there is none.
DeviceIsHeard == \A d \in Plugged : lorie_input_info = d

\* Once everything a viewer sent has been posted, the X pointer is where its user
\* put it, unless another viewer has moved it since; a click without a motion
\* before it counts, as does one interleaved with another viewer's motions
\* (dummy_driver.c:918, "We *must* generate a motion before a button change").
PointerFollowsViewer ==
  \A v \in Viewers :
    mover = v /\ link[v] # "left" /\ window[v] = <<>> /\ requests[v] = <<>>
      => location = at[v]

\* A release is never lost: as long as X has a switch down that its user released,
\* the release is in the window or on its way, through connections that end with
\* events unread or unsent and devices that come, fail and go.
ReleaseIsUnderWay ==
  \A v \in Viewers, s \in Switch :
    v \in pressedBy[s] /\ s \notin held[v] /\ link[v] # "left"
      => \/ \E i \in 1 .. Len(window[v]) : window[v][i] \in ReleasesOf(s)
         \/ \E i \in 1 .. Len(requests[v]) : requests[v][i] \in ReleaseRequests(s)

\* What a user has released is released in X in the end, through disconnections,
\* regenerations and devices that come and go, unless the viewer's process ends
\* first or the X server dies.
SwitchIsReleased ==
  \A v \in Viewers, s \in Switch :
    (v \in pressedBy[s] /\ s \notin held[v])
      ~> \/ v \notin pressedBy[s]
         \/ s \in held[v]
         \/ link[v] = "left"
         \/ xserver = "crashed"

=============================================================================
