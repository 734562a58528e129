-------------------------- MODULE XorgInput_proofs --------------------------
(***************************************************************************)
(* What is proved about XorgInput for every value of its constants: type   *)
(* correctness, that the driver posts to the device that is plugged, that  *)
(* the X pointer ends up where the user put it, and that no release of a   *)
(* button or a key is lost.                                                *)
(***************************************************************************)
EXTENDS XorgInput, TLAPS

-----------------------------------------------------------------------------
(* Type correctness *)

\* The types of deviceVars, and of the rest.
DeviceTypeOK ==
  /\ device \in [Devices -> {"unborn", "off", "on", "gone"}]
  /\ classes \in [Devices -> SUBSET {"key", "button", "valuator"}]
  /\ masks \subseteq Plugged
  /\ lorie_input_info \in Devices \cup {NULL}

PointerTypeOK ==
  /\ location \in Places
  /\ mover \in Viewers \cup {NULL}
  /\ pressedBy \in [Switch -> SUBSET Viewers]

ViewerTypeOK ==
  /\ link \in [Viewers -> {"none", "open", "eof", "left"}]
  /\ window \in [Viewers -> Seq(Happening)]
  /\ requests \in [Viewers -> Seq(Input)]

UserTypeOK ==
  /\ held \in [Viewers -> SUBSET Switch]
  /\ at \in [Viewers -> Places]
  /\ inputs \in 0 .. MaxInputs

LEMMA TypeParts ==
  ITypeOK <=> /\ xserver \in {"running", "crashed"}
              /\ DeviceTypeOK /\ PointerTypeOK /\ ViewerTypeOK /\ UserTypeOK
  BY DEF ITypeOK, DeviceTypeOK, PointerTypeOK, ViewerTypeOK, UserTypeOK

LEMMA TypePartsNext ==
  ITypeOK' <=> /\ xserver' \in {"running", "crashed"}
               /\ DeviceTypeOK' /\ PointerTypeOK' /\ ViewerTypeOK' /\ UserTypeOK'
  BY DEF ITypeOK, DeviceTypeOK, PointerTypeOK, ViewerTypeOK, UserTypeOK

LEMMA NothingPressedType == NothingPressed \in [Switch -> SUBSET Viewers]
  BY DEF NothingPressed

LEMMA NothingDownType ==
  ASSUME PointerTypeOK, NothingDown, location' \in Places
  PROVE  PointerTypeOK'
  BY NothingPressedType DEF PointerTypeOK, NothingDown

\* Whatever an initialisation leaves behind is typed.
LEMMA InitClassTypes ==
  ASSUME DeviceTypeOK, NEW d \in Devices, EvdevInit(d)
  PROVE  /\ classes' \in [Devices -> SUBSET {"key", "button", "valuator"}]
         /\ masks' \subseteq masks \cup {d}
<1>1. PICK key \in EvdevAddKeyClass, button \in EvdevAddButtonClass,
           valuator \in EvdevAddAbsValuatorClass :
        /\ classes' = [classes EXCEPT ![d] = key \cup button \cup valuator.classes]
        /\ masks' = IF valuator.masked THEN masks \cup {d} ELSE masks
  BY DEF EvdevInit
<1>2. key \subseteq {"key"} /\ button \subseteq {"button"}
  BY DEF EvdevAddKeyClass, EvdevAddButtonClass
<1>3. valuator.classes \subseteq {"valuator"}
  <2>1. CASE valuator = [classes |-> {"valuator"}, masked |-> TRUE]
    BY <2>1
  <2>2. CASE valuator \in [classes : {{}, {"valuator"}}, masked : {FALSE}]
    <3>1. valuator.classes \in {{}, {"valuator"}}
      BY <2>2
    <3> QED BY <3>1
  <2> QED BY <1>1, <2>1, <2>2 DEF EvdevAddAbsValuatorClass
<1>4. key \cup button \cup valuator.classes \in SUBSET {"key", "button", "valuator"}
  BY <1>2, <1>3
<1>5. classes' \in [Devices -> SUBSET {"key", "button", "valuator"}]
  BY <1>1, <1>4 DEF DeviceTypeOK
<1>6. masks' \subseteq masks \cup {d}
  BY <1>1
<1> QED BY <1>5, <1>6

LEMMA DeviceStepType ==
  ASSUME ITypeOK,
         NEW d \in Devices,
         EvdevPreInit(d) \/ EvdevOn(d) \/ EvdevOff(d) \/ EvdevUnInit(d)
  PROVE  ITypeOK'
<1> USE TypeParts, TypePartsNext DEF DeviceTypeOK
<1>1. CASE EvdevPreInit(d)
  <2>1. /\ xserver' = xserver
        /\ PointerTypeOK' /\ ViewerTypeOK' /\ UserTypeOK'
    BY <1>1 DEF EvdevPreInit, pointerVars, viewerVars, userVars, PointerTypeOK,
                ViewerTypeOK, UserTypeOK
  <2>2. CASE /\ lorie_set_input_driver_ptr(d)
             /\ device' = [device EXCEPT ![d] = "off"]
             /\ EvdevInit(d)
    <3>1. Plugged' = Plugged \cup {d}
      BY <2>2 DEF Plugged
    <3>2. masks' \subseteq Plugged'
      BY <2>2, <3>1, InitClassTypes
    <3> QED BY <2>1, <2>2, <3>2, InitClassTypes DEF lorie_set_input_driver_ptr
  <2>3. CASE /\ device' = [device EXCEPT ![d] = "gone"]
             /\ lorie_set_input_driver_ptr(d) \/ UNCHANGED lorie_input_info
             /\ UNCHANGED <<classes, masks>>
    <3>1. Plugged' = Plugged
      BY <1>1, <2>3 DEF Plugged, EvdevPreInit
    <3> QED BY <2>1, <2>3, <3>1 DEF lorie_set_input_driver_ptr
  <2> QED BY <1>1, <2>2, <2>3 DEF EvdevPreInit
<1>2. CASE EvdevOn(d)
  <2>1. Plugged' = Plugged
    BY <1>2 DEF EvdevOn, Plugged
  <2> QED BY <1>2, <2>1 DEF EvdevOn, lorie_set_input_driver_ptr, pointerVars, viewerVars,
                            userVars, PointerTypeOK, ViewerTypeOK, UserTypeOK
<1>3. CASE EvdevOff(d)
  <2>1. Plugged' = Plugged
    BY <1>3 DEF EvdevOff, Plugged
  <2>2. PointerTypeOK'
    BY <1>3, NothingDownType DEF EvdevOff, PointerTypeOK
  <2> QED BY <1>3, <2>1, <2>2 DEF EvdevOff, viewerVars, userVars, ViewerTypeOK, UserTypeOK
<1>4. CASE EvdevUnInit(d)
  <2>1. Plugged' = Plugged \ {d}
    BY <1>4 DEF EvdevUnInit, EvdevClose, Plugged
  <2>2. PointerTypeOK'
    BY <1>4, NothingDownType DEF EvdevUnInit, PointerTypeOK
  <2>3. DeviceTypeOK'
    BY <1>4, <2>1 DEF EvdevUnInit, EvdevClose
  <2> QED BY <1>4, <2>2, <2>3 DEF EvdevUnInit, viewerVars, userVars, ViewerTypeOK, UserTypeOK
<1> QED BY <1>1, <1>2, <1>3, <1>4

LEMMA RegenerateType == ITypeOK /\ Regenerate => ITypeOK'
<1> SUFFICES ASSUME ITypeOK, Regenerate PROVE ITypeOK'
  OBVIOUS
<1> USE TypeParts, TypePartsNext
<1>1. Plugged' = {}
  BY DEF Regenerate, EvdevClose, Plugged, DeviceTypeOK
<1>2. masks' = {}
  BY DEF Regenerate, EvdevClose, DeviceTypeOK
<1>3. DeviceTypeOK'
  BY <1>1, <1>2 DEF Regenerate, EvdevClose, DeviceTypeOK
<1>4. PointerTypeOK'
  BY NothingDownType, InputAssumption DEF Regenerate
<1>5. ViewerTypeOK'
  BY DEF Regenerate, ViewerTypeOK
<1> QED BY <1>3, <1>4, <1>5 DEF Regenerate, userVars, UserTypeOK

LEMMA DispatchType ==
  ASSUME ITypeOK, NEW v \in Viewers, DispatchInput(v)
  PROVE  ITypeOK'
<1> USE TypeParts, TypePartsNext
<1>1. requests[v] \in Seq(Input) /\ requests[v] # <<>>
  BY DEF DispatchInput, ViewerTypeOK
<1>2. Head(requests[v]) \in Input /\ Tail(requests[v]) \in Seq(Input)
  BY <1>1
<1>3. ViewerTypeOK'
  BY <1>2 DEF DispatchInput, ViewerTypeOK
<1>4. PointerTypeOK'
  <2> DEFINE r == Head(requests[v])
  <2>1. ASSUME NEW class, NEW s \in Switch, NEW down, PostSwitchEvent(v, class, s, down)
        PROVE  pressedBy' \in [Switch -> SUBSET Viewers]
    BY <2>1 DEF PostSwitchEvent, PointerTypeOK
  <2>2. CASE r.type = "pointer" /\ xorg_lorie_pointer_event_handler(v, r)
    <3>1. r.at \in Places /\ (r.state # "motion" => r.button \in Switch)
      BY <1>2, <2>2 DEF Input, Switch
    <3>2. location' \in Places /\ mover' \in Viewers \cup {NULL}
      BY <2>2, <3>1 DEF xorg_lorie_pointer_event_handler, xf86PostMotionEvent, PointerTypeOK
    <3>3. CASE r.state \in {"up", "down"}
      <4>1. r.button \in Switch
        BY <3>1, <3>3
      <4>2. PostSwitchEvent(v, "button", r.button, r.state = "down")
        BY <2>2, <3>3 DEF xorg_lorie_pointer_event_handler
      <4> QED BY <2>1, <3>2, <4>1, <4>2 DEF PointerTypeOK
    <3>4. CASE r.state \notin {"up", "down"}
      BY <2>2, <3>2, <3>4 DEF xorg_lorie_pointer_event_handler, PointerTypeOK
    <3> QED BY <3>3, <3>4
  <2>3. CASE r.type = "key" /\ xorg_lorie_key_event_handler(v, r)
    <3>1. r.key \in Switch
      BY <1>2, <2>3 DEF Input, Switch
    <3> QED BY <2>1, <2>3, <3>1 DEF xorg_lorie_key_event_handler, PointerTypeOK
  <2>4. CASE UNCHANGED pointerVars
    BY <2>4 DEF pointerVars, PointerTypeOK
  <2> QED BY <2>2, <2>3, <2>4 DEF DispatchInput
<1>5. DeviceTypeOK' /\ UserTypeOK'
  BY DEF DispatchInput, deviceVars, userVars, DeviceTypeOK, UserTypeOK, Plugged
<1>6. xserver' \in {"running", "crashed"}
  BY DEF DispatchInput
<1> QED BY <1>3, <1>4, <1>5, <1>6

LEMMA RequestType == \A e \in Happening : RequestOf(e) \in Input
  BY DEF Happening, RequestOf, Input

LEMMA ViewerStepType ==
  ASSUME ITypeOK, NEW v \in Viewers,
         LoopConnects(v) \/ LoopForwards(v) \/ ViewerLeaves(v)
  PROVE  ITypeOK'
<1> USE TypeParts, TypePartsNext
<1>1. <<>> \in Seq(Happening) /\ <<>> \in Seq(Input)
  OBVIOUS
<1>2. DeviceTypeOK' /\ PointerTypeOK' /\ xserver' = xserver
  BY DEF LoopConnects, LoopForwards, ViewerLeaves, deviceVars, pointerVars,
         DeviceTypeOK, PointerTypeOK, Plugged
<1>3. CASE LoopConnects(v)
  BY <1>2, <1>3 DEF LoopConnects, userVars, ViewerTypeOK, UserTypeOK
<1>4. CASE LoopForwards(v)
  <2> DEFINE sent == [i \in 1 .. Len(window[v]) |-> RequestOf(window[v][i])]
  <2>1. window[v] \in Seq(Happening) /\ requests[v] \in Seq(Input)
    BY DEF ViewerTypeOK
  <2>2. sent \in Seq(Input)
    <3>1. Len(window[v]) \in Nat /\ \A i \in 1 .. Len(window[v]) : window[v][i] \in Happening
      BY <2>1
    <3>2. \A i \in 1 .. Len(window[v]) : RequestOf(window[v][i]) \in Input
      BY <3>1, RequestType
    <3> QED BY <3>1, <3>2
  <2>3. requests[v] \o sent \in Seq(Input)
    BY <2>1, <2>2
  <2>4. requests' \in [Viewers -> Seq(Input)]
    BY <1>4, <2>3 DEF LoopForwards, ViewerTypeOK
  <2> QED BY <1>1, <1>2, <1>4, <2>4 DEF LoopForwards, userVars, ViewerTypeOK, UserTypeOK
<1>5. CASE ViewerLeaves(v)
  BY <1>1, <1>2, <1>5, InputAssumption DEF ViewerLeaves, ViewerTypeOK, UserTypeOK
<1> QED BY <1>3, <1>4, <1>5

LEMMA UserStepType ==
  ASSUME ITypeOK, NEW v \in Viewers, UserActs(v)
  PROVE  ITypeOK'
<1> USE TypeParts, TypePartsNext
<1>1. PICK e \in WindowEvent(v) :
        /\ window' = [window EXCEPT ![v] = Append(@, e)]
        /\ at' = [at EXCEPT ![v] = e.at]
        /\ held' = [held EXCEPT ![v] =
             IF e.type \in {"ButtonPress", "KeyPress"} THEN @ \cup {e.switch}
             ELSE IF e.type = "MotionNotify" THEN @ ELSE @ \ {e.switch}]
  BY DEF UserActs
<1>2. at[v] \in Places /\ held[v] \subseteq Switch /\ window[v] \in Seq(Happening)
  BY DEF UserTypeOK, ViewerTypeOK
<1>3. e \in Happening /\ e.at \in Places
  BY <1>2 DEF WindowEvent, Happening, Switch
<1>4. e.type \in {"ButtonPress", "KeyPress"} => e.switch \in Switch
  BY <1>2 DEF WindowEvent, Switch
<1>5. held' \in [Viewers -> SUBSET Switch]
  BY <1>1, <1>2, <1>4 DEF UserTypeOK
<1>6. Append(window[v], e) \in Seq(Happening)
  BY <1>2, <1>3
<1>7. ViewerTypeOK'
  BY <1>1, <1>6 DEF UserActs, ViewerTypeOK
<1>8. UserTypeOK'
  BY <1>1, <1>3, <1>5, InputAssumption DEF UserActs, Watched, UserTypeOK
<1>9. DeviceTypeOK' /\ PointerTypeOK' /\ xserver' = xserver
  BY DEF UserActs, deviceVars, pointerVars, DeviceTypeOK, PointerTypeOK, Plugged
<1> QED BY <1>7, <1>8, <1>9

LEMMA InputInit == IInit => ITypeOK
<1> SUFFICES ASSUME IInit PROVE ITypeOK
  OBVIOUS
<1>1. <<>> \in Seq(Happening) /\ <<>> \in Seq(Input)
  OBVIOUS
<1>2. DeviceTypeOK
  BY DEF IInit, DeviceTypeOK
<1>3. PointerTypeOK
  BY InputAssumption, NothingPressedType DEF IInit, PointerTypeOK
<1>4. ViewerTypeOK
  BY <1>1 DEF IInit, ViewerTypeOK
<1>5. UserTypeOK
  BY InputAssumption DEF IInit, UserTypeOK
<1> QED BY <1>2, <1>3, <1>4, <1>5, TypeParts DEF IInit

LEMMA InputStepType == ITypeOK /\ [INext]_ivars => ITypeOK'
<1> SUFFICES ASSUME ITypeOK, [INext]_ivars PROVE ITypeOK'
  OBVIOUS
<1>1. CASE UNCHANGED ivars
  BY <1>1 DEF ITypeOK, Plugged, ivars, deviceVars, pointerVars, viewerVars, userVars
<1>2. CASE XServer
  BY <1>2, DeviceStepType, RegenerateType, DispatchType DEF XServer
<1>3. CASE \E v \in Viewers :
             LoopConnects(v) \/ LoopForwards(v) \/ ViewerLeaves(v) \/ UserActs(v)
  BY <1>3, ViewerStepType, UserStepType
<1> QED BY <1>1, <1>2, <1>3 DEF INext

\* The state of the input path keeps its type, and no mask outlives its device.
THEOREM InputTypeCorrect == ISpec => []ITypeOK
  BY InputInit, InputStepType, PTL DEF ISpec

-----------------------------------------------------------------------------
(* DeviceIsHeard *)

LEMMA DeviceIsHeardStep ==
  ITypeOK /\ DeviceIsHeard /\ [INext]_ivars => DeviceIsHeard'
<1> SUFFICES ASSUME ITypeOK, DeviceIsHeard, [INext]_ivars PROVE DeviceIsHeard'
  OBVIOUS
<1> USE DEF DeviceIsHeard, Plugged, ITypeOK
<1>1. ASSUME NEW d \in Devices, EvdevPreInit(d) PROVE DeviceIsHeard'
  BY <1>1 DEF EvdevPreInit, lorie_set_input_driver_ptr
<1>2. ASSUME NEW d \in Devices, EvdevOn(d) PROVE DeviceIsHeard'
  BY <1>2 DEF EvdevOn, lorie_set_input_driver_ptr
<1>3. ASSUME NEW d \in Devices, EvdevOff(d) PROVE DeviceIsHeard'
  BY <1>3 DEF EvdevOff
<1>4. ASSUME NEW d \in Devices, EvdevUnInit(d) PROVE DeviceIsHeard'
  BY <1>4 DEF EvdevUnInit, EvdevClose
<1>5. CASE Regenerate
  BY <1>5 DEF Regenerate, EvdevClose
<1>6. CASE UNCHANGED deviceVars
  BY <1>6 DEF deviceVars
<1>7. CASE \E v \in Viewers : \/ DispatchInput(v) \/ LoopConnects(v) \/ LoopForwards(v)
                              \/ ViewerLeaves(v) \/ UserActs(v)
  BY <1>6, <1>7 DEF DispatchInput, LoopConnects, LoopForwards, ViewerLeaves, UserActs
<1> QED
  BY <1>1, <1>2, <1>3, <1>4, <1>5, <1>6, <1>7 DEF INext, XServer, ivars

\* The driver posts to the device that is plugged, whatever came before it.
THEOREM DeviceHeard == ISpec => []DeviceIsHeard
<1>1. IInit => DeviceIsHeard
  BY DEF IInit, DeviceIsHeard, Plugged
<1> QED BY <1>1, InputTypeCorrect, DeviceIsHeardStep, PTL DEF ISpec

-----------------------------------------------------------------------------
(* PointerFollowsViewer *)

\* The last element of one of the kinds is at the place; there is none.
EndsAt(s, kinds, place) ==
  \E i \in 1 .. Len(s) :
    /\ s[i].type \in kinds
    /\ s[i].at = place
    /\ \A j \in (i + 1) .. Len(s) : s[j].type \notin kinds

HasNone(s, kinds) == \A i \in 1 .. Len(s) : s[i].type \notin kinds

Moves == {"MotionNotify", "ButtonPress", "ButtonRelease"}

\* Where the user's pointer is can be read from the last move on its way to X or,
\* if all were posted and nobody else moved the X pointer, from that.
IsOnItsWay(v) ==
  \/ EndsAt(window[v], Moves, at[v])
  \/ /\ HasNone(window[v], Moves)
     /\ \/ EndsAt(requests[v], {"pointer"}, at[v])
        \/ HasNone(requests[v], {"pointer"}) /\ (mover = v => location = at[v])

\* Whoever moved the X pointer did so over a device that is still on and has not
\* lost its class, so no later motion of the same viewer is refused.
MoverIsHeard ==
  mover # NULL => lorie_input_info # NULL /\ Accepts("valuator")

\* A connection that is down carries nothing, and what the viewer posted over it
\* is forgotten with the device.
DownIsForgotten ==
  \A v \in Viewers :
    /\ link[v] # "open" => requests[v] = <<>>
    /\ link[v] \in {"none", "eof"} => mover # v

PointerInv ==
  /\ ITypeOK
  /\ DeviceIsHeard
  /\ MoverIsHeard
  /\ DownIsForgotten
  /\ \A v \in Viewers : link[v] # "left" => IsOnItsWay(v)

LEMMA AppendEnds ==
  ASSUME NEW S, NEW s \in Seq(S), NEW e, NEW kinds, NEW place
  PROVE  /\ e.type \in kinds => EndsAt(Append(s, e), kinds, e.at)
         /\ e.type \notin kinds /\ EndsAt(s, kinds, place)
              => EndsAt(Append(s, e), kinds, place)
         /\ e.type \notin kinds /\ HasNone(s, kinds) => HasNone(Append(s, e), kinds)
<1> DEFINE t == Append(s, e)
<1>1. /\ Len(s) \in Nat /\ Len(t) = Len(s) + 1
      /\ t[Len(s) + 1] = e
      /\ \A i \in 1 .. Len(s) : t[i] = s[i]
  OBVIOUS
<1>2. \A i \in 1 .. Len(t) : i \in 1 .. Len(s) \/ i = Len(s) + 1
  BY <1>1
<1> HIDE DEF t
<1>3. e.type \in kinds => EndsAt(t, kinds, e.at)
  BY <1>1 DEF EndsAt
<1>4. ASSUME e.type \notin kinds, EndsAt(s, kinds, place)
      PROVE  EndsAt(t, kinds, place)
  <2>1. PICK i \in 1 .. Len(s) : /\ s[i].type \in kinds /\ s[i].at = place
                                 /\ \A j \in (i + 1) .. Len(s) : s[j].type \notin kinds
    BY <1>4 DEF EndsAt
  <2>2. i \in 1 .. Len(t) /\ t[i] = s[i]
    BY <1>1
  <2>3. \A j \in (i + 1) .. Len(t) : t[j].type \notin kinds
    BY <1>1, <1>4, <2>1
  <2> QED BY <2>1, <2>2, <2>3 DEF EndsAt
<1>5. ASSUME e.type \notin kinds, HasNone(s, kinds) PROVE HasNone(t, kinds)
  BY <1>1, <1>2, <1>5 DEF HasNone
<1> QED BY <1>3, <1>4, <1>5 DEF t

LEMMA TailEnds ==
  ASSUME NEW S, NEW s \in Seq(S), s # <<>>, NEW kinds, NEW place
  PROVE  /\ EndsAt(s, kinds, place)
              => \/ EndsAt(Tail(s), kinds, place)
                 \/ /\ HasNone(Tail(s), kinds)
                    /\ Head(s).type \in kinds /\ Head(s).at = place
         /\ HasNone(s, kinds) => HasNone(Tail(s), kinds) /\ Head(s).type \notin kinds
<1> DEFINE t == Tail(s)
<1>1. /\ Len(s) \in Nat \ {0} /\ Len(t) = Len(s) - 1
      /\ Head(s) = s[1]
      /\ \A i \in 1 .. Len(t) : t[i] = s[i + 1]
  OBVIOUS
<1> HIDE DEF t
<1>2. ASSUME EndsAt(s, kinds, place)
      PROVE  \/ EndsAt(t, kinds, place)
             \/ HasNone(t, kinds) /\ s[1].type \in kinds /\ s[1].at = place
  <2>1. PICK i \in 1 .. Len(s) : /\ s[i].type \in kinds /\ s[i].at = place
                                 /\ \A j \in (i + 1) .. Len(s) : s[j].type \notin kinds
    BY <1>2 DEF EndsAt
  <2>2. CASE i = 1
    BY <1>1, <2>1, <2>2 DEF HasNone
  <2>3. CASE i # 1
    <3>1. i - 1 \in 1 .. Len(t) /\ t[i - 1] = s[i]
      BY <1>1, <2>3
    <3>2. \A j \in ((i - 1) + 1) .. Len(t) : t[j].type \notin kinds
      BY <1>1, <2>1
    <3> QED BY <2>1, <3>1, <3>2 DEF EndsAt
  <2> QED BY <2>2, <2>3
<1>3. HasNone(s, kinds) => HasNone(t, kinds) /\ s[1].type \notin kinds
  BY <1>1 DEF HasNone
<1> QED BY <1>1, <1>2, <1>3 DEF t

\* A pointer request is made of a move, at its place.
LEMMA MoveIsPointer ==
  \A e \in Happening : /\ RequestOf(e).type = "pointer" <=> e.type \in Moves
                       /\ e.type \in Moves => RequestOf(e).at = e.at
  BY DEF Happening, RequestOf, Moves

\* Forwarding takes over the last move.
LEMMA ForwardEnds ==
  ASSUME NEW w \in Seq(Happening), NEW r \in Seq(Input), NEW place,
         NEW q, q = r \o [i \in 1 .. Len(w) |-> RequestOf(w[i])]
  PROVE  /\ EndsAt(w, Moves, place) => EndsAt(q, {"pointer"}, place)
         /\ HasNone(w, Moves) /\ EndsAt(r, {"pointer"}, place)
              => EndsAt(q, {"pointer"}, place)
         /\ HasNone(w, Moves) /\ HasNone(r, {"pointer"}) => HasNone(q, {"pointer"})
<1>1. Len(w) \in Nat /\ Len(r) \in Nat /\ \A i \in 1 .. Len(w) : w[i] \in Happening
  OBVIOUS
<1>2. [i \in 1 .. Len(w) |-> RequestOf(w[i])] \in Seq(Input)
  BY <1>1, RequestType
<1>3. /\ Len(q) = Len(r) + Len(w)
      /\ \A i \in 1 .. Len(r) : q[i] = r[i]
      /\ \A i \in 1 .. Len(w) : q[Len(r) + i] = RequestOf(w[i])
  BY <1>1, <1>2
<1>4. \A i \in 1 .. Len(q) : i \in 1 .. Len(r) \/ i - Len(r) \in 1 .. Len(w)
  BY <1>1, <1>3
<1>5. \A i \in 1 .. Len(w) :
        /\ q[Len(r) + i].type = "pointer" <=> w[i].type \in Moves
        /\ w[i].type \in Moves => q[Len(r) + i].at = w[i].at
  BY <1>1, <1>3, MoveIsPointer
<1>6. \A i \in 1 .. Len(q) :
        i \notin 1 .. Len(r)
          => /\ i - Len(r) \in 1 .. Len(w)
             /\ q[i].type = "pointer" <=> w[i - Len(r)].type \in Moves
  <2> SUFFICES ASSUME NEW i \in 1 .. Len(q), i \notin 1 .. Len(r)
               PROVE  /\ i - Len(r) \in 1 .. Len(w)
                      /\ q[i].type = "pointer" <=> w[i - Len(r)].type \in Moves
    OBVIOUS
  <2>1. i - Len(r) \in 1 .. Len(w) /\ Len(r) + (i - Len(r)) = i
    BY <1>1, <1>4
  <2> QED BY <1>5, <2>1
<1>7. ASSUME EndsAt(w, Moves, place) PROVE EndsAt(q, {"pointer"}, place)
  <2>1. PICK i \in 1 .. Len(w) : /\ w[i].type \in Moves /\ w[i].at = place
                                 /\ \A j \in (i + 1) .. Len(w) : w[j].type \notin Moves
    BY <1>7 DEF EndsAt
  <2>2. /\ Len(r) + i \in 1 .. Len(q)
        /\ q[Len(r) + i].type = "pointer" /\ q[Len(r) + i].at = place
    BY <1>1, <1>3, <1>5, <2>1
  <2>3. ASSUME NEW j \in (Len(r) + i + 1) .. Len(q) PROVE q[j].type # "pointer"
    <3>1. /\ j \in 1 .. Len(q) /\ j \notin 1 .. Len(r)
          /\ j - Len(r) \in (i + 1) .. Len(w)
      BY <1>1, <1>3
    <3> QED BY <1>6, <2>1, <3>1
  <2> QED BY <2>2, <2>3 DEF EndsAt
<1>8. ASSUME HasNone(w, Moves), EndsAt(r, {"pointer"}, place)
      PROVE  EndsAt(q, {"pointer"}, place)
  <2>1. PICK i \in 1 .. Len(r) :
          /\ r[i].type = "pointer" /\ r[i].at = place
          /\ \A j \in (i + 1) .. Len(r) : r[j].type # "pointer"
    BY <1>8 DEF EndsAt
  <2>2. i \in 1 .. Len(q) /\ q[i] = r[i]
    BY <1>1, <1>3
  <2>3. ASSUME NEW j \in (i + 1) .. Len(q) PROVE q[j].type # "pointer"
    <3>1. j \in 1 .. Len(q)
      BY <1>1, <1>3
    <3>2. CASE j \in 1 .. Len(r)
      BY <1>3, <2>1, <3>2
    <3>3. CASE j \notin 1 .. Len(r)
      BY <1>6, <1>8, <3>1, <3>3 DEF HasNone
    <3> QED BY <3>2, <3>3
  <2> QED BY <2>1, <2>2, <2>3 DEF EndsAt
<1>9. ASSUME HasNone(w, Moves), HasNone(r, {"pointer"}) PROVE HasNone(q, {"pointer"})
  BY <1>3, <1>6, <1>9 DEF HasNone
<1> QED BY <1>7, <1>8, <1>9

\* A viewer whose own events are left alone, and that moves nothing, is unaffected.
LEMMA WayKept ==
  ASSUME NEW v \in Viewers, IsOnItsWay(v),
         window'[v] = window[v], requests'[v] = requests[v], at'[v] = at[v],
         mover' = v => mover = v /\ UNCHANGED location
  PROVE  IsOnItsWay(v)'
  BY DEF IsOnItsWay

\* Steps of the device: it only comes, or is switched on, when nobody is the mover,
\* and nobody is when it goes.
LEMMA DeviceStepPointer ==
  ASSUME PointerInv, DeviceIsHeard', ITypeOK', UNCHANGED <<viewerVars, userVars>>,
         \/ \E d \in Devices : EvdevPreInit(d) \/ EvdevOn(d) \/ EvdevOff(d) \/ EvdevUnInit(d)
  PROVE  PointerInv'
<1> USE DEF PointerInv
<1>1. mover' = NULL
  <2>1. CASE \E d \in Devices : EvdevPreInit(d)
    BY <2>1 DEF EvdevPreInit, pointerVars, MoverIsHeard, Accepts, Plugged, ITypeOK
  <2>2. CASE \E d \in Devices : EvdevOn(d)
    BY <2>2 DEF EvdevOn, pointerVars, MoverIsHeard, Accepts, Plugged, DeviceIsHeard
  <2>3. CASE \E d \in Devices : EvdevOff(d) \/ EvdevUnInit(d)
    BY <2>3 DEF EvdevOff, EvdevUnInit, NothingDown
  <2> QED BY <2>1, <2>2, <2>3
<1>2. \A v \in Viewers : mover' # v
  BY <1>1, InputAssumption
<1>3. DownIsForgotten'
  BY <1>2 DEF DownIsForgotten, viewerVars
<1>4. \A v \in Viewers : link'[v] # "left" => IsOnItsWay(v)'
  BY <1>2, WayKept DEF viewerVars, userVars
<1> QED BY <1>1, <1>3, <1>4 DEF MoverIsHeard

LEMMA RegeneratePointer ==
  ASSUME PointerInv, DeviceIsHeard', ITypeOK', Regenerate
  PROVE  PointerInv'
<1> USE DEF PointerInv
<1>1. mover' = NULL /\ \A v \in Viewers : mover' # v
  BY InputAssumption DEF Regenerate, NothingDown
<1>2. DownIsForgotten'
  BY <1>1 DEF Regenerate, DownIsForgotten
<1>3. ASSUME NEW v \in Viewers, link'[v] # "left" PROVE IsOnItsWay(v)'
  <2>1. /\ window'[v] = window[v] /\ requests'[v] = <<>> /\ at'[v] = at[v]
        /\ IsOnItsWay(v)
    BY <1>3 DEF Regenerate, userVars, ITypeOK
  <2>2. HasNone(requests'[v], {"pointer"})
    BY <2>1 DEF HasNone
  <2> QED BY <1>1, <2>1, <2>2 DEF IsOnItsWay
<1> QED BY <1>1, <1>2, <1>3 DEF MoverIsHeard

\* What a dispatch does to the X pointer.
LEMMA DispatchMoves ==
  ASSUME PointerInv, NEW v \in Viewers, DispatchInput(v)
  PROVE  LET r == Head(requests[v]) IN
         \/ /\ r.type = "pointer" /\ mover' = v /\ location' = r.at
            /\ lorie_input_info # NULL /\ Accepts("valuator")
         \/ r.type = "pointer" /\ mover = NULL /\ UNCHANGED <<mover, location>>
         \/ r.type # "pointer" /\ UNCHANGED <<mover, location>>
<1> DEFINE r == Head(requests[v])
<1> HIDE DEF r
<1> USE DEF PointerInv
<1>1. CASE /\ lorie_input_info \in Plugged
           /\ r.type = "pointer" /\ xorg_lorie_pointer_event_handler(v, r)
  <2>1. lorie_input_info # NULL
    BY <1>1, InputAssumption DEF Plugged
  <2> QED
    BY <1>1, <2>1 DEF xorg_lorie_pointer_event_handler, xf86PostMotionEvent, MoverIsHeard, r
<1>2. CASE r.type = "key" /\ xorg_lorie_key_event_handler(v, r)
  BY <1>2 DEF xorg_lorie_key_event_handler, r
<1>3. CASE lorie_input_info \notin Plugged /\ UNCHANGED pointerVars
  <2>1. mover = NULL
    BY <1>3 DEF MoverIsHeard, Accepts, Plugged, ITypeOK
  <2> QED BY <1>3, <2>1 DEF pointerVars, r
<1> QED BY <1>1, <1>2, <1>3 DEF DispatchInput, r

LEMMA DispatchPointer ==
  ASSUME PointerInv, DeviceIsHeard', ITypeOK', NEW v \in Viewers, DispatchInput(v)
  PROVE  PointerInv'
<1> DEFINE r == Head(requests[v])
<1> USE DEF PointerInv
<1>1. /\ requests[v] \in Seq(Input) /\ requests[v] # <<>>
      /\ requests' = [requests EXCEPT ![v] = Tail(@)]
      /\ requests'[v] = Tail(requests[v])
      /\ UNCHANGED <<deviceVars, link, window, at>>
  BY DEF DispatchInput, ITypeOK, userVars
<1>2. mover' \in {mover, v} /\ (mover' = mover => UNCHANGED location \/ mover' = v)
  BY DispatchMoves
<1>3. MoverIsHeard'
  BY <1>1, DispatchMoves DEF MoverIsHeard, Accepts, deviceVars
<1>4. link[v] = "open"
  BY <1>1 DEF DownIsForgotten
<1>5. DownIsForgotten'
  BY <1>1, <1>2, <1>4 DEF DownIsForgotten, ITypeOK
<1>6. ASSUME NEW u \in Viewers, u # v, link'[u] # "left" PROVE IsOnItsWay(u)'
  <2>1. requests'[u] = requests[u]
    BY <1>1, <1>6 DEF ITypeOK
  <2>2. mover' = u => mover = u /\ UNCHANGED location
    BY <1>2, <1>6
  <2> QED BY <1>1, <1>6, <2>1, <2>2, WayKept
<1>7. IsOnItsWay(v)'
  <2>1. IsOnItsWay(v)
    BY <1>4
  <2>2. CASE EndsAt(window[v], Moves, at[v])
    BY <1>1, <2>2 DEF IsOnItsWay
  <2>3. CASE HasNone(window[v], Moves) /\ EndsAt(requests[v], {"pointer"}, at[v])
    <3>1. \/ EndsAt(requests'[v], {"pointer"}, at[v])
          \/ /\ HasNone(requests'[v], {"pointer"})
             /\ r.type = "pointer" /\ r.at = at[v]
      BY <1>1, <2>3, TailEnds
    <3>2. r.type = "pointer" => (mover' = v => location' = r.at)
      BY DispatchMoves, InputAssumption
    <3> QED BY <1>1, <2>3, <3>1, <3>2 DEF IsOnItsWay
  <2>4. CASE /\ HasNone(window[v], Moves) /\ HasNone(requests[v], {"pointer"})
             /\ mover = v => location = at[v]
    <3>1. HasNone(requests'[v], {"pointer"}) /\ r.type # "pointer"
      <4>1. HasNone(Tail(requests[v]), {"pointer"}) /\ r.type \notin {"pointer"}
        BY <1>1, <2>4, TailEnds, Zenon
      <4> QED BY <1>1, <4>1
    <3>2. UNCHANGED <<mover, location>>
      BY <3>1, DispatchMoves
    <3> QED BY <1>1, <2>4, <3>1, <3>2 DEF IsOnItsWay
  <2> QED BY <2>1, <2>2, <2>3, <2>4 DEF IsOnItsWay
<1> QED BY <1>3, <1>5, <1>6, <1>7

LEMMA ViewerStepPointer ==
  ASSUME PointerInv, DeviceIsHeard', ITypeOK', NEW v \in Viewers,
         LoopConnects(v) \/ LoopForwards(v) \/ ViewerLeaves(v) \/ UserActs(v)
  PROVE  PointerInv'
<1> USE DEF PointerInv
<1>1. UNCHANGED <<deviceVars, pointerVars>>
  BY DEF LoopConnects, LoopForwards, ViewerLeaves, UserActs
<1>2. MoverIsHeard'
  BY <1>1 DEF MoverIsHeard, Accepts, deviceVars, pointerVars
<1>3. ASSUME NEW u \in Viewers, u # v
      PROVE  /\ window'[u] = window[u] /\ requests'[u] = requests[u]
             /\ at'[u] = at[u] /\ link'[u] = link[u]
  BY <1>3 DEF LoopConnects, LoopForwards, ViewerLeaves, UserActs, userVars, ITypeOK
<1>4. ASSUME NEW u \in Viewers, u # v, link'[u] # "left" PROVE IsOnItsWay(u)'
  BY <1>1, <1>3, <1>4, WayKept DEF pointerVars
<1>5. DownIsForgotten'
  <2>1. /\ link'[v] # "open" => requests'[v] = <<>>
        /\ link'[v] \in {"none", "eof"} => mover' # v
    BY <1>1
    DEF LoopConnects, LoopForwards, ViewerLeaves, UserActs, DownIsForgotten,
        pointerVars, ITypeOK
  <2> QED BY <1>1, <1>3, <2>1 DEF DownIsForgotten, pointerVars
<1>6. link'[v] # "left" => IsOnItsWay(v)'
  <2>1. CASE LoopConnects(v)
    BY <1>1, <2>1, WayKept DEF LoopConnects, pointerVars, userVars
  <2>2. CASE ViewerLeaves(v)
    BY <2>2 DEF ViewerLeaves, ITypeOK
  <2>3. CASE LoopForwards(v)
    <3>1. /\ window[v] \in Seq(Happening) /\ requests[v] \in Seq(Input)
          /\ window'[v] = <<>> /\ at'[v] = at[v]
          /\ IsOnItsWay(v)
      BY <2>3 DEF LoopForwards, userVars, ITypeOK
    <3>2. HasNone(window'[v], Moves)
      BY <3>1 DEF HasNone
    <3>3. CASE link[v] = "open"
      <4>1. requests'[v] =
              requests[v] \o [i \in 1 .. Len(window[v]) |-> RequestOf(window[v][i])]
        BY <2>3, <3>3 DEF LoopForwards, ITypeOK
      <4>2. \/ EndsAt(requests'[v], {"pointer"}, at[v])
            \/ HasNone(requests'[v], {"pointer"}) /\ (mover = v => location = at[v])
        BY <3>1, <4>1, ForwardEnds DEF IsOnItsWay
      <4> QED BY <1>1, <3>1, <3>2, <4>2 DEF IsOnItsWay, pointerVars
    <3>4. CASE link[v] # "open"
      <4>1. requests'[v] = <<>> /\ mover' # v
        BY <1>1, <2>3, <3>4 DEF LoopForwards, DownIsForgotten, pointerVars
      <4>2. HasNone(requests'[v], {"pointer"})
        BY <4>1 DEF HasNone
      <4> QED BY <3>2, <4>1, <4>2 DEF IsOnItsWay
    <3> QED BY <3>3, <3>4
  <2>4. CASE UserActs(v)
    <3>1. PICK e \in WindowEvent(v) :
            /\ window' = [window EXCEPT ![v] = Append(@, e)]
            /\ at' = [at EXCEPT ![v] = e.at]
      BY <2>4 DEF UserActs
    <3>2. /\ window[v] \in Seq(Happening)
          /\ window'[v] = Append(window[v], e) /\ at'[v] = e.at
          /\ requests'[v] = requests[v]
          /\ IsOnItsWay(v)
      BY <2>4, <3>1 DEF UserActs, ITypeOK
    <3>3. e.type \notin Moves => e.at = at[v]
      BY DEF WindowEvent, Moves
    <3>4. CASE e.type \in Moves
      BY <3>2, <3>4, AppendEnds DEF IsOnItsWay
    <3>5. CASE e.type \notin Moves
      <4>1. /\ EndsAt(window[v], Moves, at[v]) => EndsAt(window'[v], Moves, at[v])
            /\ HasNone(window[v], Moves) => HasNone(window'[v], Moves)
        BY <3>2, <3>5, AppendEnds
      <4> QED BY <1>1, <3>2, <3>3, <3>5, <4>1 DEF IsOnItsWay, pointerVars
    <3> QED BY <3>4, <3>5
  <2> QED BY <2>1, <2>2, <2>3, <2>4
<1> QED BY <1>2, <1>4, <1>5, <1>6

LEMMA PointerStep == PointerInv /\ [INext]_ivars => PointerInv'
<1> SUFFICES ASSUME PointerInv, [INext]_ivars PROVE PointerInv'
  OBVIOUS
<1>1. ITypeOK' /\ DeviceIsHeard'
  BY InputStepType, DeviceIsHeardStep DEF PointerInv
<1>2. CASE \E d \in Devices : EvdevPreInit(d) \/ EvdevOn(d) \/ EvdevOff(d) \/ EvdevUnInit(d)
  <2>1. UNCHANGED <<viewerVars, userVars>>
    BY <1>2 DEF EvdevPreInit, EvdevOn, EvdevOff, EvdevUnInit
  <2> QED BY <1>1, <1>2, <2>1, DeviceStepPointer
<1>3. CASE UNCHANGED ivars
  <2>1. UNCHANGED <<deviceVars, pointerVars, viewerVars, userVars>>
    BY <1>3 DEF ivars
  <2>2. MoverIsHeard' /\ DownIsForgotten'
    BY <2>1
    DEF PointerInv, MoverIsHeard, DownIsForgotten, Accepts, deviceVars, pointerVars,
        viewerVars
  <2>3. \A v \in Viewers : link'[v] # "left" => IsOnItsWay(v)'
    BY <2>1, WayKept DEF PointerInv, pointerVars, viewerVars, userVars
  <2> QED BY <1>1, <2>2, <2>3 DEF PointerInv
<1> QED
  BY <1>1, <1>2, <1>3, RegeneratePointer, DispatchPointer, ViewerStepPointer
  DEF INext, XServer

\* Once everything a viewer sent has been posted, the X pointer is where its user
\* put it, unless another viewer has moved it since.
THEOREM PointerFollows == ISpec => []PointerFollowsViewer
<1>1. IInit => PointerInv
  <2>1. IInit => ITypeOK /\ DeviceIsHeard
    BY InputInit DEF IInit, DeviceIsHeard, Plugged
  <2>2. IInit => MoverIsHeard /\ DownIsForgotten
    BY InputAssumption DEF IInit, MoverIsHeard, DownIsForgotten
  <2>3. ASSUME IInit, NEW v \in Viewers PROVE IsOnItsWay(v)
    BY <2>3, InputAssumption DEF IInit, IsOnItsWay, HasNone
  <2> QED BY <2>1, <2>2, <2>3 DEF PointerInv
<1>2. PointerInv => PointerFollowsViewer
  <2> SUFFICES ASSUME PointerInv, NEW v \in Viewers, mover = v, link[v] # "left",
                      window[v] = <<>>, requests[v] = <<>>
               PROVE  location = at[v]
    BY DEF PointerFollowsViewer
  <2>1. ~ EndsAt(window[v], Moves, at[v]) /\ ~ EndsAt(requests[v], {"pointer"}, at[v])
    BY DEF EndsAt
  <2> QED BY <2>1 DEF PointerInv, IsOnItsWay
<1> QED BY <1>1, <1>2, PointerStep, PTL DEF ISpec

-----------------------------------------------------------------------------
(* ReleaseIsUnderWay *)

\* The last element of K is one of L; there is none.
EndsIn(q, K, L) ==
  \E i \in 1 .. Len(q) : q[i] \in L /\ \A j \in (i + 1) .. Len(q) : q[j] \notin K

NoneIn(q, K) == \A i \in 1 .. Len(q) : q[i] \notin K

EventsAbout(s) == {e \in Happening : e.type # "MotionNotify" /\ e.switch = s}

RequestsAbout(s) == {RequestOf(e) : e \in EventsAbout(s)}

\* What is last on its way about a switch that the user has released is the release
\* or, if nothing is, X does not hold it down for this viewer.
ReleaseComes(v, s) ==
  \/ EndsIn(window[v], EventsAbout(s), ReleasesOf(s))
  \/ /\ NoneIn(window[v], EventsAbout(s))
     /\ \/ EndsIn(requests[v], RequestsAbout(s), ReleaseRequests(s))
        \/ NoneIn(requests[v], RequestsAbout(s)) /\ v \notin pressedBy[s]

ClassOf(s) == IF s \in Buttons THEN "button" ELSE "key"

\* What is down in X was posted to a device that is still on and has not lost its
\* class, so no release is refused.
PressedIsHeard ==
  \A s \in Switch :
    pressedBy[s] # {} => lorie_input_info # NULL /\ Accepts(ClassOf(s))

\* A connection that is down carries nothing, and X holds nothing down for it: it
\* went down with the device.
DownHoldsNothing ==
  \A v \in Viewers :
    /\ link[v] # "open" => requests[v] = <<>>
    /\ link[v] \in {"none", "eof"} => \A s \in Switch : v \notin pressedBy[s]

ReleaseInv ==
  /\ ITypeOK
  /\ DeviceIsHeard
  /\ PressedIsHeard
  /\ DownHoldsNothing
  /\ \A v \in Viewers, s \in Switch :
       s \notin held[v] /\ link[v] # "left" => ReleaseComes(v, s)

LEMMA AppendIn ==
  ASSUME NEW S, NEW q \in Seq(S), NEW e \in S, NEW K, NEW L
  PROVE  /\ e \in L => EndsIn(Append(q, e), K, L)
         /\ e \notin K /\ EndsIn(q, K, L) => EndsIn(Append(q, e), K, L)
         /\ e \notin K /\ NoneIn(q, K) => NoneIn(Append(q, e), K)
<1> DEFINE t == Append(q, e)
<1>1. /\ Len(q) \in Nat /\ Len(t) = Len(q) + 1 /\ t[Len(t)] = e
      /\ \A i \in 1 .. Len(q) : t[i] = q[i]
  OBVIOUS
<1>2. \A i \in 1 .. Len(t) : i \in 1 .. Len(q) \/ i = Len(t)
  BY <1>1
<1> HIDE DEF t
<1>3. e \in L => EndsIn(t, K, L)
  BY <1>1 DEF EndsIn
<1>4. ASSUME e \notin K, EndsIn(q, K, L) PROVE EndsIn(t, K, L)
  <2>1. PICK i \in 1 .. Len(q) : q[i] \in L /\ \A j \in (i + 1) .. Len(q) : q[j] \notin K
    BY <1>4 DEF EndsIn
  <2>2. i \in 1 .. Len(t) /\ t[i] = q[i]
    BY <1>1
  <2>3. \A j \in (i + 1) .. Len(t) : t[j] \notin K
    BY <1>1, <1>4, <2>1
  <2> QED BY <2>1, <2>2, <2>3 DEF EndsIn
<1>5. e \notin K /\ NoneIn(q, K) => NoneIn(t, K)
  BY <1>1, <1>2 DEF NoneIn
<1> QED BY <1>3, <1>4, <1>5 DEF t

LEMMA TailIn ==
  ASSUME NEW S, NEW q \in Seq(S), q # <<>>, NEW K, NEW L
  PROVE  /\ EndsIn(q, K, L)
              => EndsIn(Tail(q), K, L) \/ (NoneIn(Tail(q), K) /\ Head(q) \in L)
         /\ NoneIn(q, K) => NoneIn(Tail(q), K) /\ Head(q) \notin K
<1> DEFINE t == Tail(q)
<1>1. /\ Len(q) \in Nat \ {0} /\ Len(t) = Len(q) - 1
      /\ Head(q) = q[1]
      /\ \A i \in 1 .. Len(t) : t[i] = q[i + 1]
  OBVIOUS
<1> HIDE DEF t
<1>2. ASSUME EndsIn(q, K, L)
      PROVE  EndsIn(t, K, L) \/ (NoneIn(t, K) /\ q[1] \in L)
  <2>1. PICK i \in 1 .. Len(q) : q[i] \in L /\ \A j \in (i + 1) .. Len(q) : q[j] \notin K
    BY <1>2 DEF EndsIn
  <2>2. CASE i = 1
    BY <1>1, <2>1, <2>2 DEF NoneIn
  <2>3. CASE i # 1
    <3>1. i - 1 \in 1 .. Len(t) /\ t[i - 1] = q[i]
      BY <1>1, <2>3
    <3>2. \A j \in ((i - 1) + 1) .. Len(t) : t[j] \notin K
      BY <1>1, <2>1
    <3> QED BY <2>1, <3>1, <3>2 DEF EndsIn
  <2> QED BY <2>2, <2>3
<1>3. NoneIn(q, K) => NoneIn(t, K) /\ q[1] \notin K
  BY <1>1 DEF NoneIn
<1> QED BY <1>1, <1>2, <1>3 DEF t

LEMMA ConcatIn ==
  ASSUME NEW S, NEW r \in Seq(S), NEW m \in Seq(S), NEW K, NEW L
  PROVE  /\ EndsIn(m, K, L) => EndsIn(r \o m, K, L)
         /\ NoneIn(m, K) /\ EndsIn(r, K, L) => EndsIn(r \o m, K, L)
         /\ NoneIn(m, K) /\ NoneIn(r, K) => NoneIn(r \o m, K)
<1> DEFINE t == r \o m
<1>1. /\ Len(r) \in Nat /\ Len(m) \in Nat /\ Len(t) = Len(r) + Len(m)
      /\ \A i \in 1 .. Len(r) : t[i] = r[i]
      /\ \A i \in 1 .. Len(m) : t[Len(r) + i] = m[i]
  OBVIOUS
<1> HIDE DEF t
<1>2. ASSUME NEW i \in 1 .. Len(t), i \notin 1 .. Len(r)
      PROVE  i - Len(r) \in 1 .. Len(m) /\ t[i] = m[i - Len(r)]
  <2>1. i - Len(r) \in 1 .. Len(m) /\ Len(r) + (i - Len(r)) = i
    BY <1>1, <1>2
  <2> QED BY <1>1, <2>1
<1>3. ASSUME EndsIn(m, K, L) PROVE EndsIn(t, K, L)
  <2>1. PICK i \in 1 .. Len(m) : m[i] \in L /\ \A j \in (i + 1) .. Len(m) : m[j] \notin K
    BY <1>3 DEF EndsIn
  <2>2. Len(r) + i \in 1 .. Len(t) /\ t[Len(r) + i] = m[i]
    BY <1>1
  <2>3. ASSUME NEW j \in (Len(r) + i + 1) .. Len(t) PROVE t[j] \notin K
    <3>1. j \in 1 .. Len(t) /\ j \notin 1 .. Len(r) /\ j - Len(r) \in (i + 1) .. Len(m)
      BY <1>1
    <3> QED BY <1>2, <2>1, <3>1
  <2> QED BY <2>1, <2>2, <2>3 DEF EndsIn
<1>4. ASSUME NoneIn(m, K), EndsIn(r, K, L) PROVE EndsIn(t, K, L)
  <2>1. PICK i \in 1 .. Len(r) : r[i] \in L /\ \A j \in (i + 1) .. Len(r) : r[j] \notin K
    BY <1>4 DEF EndsIn
  <2>2. i \in 1 .. Len(t) /\ t[i] = r[i]
    BY <1>1
  <2>3. ASSUME NEW j \in (i + 1) .. Len(t) PROVE t[j] \notin K
    <3>1. j \in 1 .. Len(t)
      BY <1>1
    <3>2. CASE j \in 1 .. Len(r)
      BY <1>1, <2>1, <3>2
    <3>3. CASE j \notin 1 .. Len(r)
      BY <1>2, <1>4, <3>1, <3>3 DEF NoneIn
    <3> QED BY <3>2, <3>3
  <2> QED BY <2>1, <2>2, <2>3 DEF EndsIn
<1>5. NoneIn(m, K) /\ NoneIn(r, K) => NoneIn(t, K)
  BY <1>1, <1>2 DEF NoneIn
<1> QED BY <1>3, <1>4, <1>5 DEF t

\* Which requests are about a switch, and which release it.
LEMMA AboutRequest ==
  ASSUME NEW r \in Input, NEW s
  PROVE  /\ r \in RequestsAbout(s) <=>
              \/ r.type = "pointer" /\ r.state # "motion" /\ r.button = s
              \/ r.type = "key" /\ r.key = s
         /\ r \in ReleaseRequests(s) => r \in RequestsAbout(s) /\ r.state = "up"
<1>1. ASSUME r.type = "pointer", r.state # "motion", r.button = s
      PROVE  r \in RequestsAbout(s)
  <2> DEFINE e == [type |-> IF r.state = "down" THEN "ButtonPress" ELSE "ButtonRelease",
                   switch |-> s, at |-> r.at]
  <2>1. /\ r.state \in {"up", "down"} /\ s \in Buttons /\ r.at \in Places
        /\ r = [type |-> "pointer", state |-> r.state, button |-> s, at |-> r.at]
    BY <1>1 DEF Input
  <2>2. e \in EventsAbout(s)
    BY <2>1 DEF EventsAbout, Happening
  <2>3. RequestOf(e) = r
    BY <2>1 DEF RequestOf
  <2> QED BY <2>2, <2>3 DEF RequestsAbout
<1>2. ASSUME r.type = "key", r.key = s PROVE r \in RequestsAbout(s)
  <2> DEFINE e == [type |-> IF r.state = "down" THEN "KeyPress" ELSE "KeyRelease",
                   switch |-> s, at |-> Origin]
  <2>1. /\ r.state \in {"up", "down"} /\ s \in Keys
        /\ r = [type |-> "key", state |-> r.state, key |-> s]
    BY <1>2 DEF Input
  <2>2. e \in EventsAbout(s)
    BY <2>1, InputAssumption DEF EventsAbout, Happening
  <2>3. RequestOf(e) = r
    BY <2>1 DEF RequestOf
  <2> QED BY <2>2, <2>3 DEF RequestsAbout
<1>3. ASSUME NEW e \in EventsAbout(s)
      PROVE  \/ /\ RequestOf(e).type = "pointer" /\ RequestOf(e).state # "motion"
                /\ RequestOf(e).button = s
             \/ RequestOf(e).type = "key" /\ RequestOf(e).key = s
  BY DEF EventsAbout, Happening, RequestOf
<1>4. ASSUME NEW e \in ReleasesOf(s) PROVE e \in EventsAbout(s) /\ RequestOf(e).state = "up"
  BY DEF ReleasesOf, EventsAbout, Happening, RequestOf
<1>5. r \in ReleaseRequests(s) => r \in RequestsAbout(s) /\ r.state = "up"
  BY <1>4 DEF ReleaseRequests, RequestsAbout
<1>6. r \in RequestsAbout(s) =>
        \/ r.type = "pointer" /\ r.state # "motion" /\ r.button = s
        \/ r.type = "key" /\ r.key = s
  BY <1>3 DEF RequestsAbout
<1> QED BY <1>1, <1>2, <1>5, <1>6

\* A request is about the switch that its event was about, and releases if that did.
LEMMA RequestIsAbout ==
  ASSUME NEW e \in Happening, NEW s
  PROVE  /\ RequestOf(e) \in RequestsAbout(s) <=> e \in EventsAbout(s)
         /\ e \in ReleasesOf(s) => RequestOf(e) \in ReleaseRequests(s)
<1>1. RequestOf(e) \in Input
  BY RequestType
<1>2. ASSUME RequestOf(e) \in RequestsAbout(s) PROVE e \in EventsAbout(s)
  <2>1. \/ /\ RequestOf(e).type = "pointer" /\ RequestOf(e).state # "motion"
           /\ RequestOf(e).button = s
        \/ RequestOf(e).type = "key" /\ RequestOf(e).key = s
    BY <1>1, <1>2, AboutRequest
  <2> QED BY <2>1 DEF EventsAbout, Happening, RequestOf
<1> QED BY <1>2 DEF RequestsAbout, ReleaseRequests

\* Forwarding takes over the last event about a switch.
LEMMA ForwardIn ==
  ASSUME NEW w \in Seq(Happening), NEW r \in Seq(Input), NEW s,
         NEW q, q = r \o [i \in 1 .. Len(w) |-> RequestOf(w[i])]
  PROVE  LET K == RequestsAbout(s)
             L == ReleaseRequests(s)
         IN  /\ EndsIn(w, EventsAbout(s), ReleasesOf(s)) => EndsIn(q, K, L)
             /\ NoneIn(w, EventsAbout(s)) /\ EndsIn(r, K, L) => EndsIn(q, K, L)
             /\ NoneIn(w, EventsAbout(s)) /\ NoneIn(r, K) => NoneIn(q, K)
<1> DEFINE m == [i \in 1 .. Len(w) |-> RequestOf(w[i])]
<1>1. Len(w) \in Nat /\ \A i \in 1 .. Len(w) : w[i] \in Happening
  OBVIOUS
<1>2. /\ m \in Seq(Input) /\ Len(m) = Len(w)
      /\ \A i \in 1 .. Len(w) : m[i] = RequestOf(w[i])
  BY <1>1, RequestType
<1> HIDE DEF m
<1>3. /\ EndsIn(w, EventsAbout(s), ReleasesOf(s))
           => EndsIn(m, RequestsAbout(s), ReleaseRequests(s))
      /\ NoneIn(w, EventsAbout(s)) => NoneIn(m, RequestsAbout(s))
  <2>1. \A i \in 1 .. Len(w) :
          /\ m[i] \in RequestsAbout(s) => w[i] \in EventsAbout(s)
          /\ w[i] \in ReleasesOf(s) => m[i] \in ReleaseRequests(s)
    BY <1>1, <1>2, RequestIsAbout
  <2>2. NoneIn(w, EventsAbout(s)) => NoneIn(m, RequestsAbout(s))
    BY <1>2, <2>1 DEF NoneIn
  <2>3. ASSUME EndsIn(w, EventsAbout(s), ReleasesOf(s))
        PROVE  EndsIn(m, RequestsAbout(s), ReleaseRequests(s))
    <3>1. PICK i \in 1 .. Len(w) :
            /\ w[i] \in ReleasesOf(s)
            /\ \A j \in (i + 1) .. Len(w) : w[j] \notin EventsAbout(s)
      BY <2>3 DEF EndsIn
    <3>2. \A j \in (i + 1) .. Len(w) : j \in 1 .. Len(w)
      BY <1>1
    <3>3. \A j \in (i + 1) .. Len(m) : m[j] \notin RequestsAbout(s)
      BY <1>2, <2>1, <3>1, <3>2
    <3> QED BY <1>2, <2>1, <3>1, <3>3 DEF EndsIn
  <2> QED BY <2>2, <2>3
<1>4. q = r \o m
  BY DEF m
<1>5. \A K, L : /\ EndsIn(m, K, L) => EndsIn(q, K, L)
                /\ NoneIn(m, K) /\ EndsIn(r, K, L) => EndsIn(q, K, L)
                /\ NoneIn(m, K) /\ NoneIn(r, K) => NoneIn(q, K)
  BY <1>2, <1>4, ConcatIn
<1> QED BY <1>3, <1>5

LEMMA NoneInEmpty == \A K : NoneIn(<<>>, K)
  BY DEF NoneIn

\* A step that leaves the events about a switch where they are keeps the claim if X
\* gets nothing more from the viewer.
LEMMA ReleaseKept ==
  ASSUME NEW v \in Viewers, NEW s \in Switch, ReleaseComes(v, s),
         window'[v] = window[v], requests'[v] = requests[v],
         v \in pressedBy'[s] => v \in pressedBy[s]
  PROVE  ReleaseComes(v, s)'
  BY DEF ReleaseComes

\* When nothing is down any more the unread requests may go, too.
LEMMA ReleaseAfterDown ==
  ASSUME NEW v \in Viewers, NEW s \in Switch, ReleaseComes(v, s), NothingDown,
         window'[v] = window[v], requests'[v] \in {requests[v], <<>>}
  PROVE  ReleaseComes(v, s)'
<1>1. v \notin pressedBy'[s]
  BY DEF NothingDown, NothingPressed
<1>2. NoneIn(<<>>, RequestsAbout(s))
  BY NoneInEmpty
<1> QED BY <1>1, <1>2 DEF ReleaseComes

LEMMA DeviceStepRelease ==
  ASSUME ReleaseInv, DeviceIsHeard', ITypeOK', UNCHANGED <<viewerVars, userVars>>,
         \E d \in Devices : EvdevPreInit(d) \/ EvdevOn(d) \/ EvdevOff(d) \/ EvdevUnInit(d)
  PROVE  ReleaseInv'
<1> USE DEF ReleaseInv
<1>1. \A s \in Switch : pressedBy'[s] = {}
  <2>1. CASE \E d \in Devices : EvdevPreInit(d)
    BY <2>1 DEF EvdevPreInit, pointerVars, PressedIsHeard, Accepts, Plugged, ITypeOK
  <2>2. CASE \E d \in Devices : EvdevOn(d)
    BY <2>2 DEF EvdevOn, pointerVars, PressedIsHeard, Accepts, Plugged, DeviceIsHeard
  <2>3. CASE \E d \in Devices : EvdevOff(d) \/ EvdevUnInit(d)
    BY <2>3 DEF EvdevOff, EvdevUnInit, NothingDown, NothingPressed
  <2> QED BY <2>1, <2>2, <2>3
<1>2. PressedIsHeard' /\ DownHoldsNothing'
  BY <1>1 DEF PressedIsHeard, DownHoldsNothing, viewerVars
<1>3. \A v \in Viewers, s \in Switch :
        s \notin held'[v] /\ link'[v] # "left" => ReleaseComes(v, s)'
  BY <1>1, ReleaseKept DEF viewerVars, userVars
<1> QED BY <1>2, <1>3

LEMMA RegenerateRelease ==
  ASSUME ReleaseInv, DeviceIsHeard', ITypeOK', Regenerate
  PROVE  ReleaseInv'
<1> USE DEF ReleaseInv
<1>1. NothingDown /\ \A s \in Switch : pressedBy'[s] = {}
  BY DEF Regenerate, NothingDown, NothingPressed
<1>2. /\ UNCHANGED <<window, held>>
      /\ \A v \in Viewers : requests'[v] = <<>> /\ (link'[v] = "left" <=> link[v] = "left")
  BY DEF Regenerate, userVars, ITypeOK
<1>3. PressedIsHeard' /\ DownHoldsNothing'
  BY <1>1, <1>2 DEF PressedIsHeard, DownHoldsNothing
<1>4. \A v \in Viewers, s \in Switch :
        s \notin held'[v] /\ link'[v] # "left" => ReleaseComes(v, s)'
  BY <1>1, <1>2, ReleaseAfterDown
<1> QED BY <1>3, <1>4

\* What a dispatch does to a switch: a release that the viewer sent empties it, a
\* press adds the viewer, and requests about others leave it alone.
LEMMA DispatchSwitch ==
  ASSUME ReleaseInv, NEW v \in Viewers, DispatchInput(v), NEW s \in Switch
  PROVE  LET r == Head(requests[v]) IN
         /\ pressedBy'[s] \subseteq pressedBy[s] \cup {v}
         /\ pressedBy'[s] # {} => pressedBy[s] # {}
                                  \/ (lorie_input_info # NULL /\ Accepts(ClassOf(s)))
         /\ r \notin RequestsAbout(s) => UNCHANGED pressedBy[s]
         /\ r \in ReleaseRequests(s) => v \notin pressedBy'[s]
<1> DEFINE r == Head(requests[v])
<1> USE DEF ReleaseInv
<1>1. r \in Input
  BY DEF DispatchInput, ITypeOK
<1> HIDE DEF r
<1>2. pressedBy \in [Switch -> SUBSET Viewers]
  BY DEF ITypeOK
<1>3. CASE lorie_input_info \notin Plugged
  <2>1. UNCHANGED pressedBy
    BY <1>3 DEF DispatchInput, pointerVars
  <2>2. pressedBy[s] = {}
    BY <1>3 DEF PressedIsHeard, Accepts, Plugged, ITypeOK
  <2> QED BY <2>1, <2>2 DEF r
<1>4. CASE lorie_input_info \in Plugged
  <2>1. lorie_input_info # NULL
    BY <1>4, InputAssumption DEF Plugged
  <2>2. \/ r.type = "pointer" /\ xorg_lorie_pointer_event_handler(v, r)
        \/ r.type = "key" /\ xorg_lorie_key_event_handler(v, r)
    BY <1>4 DEF DispatchInput, r
  <2>3. ASSUME NEW t \in Switch, NEW down \in BOOLEAN,
               PostSwitchEvent(v, ClassOf(t), t, down),
               r \notin RequestsAbout(s) => t # s,
               r \in ReleaseRequests(s) => t = s /\ ~ down
        PROVE  /\ pressedBy'[s] \subseteq pressedBy[s] \cup {v}
               /\ pressedBy'[s] # {} => pressedBy[s] # {} \/ Accepts(ClassOf(s))
               /\ r \notin RequestsAbout(s) => UNCHANGED pressedBy[s]
               /\ r \in ReleaseRequests(s) => v \notin pressedBy'[s]
    <3>1. CASE Accepts(ClassOf(t))
      <4>1. pressedBy' = [pressedBy EXCEPT ![t] = IF down THEN @ \cup {v} ELSE {}]
        BY <2>3, <3>1 DEF PostSwitchEvent
      <4> QED BY <1>2, <2>3, <3>1, <4>1
    <3>2. CASE ~ Accepts(ClassOf(t))
      <4>1. UNCHANGED pressedBy
        BY <2>3, <3>2 DEF PostSwitchEvent
      <4>2. t = s => v \notin pressedBy[s]
        BY <3>2 DEF PressedIsHeard
      <4> QED BY <2>3, <4>1, <4>2
    <3> QED BY <3>1, <3>2
  <2>4. CASE r.type = "pointer" /\ r.state \in {"up", "down"}
    <3>1. /\ r.button \in Buttons
          /\ PostSwitchEvent(v, "button", r.button, r.state = "down")
      BY <1>1, <2>2, <2>4 DEF Input, xorg_lorie_pointer_event_handler
    <3>2. r.button \in Switch /\ ClassOf(r.button) = "button"
      BY <3>1 DEF Switch, ClassOf
    <3>3. /\ r \notin RequestsAbout(s) => r.button # s
          /\ r \in ReleaseRequests(s) => r.button = s /\ ~ (r.state = "down")
      BY <1>1, <2>4, AboutRequest
    <3>4. (r.state = "down") \in BOOLEAN
      OBVIOUS
    <3> QED BY <2>1, <2>3, <3>1, <3>2, <3>3, <3>4 DEF r
  <2>5. CASE r.type = "key"
    <3>1. /\ r.key \in Keys
          /\ PostSwitchEvent(v, "key", r.key, r.state = "down")
      BY <1>1, <2>2, <2>5 DEF Input, xorg_lorie_key_event_handler
    <3>2. r.key \in Switch /\ ClassOf(r.key) = "key"
      BY <3>1, InputAssumption DEF Switch, ClassOf
    <3>3. /\ r \notin RequestsAbout(s) => r.key # s
          /\ r \in ReleaseRequests(s) => r.key = s /\ ~ (r.state = "down")
      BY <1>1, <2>5, AboutRequest
    <3>4. (r.state = "down") \in BOOLEAN
      OBVIOUS
    <3> QED BY <2>1, <2>3, <3>1, <3>2, <3>3, <3>4 DEF r
  <2>6. CASE r.type = "pointer" /\ r.state \notin {"up", "down"}
    <3>1. UNCHANGED pressedBy
      BY <2>2, <2>6 DEF xorg_lorie_pointer_event_handler
    <3>2. r \notin ReleaseRequests(s)
      BY <1>1, <2>6, AboutRequest
    <3> QED BY <3>1, <3>2 DEF r
  <2> QED BY <2>2, <2>4, <2>5, <2>6
<1> QED BY <1>3, <1>4

LEMMA DispatchRelease ==
  ASSUME ReleaseInv, DeviceIsHeard', ITypeOK', NEW v \in Viewers, DispatchInput(v)
  PROVE  ReleaseInv'
<1> DEFINE r == Head(requests[v])
<1> USE DEF ReleaseInv
<1>1. /\ requests[v] \in Seq(Input) /\ requests[v] # <<>>
      /\ requests'[v] = Tail(requests[v])
      /\ \A u \in Viewers : u # v => requests'[u] = requests[u]
      /\ UNCHANGED <<deviceVars, link, window, held>>
  BY DEF DispatchInput, ITypeOK, userVars
<1>2. /\ pressedBy \in [Switch -> SUBSET Viewers]
      /\ pressedBy' \in [Switch -> SUBSET Viewers]
  BY DEF ITypeOK
<1>3. PressedIsHeard'
  <2>1. ASSUME NEW s \in Switch, pressedBy'[s] # {}
        PROVE  lorie_input_info # NULL /\ Accepts(ClassOf(s))
    BY <2>1, DispatchSwitch DEF PressedIsHeard
  <2>2. \A s \in Switch : Accepts(ClassOf(s)) => Accepts(ClassOf(s))'
    BY <1>1 DEF Accepts, ClassOf, deviceVars
  <2> QED BY <1>1, <2>1, <2>2 DEF PressedIsHeard, deviceVars
<1>4. link[v] = "open"
  BY <1>1 DEF DownHoldsNothing
<1>5. DownHoldsNothing'
  <2>1. ASSUME NEW u \in Viewers, u # v, NEW s \in Switch, u \notin pressedBy[s]
        PROVE  u \notin pressedBy'[s]
    BY <2>1, DispatchSwitch
  <2> QED BY <1>1, <1>4, <2>1 DEF DownHoldsNothing
<1>6. ASSUME NEW u \in Viewers, u # v, NEW s \in Switch,
             s \notin held'[u], link'[u] # "left"
      PROVE  ReleaseComes(u, s)'
  <2>1. u \in pressedBy'[s] => u \in pressedBy[s]
    BY <1>6, DispatchSwitch
  <2> QED BY <1>1, <1>6, <2>1, ReleaseKept
<1>7. ASSUME NEW s \in Switch, s \notin held'[v] PROVE ReleaseComes(v, s)'
  <2>1. ReleaseComes(v, s)
    BY <1>1, <1>4, <1>7
  <2>2. CASE EndsIn(window[v], EventsAbout(s), ReleasesOf(s))
    BY <1>1, <2>2 DEF ReleaseComes
  <2>3. CASE /\ NoneIn(window[v], EventsAbout(s))
             /\ EndsIn(requests[v], RequestsAbout(s), ReleaseRequests(s))
    <3>1. \/ EndsIn(requests'[v], RequestsAbout(s), ReleaseRequests(s))
          \/ NoneIn(requests'[v], RequestsAbout(s)) /\ r \in ReleaseRequests(s)
      BY <1>1, <2>3, TailIn
    <3>2. r \in ReleaseRequests(s) => v \notin pressedBy'[s]
      BY DispatchSwitch
    <3> QED BY <1>1, <2>3, <3>1, <3>2 DEF ReleaseComes
  <2>4. CASE /\ NoneIn(window[v], EventsAbout(s))
             /\ NoneIn(requests[v], RequestsAbout(s)) /\ v \notin pressedBy[s]
    <3>1. NoneIn(requests'[v], RequestsAbout(s)) /\ r \notin RequestsAbout(s)
      BY <1>1, <2>4, TailIn
    <3>2. v \notin pressedBy'[s]
      BY <2>4, <3>1, DispatchSwitch
    <3> QED BY <1>1, <2>4, <3>1, <3>2 DEF ReleaseComes
  <2> QED BY <2>1, <2>2, <2>3, <2>4 DEF ReleaseComes
<1> QED BY <1>3, <1>5, <1>6, <1>7

\* What is typed, clicked or moved goes to the end of the window's events.
LEMMA UserRelease ==
  ASSUME ReleaseInv, NEW v \in Viewers, UserActs(v), NEW s \in Switch,
         s \notin held'[v]
  PROVE  ReleaseComes(v, s)'
<1> USE DEF ReleaseInv
<1>1. PICK e \in WindowEvent(v) :
        /\ window' = [window EXCEPT ![v] = Append(@, e)]
        /\ held' = [held EXCEPT ![v] =
             IF e.type \in {"ButtonPress", "KeyPress"} THEN @ \cup {e.switch}
             ELSE IF e.type = "MotionNotify" THEN @ ELSE @ \ {e.switch}]
  BY DEF UserActs
<1>2. /\ window[v] \in Seq(Happening) /\ window'[v] = Append(window[v], e)
      /\ held'[v] = IF e.type \in {"ButtonPress", "KeyPress"} THEN held[v] \cup {e.switch}
                    ELSE IF e.type = "MotionNotify" THEN held[v] ELSE held[v] \ {e.switch}
      /\ requests'[v] = requests[v] /\ UNCHANGED pressedBy
      /\ link[v] # "left"
  BY <1>1 DEF UserActs, ITypeOK, pointerVars
<1>3. e \in Happening
  BY DEF WindowEvent, Happening, ITypeOK
<1>4. CASE e \in ReleasesOf(s)
  <2>1. EndsIn(window'[v], EventsAbout(s), ReleasesOf(s))
    BY <1>2, <1>3, <1>4, AppendIn
  <2> QED BY <2>1 DEF ReleaseComes
<1>5. CASE e \notin ReleasesOf(s)
  <2>1. e \notin EventsAbout(s) /\ s \notin held[v]
    BY <1>2, <1>3, <1>5 DEF EventsAbout, ReleasesOf, Happening
  <2>2. /\ EndsIn(window[v], EventsAbout(s), ReleasesOf(s))
             => EndsIn(window'[v], EventsAbout(s), ReleasesOf(s))
        /\ NoneIn(window[v], EventsAbout(s)) => NoneIn(window'[v], EventsAbout(s))
    BY <1>2, <1>3, <2>1, AppendIn
  <2>3. ReleaseComes(v, s)
    BY <1>2, <2>1
  <2> QED BY <1>2, <2>2, <2>3 DEF ReleaseComes
<1> QED BY <1>4, <1>5

\* Events that are forwarded follow the requests; those that could not be are those
\* of a viewer for whom nothing is down.
LEMMA ForwardRelease ==
  ASSUME ReleaseInv, NEW v \in Viewers, LoopForwards(v), NEW s \in Switch,
         s \notin held[v]
  PROVE  ReleaseComes(v, s)'
<1> USE DEF ReleaseInv
<1>1. /\ window[v] \in Seq(Happening) /\ requests[v] \in Seq(Input)
      /\ window'[v] = <<>> /\ UNCHANGED pressedBy
      /\ link[v] \in {"open", "eof"} /\ ReleaseComes(v, s)
  BY DEF LoopForwards, pointerVars, ITypeOK
<1>2. NoneIn(window'[v], EventsAbout(s))
  BY <1>1, NoneInEmpty
<1>3. CASE link[v] = "open"
  <2>1. requests'[v] =
          requests[v] \o [i \in 1 .. Len(window[v]) |-> RequestOf(window[v][i])]
    BY <1>3 DEF LoopForwards, ITypeOK
  <2>2. \/ EndsIn(requests'[v], RequestsAbout(s), ReleaseRequests(s))
        \/ NoneIn(requests'[v], RequestsAbout(s)) /\ v \notin pressedBy[s]
    BY <1>1, <2>1, ForwardIn DEF ReleaseComes
  <2> QED BY <1>1, <1>2, <2>2 DEF ReleaseComes
<1>4. CASE link[v] = "eof"
  <2>1. requests'[v] = <<>> /\ v \notin pressedBy[s]
    BY <1>4 DEF LoopForwards, DownHoldsNothing
  <2> QED BY <1>1, <1>2, <2>1, NoneInEmpty DEF ReleaseComes
<1> QED BY <1>1, <1>3, <1>4

LEMMA ViewerStepRelease ==
  ASSUME ReleaseInv, DeviceIsHeard', ITypeOK', NEW v \in Viewers,
         LoopConnects(v) \/ LoopForwards(v) \/ ViewerLeaves(v) \/ UserActs(v)
  PROVE  ReleaseInv'
<1> USE DEF ReleaseInv
<1>1. UNCHANGED <<deviceVars, pointerVars>>
  BY DEF LoopConnects, LoopForwards, ViewerLeaves, UserActs
<1>2. PressedIsHeard'
  BY <1>1 DEF PressedIsHeard, Accepts, deviceVars, pointerVars
<1>3. ASSUME NEW u \in Viewers, u # v
      PROVE  /\ window'[u] = window[u] /\ requests'[u] = requests[u]
             /\ held'[u] = held[u] /\ link'[u] = link[u]
  BY <1>3 DEF LoopConnects, LoopForwards, ViewerLeaves, UserActs, userVars, ITypeOK
<1>4. ASSUME NEW u \in Viewers, u # v, NEW s \in Switch,
             s \notin held'[u], link'[u] # "left"
      PROVE  ReleaseComes(u, s)'
  BY <1>1, <1>3, <1>4, ReleaseKept DEF pointerVars
<1>5. DownHoldsNothing'
  <2>1. /\ link'[v] # "open" => requests'[v] = <<>>
        /\ link'[v] \in {"none", "eof"} => link[v] \in {"none", "eof"}
    BY DEF LoopConnects, LoopForwards, ViewerLeaves, UserActs, DownHoldsNothing, ITypeOK
  <2> QED BY <1>1, <1>3, <2>1 DEF DownHoldsNothing, pointerVars
<1>6. ASSUME NEW s \in Switch, s \notin held'[v], link'[v] # "left"
      PROVE  ReleaseComes(v, s)'
  <2>1. CASE LoopConnects(v)
    BY <1>1, <1>6, <2>1, ReleaseKept DEF LoopConnects, pointerVars, userVars
  <2>2. CASE ViewerLeaves(v)
    BY <1>6, <2>2 DEF ViewerLeaves, ITypeOK
  <2>3. CASE LoopForwards(v)
    BY <1>6, <2>3, ForwardRelease DEF LoopForwards, userVars
  <2>4. CASE UserActs(v)
    BY <1>6, <2>4, UserRelease
  <2> QED BY <2>1, <2>2, <2>3, <2>4
<1> QED BY <1>2, <1>4, <1>5, <1>6

LEMMA ReleaseStep == ReleaseInv /\ [INext]_ivars => ReleaseInv'
<1> SUFFICES ASSUME ReleaseInv, [INext]_ivars PROVE ReleaseInv'
  OBVIOUS
<1>1. ITypeOK' /\ DeviceIsHeard'
  BY InputStepType, DeviceIsHeardStep DEF ReleaseInv
<1>2. CASE \E d \in Devices : EvdevPreInit(d) \/ EvdevOn(d) \/ EvdevOff(d) \/ EvdevUnInit(d)
  <2>1. UNCHANGED <<viewerVars, userVars>>
    BY <1>2 DEF EvdevPreInit, EvdevOn, EvdevOff, EvdevUnInit
  <2> QED BY <1>1, <1>2, <2>1, DeviceStepRelease
<1>3. CASE UNCHANGED ivars
  <2>1. UNCHANGED <<deviceVars, pointerVars, viewerVars, userVars>>
    BY <1>3 DEF ivars
  <2>2. PressedIsHeard' /\ DownHoldsNothing'
    BY <2>1
    DEF ReleaseInv, PressedIsHeard, DownHoldsNothing, Accepts, deviceVars, pointerVars,
        viewerVars
  <2>3. \A v \in Viewers, s \in Switch :
          s \notin held'[v] /\ link'[v] # "left" => ReleaseComes(v, s)'
    BY <2>1, ReleaseKept DEF ReleaseInv, pointerVars, viewerVars, userVars
  <2> QED BY <1>1, <2>2, <2>3 DEF ReleaseInv
<1> QED
  BY <1>1, <1>2, <1>3, RegenerateRelease, DispatchRelease, ViewerStepRelease
  DEF INext, XServer

\* As long as X has a switch down that its user released, the release is on its way:
\* none is lost with a connection, refused by a device that came back without its
\* class, or overtaken.
THEOREM ReleaseOnItsWay == ISpec => []ReleaseIsUnderWay
<1>1. IInit => ReleaseInv
  <2>1. IInit => ITypeOK /\ DeviceIsHeard
    BY InputInit DEF IInit, DeviceIsHeard, Plugged
  <2>2. IInit => PressedIsHeard /\ DownHoldsNothing
    BY DEF IInit, PressedIsHeard, DownHoldsNothing, NothingPressed
  <2>3. ASSUME IInit, NEW v \in Viewers, NEW s \in Switch PROVE ReleaseComes(v, s)
    BY <2>3 DEF IInit, ReleaseComes, NoneIn, NothingPressed
  <2> QED BY <2>1, <2>2, <2>3 DEF ReleaseInv
<1>2. ReleaseInv => ReleaseIsUnderWay
  <2> SUFFICES ASSUME ReleaseInv, NEW v \in Viewers, NEW s \in Switch,
                      v \in pressedBy[s], s \notin held[v], link[v] # "left"
               PROVE  \/ \E i \in 1 .. Len(window[v]) : window[v][i] \in ReleasesOf(s)
                      \/ \E i \in 1 .. Len(requests[v]) : requests[v][i] \in ReleaseRequests(s)
    BY DEF ReleaseIsUnderWay
  <2>1. ReleaseComes(v, s)
    BY DEF ReleaseInv
  <2> QED BY <2>1 DEF ReleaseComes, EndsIn
<1> QED BY <1>1, <1>2, ReleaseStep, PTL DEF ISpec

=============================================================================
