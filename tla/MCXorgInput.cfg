\* Two viewers, two devices one after the other, of which each may fail.
SPECIFICATION IFairSpec
CONSTANTS
  Viewers = {v1, v2}
  Devices = {d1, d2}
  Buttons = {b1}
  Keys = {k1}
  Places = {p0, p1}
  Origin = p0
  NULL = NULL
  Failing = {"device", "valuator"}
  MaxInputs = 2
CHECK_DEADLOCK FALSE
INVARIANT ITypeOK
INVARIANT DeviceIsHeard
INVARIANT PointerFollowsViewer
INVARIANT ReleaseIsUnderWay
PROPERTY SwitchIsReleased
