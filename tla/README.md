# liblorie in TLA+

liblorie shows the screen of an X server in other processes (*viewers*). The X server, or
another *embedder*, links the display server library, which keeps the screen in a shared memory
buffer and sends its descriptor over a private Wayland protocol; a viewer links the client
library, which maps the buffer and draws it with GL. This directory holds TLA+ models of those
programs, TLC configurations that check them on small instances, and TLAPS proofs.

1. [The system](#1-the-system): inventory of its parts
2. [The modules](#2-the-modules) and their relation to the code
3. [The runs](#3-the-runs): what is checked, the bounds, the fairness
4. [Where code and its documents disagree](#4-where-code-and-its-documents-disagree)
5. [The proofs](#5-the-proofs)
6. [Only model-checked, and not modelled](#6-only-model-checked-and-not-modelled)
7. [Plan](#7-plan)

To check a run: `tlc -config MCXorgInput.cfg MCXorgInput.tla`; a proof: `tlapm XorgInput_proofs.tla`.

## 1. The system

| Part | Source | State | Operations |
|---|---|---|---|
| Display server library | `src/server.c` | the `wl_display` with its client list, the output resource bound last, the current buffer, a `lorie_server_client` per client | `lorie_server_create`, `_process`, `_resize_image`, `_send_current_buffer`, `_send_damage`, `_destroy`; the handlers of bind, of the five requests, and of client creation and destruction |
| Shared buffers | `src/buffer.c` | descriptor, size, mapping | create, from_received, destroy |
| Xorg driver | `xf86-mixed-lorie/dummy_driver.c` | the screen's life cycle, the descriptors it watches, the damage region, the configured size, the CRTC's mode, the screen pixmap | ScreenInit, CreateScreenResources, Crtc_resize, BlockHandler, CloseScreen, `xorg_lorie_handle_event`, the five callbacks |
| Xorg input driver | `xf86-mixed-lorie/dummy_input.c` | the device, its classes and mask, `lorie_input_info` | EvdevPreInit, EvdevProc (INIT, ON, OFF, CLOSE), EvdevUnInit |
| Viewer client library | `src/client.c` | the `wl_display`, two proxies, the renderer | create, connect, sync, the senders, attach_window, disconnect, destroy |
| Renderer | `src/renderer/renderer.c`, `gl.c` | the buffer drawn from, the EGL surface and context, the GL program and texture | create, destroy, buffer_attach, damage_surface, attach_window; loadShader, createProgram |
| Protocol | `protocol/lorie.xml` | - | requests `get_current_buffer`, `resolution_change`, `pointer_event`, `key_event`; events `buffer_change_fd`, `damage` |
| Test programs | `test/*.c` | - | the loops of a viewer with an X11 window and of a server |
| Android viewer | `android/lorie_app.c` | a message queue and `pendingWin`, shared by two threads with the client | native methods on the UI thread, the task thread's loop |

How they interact. The embedder and the library are one single-threaded process: the embedder
calls the library, and `lorie_server_process` calls back. Viewers are other processes, joined to
it by sockets; requests and events are FIFOs, and the events a callback posts leave only with
the flush of the *next* `lorie_server_process`. A viewer is single-threaded, except on Android,
where a UI thread and a task thread share a client without a lock. The input driver is reached
from the display driver through one global pointer.

What is hard, and what makes each part correct:

* **The server** keeps one pointer, to the output resource bound last, and posts every event to
  it, whoever asked. Viewers connect, bind, ask and leave in any order with the embedder's
  resizes, which drop the old memory before they announce the new. Correct: the viewer that is
  posted to ends up with the current surface (`NewestBufferIsSurface`), memory is neither leaked
  nor lost by resizing
  (`MappingsAreBounded`), viewers that follow one another are heard (`ViewerIsHeard`) and once one
  has bound nothing kills the server (`BoundViewerIsSafe`).
* **The driver** must draw where the viewers look, through resizes by viewers and by X clients,
  resizes that fail, and server regeneration (`PixmapIsSurface`); show the size a viewer
  configured last unless X clients changed it, also in the next generation (`ConfiguredSizeIsShown`);
  watch exactly the sockets that are open (`NotifyIsExact`); and use the
  library legally (`UsesLibraryCorrectly`).
* **The viewer** receives a descriptor with every buffer. It must hold exactly the one it draws
  from (`HoldsOneBuffer`, `MappedIffOpen`) and account for every other (`ReceivesBuffers`), draw every buffer or a newer one
  (`EveryBufferIsDrawn`), notice a hang-up (`HangupSeenOnSend`), and survive while it is served
  (`ServedViewerLives`).
* **The renderer** computes sizes in ints, owns a descriptor number in a table it shares with the
  rest of its process, and makes EGL and GL objects in several steps of which each may fail.
  Correct: the pixels are in the mapping (`PixelsFit`), no number is closed that is another's
  (`SurfaceHasItsNumber`, `OthersKeepTheirs`), nothing is left behind by a creation that fails
  (`HoldsItsObjects`), and what is handed out can draw what it holds (`CanDraw`, `TextureFits`).
* **The two processes together** have to show the screen although events wait for the next flush,
  viewers and servers come and go, and buffers are dropped and remade on both sides: a viewer that
  has read everything has the buffer X draws into (`CaughtUp`), one that does not show it has a
  request or a buffer on its way at every moment (`UpdateIsUnderWay`), one that stays gets there,
  and none goes back to an older buffer (`SharesScreen`). While a viewer has bound and there is a
  screen, neither posting nor drawing kills the X server (`BoundSessionIsSafe`).
* **Android** adds the race of two threads over `pendingWin`. Correct: nothing is drawn on a
  window whose surface is gone (`DeadWindowIsDropped`) and a surface is shown
  (`WindowIsSurface`, `SurfaceIsShown`).
* **Input** crosses a window's queue, a socket, and a device that comes and goes behind a
  pointer nobody clears. Correct: the driver posts to the device that is there
  (`DeviceIsHeard`), the X pointer is where its user put it (`PointerFollowsViewer`), and what is
  released over a window is on its way (`ReleaseIsUnderWay`) and is released in X
  (`SwitchIsReleased`).

`PROJECT.json` lists the hazards behind these properties, each with its line.

## 2. The modules

```
LorieServer  <- extended by -  XorgDriver  <- extended by -  LorieSession  -- implements --> SharedScreen
                                                                  |
LorieViewer  <---------------- instantiated by -------------------+
  ^      \
  |       +--- implements -->  ReceivedBuffer  <-- implements ---  LorieRenderer
  +----------- extended by --  AndroidApp                          XorgInput
```

Each `X_proofs` module extends `X` and the proofs of what `X` extends; only
`LorieSession_proofs` needs nothing of `LorieViewer_proofs`.

Every module names its definitions after the functions they stand for; `PROJECT.json` ("map")
gives the lines. Definitions whose comment begins with "Faulty variant" are not part of a
specification: each is a plausible bug in a function, and the property named with it in
`PROJECT.json` ("mutants") must catch it.

**LorieServer** is the display server library with an *arbitrary* embedder: it may call any
function at any time it is in control, and in the `resolution_change` callback it may do nothing,
resize or resend. A connection is a member of `Conns` with its requests, its events, and how many
of those have been flushed. `lorie_server_process` is split the way libwayland runs it: one step
flushes and collects the ready descriptors (`ready`, `hungup`), then each callback is a step; the
embedder cannot run until both sets are empty. A buffer is named by its memory object, so that
two buffers at the same descriptor number or address are told apart; `mapped` is what the process
holds. The events posted through a resource pointer that dangles are undefined behaviour: the
process dies (`display = "crashed"`) or the event is lost.

**XorgDriver** is the real embedder. It extends LorieServer, and every step conjoins an action of
that module with what the driver does around it, so `UsesLibraryCorrectly == Spec` says that the
driver implements the abstract embedder: everything that holds of LorieServer holds of the X
server. RandR is external, reduced to what it does to the screen and to the mode of the CRTC, which are two
things: `RRSetScreenSize` reaches `DUMMYCrtc_resize` and leaves the mode alone, `RRSetCrtcConfig` sets
the mode and leaves the screen alone. A viewer's request does both, and they can end up apart:
`ModeOf` is `xf86CVTMode`'s rounding of the width to a multiple of 8, `ModeListed` what
`xf86ProbeOutputModes` keeps (sides up to 2048 in the code, `MaxMode` here), and for a mode that was
pruned `xf86SetSingleMode` takes another of the list, while the screen has been resized already; a
CRTC that is off (a mode without pixels) it passes over. `randrIsLast` is a history variable: an X
client changed screen or mode after the last viewer that did.

**LorieViewer** is the client library with its renderer, run by the loop of `test/test-client.c`.
`lorie_client_connect` blocks for a roundtrip and is two steps; other calls are one. `surface` is
`r->surface` and `freed` says that it points at freed memory: following it is undefined behaviour,
as is following a proxy of a display that is gone. Destroying a stale pointer again closes a
descriptor number that may be the socket's by now: then `shut` holds, FIONREAD fails, and the next
`lorie_client_sync` ends the process by the `exit(1)` of `bytesAvailable` (`SyncExits`). `short` says
that the file behind the buffer is smaller than its pixels, so that drawing is a bus error. EGL may
refuse a surface for a window that is attached, which leaves the client alive without one
(`AllocFails`). The server is the environment: what LorieServer
shows a bound viewer.

**AndroidApp** extends LorieViewer with the two threads. A step is what a thread does between two
points at which the other can see the queue, `pendingWin` or the client. Two history variables
tell why a surface may not be shown: `overrun`, it was created before its predecessor was taken over,
and `refused`, EGL made no surface for the window that was attached last.

**LorieSession** is the whole program: the X server of XorgDriver and one viewer of LorieViewer.
Neither has an invented environment: a step of the viewer is LorieViewer's action *conjoined* with
the action of LorieServer's socket that it performs (connecting, binding, reading, sending,
closing), and LorieViewer's `link` and `inbox` are what its socket shows of the server's state
(`Link`, `Inbox`). The viewer may disconnect and connect again, over another connection, to another
server generation. Files are as long as their pixels here (`ShortFiles` is FALSE): the X server that
drew into a shorter one would be dead before the viewer.

**SharedScreen** is what that program promises, without buffers, sockets or callbacks: a screen goes
from one numbered buffer to the next or away, a viewer goes from the buffer it shows to a newer one,
never back, and one that stays ends up with the screen. `LorieSession!SharesScreen` is that
specification under the mapping newest = the last memory object made, screen = the one the
pixmap points into (0 without a surface), shown = what the viewer drew last, watching = the viewer's
loop runs over a connection that a ready X server serves, and it has not lost the buffer it drew to
the stale pointer of `viewer_window`. It may be without one for long after that pointer is gone:
destroying a stale pointer a second time closes the descriptor number the next buffer came in at.

**LorieRenderer** is the same path in full detail and alone: `src/buffer.c` on both sides and the
renderer with `gl.c`. Sizes are ints and `size_t`s of the widths given by constants, with every
outcome an overflowing int product can have; descriptors are numbers, lowest first, which the rest of
the process (`others`) opens and closes too; EGL and GL objects are counted. Whether a context can be
current without a surface is a constant, as implementations differ. Using freed memory ends the
exploration (`process = "undefined"`): what such a process may do is LorieViewer's question.

**ReceivedBuffer** is what the two models of the renderer have in common: of the descriptors that come
with buffers one is held, those before it are closed, and two things lose one for ever (a buffer
without a size and a failed `calloc`; a failed `mmap` and a stale pointer only refuse the new one). `LorieViewer` counts buffers and `LorieRenderer` computes sizes and numbers; both
implement it (`ReceivesBuffers`), so that what LorieViewer assumes of descriptors is what the detailed
code does.

**XorgInput** models the path of input from a window's queue to the X server, with the devices
that are plugged and unplugged meanwhile. The connection is reduced to a FIFO, its details being in
LorieServer and LorieViewer. `mover` and `pressedBy` record which viewer an effect came from.

The `MC*` modules hold the constants of the instances, nothing else.

## 3. The runs

| Run | Instance | Shows |
|---|---|---|
| `server` | viewers one after the other, an embedder that does anything, every allocation may fail | `TypeOK`, `NewestBufferIsSurface`, `ViewerIsHeard`, `BoundViewerIsSafe` |
| `driver` | a viewer in one of 2 server generations, every allocation may fail, X clients that resize and set modes, sizes too narrow for a mode and too large for one | `XTypeOK`, `PixmapIsSurface`, `ConfiguredSizeIsShown`, `NewestBufferIsSurface`, `MappingsAreBounded`, `UsesLibraryCorrectly` |
| `session` | the X server and a viewer that connects twice, 2 server generations, a narrow window, fair loops | `NotifyIsExact`, `CaughtUp`, `UpdateIsUnderWay`, `SharesScreen`, `BoundSessionIsSafe` |
| `viewer` | 4 buffers, 3 connections, window changes, files that are too short, hang-ups, fair loop | `TypeOK`, `HoldsOneBuffer`, `EveryBufferIsDrawn`, `HangupSeenOnSend`, `ServedViewerLives` |
| `android` | 3 surfaces, 2 connections, failures (of EGL too), hang-ups, unusable buffers, both threads fair | `ATypeOK`, `DeadWindowIsDropped`, `WindowIsSurface`, `MappedIffOpen`, `ReceivesBuffers`, `SurfaceIsShown` |
| `input` | 2 viewers, 2 devices of which each may fail, 2 inputs, fair loops | `ITypeOK`, `DeviceIsHeard`, `PointerFollowsViewer`, `ReleaseIsUnderWay`, `SwitchIsReleased` |
| `renderer` | 6-bit ints, 3 descriptor numbers, 2 memory objects, every call may fail | `TypeOK`, `PixelsFit`, `SurfaceHasItsNumber`, `HoldsItsObjects`, `CanDraw`, `TextureFits`, `OthersKeepTheirs`, `ReceivesBuffers` |
| `server_crash`, `driver_damage`, `viewer_window`, `viewer_hangup`, `viewer_connect` | as small as shows it | each a disagreement, section 4 |

**Preconditions inside the properties.** `ViewerIsHeard` is a property of viewers that follow one
another (`MaxViewers = 1`): with two, the later bind cuts the earlier off by design of the single
pointer, and `NewestBufferIsSurface` speaks of the one posted to. The same holds for
`BoundViewerIsSafe`: before the bind, and after the loss of the viewer that bound last among several,
`server_crash` is what happens. `BoundSessionIsSafe` needs a screen as well: after a resize that failed
the pixmap is left on unmapped memory, and the next thing an X client draws may kill the X server.
`ConfiguredSizeIsShown` speaks of sizes whose mode is listed, until an X client resizes or sets a mode.
`ServedViewerLives` says of what a served viewer dies, by leaving it out: the stale pointer, which is
followed while the connection is fine; the socket that was closed through one, which makes FIONREAD
fail; and a file shorter than its pixels. Of a viewer without a server see `viewer_connect`. `NotifyIsExact` is exact
while `calloc` succeeds: a `lorie_server_client` that could not be allocated leaves its
descriptor watched. `HoldsOneBuffer` needs allocations that succeed and
buffers with a positive size (one that is unusable is received and never closed). `EveryBufferIsDrawn`
stops at a window that is taken away or exchanged: the renderer then has a stale pointer, see
`viewer_window`. `WindowIsSurface` and `SurfaceIsShown` are about a surface whose
predecessor had been taken over: `lorie_app.c` clears `pendingWin` after it used it, and a
surface stored in between is lost; and both leave out a window for which EGL made no surface.
`DeadWindowIsDropped` has no such condition. `SwitchIsReleased`
leaves out a viewer that ends with a button down: nothing in the code releases it. `PixelsFit` is for
sides of at most `MaxDim`, whose products fit an int (32767 of 2^31 - 1); the run has a side beyond it as well,
for the other properties. `CaughtUp` allows the viewer to have no buffer: it may have been sent an
unusable one, or have failed to map it. `SharesScreen` promises the end only while the viewer
watches; a viewer that lost its buffer to the stale pointer of `viewer_window` is not one.
`UpdateIsUnderWay` speaks of that viewer too, and of a usable surface (one of width 0 is not made);
a viewer that could not map what it was sent is left out.
`ReleaseIsUnderWay` and `SwitchIsReleased` leave out a viewer that ended.

**Bounds.** Each is a constant of the module, named in a guard. Connections: two, since every
interaction in the server is between the connection that is posted to and another one; a
connection that ended cannot be told from one never made, except by dangling pointers and
descriptors, which two show. The driver has one connection, which may come in either generation, and two
requests on it: what several do to each other is the library's (`server`, `session`), while the driver
only sees a request's size. Its sizes are the start, a larger one with a mode (16 wide), one whose mode is
pruned (24, `MaxMode` being 16) and one of width 0 without a mode; with two requests and X clients that
change screen and mode until two buffers were made, a configured size is replaced, refused, asked for
again and carried into the next generation. The session's sizes are one with pixels and one without, so that the screen goes
away and comes back. Requests per connection in `server`: one, enough because a request is served
independently of earlier ones except through the buffer and the size, which the embedder and the
other viewer change as well. Resizes: bounded for the embedder and for X clients only, while those
that viewers ask for are bounded by their requests. Servers: two in the X server, to see what one leaves to
the next. Viewer: four buffers (old, current, next, and one after a reconnection) and an inbox of three,
so that buffers and damage queue behind each other. Android: three surfaces, as the loss of a
window takes two and its aftermath a third. Input: two inputs in all are press and release by one
user, or one by each of two users, which is all that the properties relate; a viewer's first click
moves the pointer as well. Session: each connection may carry two requests (the resolution sent on connecting, and one
more that the host makes), X clients resize until two buffers were made, and one damage event
may wait, which is what it takes for a connection with events of an old buffer to be overtaken by a
new one; a viewer that
loses a buffer to a stale pointer and asks again takes three, for which the same run with three requests, one
connection and one server passes as well. Renderer: three numbers are the old descriptor, the new one and one of the rest of the
process; sides are 0, 1, the largest that fits and one whose square leaves the ints; two memory
objects, with the answers without a buffer between them, exchange the buffer, and the renderer may
be made, fail and be made again without end. The proofs of section 5 hold without these limits: they are for any
value of the constants.

**Symmetry** over connections is declared in safety runs only.

**Fairness.** `LorieServer`, `XSpec` and `LorieRenderer` have none. `SFairSpec`: the X server's main loop
calls the handler of a descriptor that is ready (libwayland sockets are watched for writing too, and
so wake it again for the flush), a dispatch once begun runs its callbacks, the viewer's loop calls
`lorie_client_sync`, the kernel delivers a request that was flushed, and `wl_display_roundtrip`
returns once it is answered. `FairSpec`: the loop of `test-client.c` never stops calling `lorie_client_sync`.
`AFairSpec`: Android schedules both threads, the task thread's loop has no other wait than the
roundtrip, which is answered or ends with the connection, and a native method once begun returns.
`IFairSpec`: the viewers' loops run and the X server dispatches. All are weak; nothing is
assumed of users, of X clients, of Java, or of a server towards an idle viewer. Steps in which an
event is lost and steps in which a process dies are never required, but for `SyncExits`, which is what
`lorie_client_sync` does when the socket's descriptor is closed.

**Deadlock** is not checked: in every model all actors may have done what their bounds allow,
and a process that died does nothing.

## 4. Where code and its documents disagree

* `server_crash` - `lorie_server_send_damage`, `_resize_image` and `_send_current_buffer` ask
  whether the client list is empty and then post through `lorie_output_implementation`, which is
  NULL from a client's acceptance to its bind and dangles after the client posted to has left
  another behind. The loop of `test/test-server.c` dies when a viewer connects at that moment.
* `driver_damage` - `DUMMYBlockHandler` empties the damage region before it reads its extents, so
  the `damage` event, the rectangle that changed according to `protocol/lorie.xml`, is always
  empty. (Both viewers redraw everything, so nothing is seen of it.)
* `viewer_window` - "Buffer is already mapped" says `renderer.c:163` of a non-NULL `r->surface`;
  `lorie_buffer_fd_destroy` frees it and leaves the pointer, so after `lorie_renderer_attach_window`
  it is neither.
* `viewer_hangup` - `test-client.c` reconnects when `lorie_client_sync` returns -1. For an idle
  viewer it never does: at end of file FIONREAD reports 0 bytes, so nothing is dispatched, and
  there is nothing to flush. `HangupSeenOnSend` is what does hold.
* `viewer_connect` - `lorie_client_connect` returns -1 when the globals were not announced, after
  it has followed the NULL `c->output`.

## 5. The proofs

Assumptions are those named in the modules (`ConstantsAssumption`, `DriverAssumption`,
`ViewerAssumption`, `AppAssumption`, `InputAssumption`, `IntegerAssumption`): the null pointer and the listening socket
are not connections, the bounds are numbers, the modes of sizes are sizes, and that of the start size is listed. No theorem assumes a finite
instance; `OneBuffer`, `HeardViewer` and `SafeWhileBound` name the constants they fix.

*LorieServer_proofs.* `TypeCorrect` is inductive as it stands, because `TypeOK` holds the places a
connection can be in: without `ready \subseteq clientList \cup {Listen}` and its like, a dispatch
could serve a connection that is gone. `NewestBuffer` needs two facts more, which are parts of
`BufferInv`: that an unbound connection has received nothing (`UnboundIsSilent`; a bind makes it
the one posted to, and only then is "no buffer yet" the alternative it must satisfy) and that there
is no surface without a server. The argument is on event sequences: a buffer event that is appended
is the last one (`BufferAppended`), damage hides nothing (`DamageAppended`), and reading the head
moves the last buffer event into `delivered` or leaves it last (`HeadRead`); so every post of the
current surface establishes `EndsUpWith`, and everything else keeps it. A resize is the delicate
case: the old surface stays in the events before the new one.

`BoundedMappings` rests on `MemoryInv`: what is mapped beside the surface (`Abandoned`) is a finite
set with at most one member per destroyed server; `MappingsAreBounded` alone is not inductive, as
it does not say that a running server has abandoned nothing yet. `HeardViewer` is for
`MaxViewers = 1`. The danger is a bind in the running dispatch whose viewer has closed its socket
meanwhile: it would take the pointer from a successor. `ReadyIsLatest` says why it cannot: while
such a descriptor is ready no other viewer is bound, since one that connects now is not served
before the next `lorie_server_process`. `SafeWhileBound` adds to that `CrashInv`, that no viewer is
bound and connected to a process that died: one that is makes the pointer safe to post through, by
`HeardViewer`, and a server that died accepts no bind.

*XorgDriver_proofs.* `DriverUsesLibrary` is step simulation with the identity mapping: one step per
action of the driver, the resolution callback being the case in which the abstract embedder's
choice (resize or resend) is exhibited and the damage box shown to be one of `Boxes`.
`DriverNewestBuffer` and `DriverMappings` follow from it and from `NewestBuffer` and
`BoundedMappings`, temporally. `PixmapFollowsSurface` has for inductive invariant the property with
`NoServerNoSurface`: `DUMMYScreenInit` resets the pixmap, which is right because there is no surface
at that time. `WatchedExactly` needs that there are no
clients without a server (`lorie_server_destroy` disconnects them before `CloseScreen` stops
watching) and, for the exact half, that every client has its `lorie_server_client` while no
allocation fails: its destroy listener is what removes the descriptor. `ConfiguredShown` has
`ConfiguredInv`: while no X client interfered and the configured size has a listed mode, a surface has the size of
that mode, and the CRTC has that mode or is off. The second half is what a server generation hands to
the next, whose screen is sized to the CRTC's mode and not to the configured size.

*LorieSession_proofs.* `SessionIsDriver`: forgetting the viewer's own state, every step of the session
is a step of XorgDriver with its arbitrary viewers, so that all of the above holds of the session. For `ViewerCaughtUp`
and `SessionSharesScreen` the invariant is about order (`SessionInv`): memory objects are numbered as
they are made, the events on a connection carry them in order (`Ordered`), none of those under way
is older than what the viewer holds or has drawn (`NotBefore`), and what it holds is the last
buffer delivered over its connection, or nothing. A connection is new when the viewer begins it,
which empties the claim; that what was drawn over the *earlier* one is not newer than what the next one brings follows
from the numbers, since every post carries the newest. `ServedInv` adds that the server's
pointer, while the viewer's end is open, is that of a client it still has. The step theorem then reads off `ScreenMoves` for the X
server's steps, and that viewer steps only move `drawn` forward.

`SessionHeardViewer` has no assumption on `MaxViewers`, other than `HeardViewer`: that the viewers of
the session follow one another is not assumed but shown (`OnlyOpen`: the viewer's socket is the only
one whose other end is open). In `SessionSafeWhileBound` that nothing
is posted through a dead pointer follows from it as in the server; that drawing is safe follows from
`PixmapIsSurface` and `MappingsAreBounded`: X dies only of drawing on memory that is not mapped
(`DeathIsUnmapped`), and the pixmap points into the surface, which is.

`SessionUpdates` is the safety half of catching up: if a viewer that watches does not show the
screen, somebody still has something to do about it. It needs three invariants beside those above.
`AskedInv` follows the first request of a connection, which asks for a buffer by naming a size: it
is in the viewer's hands or in the socket as long as the viewer has not bound, and as long as it was
given no buffer although there is one. `ShownInv` closes the gap on the other side: what the viewer
holds it has drawn, and it holds the usable buffer that was delivered last, unless it could not map
it; `SizedInv`, that a buffer which is wide is high as well, says which are usable. The critical steps are
the server's: those that make a surface (`ResizeAnnounces`) and those that serve a request
(`ResendAnnounces`, `DispatchAnswers`) post the current surface to the viewer that is bound
(`ServerAnswers`), so that no request is taken off the queue without a buffer taking its place.

*LorieRenderer_proofs.* `PixelsAlwaysFit` is integer arithmetic for any word width: a product below the limits is
neither wrapped nor reduced. `NumberIsHeld` needs that a number belongs to one file
(`DescriptorTypeOK`): the new descriptor is at a number that was free while the old one was still open.
`OthersKeep` rests on `Usable`, which keeps the path that would close number 0 from being taken.
`TextureAlwaysFits` is the case analysis of a context with and without a surface: a buffer that
arrives without a window leaves the texture as it was, and the window that comes drops the buffer.
`RendererReceives` is step simulation onto ReceivedBuffer: a number that arrives was free, hence is
neither held nor lost (`Received!Fresh`), and what a step closes is the number held and at most the
one just received (`ClosedNumbers`).

*LorieViewer_proofs.* `DescriptorFollowsBuffer` needs `InboxIsNewer`: the buffers in the inbox are
newer than each other and than the one held, so the descriptor just received is never that of the
buffer being closed. `OneBuffer` is conditional (`~ AllocFails`, `~ ZeroBuffers`) and needs that
the inbox holds usable buffers only; of a stale pointer destroyed a second time it shows that the
renderer ends up with the new buffer or with none, and with no descriptor that it does not know.
`ViewerReceives`, the same simulation for this model, needs that the buffers in the inbox are newer than
every open descriptor, lost ones included (`InboxIsFresh`).
`ServedLives` rests on what a connection that is open says about the proxies: they are those of the
current display once the roundtrip has returned with the server there, and `connecting` keeps the
viewer from using them before that. Its exceptions are the three things that a renderer can be given to
die of (section 3); that there is no fourth is what the proof adds.

*AndroidApp_proofs.* A step of the two threads is a step of the viewer, but for a send on a
connection that was checked too early and a client created without a window (`StepOfClient`); so
`AppDescriptors` and `AppReceives` carry `DescriptorFollowsBuffer` and `ViewerReceives` over, and `AppTypeCorrect` adds
the queue and what the application records of its client. `DeadWindow` follows the last message
that matters: a window in `pendingWin` is the current one or is going to be revoked
(`StoredIsCurrent`, `StaleIsRevoked`), and when a window is shown although its surface is gone a
`MSG_SURFACE_DESTROYED` is on its way (`DeadIsDoomed`). It is the order of the messages that keeps
these, not `pendingWin` itself. `WindowFollowsSurface` follows a surface that was created in time
through four places: stored in `pendingWin` (`Stored`), announced by the last message of the queue and the
only one of its kind (`Announced`), in the hands of the task thread (`BeingTaken`), attached (`Taken`) or refused by EGL (`refused`).

*XorgInput_proofs.* `InputTypeCorrect` contains that no mask outlives its device. `DeviceHeard`: a
device can only be made when none is plugged, and making it sets the pointer; an activation that
fails leaves none plugged, whatever it did to the pointer. `PointerFollows` strengthens the property
to inputs under way (`IsOnItsWay`): the last motion or click in a viewer's requests or window is
where its user is, or there is none and X is there already if that viewer moved the pointer last.
`ReleaseOnItsWay` says more of what is under way (`ReleaseComes`): whatever of a switch that is up
comes last, in the requests or in the window, is its release, or there is nothing and X has it up. It
needs that no release is refused or lost: what is down in X was posted to a device that is still on
with the class it had (`PressedIsHeard`), and goes up with a connection that went down
(`DownHoldsNothing`).

## 6. Only model-checked, and not modelled

TLC only: every liveness property (liveness under fairness is outside TLAPS as it stands), and with
it `CatchesUp`, the last conjunct of `SharesScreen`, whose safety part is proved
(`SharesScreenSafely`). Every other invariant, action property and implementation that a passing run
checks is proved.

Not modelled: the cursor (`dummy_cursor.c`), whose attributes nothing reads; Probe, PreInit, visuals,
palettes and the scaled modes that the driver offers to X clients, that RandR has a mode fit into the screen; keyboard rules, axis labels, button maps and ranges of the
input device; JNI registration; creating X11 windows; the text of GL errors and the shaders' code.
They hold no state that a property of the above depends on. Of freed memory only "the
process survives" or "dies" is modelled, not what is overwritten. A viewer binds the output once per connection, as
`client.c` does. libwayland, RandR, Xlib and the X server's input core are external, modelled
by what this code relies on. `ANativeWindow_fromSurface`'s reference is never released, and `lorie_client_destroy`
does not destroy the renderer: leaks by construction, of which nothing else in the program depends. A touch that arrives while the task thread is
inside `lorie_client_connect` uses proxies that are NULL or stale: `AndroidApp` has the crash, and
its properties speak of runs that survive it.

## 7. Plan

Done: the core, `LorieServer` with its embedder `XorgDriver`, then `LorieViewer` and its Android
host, then the input path, the renderer in detail, and the composition of server and viewer with the
abstract specification it implements; and the proofs of their safety properties.

What could follow:

1. Request and answer on Android: a window attached after the connection is drawn once
   `nativeSurfaceChanged` has asked for a resolution.
2. `lorie_server_create`'s failure paths in detail: the display and the socket that they leave behind
   (`server.c:278`) count against the process, but are a leak by construction at present.
3. Two viewers of LorieViewer in `LorieSession`, of whom the later takes the pointer from the earlier.
