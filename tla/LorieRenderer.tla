--------------------------- MODULE LorieRenderer ---------------------------
(***************************************************************************)
(* The pixels on their way from the server to a viewer's window, in full   *)
(* detail: src/buffer.c on both sides, and the renderer of the viewer,     *)
(* src/renderer/renderer.c with src/renderer/gl.c.                         *)
(*                                                                         *)
(* LorieServer and LorieViewer name a buffer by its memory object.  Here   *)
(* the sizes are C integers, descriptors are numbers of the viewer's       *)
(* descriptor table, which it shares with the rest of its process, and     *)
(* EGL and GL objects are counted.  The functions of the renderer run one  *)
(* after the other; when the server resizes and when the viewer reads is   *)
(* open.                                                                   *)
(***************************************************************************)
EXTENDS Integers, Sequences, FiniteSets

CONSTANTS
  IntMax,        \* INT32_MAX
  SizeMax,       \* SIZE_MAX
  MaxDim,        \* the widths and heights the pixels are to fit for
  MaxTexture,    \* GL_MAX_TEXTURE_SIZE
  Dims,          \* the widths and heights that are asked for
  Numbers,       \* descriptor numbers of the viewer's process
  Surfaceless,   \* can a context be current without a surface?
  Fails,         \* may calloc, memfd, ftruncate, mmap, EGL and GL fail?
  \* Bounds of the exploration.
  MaxFiles,      \* memory objects created in all
  MaxWire        \* events that were not read yet

ASSUME IntegerAssumption ==
  /\ {IntMax, SizeMax, MaxDim, MaxTexture, MaxFiles, MaxWire} \subseteq Nat
  /\ MaxDim * MaxDim <= IntMax
  /\ 4 * (MaxDim * MaxDim) <= SizeMax
  /\ Dims \subseteq Int
  /\ Numbers \subseteq Nat
  /\ {Surfaceless, Fails} \subseteq BOOLEAN

VARIABLES
  process,       \* the viewer: "running", "crashed", or "undefined" after it
                 \* used memory that it had freed
  \* the server
  screen,        \* its lorie_buffer
  files,         \* the length of each memory object, in order of creation
  wire,          \* buffer_change_fd events on their way, each with a descriptor
  \* the viewer's descriptors
  others,        \* numbers opened by the rest of the process
  received,      \* [fd, mem]: numbers that came with events and are open
  \* struct lorie_renderer
  phase,         \* "none", "failing" at the label of that name, or "alive"
  surface,       \* r->surface
  freed,         \* does it point at freed memory?
  sfc,           \* r->sfc # EGL_NO_SURFACE
  ctx,           \* r->ctx # EGL_NO_CONTEXT
  program,       \* "none", or "linked" or "unlinked" GL program
  texture,       \* the size of r->rootTex, or NoSize
  \* what EGL and GL hold for this process
  eglSurfaces, eglContexts, shaders,
  shown          \* the memory object drawn last, or 0

bufferVars == <<screen, files, wire>>
fdVars == <<others, received>>
surfaceVars == <<surface, freed>>
eglVars == <<phase, sfc, ctx, program, eglSurfaces, eglContexts, shaders>>
vars == <<process, bufferVars, fdVars, surfaceVars, eglVars, texture, shown>>

-----------------------------------------------------------------------------
(* Sizes: size_t size = width * height * sizeof(uint32_t) *)

\* What a build makes of an int product: the product when it is an int.
\* Otherwise the behaviour is undefined; it wraps around, or is kept in a wider
\* register.
Wrapped(x) ==
  LET m == x % (2 * (IntMax + 1)) IN IF m <= IntMax THEN m ELSE m - 2 * (IntMax + 1)

IntProducts(width, height) ==
  IF width * height <= IntMax /\ -(IntMax + 1) <= width * height
    THEN {width * height}
    ELSE {width * height, Wrapped(width * height)}

\* Faulty variant: the pixels are counted, not their bytes.
PixelCounts(width, height) ==
  {p % (SizeMax + 1) : p \in IntProducts(width, height)}

\* The conversion to size_t and the second product are modulo SizeMax + 1.
ByteSizes(width, height) ==
  {(4 * p) % (SizeMax + 1) : p \in IntProducts(width, height)}

NoSize == [width |-> 0, height |-> 0]

-----------------------------------------------------------------------------
(* struct lorie_buffer *)

\* fd is a number of the viewer's table; the server's own numbers play no part.
NULL == [mem |-> 0, fd |-> -1, width |-> 0, height |-> 0, size |-> 0]

Buffer == [mem : Nat \ {0}, fd : Numbers \cup {-1}, width : Int, height : Int,
           size : Nat]

\* lorie_buffer_fd_create, all of whose failures release what was acquired.
\* ftruncate refuses some lengths and may fail; its result is ignored, and the
\* file stays empty.  mmap takes any length but 0, and
\* may fail.
CreatedBuffers(width, height) ==
  {[mem |-> Len(files) + 1, fd |-> -1, width |-> width, height |-> height,
    size |-> size] : size \in ByteSizes(width, height) \ {0}}
  \cup {b \in {NULL} : Fails \/ 0 \in ByteSizes(width, height)}

\* lorie_server_resize_image with a viewer connected.
lorie_server_resize_image(width, height) ==
  /\ Len(files) < MaxFiles
  /\ Len(wire) < MaxWire
  /\ \E b \in CreatedBuffers(width, height) :
       /\ screen' = b
       /\ IF b = NULL THEN UNCHANGED <<files, wire>>
          ELSE /\ \E length \in {b.size} \cup {n \in {0} : Fails} :
                    files' = Append(files, length)
               /\ wire' = Append(wire, [mem |-> b.mem, width |-> width,
                                        height |-> height])
  /\ UNCHANGED <<process, fdVars, surfaceVars, eglVars, texture, shown>>

\* lorie_get_current_buffer_handler: without a buffer it sends descriptor 0 of
\* the server, here memory object 0, with no width and height.
lorie_get_current_buffer_handler ==
  /\ Len(wire) < MaxWire
  /\ wire' = Append(wire, [mem |-> screen.mem, width |-> screen.width,
                           height |-> screen.height])
  /\ UNCHANGED <<process, screen, files, fdVars, surfaceVars, eglVars, texture,
                 shown>>

-----------------------------------------------------------------------------
(* The rest of the viewer's process *)

Running == process = "running"

FreeNumbers == Numbers \ (others \cup {r.fd : r \in received})

\* open, socket, dup, ...: the lowest free number.
OthersOpen(n) ==
  /\ Running
  /\ n \in FreeNumbers
  /\ \A m \in FreeNumbers : n <= m
  /\ others' = others \cup {n}
  /\ UNCHANGED <<process, bufferVars, received, surfaceVars, eglVars, texture,
                 shown>>

OthersClose(n) ==
  /\ Running
  /\ n \in others
  /\ others' = others \ {n}
  /\ UNCHANGED <<process, bufferVars, received, surfaceVars, eglVars, texture,
                 shown>>

-----------------------------------------------------------------------------
(* src/renderer/gl.c *)

\* loadShader: 0 without a context or a shader.  A shader that does not compile
\* is deleted only when the driver has something to say about it.
loadShader(current) ==
  {s \in {"compiled"} : current}
  \cup {s \in {"none"} : Fails \/ ~ current}
  \cup {s \in {"uncompiled"} : Fails /\ current}

\* createProgram: the shaders stay attached, and the vertex shader stays when
\* there is no pixel shader.  "unlinked" stands for 0.
createProgram(current) ==
  UNION {
    IF vertex = "none" THEN {[program |-> "unlinked", shaders |-> 0]}
    ELSE IF pixel = "none" THEN {[program |-> "unlinked", shaders |-> 1]}
    ELSE {[program |-> p, shaders |-> 2] :
            p \in {q \in {"linked"} : vertex = "compiled" /\ pixel = "compiled"}
                  \cup {q \in {"unlinked"} :
                          Fails \/ vertex # "compiled" \/ pixel # "compiled"}}
    : vertex \in loadShader(current), pixel \in loadShader(current)}

-----------------------------------------------------------------------------
(* src/renderer/renderer.c *)

\* eglMakeCurrent(dpy, s, s, c): a surface needs a context, a context needs a
\* surface or the extension, and having neither is allowed.
MakesCurrent(s, c) == IF c THEN s \/ Surfaceless ELSE ~ s

\* Faulty variant: the program is not looked at.
NeverFails(r) == "alive"

\* Creation goes on with a program only.
PhaseAfter(r) == IF r.program = "linked" THEN "alive" ELSE "failing"

\* lorie_renderer_create with a window: calloc, the EGL surface and context,
\* eglMakeCurrent, then the texture and the program.  At the label fail it calls
\* lorie_renderer_destroy, and follows r before it compares it with NULL.
lorie_renderer_create ==
  /\ Running
  /\ phase = "none"
  /\ \E s, c \in {TRUE} \cup {b \in {FALSE} : Fails} :
       /\ sfc' = s
       /\ ctx' = c
       /\ eglSurfaces' = eglSurfaces + (IF s THEN 1 ELSE 0)
       /\ eglContexts' = eglContexts + (IF c THEN 1 ELSE 0)
       /\ IF MakesCurrent(s, c)
            THEN \E r \in createProgram(c) :
                   /\ program' = r.program
                   /\ shaders' = shaders + r.shaders
                   /\ phase' = PhaseAfter(r)
            ELSE phase' = "failing" /\ UNCHANGED <<program, shaders>>
  /\ surface' = NULL
  /\ freed' = FALSE
  /\ texture' = NoSize
  /\ UNCHANGED <<process, bufferVars, fdVars, shown>>

RendererCallocFails ==
  /\ Running
  /\ Fails
  /\ phase = "none"
  /\ process' = "crashed"
  /\ UNCHANGED <<bufferVars, fdVars, surfaceVars, eglVars, texture, shown>>

\* Faulty variant: a surface that was never made is destroyed.
DestroyUnchecked ==
  /\ Running
  /\ phase = "failing"
  /\ phase' = "none"
  /\ sfc' = FALSE /\ eglSurfaces' = eglSurfaces - 1
  /\ ctx' = FALSE /\ eglContexts' = eglContexts - (IF ctx THEN 1 ELSE 0)
  /\ program' = "none"
  /\ shaders' = IF ctx THEN 0 ELSE shaders
  /\ UNCHANGED <<process, bufferVars, fdVars, surfaceVars, texture, shown>>

\* Faulty variant: the context is left behind.
DestroyKeepsContext ==
  /\ Running
  /\ phase = "failing"
  /\ phase' = "none"
  /\ sfc' = FALSE /\ eglSurfaces' = eglSurfaces - (IF sfc THEN 1 ELSE 0)
  /\ ctx' = FALSE
  /\ program' = "none"
  /\ UNCHANGED <<process, bufferVars, fdVars, surfaceVars, texture, shown,
                 eglContexts, shaders>>

\* lorie_renderer_destroy, which only lorie_renderer_create calls, before there
\* is a buffer.  Texture, program and shaders go with their context.
lorie_renderer_destroy ==
  /\ Running
  /\ phase = "failing"
  /\ phase' = "none"
  /\ sfc' = FALSE /\ eglSurfaces' = eglSurfaces - (IF sfc THEN 1 ELSE 0)
  /\ ctx' = FALSE /\ eglContexts' = eglContexts - (IF ctx THEN 1 ELSE 0)
  /\ program' = "none"
  /\ shaders' = IF ctx THEN 0 ELSE shaders
  /\ UNCHANGED <<process, bufferVars, fdVars, surfaceVars, texture, shown>>

\* close(n), which takes the number from whoever has it.
Close(n) ==
  /\ received' = {r \in received : r.fd # n}
  /\ others' = others \ {n}

\* lorie_buffer_fd_destroy(&r->surface) leaves the pointer as it is: the second
\* time around everything may happen.
DestroysStale == surface # NULL /\ freed

UsesFreedMemory ==
  /\ process' = "undefined"
  /\ UNCHANGED <<bufferVars, fdVars, surfaceVars, eglVars, texture, shown>>

\* Faulty variant: lorie_buffer_fd_destroy only unmaps.
DropLeavesOpen ==
  /\ freed' = (surface # NULL)
  /\ UNCHANGED <<fdVars, surface>>

\* The first half of lorie_renderer_attach_window, with the early return of
\* lorie_renderer_buffer_attach(r, 0, 0, 0).
DropBuffer ==
  /\ IF surface = NULL THEN UNCHANGED fdVars ELSE Close(surface.fd)
  /\ freed' = (surface # NULL)
  /\ UNCHANGED surface

lorie_renderer_attach_window(present) ==
  /\ Running
  /\ phase = "alive"
  /\ IF DestroysStale THEN UsesFreedMemory
     ELSE /\ DropBuffer
          /\ \E s \in {present} \cup {b \in {FALSE} : Fails} :
               /\ sfc' = s
               /\ eglSurfaces' = eglSurfaces - (IF sfc THEN 1 ELSE 0)
                                             + (IF s THEN 1 ELSE 0)
          /\ UNCHANGED <<process, bufferVars, phase, ctx, program, eglContexts,
                         shaders, texture, shown>>

\* Faulty variant: only the received descriptor is looked at.
UsableAnySize(event) == TRUE

\* The early return of lorie_renderer_buffer_attach.
Usable(event) == event.width > 0 /\ event.height > 0

\* lorie_buffer_fd_from_received: what is returned, and the number it closes.  A
\* failing calloc closes none.  With an unusable size the number closed is the
\* fd of a struct that was only cleared.
lorie_buffer_fd_from_received(n, event) ==
  IF event.width <= 0 \/ event.height <= 0
    THEN {[surface |-> NULL, closes |-> {0}]}
    ELSE {[surface |-> [mem |-> event.mem, fd |-> n, width |-> event.width,
                        height |-> event.height, size |-> size],
           closes |-> {}] :
            size \in ByteSizes(event.width, event.height) \ {0}}
         \cup {r \in {[surface |-> NULL, closes |-> {n}]} :
                 Fails \/ 0 \in ByteSizes(event.width, event.height)}
         \cup {r \in {[surface |-> NULL, closes |-> {}]} : Fails}

\* Faulty variant: the texture keeps its first size.
SizeTextureOnce ==
  texture' = IF surface' # NULL /\ texture = NoSize
               THEN [width |-> surface'.width, height |-> surface'.height]
               ELSE texture

\* glTexImage2D with the new buffer's size, if a context could be made current
\* and the size is one that GL takes.
SizeTexture ==
  texture' =
    IF surface' # NULL /\ MakesCurrent(sfc, ctx)
         /\ surface'.width <= MaxTexture /\ surface'.height <= MaxTexture
      THEN [width |-> surface'.width, height |-> surface'.height]
      ELSE texture

\* lorie_buffer_change_fd_handler: the descriptor arrives at the lowest free
\* number, and lorie_renderer_buffer_attach destroys the old buffer before it
\* looks at the new one.
lorie_renderer_buffer_attach ==
  /\ Running
  /\ phase = "alive"
  /\ wire # <<>>
  /\ \E n \in FreeNumbers :
       LET event == Head(wire)
           got == received \cup {[fd |-> n, mem |-> event.mem]}
           old == IF surface = NULL THEN {} ELSE {surface.fd}
       IN
       /\ \A m \in FreeNumbers : n <= m
       /\ IF DestroysStale THEN UsesFreedMemory
          ELSE /\ wire' = Tail(wire)
               /\ IF Usable(event)
                    THEN \E r \in lorie_buffer_fd_from_received(n, event) :
                           /\ surface' = r.surface
                           /\ freed' = FALSE
                           /\ received' = {x \in got : x.fd \notin old \cup r.closes}
                           /\ others' = others \ (old \cup r.closes)
                           /\ SizeTexture
                    ELSE /\ freed' = (surface # NULL)
                         /\ received' = {x \in got : x.fd \notin old}
                         /\ others' = others \ old
                         /\ UNCHANGED <<surface, texture>>
               /\ UNCHANGED <<process, screen, files, eglVars, shown>>

\* Are all pixels of the buffer in its mapping and its file?
Covered(b) ==
  /\ 4 * (b.width * b.height) <= b.size
  /\ 4 * (b.width * b.height) <= files[b.mem]

\* lorie_renderer_damage_surface: glTexSubImage2D reads the whole buffer, and is
\* refused when the texture has another size.
lorie_renderer_damage_surface ==
  /\ Running
  /\ phase = "alive"
  /\ sfc
  /\ surface # NULL
  /\ IF freed THEN UsesFreedMemory
     ELSE /\ \/ UNCHANGED process
             \/ ~ Covered(surface) /\ process' = "crashed"
          /\ shown' = IF texture = [width |-> surface.width,
                                    height |-> surface.height]
                        THEN surface.mem ELSE shown
          /\ UNCHANGED <<bufferVars, fdVars, surfaceVars, eglVars, texture>>

-----------------------------------------------------------------------------

Init ==
  /\ process = "running"
  /\ screen = NULL
  /\ files = <<>>
  /\ wire = <<>>
  /\ others \in SUBSET Numbers
  /\ received = {}
  /\ phase = "none"
  /\ surface = NULL
  /\ freed = FALSE
  /\ sfc = FALSE
  /\ ctx = FALSE
  /\ program = "none"
  /\ texture = NoSize
  /\ eglSurfaces = 0
  /\ eglContexts = 0
  /\ shaders = 0
  /\ shown = 0

Next ==
  \/ \E width, height \in Dims : lorie_server_resize_image(width, height)
  \/ lorie_get_current_buffer_handler
  \/ \E n \in Numbers : OthersOpen(n) \/ OthersClose(n)
  \/ lorie_renderer_create
  \/ RendererCallocFails
  \/ lorie_renderer_destroy
  \/ \E present \in BOOLEAN : lorie_renderer_attach_window(present)
  \/ lorie_renderer_buffer_attach
  \/ lorie_renderer_damage_surface

Spec == Init /\ [][Next]_vars

-----------------------------------------------------------------------------
(* Properties *)

\* Types.  A descriptor number belongs to one file.
BufferTypeOK ==
  /\ screen \in Buffer \cup {NULL}
  /\ files \in Seq(Nat)
  /\ wire \in Seq([mem : 0 .. Len(files), width : Int, height : Int])

DescriptorTypeOK ==
  /\ others \subseteq Numbers
  /\ received \subseteq [fd : Numbers \ others, mem : 0 .. Len(files)]
  /\ \A x, y \in received : x.fd = y.fd => x = y

RendererTypeOK ==
  /\ process \in {"running", "crashed", "undefined"}
  /\ phase \in {"none", "failing", "alive"}
  /\ surface \in Buffer \cup {NULL}
  /\ freed \in BOOLEAN /\ sfc \in BOOLEAN /\ ctx \in BOOLEAN
  /\ program \in {"none", "unlinked", "linked"}
  /\ texture \in [width : Int, height : Int]
  /\ eglSurfaces \in Nat /\ eglContexts \in Nat /\ shaders \in Nat
  /\ shown \in Nat

TypeOK == BufferTypeOK /\ DescriptorTypeOK /\ RendererTypeOK

InBounds(b) == b.width \in 1 .. MaxDim /\ b.height \in 1 .. MaxDim

\* A buffer whose width and height are up to MaxDim has its pixels in its
\* mapping, in the X server which draws them and in the viewer which reads them,
\* although the size goes through int and size_t products; and the viewer maps no
\* more than the file holds, unless ftruncate failed, which leaves it empty.
\* (Larger products leave the ints, and a mapping may then be too short.)
PixelsFit ==
  /\ screen # NULL /\ InBounds(screen)
       => screen.size = 4 * (screen.width * screen.height)
  /\ surface # NULL /\ InBounds(surface)
       => /\ surface.size = 4 * (surface.width * surface.height)
          /\ files[surface.mem] \in {0, surface.size}

\* The renderer's buffer has the descriptor that came with it open, under the
\* number that it will close, exactly while it is not freed: whatever failed, no
\* number is closed while another file has it.
SurfaceHasItsNumber ==
  surface # NULL =>
    (~ freed <=> [fd |-> surface.fd, mem |-> surface.mem] \in received)

\* Only the rest of the process closes what the rest of the process opened: no
\* failure path of lorie_buffer_fd_from_received closes the descriptor 0 of a
\* struct that was only cleared.
OthersKeepTheirs ==
  [][\A n \in others \ others' : OthersClose(n)]_vars

\* EGL and GL hold the objects of the one renderer there is, and none after a
\* creation that failed, however far it got; however many windows follow one
\* another, there is one surface at most.
HoldsItsObjects ==
  /\ eglSurfaces = IF sfc THEN 1 ELSE 0
  /\ eglContexts = IF ctx THEN 1 ELSE 0
  /\ phase = "none" => ~ sfc /\ ~ ctx /\ shaders = 0

\* A renderer that was handed out can draw: it has a context, and a program with
\* two compiled shaders (loadShader may return one that is not).
CanDraw == phase = "alive" => ctx /\ program = "linked" /\ shaders = 2

\* With a window, the texture has the size of the buffer whose pixels
\* lorie_renderer_damage_surface puts into it, or they would never be shown: a
\* size set without a window, when no context may be current, is not used.
TextureFits ==
  sfc /\ surface # NULL /\ ~ freed
    /\ surface.width <= MaxTexture /\ surface.height <= MaxTexture
  => texture = [width |-> surface.width, height |-> surface.height]

Received == INSTANCE ReceivedBuffer WITH
              Descriptors <- Numbers,
              Unusables <- TRUE,
              Refuses <- TRUE,
              Loses <- Fails,
              held <- {n \in {surface.fd} : surface # NULL /\ ~ freed},
              stale <- surface # NULL /\ freed,
              lost <- {r.fd : r \in received}
                        \ {n \in {surface.fd} : surface # NULL /\ ~ freed}

\* Of the numbers that come with the buffers one is held, and closed when the next
\* one comes: sizes that overflow, allocations that fail and numbers that others
\* reuse lose no number that was held, and close none that was lost.
ReceivesBuffers == Received!Spec

=============================================================================
