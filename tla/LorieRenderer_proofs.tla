------------------------- MODULE LorieRenderer_proofs -------------------------
(***************************************************************************)
(* Theorems about LorieRenderer, for integers of every width, every table  *)
(* of descriptor numbers and every value of the bounds.                    *)
(***************************************************************************)
EXTENDS LorieRenderer, TLAPS

-----------------------------------------------------------------------------
(* Sizes *)

LEMMA ProductsType ==
  ASSUME NEW width \in Int, NEW height \in Int
  PROVE  IntProducts(width, height) \subseteq Int
<1>1. \A x \in Int : Wrapped(x) \in Int
  <2> SUFFICES ASSUME NEW x \in Int PROVE Wrapped(x) \in Int
    OBVIOUS
  <2>1. 2 * (IntMax + 1) \in Nat \ {0}
    BY IntegerAssumption
  <2>2. x % (2 * (IntMax + 1)) \in Int
    BY <2>1
  <2> QED BY <2>1, <2>2, IntegerAssumption DEF Wrapped
<1>2. width * height \in Int
  OBVIOUS
<1> QED BY <1>1, <1>2 DEF IntProducts

LEMMA SizesType ==
  ASSUME NEW width \in Int, NEW height \in Int
  PROVE  ByteSizes(width, height) \subseteq Nat
<1>1. \A p \in Int : (4 * p) % (SizeMax + 1) \in Nat
  <2> SUFFICES ASSUME NEW p \in Int PROVE (4 * p) % (SizeMax + 1) \in Nat
    OBVIOUS
  <2>1. 4 * p \in Int /\ SizeMax + 1 \in Nat \ {0}
    BY IntegerAssumption
  <2> QED BY <2>1
<1> QED BY <1>1, ProductsType DEF ByteSizes

\* Nothing is lost on the way of a size that is in bounds.
LEMMA SizeInBounds ==
  ASSUME NEW width \in 1 .. MaxDim, NEW height \in 1 .. MaxDim
  PROVE  /\ ByteSizes(width, height) = {4 * (width * height)}
         /\ 4 * (width * height) \in Nat \ {0}
<1> DEFINE p == width * height
<1>1. p \in Nat /\ 1 <= p /\ p <= MaxDim * MaxDim
  <2>1. width \in Nat /\ height \in Nat /\ MaxDim \in Nat /\ MaxDim * MaxDim \in Nat
    BY IntegerAssumption
  <2>2. width * height <= MaxDim * height
    BY <2>1
  <2>3. MaxDim * height <= MaxDim * MaxDim
    BY <2>1
  <2>4. width * height >= 1 * height
    BY <2>1
  <2> QED BY <2>1, <2>2, <2>3, <2>4
<1>2. MaxDim * MaxDim \in Nat /\ IntMax \in Nat /\ SizeMax \in Nat
  BY IntegerAssumption
<1> HIDE DEF p
<1>3. p <= IntMax /\ -(IntMax + 1) <= p /\ 4 * p <= SizeMax
  BY <1>1, <1>2, IntegerAssumption
<1>4. IntProducts(width, height) = {p}
  BY <1>3 DEF IntProducts, p
<1>5. (4 * p) % (SizeMax + 1) = 4 * p
  BY <1>1, <1>2, <1>3
<1>6. ByteSizes(width, height) = {4 * p} /\ 4 * p \in Nat \ {0}
  BY <1>1, <1>4, <1>5 DEF ByteSizes
<1> QED BY <1>6 DEF p

-----------------------------------------------------------------------------
(* The inductive invariant *)

\* What a buffer or an event says of its memory object is true: it exists and,
\* when the size is in bounds, holds the pixels or (after a failed ftruncate)
\* nothing.
OnFile(e) ==
  e.mem # 0 =>
    /\ e.mem \in 1 .. Len(files)
    /\ InBounds(e) => files[e.mem] \in {0, 4 * (e.width * e.height)}

Sized(b) ==
  b # NULL /\ InBounds(b) => b.size = 4 * (b.width * b.height)

\* The event that carries no memory object is the one for no buffer, which the
\* renderer takes for unusable.
MemoryInv ==
  /\ OnFile(screen) /\ Sized(screen)
  /\ OnFile(surface) /\ Sized(surface)
  /\ \A i \in 1 .. Len(wire) :
       OnFile(wire[i]) /\ (wire[i].mem = 0 => wire[i].width = 0)

ObjectsInv == HoldsItsObjects /\ CanDraw /\ (~ ctx => shaders = 0)

RInv == TypeOK /\ MemoryInv /\ ObjectsInv /\ SurfaceHasItsNumber /\ TextureFits

LEMMA RInit == Init => RInv
<1> SUFFICES ASSUME Init PROVE RInv
  OBVIOUS
<1> USE DEF Init, NULL, NoSize
<1>1. BufferTypeOK
  BY DEF BufferTypeOK
<1>2. DescriptorTypeOK
  BY DEF DescriptorTypeOK
<1>3. RendererTypeOK
  <2>1. texture \in [width : Int, height : Int]
    OBVIOUS
  <2>2. freed \in BOOLEAN /\ sfc \in BOOLEAN /\ ctx \in BOOLEAN
    OBVIOUS
  <2>3. surface \in Buffer \cup {NULL}
    OBVIOUS
  <2> HIDE DEF NULL, NoSize
  <2> QED BY <2>1, <2>2, <2>3 DEF RendererTypeOK
<1>4. MemoryInv
  BY DEF MemoryInv, OnFile, Sized
<1>5. ObjectsInv
  BY DEF ObjectsInv, HoldsItsObjects, CanDraw
<1>6. SurfaceHasItsNumber /\ TextureFits
  BY DEF SurfaceHasItsNumber, TextureFits
<1> QED BY <1>1, <1>2, <1>3, <1>4, <1>5, <1>6 DEF RInv, TypeOK

\* The server and the pixels it makes room for.
LEMMA CreateFits ==
  ASSUME TypeOK, NEW width \in Dims, NEW height \in Dims,
         NEW b \in CreatedBuffers(width, height), b # NULL
  PROVE  /\ b \in Buffer
         /\ b.mem = Len(files) + 1 /\ b.width = width /\ b.height = height
         /\ Sized(b)
<1>1. width \in Int /\ height \in Int /\ Len(files) \in Nat
  BY IntegerAssumption DEF TypeOK, BufferTypeOK
<1>2. PICK size \in ByteSizes(width, height) :
        b = [mem |-> Len(files) + 1, fd |-> -1, width |-> width, height |-> height,
             size |-> size]
  BY DEF CreatedBuffers
<1>3. size \in Nat
  BY <1>1, <1>2, SizesType
<1>4. b \in Buffer
  BY <1>1, <1>2, <1>3 DEF Buffer
<1>5. Sized(b)
  BY <1>2, SizeInBounds DEF Sized, InBounds
<1> QED BY <1>2, <1>4, <1>5

\* Memory objects are only added.
LEMMA OnFileStays ==
  ASSUME files \in Seq(Nat), NEW n, files' = Append(files, n) \/ UNCHANGED files,
         NEW e, OnFile(e)
  PROVE  e.mem # 0 =>
           /\ e.mem \in 1 .. Len(files')
           /\ InBounds(e) => files'[e.mem] \in {0, 4 * (e.width * e.height)}
  BY DEF OnFile

\* Events are only added at the end and taken from the front.
LEMMA WireAppended ==
  ASSUME NEW n \in Nat, NEW m \in Nat, n <= m,
         NEW w \in Seq([mem : 0 .. n, width : Int, height : Int]),
         NEW e \in [mem : 0 .. m, width : Int, height : Int]
  PROVE  /\ Append(w, e) \in Seq([mem : 0 .. m, width : Int, height : Int])
         /\ w \in Seq([mem : 0 .. m, width : Int, height : Int])
<1>1. [mem : 0 .. n, width : Int, height : Int]
        \subseteq [mem : 0 .. m, width : Int, height : Int]
  OBVIOUS
<1>2. \A S, R : S \subseteq R => Seq(S) \subseteq Seq(R)
  OBVIOUS
<1>3. w \in Seq([mem : 0 .. m, width : Int, height : Int])
  BY <1>1, <1>2
<1> QED BY <1>3

LEMMA AppendKeeps ==
  ASSUME NEW S, NEW w \in Seq(S), NEW e, NEW v, v = Append(w, e) \/ v = w,
         NEW i \in 1 .. Len(v)
  PROVE  v[i] = IF i \in 1 .. Len(w) THEN w[i] ELSE e
  OBVIOUS

\* Memory objects and events that were added keep what is there true.
LEMMA MemoryGrows ==
  ASSUME RInv, UNCHANGED surface,
         NEW n \in Nat, files' = Append(files, n) \/ UNCHANGED files,
         NEW e \in [mem : 0 .. Len(files'), width : Int, height : Int],
         wire' = Append(wire, e) \/ UNCHANGED wire,
         e.mem = 0 => e.width = 0,
         e.mem # 0 /\ InBounds(e) => files'[e.mem] \in {0, 4 * (e.width * e.height)},
         screen' \in Buffer \cup {NULL}, Sized(screen'),
         screen' = screen \/ screen' = NULL
           \/ /\ screen'.mem \in 1 .. Len(files')
              /\ InBounds(screen')
                   => files'[screen'.mem] \in {0, 4 * (screen'.width * screen'.height)}
  PROVE  BufferTypeOK' /\ MemoryInv'
<1>1. /\ files \in Seq(Nat) /\ Len(files) \in Nat /\ Len(files') \in Nat
      /\ Len(files) <= Len(files') /\ files' \in Seq(Nat)
  <2>1. files \in Seq(Nat)
    BY DEF RInv, TypeOK, BufferTypeOK
  <2>2. CASE files' = Append(files, n)
    BY <2>1, <2>2
  <2>3. CASE UNCHANGED files
    BY <2>1, <2>3
  <2> QED BY <2>1, <2>2, <2>3
<1>2. wire \in Seq([mem : 0 .. Len(files), width : Int, height : Int])
  BY DEF RInv, TypeOK, BufferTypeOK
<1>3. wire' \in Seq([mem : 0 .. Len(files'), width : Int, height : Int])
  <2>1. /\ Append(wire, e) \in Seq([mem : 0 .. Len(files'), width : Int, height : Int])
        /\ wire \in Seq([mem : 0 .. Len(files'), width : Int, height : Int])
    BY <1>1, <1>2, WireAppended
  <2> QED BY <2>1
<1>4. BufferTypeOK'
  BY <1>1, <1>3 DEF BufferTypeOK
<1>5. OnFile(surface)' /\ Sized(surface)'
  BY <1>1, OnFileStays DEF RInv, MemoryInv, OnFile, InBounds, Sized
<1>6. OnFile(screen)' /\ Sized(screen)'
  BY <1>1, OnFileStays DEF RInv, MemoryInv, OnFile, InBounds, Sized, NULL
<1>7. ASSUME NEW i \in 1 .. Len(wire')
      PROVE  OnFile(wire[i])' /\ (wire'[i].mem = 0 => wire'[i].width = 0)
  <2>1. CASE i \in 1 .. Len(wire)
    <3>1. wire'[i] = wire[i]
      <4>1. CASE wire' = Append(wire, e)
        BY <1>2, <2>1, <4>1, AppendKeeps
      <4>2. CASE UNCHANGED wire
        BY <4>2
      <4> QED BY <4>1, <4>2
    <3>2. OnFile(wire[i]) /\ (wire[i].mem = 0 => wire[i].width = 0)
      BY <2>1 DEF RInv, MemoryInv
    <3> QED BY <1>1, <3>1, <3>2, OnFileStays DEF OnFile, InBounds
  <2>2. CASE i \notin 1 .. Len(wire)
    <3>1. wire'[i] = e
      BY <1>2, <2>2, AppendKeeps
    <3>2. e.mem # 0 => e.mem \in 1 .. Len(files')
      BY <1>1
    <3> QED BY <3>1, <3>2 DEF OnFile, InBounds
  <2> QED BY <2>1, <2>2
<1> QED BY <1>4, <1>5, <1>6, <1>7 DEF MemoryInv

\* A step of the server leaves the viewer alone.
LEMMA ViewerStays ==
  ASSUME RInv, UNCHANGED <<process, fdVars, surfaceVars, eglVars, texture, shown>>,
         Len(files) \in Nat, Len(files') \in Nat, Len(files) <= Len(files')
  PROVE  DescriptorTypeOK' /\ RendererTypeOK' /\ ObjectsInv'
         /\ SurfaceHasItsNumber' /\ TextureFits'
<1> USE DEF fdVars, surfaceVars, eglVars
<1>1. DescriptorTypeOK'
  BY DEF RInv, TypeOK, DescriptorTypeOK
<1>2. RendererTypeOK'
  BY DEF RInv, TypeOK, RendererTypeOK
<1>3. ObjectsInv'
  BY DEF RInv, ObjectsInv, HoldsItsObjects, CanDraw
<1>4. SurfaceHasItsNumber' /\ TextureFits'
  BY DEF RInv, SurfaceHasItsNumber, TextureFits
<1> QED BY <1>1, <1>2, <1>3, <1>4

LEMMA ResizeStep ==
  ASSUME RInv, NEW width \in Dims, NEW height \in Dims,
         lorie_server_resize_image(width, height)
  PROVE  RInv'
<1>1. PICK b \in CreatedBuffers(width, height) :
        /\ screen' = b
        /\ IF b = NULL THEN UNCHANGED <<files, wire>>
           ELSE /\ \E length \in {b.size} \cup {n \in {0} : Fails} :
                     files' = Append(files, length)
                /\ wire' = Append(wire, [mem |-> b.mem, width |-> width,
                                         height |-> height])
  BY DEF lorie_server_resize_image
<1>2. UNCHANGED <<process, fdVars, surfaceVars, eglVars, texture, shown>>
  BY DEF lorie_server_resize_image
<1>3. files \in Seq(Nat) /\ Len(files) \in Nat
  BY DEF RInv, TypeOK, BufferTypeOK
<1>4. BufferTypeOK' /\ MemoryInv' /\ Len(files') \in Nat /\ Len(files) <= Len(files')
  <2>1. CASE b = NULL
    <3>1. [mem |-> 0, width |-> 0, height |-> 0]
            \in [mem : 0 .. Len(files'), width : Int, height : Int]
      BY <1>1, <1>3, <2>1
    <3>2. Sized(NULL)
      BY DEF Sized
    <3> DEFINE e == [mem |-> 0, width |-> 0, height |-> 0]
    <3>3. e.mem = 0 /\ e.width = 0
      OBVIOUS
    <3>4. UNCHANGED <<surface, files, wire>> /\ screen' = NULL /\ 0 \in Nat
      BY <1>1, <1>2, <2>1 DEF surfaceVars
    <3> HIDE DEF e
    <3>5. BufferTypeOK' /\ MemoryInv'
      BY <3>1, <3>2, <3>3, <3>4, MemoryGrows DEF e
    <3> QED BY <1>3, <3>4, <3>5
  <2>2. CASE b # NULL
    <3>1. /\ b \in Buffer /\ b.mem = Len(files) + 1
          /\ b.width = width /\ b.height = height /\ Sized(b)
      BY <2>2, CreateFits DEF RInv
    <3>2. PICK n \in {b.size, 0} : files' = Append(files, n)
      BY <1>1, <2>2
    <3>3. n \in Nat /\ width \in Int /\ height \in Int
      BY <3>1 DEF Buffer
    <3>4. Len(files') = Len(files) + 1 /\ files'[Len(files')] = n
      BY <1>3, <3>2, <3>3
    <3> DEFINE e == [mem |-> b.mem, width |-> width, height |-> height]
    <3>5. e \in [mem : 0 .. Len(files'), width : Int, height : Int] /\ e.mem # 0
      BY <1>3, <3>1, <3>3, <3>4
    <3>6. InBounds(b) => n \in {0, 4 * (width * height)}
      BY <2>2, <3>1, <3>2 DEF Sized
    <3>7. InBounds(e) => files'[e.mem] \in {0, 4 * (e.width * e.height)}
      BY <3>1, <3>4, <3>6 DEF InBounds
    <3>8. /\ b.mem \in 1 .. Len(files')
          /\ InBounds(b) => files'[b.mem] \in {0, 4 * (b.width * b.height)}
      BY <1>3, <3>1, <3>4, <3>6
    <3>9. wire' = Append(wire, e) /\ UNCHANGED surface /\ screen' = b
      BY <1>1, <1>2, <2>2 DEF surfaceVars
    <3> HIDE DEF e
    <3>10. BufferTypeOK' /\ MemoryInv'
      BY <3>1, <3>2, <3>3, <3>5, <3>7, <3>8, <3>9, MemoryGrows
    <3> QED BY <1>3, <3>4, <3>10
  <2> QED BY <2>1, <2>2
<1> QED BY <1>2, <1>3, <1>4, ViewerStays DEF RInv, TypeOK

LEMMA AnswerStep ==
  ASSUME RInv, lorie_get_current_buffer_handler
  PROVE  RInv'
<1> DEFINE e == [mem |-> screen.mem, width |-> screen.width, height |-> screen.height]
<1>1. /\ UNCHANGED <<process, fdVars, surfaceVars, eglVars, texture, shown>>
      /\ UNCHANGED <<surface, screen, files>>
      /\ wire' = Append(wire, e)
  BY DEF lorie_get_current_buffer_handler, surfaceVars
<1>2. files \in Seq(Nat) /\ Len(files) \in Nat /\ screen \in Buffer \cup {NULL}
  BY DEF RInv, TypeOK, BufferTypeOK
<1>3. OnFile(screen) /\ Sized(screen)
  BY DEF RInv, MemoryInv
<1>4. /\ e \in [mem : 0 .. Len(files), width : Int, height : Int]
      /\ e.mem = 0 => e.width = 0
      /\ e.mem # 0 /\ InBounds(e) => files[e.mem] \in {0, 4 * (e.width * e.height)}
  BY <1>2, <1>3 DEF OnFile, InBounds, NULL, Buffer
<1> HIDE DEF e
<1>5. BufferTypeOK' /\ MemoryInv'
  BY <1>1, <1>2, <1>3, <1>4, MemoryGrows
<1> QED BY <1>1, <1>2, <1>5, ViewerStays DEF RInv, TypeOK

-----------------------------------------------------------------------------
(* The viewer's steps *)

LEMMA BuffersStay ==
  ASSUME RInv, UNCHANGED <<screen, files, wire, surface>>
  PROVE  BufferTypeOK' /\ MemoryInv'
<1>1. BufferTypeOK'
  BY DEF RInv, TypeOK, BufferTypeOK
<1>2. MemoryInv'
  BY DEF RInv, MemoryInv, OnFile, Sized, InBounds
<1> QED BY <1>1, <1>2

\* A step that ends the process, or none.
LEMMA NothingElse ==
  ASSUME RInv, process' \in {process, "crashed", "undefined"},
         UNCHANGED <<bufferVars, fdVars, surfaceVars, eglVars, texture>>,
         shown' \in Nat
  PROVE  RInv'
<1> USE DEF bufferVars, fdVars, surfaceVars, eglVars
<1>1. BufferTypeOK' /\ MemoryInv'
  BY BuffersStay
<1>2. DescriptorTypeOK'
  BY DEF RInv, TypeOK, DescriptorTypeOK
<1>3. RendererTypeOK'
  BY DEF RInv, TypeOK, RendererTypeOK
<1>4. ObjectsInv'
  BY DEF RInv, ObjectsInv, HoldsItsObjects, CanDraw
<1>5. SurfaceHasItsNumber' /\ TextureFits'
  BY DEF RInv, SurfaceHasItsNumber, TextureFits
<1> QED BY <1>1, <1>2, <1>3, <1>4, <1>5 DEF RInv, TypeOK

LEMMA StaleStep ==
  ASSUME RInv, UsesFreedMemory
  PROVE  RInv'
<1>1. shown \in Nat
  BY DEF RInv, TypeOK, RendererTypeOK
<1> QED BY <1>1, NothingElse DEF UsesFreedMemory

LEMMA OthersStep ==
  ASSUME RInv, NEW n \in Numbers, OthersOpen(n) \/ OthersClose(n)
  PROVE  RInv'
<1> USE DEF OthersOpen, OthersClose, bufferVars, surfaceVars, eglVars
<1>1. BufferTypeOK' /\ MemoryInv'
  BY BuffersStay
<1>2. DescriptorTypeOK'
  <2>1. CASE OthersOpen(n)
    <3>1. others' = others \cup {n} /\ UNCHANGED <<received, files>>
      BY <2>1
    <3>2. \A r \in received : r.fd # n
      BY <2>1 DEF FreeNumbers
    <3> QED BY <3>1, <3>2 DEF RInv, TypeOK, DescriptorTypeOK
  <2>2. CASE OthersClose(n)
    <3>1. others' = others \ {n} /\ UNCHANGED <<received, files>>
      BY <2>2
    <3> QED BY <3>1 DEF RInv, TypeOK, DescriptorTypeOK
  <2> QED BY <2>1, <2>2
<1>3. RendererTypeOK'
  BY DEF RInv, TypeOK, RendererTypeOK
<1>4. ObjectsInv'
  BY DEF RInv, ObjectsInv, HoldsItsObjects, CanDraw
<1>5. SurfaceHasItsNumber' /\ TextureFits'
  BY DEF RInv, SurfaceHasItsNumber, TextureFits
<1> QED BY <1>1, <1>2, <1>3, <1>4, <1>5 DEF RInv, TypeOK

\* A renderer that is not handed out has no buffer.
LEMMA NoSurfaceYet ==
  ASSUME RInv, surface' = NULL, UNCHANGED <<screen, files, wire, received>>
  PROVE  /\ BufferTypeOK' /\ MemoryInv'
         /\ SurfaceHasItsNumber' /\ TextureFits'
<1>1. BufferTypeOK'
  BY DEF RInv, TypeOK, BufferTypeOK
<1>2. OnFile(surface)' /\ Sized(surface)'
  BY DEF OnFile, Sized, NULL
<1>3. MemoryInv'
  BY <1>2 DEF RInv, MemoryInv, OnFile, Sized, InBounds
<1>4. SurfaceHasItsNumber' /\ TextureFits'
  BY DEF SurfaceHasItsNumber, TextureFits
<1> QED BY <1>1, <1>3, <1>4

\* A program is linked from two compiled shaders, which takes a context.
LEMMA ProgramType ==
  ASSUME NEW c \in BOOLEAN, NEW r \in createProgram(c)
  PROVE  /\ r.program \in {"unlinked", "linked"}
         /\ r.shaders \in {0, 1, 2}
         /\ r.program = "linked" => c /\ r.shaders = 2
         /\ ~ c => r.shaders = 0
  BY DEF createProgram, loadShader

LEMMA CreateStep ==
  ASSUME RInv, lorie_renderer_create
  PROVE  RInv'
<1>1. PICK s \in BOOLEAN, c \in BOOLEAN :
        /\ sfc' = s /\ ctx' = c
        /\ eglSurfaces' = eglSurfaces + (IF s THEN 1 ELSE 0)
        /\ eglContexts' = eglContexts + (IF c THEN 1 ELSE 0)
        /\ IF MakesCurrent(s, c)
             THEN \E r \in createProgram(c) :
                    /\ program' = r.program
                    /\ shaders' = shaders + r.shaders
                    /\ phase' = PhaseAfter(r)
             ELSE phase' = "failing" /\ UNCHANGED <<program, shaders>>
  BY Zenon DEF lorie_renderer_create
<1>2. /\ surface' = NULL /\ freed' = FALSE /\ texture' = NoSize /\ phase = "none"
      /\ UNCHANGED <<process, screen, files, wire, others, received, shown>>
  BY DEF lorie_renderer_create, bufferVars, fdVars
<1>3. BufferTypeOK' /\ MemoryInv' /\ SurfaceHasItsNumber' /\ TextureFits'
  BY <1>2, NoSurfaceYet
<1>4. DescriptorTypeOK'
  BY <1>2 DEF RInv, TypeOK, DescriptorTypeOK
<1>5. ~ sfc /\ ~ ctx /\ eglSurfaces = 0 /\ eglContexts = 0 /\ shaders = 0
  BY <1>2 DEF RInv, ObjectsInv, HoldsItsObjects
<1>6. /\ phase' \in {"failing", "alive"}
      /\ program' \in {"none", "unlinked", "linked"}
      /\ shaders' \in {0, 1, 2}
      /\ phase' = "alive" => c /\ program' = "linked" /\ shaders' = 2
      /\ ~ c => shaders' = 0
  <2>1. CASE MakesCurrent(s, c)
    <3>1. PICK r \in createProgram(c) :
            program' = r.program /\ shaders' = shaders + r.shaders /\ phase' = PhaseAfter(r)
      BY <1>1, <2>1
    <3> QED BY <1>5, <3>1, ProgramType DEF PhaseAfter
  <2>2. CASE ~ MakesCurrent(s, c)
    BY <1>1, <1>5, <2>2 DEF RInv, TypeOK, RendererTypeOK
  <2> QED BY <2>1, <2>2
<1>7. /\ eglSurfaces' = IF sfc' THEN 1 ELSE 0
      /\ eglContexts' = IF ctx' THEN 1 ELSE 0
  BY <1>1, <1>5
<1>8. ObjectsInv'
  BY <1>1, <1>6, <1>7 DEF ObjectsInv, HoldsItsObjects, CanDraw
<1>9. texture' \in [width : Int, height : Int]
  BY <1>2 DEF NoSize
<1>10. RendererTypeOK'
  <2>1. freed' \in BOOLEAN /\ sfc' \in BOOLEAN /\ ctx' \in BOOLEAN
    BY <1>1, <1>2
  <2>2. process' \in {"running", "crashed", "undefined"} /\ shown' \in Nat
    BY <1>2 DEF RInv, TypeOK, RendererTypeOK
  <2>3. eglSurfaces' \in Nat /\ eglContexts' \in Nat /\ shaders' \in Nat
    BY <1>6, <1>7
  <2> QED BY <1>2, <1>6, <1>9, <2>1, <2>2, <2>3 DEF RendererTypeOK
<1> QED BY <1>3, <1>4, <1>8, <1>10 DEF RInv, TypeOK

LEMMA DestroyStep ==
  ASSUME RInv, lorie_renderer_destroy
  PROVE  RInv'
<1>1. /\ phase' = "none" /\ sfc' = FALSE /\ ctx' = FALSE /\ program' = "none"
      /\ eglSurfaces' = eglSurfaces - (IF sfc THEN 1 ELSE 0)
      /\ eglContexts' = eglContexts - (IF ctx THEN 1 ELSE 0)
      /\ shaders' = IF ctx THEN 0 ELSE shaders
      /\ UNCHANGED <<process, screen, files, wire, others, received, surface, freed,
                     texture, shown>>
  BY DEF lorie_renderer_destroy, bufferVars, fdVars, surfaceVars
<1>2. BufferTypeOK' /\ MemoryInv'
  BY <1>1, BuffersStay
<1>3. DescriptorTypeOK'
  BY <1>1 DEF RInv, TypeOK, DescriptorTypeOK
<1>4. eglSurfaces' = 0 /\ eglContexts' = 0 /\ shaders' = 0
  BY <1>1 DEF RInv, ObjectsInv, HoldsItsObjects
<1>5. ObjectsInv'
  BY <1>1, <1>4 DEF ObjectsInv, HoldsItsObjects, CanDraw
<1>6. RendererTypeOK'
  <2>1. freed' \in BOOLEAN /\ sfc' \in BOOLEAN /\ ctx' \in BOOLEAN
    BY <1>1 DEF RInv, TypeOK, RendererTypeOK
  <2>2. /\ process' \in {"running", "crashed", "undefined"} /\ shown' \in Nat
        /\ surface' \in Buffer \cup {NULL} /\ texture' \in [width : Int, height : Int]
    BY <1>1 DEF RInv, TypeOK, RendererTypeOK
  <2> QED BY <1>1, <1>4, <2>1, <2>2 DEF RendererTypeOK
<1>7. SurfaceHasItsNumber' /\ TextureFits'
  BY <1>1 DEF RInv, SurfaceHasItsNumber, TextureFits
<1> QED BY <1>2, <1>3, <1>5, <1>6, <1>7 DEF RInv, TypeOK

\* While its pointer is not stale, closing the renderer's number takes it from
\* no one else.
LEMMA OldNumber ==
  ASSUME RInv, ~ DestroysStale, surface # NULL
  PROVE  /\ [fd |-> surface.fd, mem |-> surface.mem] \in received
         /\ surface.fd \notin others
<1>1. [fd |-> surface.fd, mem |-> surface.mem] \in received
  BY DEF RInv, SurfaceHasItsNumber, DestroysStale
<1>2. received \subseteq [fd : Numbers \ others, mem : 0 .. Len(files)]
  BY DEF RInv, TypeOK, DescriptorTypeOK
<1> QED BY <1>1, <1>2

LEMMA WindowStep ==
  ASSUME RInv, NEW present \in BOOLEAN, lorie_renderer_attach_window(present)
  PROVE  RInv' /\ others \subseteq others'
<1>1. CASE DestroysStale
  <2>1. UsesFreedMemory
    BY <1>1 DEF lorie_renderer_attach_window
  <2> QED BY <2>1, StaleStep DEF UsesFreedMemory, fdVars
<1>2. CASE ~ DestroysStale
  <2>1. PICK s \in BOOLEAN :
          /\ sfc' = s
          /\ eglSurfaces' = eglSurfaces - (IF sfc THEN 1 ELSE 0)
                                        + (IF s THEN 1 ELSE 0)
    BY <1>2, Zenon DEF lorie_renderer_attach_window
  <2>2. /\ DropBuffer /\ phase = "alive"
        /\ UNCHANGED <<process, screen, files, wire, phase, ctx, program,
                       eglContexts, shaders, texture, shown>>
    BY <1>2 DEF lorie_renderer_attach_window, bufferVars
  <2>3. /\ IF surface = NULL THEN UNCHANGED <<others, received>>
           ELSE /\ received' = {r \in received : r.fd # surface.fd}
                /\ others' = others \ {surface.fd}
        /\ freed' = (surface # NULL)
        /\ UNCHANGED surface
    BY <2>2 DEF DropBuffer, Close, fdVars
  <2>4. others' = others /\ received' \subseteq received
    BY <1>2, <2>3, OldNumber
  <2>5. BufferTypeOK' /\ MemoryInv'
    BY <2>2, <2>3, BuffersStay
  <2>6. DescriptorTypeOK'
    BY <2>2, <2>4 DEF RInv, TypeOK, DescriptorTypeOK
  <2>7. eglSurfaces' = IF sfc' THEN 1 ELSE 0
    BY <2>1 DEF RInv, ObjectsInv, HoldsItsObjects
  <2>8. ObjectsInv'
    BY <2>2, <2>7 DEF RInv, ObjectsInv, HoldsItsObjects, CanDraw
  <2>9. RendererTypeOK'
    <3>1. freed' \in BOOLEAN /\ sfc' \in BOOLEAN /\ ctx' \in BOOLEAN
      BY <2>1, <2>2, <2>3 DEF RInv, TypeOK, RendererTypeOK
    <3>2. eglSurfaces' \in Nat
      BY <2>7
    <3> QED BY <2>2, <2>3, <3>1, <3>2 DEF RInv, TypeOK, RendererTypeOK
  <2>10. SurfaceHasItsNumber' /\ TextureFits'
    <3>1. CASE surface = NULL
      BY <2>3, <3>1 DEF SurfaceHasItsNumber, TextureFits
    <3>2. CASE surface # NULL
      <4>1. freed' = TRUE /\ UNCHANGED surface
        BY <2>3, <3>2
      <4>2. [fd |-> surface.fd, mem |-> surface.mem] \notin received'
        BY <2>3, <3>2
      <4> QED BY <4>1, <4>2 DEF SurfaceHasItsNumber, TextureFits
    <3> QED BY <3>1, <3>2
  <2> QED BY <2>4, <2>5, <2>6, <2>8, <2>9, <2>10 DEF RInv, TypeOK
<1> QED BY <1>1, <1>2

\* What comes off the wire.
LEMMA WireHead ==
  ASSUME RInv, wire # <<>>, Usable(Head(wire))
  PROVE  /\ Head(wire).mem \in 1 .. Len(files)
         /\ Head(wire).width \in Int /\ Head(wire).height \in Int
         /\ InBounds(Head(wire))
              => files[Head(wire).mem] \in {0, 4 * (Head(wire).width * Head(wire).height)}
<1>1. wire \in Seq([mem : 0 .. Len(files), width : Int, height : Int])
  BY DEF RInv, TypeOK, BufferTypeOK
<1>2. 1 \in 1 .. Len(wire) /\ Head(wire) = wire[1]
  BY <1>1
<1>3. wire[1] \in [mem : 0 .. Len(files), width : Int, height : Int]
  <2>1. \A S : \A w \in Seq(S) : \A i \in 1 .. Len(w) : w[i] \in S
    OBVIOUS
  <2> QED BY <1>1, <1>2, <2>1
<1>4. OnFile(wire[1]) /\ (wire[1].mem = 0 => wire[1].width = 0)
  BY <1>2 DEF RInv, MemoryInv
<1>5. wire[1].mem # 0
  BY <1>2, <1>3, <1>4 DEF Usable
<1> QED BY <1>2, <1>3, <1>4, <1>5 DEF OnFile

\* What the renderer makes of it.
LEMMA ReceivedFits ==
  ASSUME RInv, wire # <<>>, Usable(Head(wire)), NEW n \in Numbers,
         NEW r \in lorie_buffer_fd_from_received(n, Head(wire))
  PROVE  /\ r.surface \in Buffer \cup {NULL}
         /\ OnFile(r.surface) /\ Sized(r.surface)
         /\ r.closes \in {{}, {n}}
         /\ r.surface # NULL => /\ r.surface.fd = n /\ r.surface.mem = Head(wire).mem
                               /\ r.closes = {}
<1> DEFINE event == Head(wire)
<1>1. /\ event.mem \in 1 .. Len(files) /\ event.width \in Int /\ event.height \in Int
      /\ InBounds(event) => files[event.mem] \in {0, 4 * (event.width * event.height)}
  BY WireHead
<1>2. ~ (event.width <= 0 \/ event.height <= 0)
  BY <1>1 DEF Usable
<1>3. Len(files) \in Nat
  BY DEF RInv, TypeOK, BufferTypeOK
<1> HIDE DEF event
<1>4. CASE r.surface = NULL /\ r.closes \in {{}, {n}}
  BY <1>4 DEF OnFile, Sized, NULL
<1>5. ASSUME NEW size \in ByteSizes(event.width, event.height),
             r = [surface |-> [mem |-> event.mem, fd |-> n, width |-> event.width,
                               height |-> event.height, size |-> size],
                  closes |-> {}]
      PROVE  /\ r.surface \in Buffer /\ r.closes = {}
             /\ r.surface.fd = n /\ r.surface.mem = event.mem
             /\ OnFile(r.surface) /\ Sized(r.surface)
  <2>1. size \in Nat
    BY <1>1, <1>5, SizesType
  <2>2. r.surface \in Buffer
    BY <1>1, <1>3, <1>5, <2>1 DEF Buffer
  <2>3. OnFile(r.surface)
    BY <1>1, <1>5 DEF OnFile, InBounds
  <2>4. Sized(r.surface)
    BY <1>5, SizeInBounds DEF Sized, InBounds
  <2> QED BY <1>5, <2>2, <2>3, <2>4
<1>6. \/ r.surface = NULL /\ r.closes \in {{}, {n}}
      \/ \E size \in ByteSizes(event.width, event.height) :
           r = [surface |-> [mem |-> event.mem, fd |-> n, width |-> event.width,
                             height |-> event.height, size |-> size],
                closes |-> {}]
  BY <1>2 DEF lorie_buffer_fd_from_received, event
<1> QED BY <1>4, <1>5, <1>6 DEF event

\* Reading takes the oldest event.
LEMMA WireRead ==
  ASSUME RInv, wire # <<>>, wire' = Tail(wire), UNCHANGED <<screen, files>>,
         surface' \in Buffer \cup {NULL}, OnFile(surface'), Sized(surface')
  PROVE  BufferTypeOK' /\ MemoryInv'
<1>1. wire \in Seq([mem : 0 .. Len(files), width : Int, height : Int])
  BY DEF RInv, TypeOK, BufferTypeOK
<1>2. \A S : \A w \in Seq(S) :
        w # <<>> => /\ Tail(w) \in Seq(S)
                    /\ \A i \in 1 .. Len(Tail(w)) :
                         i + 1 \in 1 .. Len(w) /\ Tail(w)[i] = w[i + 1]
  OBVIOUS
<1>3. BufferTypeOK'
  BY <1>1, <1>2 DEF RInv, TypeOK, BufferTypeOK
<1>4. \A i \in 1 .. Len(wire') : i + 1 \in 1 .. Len(wire) /\ wire'[i] = wire[i + 1]
  BY <1>1, <1>2
<1>5. OnFile(surface)' /\ Sized(surface)'
  BY DEF OnFile, Sized, InBounds
<1>6. MemoryInv'
  BY <1>4, <1>5 DEF RInv, MemoryInv, OnFile, Sized, InBounds
<1> QED BY <1>3, <1>6

LEMMA AttachStep ==
  ASSUME RInv, lorie_renderer_buffer_attach
  PROVE  RInv' /\ others \subseteq others'
<1>1. CASE DestroysStale
  <2>1. UsesFreedMemory
    BY <1>1 DEF lorie_renderer_buffer_attach
  <2> QED BY <2>1, StaleStep DEF UsesFreedMemory, fdVars
<1>2. CASE ~ DestroysStale
  <2> DEFINE event == Head(wire)
             old == IF surface = NULL THEN {} ELSE {surface.fd}
  <2>1. PICK n \in FreeNumbers :
          /\ wire' = Tail(wire)
          /\ IF Usable(event)
               THEN \E r \in lorie_buffer_fd_from_received(n, event) :
                      /\ surface' = r.surface
                      /\ freed' = FALSE
                      /\ received' = {x \in received \cup {[fd |-> n, mem |-> event.mem]} :
                                       x.fd \notin old \cup r.closes}
                      /\ others' = others \ (old \cup r.closes)
                      /\ SizeTexture
               ELSE /\ freed' = (surface # NULL)
                    /\ received' = {x \in received \cup {[fd |-> n, mem |-> event.mem]} :
                                     x.fd \notin old}
                    /\ others' = others \ old
                    /\ UNCHANGED <<surface, texture>>
          /\ UNCHANGED <<process, screen, files, eglVars, shown>>
    BY <1>2 DEF lorie_renderer_buffer_attach
  <2>2. phase = "alive" /\ wire # <<>> /\ UNCHANGED eglVars
    BY <2>1 DEF lorie_renderer_buffer_attach
  <2>3. /\ n \in Numbers /\ n \notin others
        /\ \A x \in received : x.fd # n
    BY DEF FreeNumbers
  <2>4. /\ surface # NULL => [fd |-> surface.fd, mem |-> surface.mem] \in received
        /\ old \cap others = {} /\ n \notin old
    BY <1>2, <2>3, OldNumber
  <2>5. Head(wire) \in [mem : 0 .. Len(files), width : Int, height : Int]
    <3>1. wire \in Seq([mem : 0 .. Len(files), width : Int, height : Int])
      BY DEF RInv, TypeOK, BufferTypeOK
    <3>2. \A S : \A w \in Seq(S) : w # <<>> => Head(w) \in S
      OBVIOUS
    <3> QED BY <2>2, <3>1, <3>2
  <2>6. ASSUME NEW closes, closes \in {{}, {n}},
               received' = {x \in received \cup {[fd |-> n, mem |-> event.mem]} :
                              x.fd \notin old \cup closes},
               others' = others \ (old \cup closes)
        PROVE  DescriptorTypeOK' /\ others' = others
    <3>1. others' = others
      BY <2>3, <2>4, <2>6
    <3>2. UNCHANGED files
      BY <2>1
    <3>3. received' \subseteq received \cup {[fd |-> n, mem |-> event.mem]}
      BY <2>6
    <3>4. [fd |-> n, mem |-> event.mem] \in [fd : Numbers \ others, mem : 0 .. Len(files)]
      BY <2>3, <2>5
    <3> HIDE DEF event, old
    <3> QED BY <2>3, <3>1, <3>2, <3>3, <3>4 DEF RInv, TypeOK, DescriptorTypeOK
  <2>7. ObjectsInv'
    BY <2>2 DEF RInv, ObjectsInv, HoldsItsObjects, CanDraw, eglVars
  <2>8. ASSUME surface' \in Buffer \cup {NULL}, freed' \in BOOLEAN,
               texture' \in [width : Int, height : Int]
        PROVE  RendererTypeOK'
    BY <2>1, <2>8 DEF RInv, TypeOK, RendererTypeOK, eglVars
  <2>9. CASE Usable(event)
    <3>1. PICK r \in lorie_buffer_fd_from_received(n, event) :
            /\ surface' = r.surface
            /\ freed' = FALSE
            /\ received' = {x \in received \cup {[fd |-> n, mem |-> event.mem]} :
                             x.fd \notin old \cup r.closes}
            /\ others' = others \ (old \cup r.closes)
            /\ SizeTexture
      BY <2>1, <2>9
    <3>2. /\ r.surface \in Buffer \cup {NULL} /\ OnFile(r.surface) /\ Sized(r.surface)
          /\ r.closes \in {{}, {n}}
          /\ r.surface # NULL => /\ r.surface.fd = n /\ r.surface.mem = event.mem
                                /\ r.closes = {}
      BY <2>2, <2>3, <2>9, ReceivedFits
    <3>3. BufferTypeOK' /\ MemoryInv'
      BY <2>1, <2>2, <3>1, <3>2, WireRead
    <3>4. DescriptorTypeOK' /\ others' = others
      BY <2>6, <3>1, <3>2
    <3>5. texture' \in [width : Int, height : Int]
      <4>1. texture \in [width : Int, height : Int]
        BY DEF RInv, TypeOK, RendererTypeOK
      <4>2. surface' # NULL => surface'.width \in Int /\ surface'.height \in Int
        BY <3>1, <3>2 DEF Buffer
      <4> QED BY <3>1, <4>1, <4>2 DEF SizeTexture
    <3>6. RendererTypeOK'
      BY <2>8, <3>1, <3>2, <3>5
    <3>7. SurfaceHasItsNumber'
      <4>1. surface' # NULL => [fd |-> surface'.fd, mem |-> surface'.mem] \in received'
        BY <2>4, <3>1, <3>2
      <4> QED BY <3>1, <4>1 DEF SurfaceHasItsNumber
    <3>8. TextureFits'
      <4>1. ctx /\ UNCHANGED <<sfc, ctx>>
        BY <2>2 DEF RInv, ObjectsInv, CanDraw, eglVars
      <4>2. sfc => MakesCurrent(sfc, ctx)
        BY <4>1 DEF MakesCurrent
      <4> QED BY <3>1, <4>1, <4>2 DEF TextureFits, SizeTexture
    <3> QED BY <2>7, <3>3, <3>4, <3>6, <3>7, <3>8 DEF RInv, TypeOK
  <2>10. CASE ~ Usable(event)
    <3>1. /\ freed' = (surface # NULL)
          /\ received' = {x \in received \cup {[fd |-> n, mem |-> event.mem]} :
                           x.fd \notin old}
          /\ others' = others \ old
          /\ UNCHANGED <<surface, texture>>
      BY <2>1, <2>10
    <3>2. surface \in Buffer \cup {NULL} /\ OnFile(surface) /\ Sized(surface)
      BY DEF RInv, TypeOK, RendererTypeOK, MemoryInv
    <3>3. BufferTypeOK' /\ MemoryInv'
      BY <2>1, <2>2, <3>1, <3>2, WireRead
    <3>4. DescriptorTypeOK' /\ others' = others
      <4>1. old \cup {} = old
        OBVIOUS
      <4> QED BY <2>6, <3>1, <4>1
    <3>5. RendererTypeOK'
      <4>1. texture \in [width : Int, height : Int]
        BY DEF RInv, TypeOK, RendererTypeOK
      <4> QED BY <2>8, <3>1, <3>2, <4>1
    <3>6. SurfaceHasItsNumber' /\ TextureFits'
      <4>1. CASE surface = NULL
        BY <3>1, <4>1 DEF SurfaceHasItsNumber, TextureFits
      <4>2. CASE surface # NULL
        <5>1. freed' = TRUE
          BY <3>1, <4>2
        <5>2. [fd |-> surface.fd, mem |-> surface.mem] \notin received'
          BY <3>1, <4>2
        <5> QED BY <3>1, <5>1, <5>2 DEF SurfaceHasItsNumber, TextureFits
      <4> QED BY <4>1, <4>2
    <3> QED BY <2>7, <3>3, <3>4, <3>5, <3>6 DEF RInv, TypeOK
  <2> QED BY <2>9, <2>10
<1> QED BY <1>1, <1>2

LEMMA DamageStep ==
  ASSUME RInv, lorie_renderer_damage_surface
  PROVE  RInv'
<1>1. CASE freed
  BY <1>1, StaleStep DEF lorie_renderer_damage_surface
<1>2. CASE ~ freed
  <2>1. /\ UNCHANGED <<bufferVars, fdVars, surfaceVars, eglVars, texture>>
        /\ process' \in {process, "crashed"}
        /\ shown' \in {surface.mem, shown} /\ surface # NULL
    BY <1>2 DEF lorie_renderer_damage_surface
  <2>2. shown' \in Nat
    BY <2>1 DEF RInv, TypeOK, RendererTypeOK, Buffer
  <2> QED BY <2>1, <2>2, NothingElse
<1> QED BY <1>1, <1>2

LEMMA RStep == RInv /\ [Next]_vars => RInv'
<1> SUFFICES ASSUME RInv, [Next]_vars PROVE RInv'
  OBVIOUS
<1>1. shown \in Nat
  BY DEF RInv, TypeOK, RendererTypeOK
<1>2. CASE UNCHANGED vars
  BY <1>1, <1>2, NothingElse DEF vars
<1>3. CASE RendererCallocFails
  BY <1>1, <1>3, NothingElse DEF RendererCallocFails
<1> QED
  BY <1>2, <1>3, ResizeStep, AnswerStep, OthersStep, CreateStep, DestroyStep,
     WindowStep, AttachStep, DamageStep DEF Next

LEMMA RInvariance == Spec => []RInv
  BY RInit, RStep, PTL DEF Spec

-----------------------------------------------------------------------------
(* What follows *)

\* The variables keep their types; no descriptor number is two things at once.
THEOREM RendererTypeCorrect == Spec => []TypeOK
  BY RInvariance, PTL DEF RInv

\* However wide ints and size_t are: up to a width and height whose square is an
\* int, and whose bytes are a size_t, pixels fit into what is mapped on both
\* sides.
THEOREM PixelsAlwaysFit == Spec => []PixelsFit
<1>1. RInv => PixelsFit
  <2> SUFFICES ASSUME RInv PROVE PixelsFit
    OBVIOUS
  <2>1. Sized(screen) /\ Sized(surface) /\ OnFile(surface)
    BY DEF RInv, MemoryInv
  <2>2. surface # NULL => surface.mem # 0
    BY DEF RInv, TypeOK, RendererTypeOK, Buffer
  <2> QED BY <2>1, <2>2 DEF PixelsFit, Sized, OnFile
<1> QED BY <1>1, RInvariance, PTL

\* The renderer's buffer owns the descriptor it will close, exactly while it is
\* not freed, with every reuse of numbers.
THEOREM NumberIsHeld == Spec => []SurfaceHasItsNumber
  BY RInvariance, PTL DEF RInv

\* The viewer closes nothing of the rest of its process.
THEOREM OthersKeep == Spec => OthersKeepTheirs
<1>1. ASSUME RInv, [Next]_vars, NEW n \in others \ others' PROVE OthersClose(n)
  <2>1. n \in Numbers
    BY <1>1 DEF RInv, TypeOK, DescriptorTypeOK
  <2>2. \A m \in Numbers : OthersOpen(m) => n \in others'
    BY <1>1 DEF OthersOpen
  <2>3. \A m \in Numbers : OthersClose(m) => m = n
    BY <1>1 DEF OthersClose
  <2>4. \A width, height \in Dims :
          lorie_server_resize_image(width, height) => UNCHANGED others
    BY DEF lorie_server_resize_image, fdVars
  <2>5. /\ lorie_get_current_buffer_handler => UNCHANGED others
        /\ lorie_renderer_create => UNCHANGED others
        /\ RendererCallocFails => UNCHANGED others
        /\ lorie_renderer_destroy => UNCHANGED others
        /\ lorie_renderer_damage_surface => UNCHANGED others
        /\ UNCHANGED vars => UNCHANGED others
    BY DEF lorie_get_current_buffer_handler, lorie_renderer_create,
           RendererCallocFails, lorie_renderer_destroy,
           lorie_renderer_damage_surface, UsesFreedMemory, vars, fdVars
  <2>6. lorie_renderer_buffer_attach => others \subseteq others'
    BY <1>1, AttachStep
  <2>7. \A present \in BOOLEAN :
          lorie_renderer_attach_window(present) => others \subseteq others'
    BY <1>1, WindowStep
  <2> QED BY <1>1, <2>1, <2>2, <2>3, <2>4, <2>5, <2>6, <2>7 DEF Next
<1>2. RInv /\ [Next]_vars => [\A n \in others \ others' : OthersClose(n)]_vars
  BY <1>1
<1> QED BY <1>2, RInvariance, PTL DEF Spec, OthersKeepTheirs

\* Whatever fails, and in whatever order windows come: EGL and GL hold what the
\* renderer knows of and nothing else.
THEOREM ObjectsHeld == Spec => []HoldsItsObjects
  BY RInvariance, PTL DEF RInv, ObjectsInv

\* A renderer that was handed out has a context and a linked program.
THEOREM AbleToDraw == Spec => []CanDraw
  BY RInvariance, PTL DEF RInv, ObjectsInv

\* What is drawn fits the texture it is put into.
THEOREM TextureAlwaysFits == Spec => []TextureFits
  BY RInvariance, PTL DEF RInv

-----------------------------------------------------------------------------
(* ReceivesBuffers *)

\* The numbers that came with buffers, and the one of them that is held.
ReceivedNumbers == {r.fd : r \in received}
HeldNumber == {n \in {surface.fd} : surface # NULL /\ ~ freed}

\* Closing some numbers takes just those.
LEMMA ClosedNumbers ==
  ASSUME NEW n, NEW mem, NEW closed,
         received' = {x \in received \cup {[fd |-> n, mem |-> mem]} : x.fd \notin closed}
  PROVE  ReceivedNumbers' = (ReceivedNumbers \cup {n}) \ closed
<1> USE DEF ReceivedNumbers
<1>1. ReceivedNumbers' \subseteq (ReceivedNumbers \cup {n}) \ closed
  OBVIOUS
<1>2. ReceivedNumbers \ closed \subseteq ReceivedNumbers'
  OBVIOUS
<1>3. ASSUME n \notin closed PROVE n \in ReceivedNumbers'
  <2>1. [fd |-> n, mem |-> mem] \in received' /\ [fd |-> n, mem |-> mem].fd = n
    BY <1>3
  <2> QED BY <2>1
<1> QED BY <1>1, <1>2, <1>3

LEMMA AttachReceives ==
  ASSUME RInv, lorie_renderer_buffer_attach
  PROVE  [Received!Next]_(Received!vars)
<1>1. CASE DestroysStale
  BY <1>1
  DEF lorie_renderer_buffer_attach, UsesFreedMemory, fdVars, surfaceVars, Received!vars
<1>2. CASE ~ DestroysStale
  <2> DEFINE event == Head(wire)
             old == IF surface = NULL THEN {} ELSE {surface.fd}
  <2>1. PICK n \in FreeNumbers :
          IF Usable(event)
            THEN \E r \in lorie_buffer_fd_from_received(n, event) :
                   /\ surface' = r.surface
                   /\ freed' = FALSE
                   /\ received' = {x \in received \cup {[fd |-> n, mem |-> event.mem]} :
                                    x.fd \notin old \cup r.closes}
            ELSE /\ freed' = (surface # NULL)
                 /\ received' = {x \in received \cup {[fd |-> n, mem |-> event.mem]} :
                                  x.fd \notin old}
                 /\ UNCHANGED surface
    BY <1>2 DEF lorie_renderer_buffer_attach
  <2>2. n \in Numbers /\ n \notin ReceivedNumbers
    BY DEF FreeNumbers, ReceivedNumbers
  <2>3. old = HeldNumber /\ old \subseteq ReceivedNumbers
    <3>1. surface # NULL => surface.fd \in ReceivedNumbers
      <4>1. surface # NULL => [fd |-> surface.fd, mem |-> surface.mem] \in received
        BY <1>2, OldNumber
      <4> QED BY <4>1 DEF ReceivedNumbers
    <3> QED BY <1>2, <3>1 DEF HeldNumber, DestroysStale
  <2>4. ~ (surface # NULL /\ freed)
    BY <1>2 DEF DestroysStale
  <2> HIDE DEF event, old
  <2>5. CASE Usable(event)
    <3>1. PICK r \in lorie_buffer_fd_from_received(n, event) :
            /\ surface' = r.surface
            /\ freed' = FALSE
            /\ received' = {x \in received \cup {[fd |-> n, mem |-> event.mem]} :
                             x.fd \notin old \cup r.closes}
      BY <2>1, <2>5
    <3>2. ReceivedNumbers' = (ReceivedNumbers \cup {n}) \ (old \cup r.closes)
      BY <3>1, ClosedNumbers
    <3>3. \/ r.surface # NULL /\ r.surface.fd = n /\ r.closes = {}
          \/ r.surface = NULL /\ r.closes = {n}
          \/ r.surface = NULL /\ r.closes = {} /\ Fails
      <4>1. n # -1
        BY <2>2, IntegerAssumption
      <4>2. ~ (event.width <= 0 \/ event.height <= 0)
        BY <2>5, WireHead DEF Usable, event, lorie_renderer_buffer_attach
      <4> QED BY <4>1, <4>2 DEF lorie_buffer_fd_from_received, NULL
    <3>4. CASE r.surface # NULL /\ r.surface.fd = n /\ r.closes = {}
      <4>1. HeldNumber' = {n}
        BY <3>1, <3>4 DEF HeldNumber
      <4>2. ReceivedNumbers' \ HeldNumber' = ReceivedNumbers \ HeldNumber
        BY <2>2, <2>3, <3>2, <3>4, <4>1
      <4>3. n \in Numbers \ (HeldNumber \cup (ReceivedNumbers \ HeldNumber))
        BY <2>2, <2>3
      <4>4. Received!Replace
        BY <3>1, <4>1, <4>2, <4>3
        DEF Received!Replace, Received!Fresh, HeldNumber, ReceivedNumbers
      <4> QED BY <4>4 DEF Received!Next
    <3>5. CASE r.surface = NULL /\ r.closes = {n}
      <4>1. HeldNumber' = {}
        BY <3>1, <3>5 DEF HeldNumber
      <4>2. ReceivedNumbers' \ HeldNumber' = ReceivedNumbers \ HeldNumber
        BY <2>2, <2>3, <3>2, <3>5, <4>1
      <4>3. Received!Refuse
        BY <3>1, <4>1, <4>2 DEF Received!Refuse, HeldNumber, ReceivedNumbers
      <4> QED BY <4>3 DEF Received!Next
    <3>6. CASE r.surface = NULL /\ r.closes = {} /\ Fails
      <4>1. HeldNumber' = {}
        BY <3>1, <3>6 DEF HeldNumber
      <4>2. ReceivedNumbers' \ HeldNumber' = (ReceivedNumbers \ HeldNumber) \cup {n}
        BY <2>2, <2>3, <3>2, <3>6, <4>1
      <4>3. n \in Numbers \ (HeldNumber \cup (ReceivedNumbers \ HeldNumber))
        BY <2>2, <2>3
      <4>4. Received!Lose
        BY <3>1, <3>6, <4>1, <4>2, <4>3
        DEF Received!Lose, Received!Fresh, HeldNumber, ReceivedNumbers
      <4> QED BY <4>4 DEF Received!Next
    <3> QED BY <3>3, <3>4, <3>5, <3>6
  <2>6. CASE ~ Usable(event)
    <3>1. /\ freed' = (surface # NULL)
          /\ UNCHANGED surface
          /\ ReceivedNumbers' = (ReceivedNumbers \cup {n}) \ old
      BY <2>1, <2>6, ClosedNumbers
    <3>2. HeldNumber' = {}
      BY <3>1 DEF HeldNumber
    <3>3. ReceivedNumbers' \ HeldNumber' = (ReceivedNumbers \ HeldNumber) \cup {n}
      BY <2>2, <2>3, <3>1, <3>2
    <3>4. n \in Numbers \ (HeldNumber \cup (ReceivedNumbers \ HeldNumber))
      BY <2>2, <2>3
    <3>5. (surface' # NULL /\ freed') = ((surface # NULL /\ freed) \/ HeldNumber # {})
      BY <2>4, <3>1 DEF HeldNumber
    <3>6. Received!Ignore
      BY <3>2, <3>3, <3>4, <3>5
      DEF Received!Ignore, Received!Release, Received!Fresh, HeldNumber, ReceivedNumbers
    <3> QED BY <3>6 DEF Received!Next
  <2> QED BY <2>5, <2>6
<1> QED BY <1>1, <1>2

LEMMA WindowReceives ==
  ASSUME RInv, NEW present \in BOOLEAN, lorie_renderer_attach_window(present)
  PROVE  [Received!Next]_(Received!vars)
<1>1. CASE DestroysStale
  BY <1>1
  DEF lorie_renderer_attach_window, UsesFreedMemory, fdVars, surfaceVars, Received!vars
<1>2. CASE ~ DestroysStale
  <2>1. /\ IF surface = NULL THEN UNCHANGED received
           ELSE received' = {r \in received : r.fd # surface.fd}
        /\ freed' = (surface # NULL)
        /\ UNCHANGED surface
    BY <1>2 DEF lorie_renderer_attach_window, DropBuffer, Close, fdVars
  <2>2. HeldNumber' = {} /\ HeldNumber = IF surface = NULL THEN {} ELSE {surface.fd}
    BY <1>2, <2>1 DEF HeldNumber, DestroysStale
  <2>3. ReceivedNumbers' \ HeldNumber' = ReceivedNumbers \ HeldNumber
    BY <2>1, <2>2 DEF ReceivedNumbers
  <2>4. (surface' # NULL /\ freed') = ((surface # NULL /\ freed) \/ HeldNumber # {})
    BY <1>2, <2>1, <2>2 DEF DestroysStale
  <2>5. Received!Drop
    BY <2>2, <2>3, <2>4
    DEF Received!Drop, Received!Release, HeldNumber, ReceivedNumbers
  <2> QED BY <2>5 DEF Received!Next
<1> QED BY <1>1, <1>2

\* A renderer that was not handed out has no buffer.
NoBufferYet == phase # "alive" => surface = NULL

LEMMA NoBufferYetStays == NoBufferYet /\ [Next]_vars => NoBufferYet'
<1> USE DEF NoBufferYet, bufferVars, fdVars, surfaceVars, eglVars
<1>1. CASE lorie_renderer_create \/ lorie_renderer_destroy
  BY <1>1 DEF lorie_renderer_create, lorie_renderer_destroy
<1>2. CASE \/ lorie_renderer_buffer_attach
           \/ \E present \in BOOLEAN : lorie_renderer_attach_window(present)
  <2>1. phase = "alive" /\ UNCHANGED phase
    BY <1>2
    DEF lorie_renderer_buffer_attach, lorie_renderer_attach_window, UsesFreedMemory
  <2> QED BY <2>1
<1>3. CASE \/ \E width, height \in Dims : lorie_server_resize_image(width, height)
           \/ lorie_get_current_buffer_handler
           \/ \E n \in Numbers : OthersOpen(n) \/ OthersClose(n)
           \/ RendererCallocFails
           \/ lorie_renderer_damage_surface
           \/ UNCHANGED vars
  <2>1. UNCHANGED <<phase, surface>>
    BY <1>3
    DEF lorie_server_resize_image, lorie_get_current_buffer_handler, OthersOpen,
        OthersClose, RendererCallocFails, lorie_renderer_damage_surface,
        UsesFreedMemory, vars
  <2> QED BY <2>1
<1> QED BY <1>1, <1>2, <1>3 DEF Next

LEMMA StepReceives == RInv /\ NoBufferYet /\ [Next]_vars => [Received!Next]_(Received!vars)
<1> SUFFICES ASSUME RInv, NoBufferYet, [Next]_vars
             PROVE  [Received!Next]_(Received!vars)
  OBVIOUS
<1>1. CASE UNCHANGED <<received, surface, freed>>
  BY <1>1 DEF Received!vars
<1>2. CASE lorie_renderer_create
  <2>1. surface = NULL
    BY <1>2 DEF lorie_renderer_create, NoBufferYet
  <2>2. surface' = NULL /\ UNCHANGED received
    BY <1>2 DEF lorie_renderer_create, fdVars
  <2> QED BY <2>1, <2>2 DEF Received!vars
<1>3. CASE \/ \E width, height \in Dims : lorie_server_resize_image(width, height)
           \/ lorie_get_current_buffer_handler
           \/ \E n \in Numbers : OthersOpen(n) \/ OthersClose(n)
           \/ RendererCallocFails
           \/ lorie_renderer_destroy
           \/ lorie_renderer_damage_surface
           \/ UNCHANGED vars
  BY <1>1, <1>3
  DEF lorie_server_resize_image, lorie_get_current_buffer_handler, OthersOpen,
      OthersClose, RendererCallocFails, lorie_renderer_destroy,
      lorie_renderer_damage_surface, UsesFreedMemory, fdVars, surfaceVars, vars
<1> QED BY <1>2, <1>3, AttachReceives, WindowReceives DEF Next

\* The renderer implements what LorieViewer, too, is shown to implement: numbers
\* that are reused and sizes that overflow make no difference to which descriptor
\* is held, closed or lost.
THEOREM RendererReceives == Spec => ReceivesBuffers
<1>1. Init => Received!Init /\ NoBufferYet
  BY DEF Init, Received!Init, NoBufferYet
<1> QED BY <1>1, StepReceives, NoBufferYetStays, RInvariance, PTL
    DEF Spec, ReceivesBuffers, Received!Spec

=============================================================================
