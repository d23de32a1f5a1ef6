--------------------------- MODULE DebugRenderer ---------------------------
(***************************************************************************)
(* DebugRenderer (draw/DebugRenderer.cpp): shapes are added as vertices and *)
(* as pairs of indices, end() puts them into buffers, and render() draws a  *)
(* line for each pair.  A vertex is the shape it belongs to.  Positions,    *)
(* colours and rotation are left out; drawCoordinates() of no points, which *)
(* counts down from zero, is not called.                                    *)
(***************************************************************************)
EXTENDS Integers, Sequences, FiniteSets, FiniteSetsExt, SequencesExt

CONSTANTS
  CircleVerts,  \* NUM_VERTS
  MostPoints,   \* points that drawCoordinates() and drawPath() get
  MostShapes    \* bound of the shapes between two calls of end()

ASSUME DebugAssumption == CircleVerts \in Nat /\ CircleVerts > 2 /\ MostPoints \in Nat /\ MostShapes \in Nat

VARIABLES
  initialized,  \* m_initialized
  verts,        \* m_verts
  indices,      \* m_indices, two for each line
  shapes,       \* what was asked for since the last end(): kind and points
  buffered,     \* the buffers: vertices, indices, and the shapes they are for
  elements,     \* m_numElements
  early,        \* end() was called without buffers
  beyond        \* render() drew more indices than the buffer had

debugVars == <<initialized, verts, indices, shapes, buffered, elements, early, beyond>>

NoBuffers == [verts |-> <<>>, indices |-> <<>>, shapes |-> <<>>]

DebugInit ==
  /\ initialized = FALSE /\ verts = <<>> /\ indices = <<>> /\ shapes = <<>>
  /\ buffered = NoBuffers /\ elements = 0 /\ early = FALSE /\ beyond = FALSE

\* init(): the buffers are made new.
InitDebug ==
  /\ IF initialized THEN UNCHANGED buffered ELSE buffered' = NoBuffers
  /\ initialized' = TRUE
  /\ UNCHANGED <<verts, indices, shapes, elements, early, beyond>>

\* Mutation of Chain: it starts at the first vertex of all.
AbsoluteChain(i, n) == [j \in 1 .. 2 * (n - 1) |-> j \div 2]

\* Lines from vertex i to the n - 1 after it: each line begins where one ends.
Chain(i, n) == [j \in 1 .. 2 * (n - 1) |-> i + (j \div 2)]

\* Mutation of Loop: the last line goes one too far.
OpenLoop(i, n) == Chain(i, n) \o <<i + n - 1, i + n>>

Loop(i, n) == Chain(i, n) \o <<i + n - 1, i>>

Vertices(shape, n) == [k \in 1 .. n |-> shape]

\* The number that the next shape gets.
Fresh == Len(shapes) + 1

Draw(new, vs, is) ==
  /\ Len(shapes) < MostShapes
  /\ shapes' = shapes \o new
  /\ verts' = verts \o vs /\ indices' = indices \o is
  /\ UNCHANGED <<initialized, buffered, elements, early, beyond>>

Shape(kind, n) == [kind |-> kind, points |-> n]

drawBox == Draw(<<Shape("loop", 4)>>, Vertices(Fresh, 4), Loop(Len(verts), 4))
drawCircle == Draw(<<Shape("loop", CircleVerts)>>, Vertices(Fresh, CircleVerts), Loop(Len(verts), CircleVerts))
drawLine == Draw(<<Shape("chain", 2)>>, Vertices(Fresh, 2), Chain(Len(verts), 2))

\* Two coordinates are the centre and the radius of a circle.
drawCoordinates(n) ==
  IF n = 2 THEN drawCircle
  ELSE Draw(<<Shape("loop", n)>>, Vertices(Fresh, n), Loop(Len(verts), n))

\* A path's vertices come first, then a circle around each, then its lines.
DrawPathLines(n) ==
  LET circle(k) == Len(verts) + n + (k - 1) * CircleVerts
  IN  Draw(<<Shape("chain", n)>> \o [k \in 1 .. n |-> Shape("loop", CircleVerts)],
           Vertices(Fresh, n) \o FlattenSeq([k \in 1 .. n |-> Vertices(Fresh + k, CircleVerts)]),
           FlattenSeq([k \in 1 .. n |-> Loop(circle(k), CircleVerts)]) \o Chain(Len(verts), n))

\* Mutation of EndShapes: the vertices are not cleared.
KeepingEndShapes ==
  /\ buffered' = IF initialized THEN [verts |-> verts, indices |-> indices, shapes |-> shapes] ELSE buffered
  /\ elements' = Len(indices)
  /\ indices' = <<>> /\ shapes' = <<>>
  /\ early' = (early \/ ~initialized)
  /\ UNCHANGED <<initialized, verts, beyond>>

\* end(): without init() there are no buffers to write to.
EndShapes ==
  /\ buffered' = IF initialized THEN [verts |-> verts, indices |-> indices, shapes |-> shapes] ELSE buffered
  /\ elements' = Len(indices)
  /\ indices' = <<>> /\ verts' = <<>> /\ shapes' = <<>>
  /\ early' = (early \/ ~initialized)
  /\ UNCHANGED <<initialized, beyond>>

\* All three forms of render(); the one with a new position leaves it out.
RenderDebug ==
  /\ initialized
  /\ beyond' = (beyond \/ elements > Len(buffered.indices))
  /\ UNCHANGED <<initialized, verts, indices, shapes, buffered, elements, early>>

\* Mutation of DisposeDebug: the number of elements stays.
KeepingDisposeDebug ==
  /\ initialized' = FALSE /\ verts' = <<>> /\ indices' = <<>> /\ shapes' = <<>>
  /\ buffered' = NoBuffers
  /\ UNCHANGED <<elements, early, beyond>>

DisposeDebug ==
  /\ initialized' = FALSE /\ verts' = <<>> /\ indices' = <<>> /\ shapes' = <<>>
  /\ buffered' = NoBuffers /\ elements' = 0
  /\ UNCHANGED <<early, beyond>>

DebugNext ==
  \/ InitDebug \/ drawBox \/ drawCircle \/ drawLine
  \/ \E n \in 1 .. MostPoints : drawCoordinates(n)
  \/ \E n \in 0 .. MostPoints : DrawPathLines(n)
  \/ EndShapes \/ RenderDebug \/ DisposeDebug

-----------------------------------------------------------------------------

Line(is, k) == <<is[2 * k - 1], is[2 * k]>>
LineNumbers(is) == 1 .. Len(is) \div 2

\* The lines of a shape among those of vertices vs and indices is.
LinesOf(vs, is, shape) == {k \in LineNumbers(is) : vs[Line(is, k)[1] + 1] = shape}

\* However shapes are added, and in whatever order, each line joins two vertices
\* of one shape, and none lies beyond the vertices.
LinesWithinShape ==
  \A k \in LineNumbers(indices) :
    LET l == Line(indices, k)
    IN  l[1] < Len(verts) /\ l[2] < Len(verts) /\ verts[l[1] + 1] = verts[l[2] + 1]

\* A closed shape has a line for each of its points, a path one less: after
\* end() all of them are in the buffers, and nothing of the frame before is.
AllBuffered ==
  \A s \in DOMAIN buffered.shapes :
    /\ Cardinality({v \in DOMAIN buffered.verts : buffered.verts[v] = s}) = buffered.shapes[s].points
    /\ Cardinality(LinesOf(buffered.verts, buffered.indices, s)) =
         IF buffered.shapes[s].kind = "loop" THEN buffered.shapes[s].points
         ELSE Max({0, buffered.shapes[s].points - 1})

\* render() draws more indices than there are only if end() was called before
\* init(): whatever is disposed of and made again.
OnlyEarlyOverreads == beyond => early

\* Every line is drawn, between the vertices of its shape, and none beyond.
ShapesBuffered == LinesWithinShape /\ AllBuffered /\ OnlyEarlyOverreads
=============================================================================
