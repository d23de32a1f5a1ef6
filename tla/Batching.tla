------------------------------ MODULE Batching ------------------------------
(***************************************************************************)
(* The loop of Renderer2D::renderPrep() (draw/Renderer2D.cpp) that turns    *)
(* the glyphs of an updated draw path into draw commands, and what the card *)
(* makes of the commands: instance j of a command draws the vertices from   *)
(* firstVertex on with the draw ID at baseInstance + j, by which the shader *)
(* finds the transform and the texture.  Six vertices are one glyph's, and  *)
(* are named here by its shape; a position is left to its transform.        *)
(***************************************************************************)
EXTENDS Naturals, Sequences, FiniteSets, SequencesExt

CONSTANTS Textures,   \* texture addresses
          Shapes,     \* dimensions and texture coordinates
          MostGlyphs  \* of a draw path

ASSUME BatchingAssumption == MostGlyphs \in Nat

BaseIndexCount == 6

VARIABLES
  pending,  \* glyphs of the path, each a texture and a shape, not yet gone through
  done,     \* those gone through, in the order of the loop
  commands, \* drawCommands
  vertices, \* the shape of each glyph, six vertices each
  addresses,\* textureAddresses
  inc       \* the commands made so far

batchingVars == <<pending, done, commands, vertices, addresses, inc>>

Path == [texture : Textures, shape : Shapes]

\* The glyphs sorted: compareFrontToBack() compares their addresses, so that the
\* order is any.  Every glyph has a texture: createGlyph() is not called without.
BatchingInit ==
  /\ pending \in BoundedSeq(Path, MostGlyphs)
  /\ done = <<>> /\ commands = <<>> /\ vertices = <<>> /\ addresses = <<>>
  /\ inc = 0

\* Mutation of SameAsLast: the texture is not compared.
ShapeAsLast(g) == done # <<>> /\ g.shape = Last(done).shape

\* Mutation of SameAsLast: the shape is not compared.
TextureAsLast(g) == done # <<>> /\ g.texture = Last(done).texture

\* activeTexture and preVerts are those of the glyph before.
SameAsLast(g) == done # <<>> /\ g.texture = Last(done).texture /\ g.shape = Last(done).shape

\* Mutation of NewCommand: instances count from the command's own number.
CountedNewCommand(i) ==
  [vertexCount |-> BaseIndexCount, instanceCount |-> 1, firstVertex |-> inc * BaseIndexCount, baseInstance |-> inc]

\* Mutation of NewCommand: the commands are counted first.
ShiftedNewCommand(i) ==
  [vertexCount |-> BaseIndexCount, instanceCount |-> 1, firstVertex |-> (inc + 1) * BaseIndexCount, baseInstance |-> i]

\* The command of glyph i.
NewCommand(i) ==
  [vertexCount |-> BaseIndexCount, instanceCount |-> 1, firstVertex |-> inc * BaseIndexCount, baseInstance |-> i]

\* One turn of the loop: one more instance of the command before, or a new one.
Batch ==
  /\ pending # <<>>
  /\ LET g == Head(pending) IN
       /\ IF SameAsLast(g)
          THEN /\ commands' = [commands EXCEPT ![Len(commands)].instanceCount = @ + 1]
               /\ addresses' = Append(addresses, Last(addresses))
               /\ UNCHANGED inc
          ELSE /\ commands' = Append(commands, NewCommand(Len(done)))
               /\ addresses' = Append(addresses, g.texture)
               /\ inc' = inc + 1
       /\ vertices' = Append(vertices, g.shape)
       /\ done' = Append(done, g)
       /\ pending' = Tail(pending)

\* clear(), and the next update of the path.
BatchAgain ==
  /\ pending = <<>>
  /\ pending' \in BoundedSeq(Path, MostGlyphs)
  /\ done' = <<>> /\ commands' = <<>> /\ vertices' = <<>> /\ addresses' = <<>>
  /\ inc' = 0

BatchingNext == Batch \/ BatchAgain

-----------------------------------------------------------------------------

\* The instances that command c draws, by draw ID.
InstancesOf(c) == c.baseInstance .. c.baseInstance + c.instanceCount - 1

\* The shape that command c draws.
ShapeOf(c) == vertices[(c.firstVertex \div BaseIndexCount) + 1]

\* Every glyph is drawn by exactly one command.
DrawnOnce ==
  \A i \in 0 .. Len(done) - 1 : Cardinality({c \in DOMAIN commands : i \in InstancesOf(commands[c])}) = 1

\* It is drawn with its own texture, also where its command is another glyph's.
OwnTexture == \A i \in DOMAIN done : addresses[i] = done[i].texture

\* A command that is made before any two glyphs share one draws all its glyphs
\* in their own shape.  After that it need not: firstVertex counts commands,
\* while the vertices of every glyph are stored.
OwnShapeUntilMerged ==
  \A c \in DOMAIN commands :
    (\A d \in 1 .. c - 1 : commands[d].instanceCount = 1) =>
      \A i \in InstancesOf(commands[c]) : ShapeOf(commands[c]) = done[i + 1].shape

\* A command never draws vertices that no glyph stored.
DrawsStoredVertices ==
  \A c \in DOMAIN commands : commands[c].firstVertex + commands[c].vertexCount <= Len(vertices) * BaseIndexCount

\* The commands draw each glyph once, from vertices there are, with its texture
\* and, until two are merged, its shape.
CommandsDrawGlyphs == DrawnOnce /\ OwnTexture /\ OwnShapeUntilMerged /\ DrawsStoredVertices
=============================================================================
