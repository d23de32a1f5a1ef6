----------------------------- MODULE MCDrawing -----------------------------
(***************************************************************************)
(* The parts of the drawing, each on its own: a behaviour of this instance  *)
(* is that of one of them, the subject, while the others stay as they were  *)
(* made.  What a part needs of another is among its own inputs.             *)
(***************************************************************************)
EXTENDS Renderer2D, Batching, GuiDrawing, FontManager, TextureManager, DebugRenderer, GLSLProgram, Camera2D, Framerate

CONSTANTS grass, wall, tree, odd, rgba16, dxt1, rgba32f, bindless, indirect, t1, t2, s1, s2, e1, e2, r1, a1, debug, gui, v1

VARIABLE subject

\* Static glyphs with some of each kind, long glyphs alone, fast glyphs alone.
Mix(s, l, f) == [static |-> s, long |-> l, fast |-> f]
MCMixes == {Mix(1, 2, 0), Mix(0, 4, 0), Mix(0, 0, 2), Mix(0, 1, 1)}

\* Characters without width, wide ones, a font too wide for any texture, and sizes
\* without padding, of which two rows fill a texture.
Font(w, p, h) == [widths |-> w, padding |-> p, height |-> h]
MCFonts ==
  {Font(<<0, 2, 1, 1>>, 1, 2), Font(<<2, 1, 3, 1, 2, 2>>, 1, 2), Font(<<9, 1, 1, 2>>, 1, 2),
   Font(<<6, 6, 6, 6, 6, 6>>, 1, 3), Font(<<20, 1, 2, 3>>, 1, 2), Font(<<2, 2, 1, 1>>, 0, 2), Font(<<5, 5, 5, 5, 5>>, 0, 4)}
MCTexts == {<<0, 1>>, <<1, Newline, 0, 1>>, <<2, 1, 9>>, <<-3, 3, Newline, Newline, 1>>, <<>>}

\* One element has a part: a slider with its tick.
MCWholeOf == [s \in Parts |-> e1]

MCKindOf == [p \in Images |-> IF p \in {grass, wall} THEN rgba16 ELSE dxt1]
MCTypeOf == [p \in Images |-> CASE p = tree -> "dds" [] p = odd -> "other" [] OTHER -> "png"]
MCExtensions == {<<{}, {bindless, indirect}>>, <<{bindless}>>}
MCHeaders == {[width |-> 8, height |-> 2, levels |-> 5], [width |-> 5, height |-> 3, levels |-> 0]}

MCScaleRanges == {[least |-> 1, most |-> 3], [least |-> 2, most |-> 2]}

vars == <<subject, rendererVars, batchingVars, drawingVars, fontVars, textureVars, debugVars, programVars, camera, frameVars>>

Init ==
  /\ subject \in {"renderer", "batching", "gui", "font", "textures", "shapes", "programs", "camera", "frames"}
  /\ RendererInit
  /\ subject # "renderer" => mix = Mix(1, 2, 0)
  /\ BatchingInit
  /\ subject # "batching" => pending = <<>>
  /\ DrawingInit
  /\ subject # "gui" => \A x \in Elements : element[x].textured
  /\ FontInit
  /\ subject # "font" => font = Font(<<0, 2, 1, 1>>, 1, 2) /\ wider
  /\ TexturesInit
  /\ subject # "textures" => listed = <<{bindless}>>
  /\ DebugInit
  /\ ProgramInit
  /\ CameraInit
  /\ subject # "camera" => camera.screen = "small" /\ camera.place = "here" /\ camera.range.least = 1
  /\ FrameInit

Moves(name, A, v) == IF subject = name THEN A ELSE UNCHANGED v

Next ==
  /\ UNCHANGED subject
  /\ Moves("renderer", RendererNext, rendererVars)
  /\ Moves("batching", BatchingNext, batchingVars)
  /\ Moves("gui", DrawingNext, drawingVars)
  /\ Moves("font", FontNext, fontVars)
  /\ Moves("textures", TexturesNext, textureVars)
  /\ Moves("shapes", DebugNext, debugVars)
  /\ Moves("programs", ProgramNext, programVars)
  /\ Moves("camera", CameraNext, camera)
  /\ Moves("frames", FrameNext, frameVars)

Spec == Init /\ [][Next]_vars

\* What each frame depends on: the matrix is that of the camera, a zoom ends in
\* its range, no frame is too short and the rate is that of the last frames.
ViewAndPace == MatrixIsCurrent /\ ZoomEndsInRange /\ AverageOfLast /\ FramesAreLimited
=============================================================================
