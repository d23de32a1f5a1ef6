----------------------------- MODULE GuiDrawing -----------------------------
(***************************************************************************)
(* GUIRenderer (gui/GUIRenderer.cpp): the glyphs of the interface.  An      *)
(* element or a sub-element (a row of an open list, the tick of a slider,   *)
(* an arrow of a scroll box) gets a glyph the first time it is drawn and    *)
(* keeps the pointer; the glyphs belong to the renderer's draw path, from   *)
(* which none is ever taken out.                                            *)
(***************************************************************************)
EXTENDS Naturals, Sequences, FiniteSets

CONSTANTS Elements,   \* of the file that is shown
          Rows,       \* of a popout or context menu, icons of rows included
          Parts,      \* ticks of sliders and arrows of scroll boxes
          WholeOf,    \* the element a part is of
          Places,     \* on the screen
          MostDrawn   \* the bound: glyphs in the draw path

ASSUME GuiDrawingAssumption ==
  /\ IsFiniteSet(Elements) /\ IsFiniteSet(Rows) /\ IsFiniteSet(Parts)
  /\ Elements \cap (Rows \cup Parts) = {} /\ Rows \cap Parts = {}
  /\ WholeOf \in [Parts -> Elements]
  /\ MostDrawn \in Nat

VARIABLES
  running,  \* m_isRunning; e_renderer exists
  element,  \* of each element: whether it exists, is visible, has a texture, its place and its glyph
  sub,      \* of each sub-element: the same
  drawPath, \* m_drawPath's glyphs: whose each was, and its position
  moved     \* something has changed since the last drawing

drawingVars == <<running, element, sub, drawPath, moved>>

NoGlyph == 0
Gone == [exists |-> FALSE, visible |-> FALSE, textured |-> FALSE, place |-> CHOOSE p \in Places : TRUE, glyph |-> NoGlyph]
Subs == Rows \cup Parts
Things == Elements \cup Subs
Thing(x) == IF x \in Elements THEN element[x] ELSE sub[x]

DrawingInit ==
  /\ running = TRUE
  /\ element \in [Elements -> {[Gone EXCEPT !.exists = TRUE, !.visible = TRUE, !.textured = t] : t \in BOOLEAN}]
  /\ sub = [s \in Subs |-> Gone]
  /\ drawPath = <<>>
  /\ moved = TRUE

MoveElement(e, p) ==
  /\ element[e].exists
  /\ element' = [element EXCEPT ![e].place = p]
  /\ moved' = TRUE
  /\ UNCHANGED <<running, sub, drawPath>>

PartsOf(e) == {s \in Parts : WholeOf[s] = e}

\* setVisible(): the glyph of an element that is hidden is left as it is, and those
\* of its parts, which are drawn after it.
SetVisible(e, val) ==
  /\ element[e].exists
  /\ element' = [element EXCEPT ![e].visible = val]
  /\ sub' = [s \in Subs |-> IF s \in PartsOf(e) /\ sub[s].exists THEN [sub[s] EXCEPT !.visible = val] ELSE sub[s]]
  /\ moved' = TRUE
  /\ UNCHANGED <<running, drawPath>>

\* update() of a slider or a scroll box: it makes the parts that are missing, with
\* the texture it has for them, and moves the others.
UpdateParts(e, p, textured) ==
  /\ element[e].exists
  /\ sub' = [s \in Subs |->
       IF s \notin PartsOf(e) THEN sub[s]
       ELSE IF sub[s].exists THEN [sub[s] EXCEPT !.place = p, !.textured = @ \/ textured]
       ELSE [exists |-> TRUE, visible |-> element[e].visible, textured |-> textured, place |-> p, glyph |-> NoGlyph]]
  /\ moved' = TRUE
  /\ UNCHANGED <<running, element, drawPath>>

\* destroySliderTick(), of most settings of a slider, and setNoButtons(): the parts
\* are deleted, their glyphs stay in the draw path.
DestroyParts(e) ==
  /\ \E s \in PartsOf(e) : sub[s].exists
  /\ sub' = [s \in Subs |-> IF s \in PartsOf(e) THEN Gone ELSE sub[s]]
  /\ moved' = TRUE
  /\ UNCHANGED <<running, element, drawPath>>

\* A list or a menu opens: SubElements with a texture and no glyph.
OpenRows(p) ==
  /\ running /\ \A r \in Rows : ~sub[r].exists
  /\ sub' = [s \in Subs |->
       IF s \in Rows
       THEN [exists |-> TRUE, visible |-> TRUE, textured |-> TRUE, place |-> p, glyph |-> NoGlyph]
       ELSE sub[s]]
  /\ moved' = TRUE
  /\ UNCHANGED <<running, element, drawPath>>

\* It closes: ~GUIObject deletes the rows, their glyphs stay in the draw path.
CloseRows ==
  /\ \E r \in Rows : sub[r].exists
  /\ sub' = [s \in Subs |-> IF s \in Rows THEN Gone ELSE sub[s]]
  /\ moved' = TRUE
  /\ UNCHANGED <<running, element, drawPath>>

\* Mutation of NeedsGlyph: nobody asks whether there is one.
FreshNeedsGlyph(x) == Thing(x).exists /\ Thing(x).visible /\ Thing(x).textured

NeedsGlyph(x) ==
  Thing(x).exists /\ Thing(x).visible /\ Thing(x).textured /\ Thing(x).glyph = NoGlyph

\* Mutation of Followed: a glyph stays where it was made.
StillFollowed(x, i) == drawPath[i].place

\* The position of glyph i after thing x is drawn again.
Followed(x, i) == IF Thing(x).visible /\ Thing(x).textured THEN Thing(x).place ELSE drawPath[i].place

\* The glyphs that targetedDraw() makes in this frame, for the things of order.
Made(order) == [n \in DOMAIN order |-> [owner |-> order[n], place |-> Thing(order[n]).place]]

\* The draw path after drawGUI(), which goes through the things in any order.
Redrawn(order) ==
  [i \in DOMAIN drawPath |->
     IF \E x \in Things : Thing(x).glyph = i
     THEN [drawPath[i] EXCEPT !.place = Followed(CHOOSE x \in Things : Thing(x).glyph = i, i)]
     ELSE drawPath[i]] \o Made(order)

\* The glyph that x has after drawGUI().
Given(order, x) ==
  IF \E n \in DOMAIN order : order[n] = x
  THEN Len(drawPath) + (CHOOSE n \in DOMAIN order : order[n] = x)
  ELSE Thing(x).glyph

\* renderGUI() of a window that is shown.
RenderGUI ==
  /\ running
  /\ LET new == {x \in Things : NeedsGlyph(x)} IN
     /\ Len(drawPath) + Cardinality(new) <= MostDrawn
     /\ \E order \in {o \in [1 .. Cardinality(new) -> new] : \A m, n \in DOMAIN o : o[m] = o[n] => m = n} :
          /\ drawPath' = Redrawn(order)
          /\ element' = [e \in Elements |-> [element[e] EXCEPT !.glyph = Given(order, e)]]
          /\ sub' = [s \in Subs |-> [sub[s] EXCEPT !.glyph = Given(order, s)]]
  /\ moved' = FALSE
  /\ UNCHANGED running

\* Mutation of DisposeDrawing: the renderer goes, the frames stay.
KeepingDisposeDrawing ==
  /\ running
  /\ running' = FALSE
  /\ drawPath' = <<>>
  /\ moved' = TRUE
  /\ UNCHANGED <<element, sub>>

\* GUI::dispose(): the frames and the menu, then the renderer with its glyphs.
DisposeDrawing ==
  /\ running
  /\ running' = FALSE
  /\ element' = [e \in Elements |-> Gone]
  /\ sub' = [s \in Subs |-> Gone]
  /\ drawPath' = <<>>
  /\ moved' = TRUE

\* GUI::init() and buildUI() of a file.
StartDrawing ==
  /\ ~running
  /\ running' = TRUE
  /\ element' \in [Elements -> {[Gone EXCEPT !.exists = TRUE, !.visible = TRUE, !.textured = t] : t \in BOOLEAN}]
  /\ moved' = TRUE
  /\ UNCHANGED <<sub, drawPath>>

DrawingNext ==
  \/ \E e \in Elements, p \in Places : MoveElement(e, p)
  \/ \E e \in Elements, val \in BOOLEAN : SetVisible(e, val)
  \/ \E e \in Elements, p \in Places, textured \in BOOLEAN : UpdateParts(e, p, textured)
  \/ \E e \in Elements : DestroyParts(e)
  \/ \E p \in Places : OpenRows(p)
  \/ CloseRows
  \/ RenderGUI
  \/ DisposeDrawing \/ StartDrawing

-----------------------------------------------------------------------------

\* No two things share a glyph, and nobody holds the pointer of a deleted one:
\* the renderer is deleted after all that points into its draw path.
GlyphsAreAlive ==
  \A x \in Things : Thing(x).glyph # NoGlyph =>
    /\ Thing(x).glyph \in DOMAIN drawPath
    /\ drawPath[Thing(x).glyph].owner = x

\* Once drawn, what is visible and has a texture is drawn where it is.
DrawnWhereItIs ==
  ~moved => \A x \in Things : Thing(x).exists /\ Thing(x).visible /\ Thing(x).textured =>
    Thing(x).glyph # NoGlyph /\ drawPath[Thing(x).glyph].place = Thing(x).place

\* An element is never drawn twice.  What is drawn for nobody was a sub-element that
\* has been deleted: a row of a closed list, or the tick or an arrow that its slider
\* or scroll box has made anew since and that is drawn twice for good, the older
\* glyph before the one it has now.
GhostsWereParts ==
  \A i \in DOMAIN drawPath : LET x == drawPath[i].owner IN
    \/ Thing(x).glyph = i
    \/ x \in Subs /\ (Thing(x).glyph = NoGlyph \/ i < Thing(x).glyph)

\* The draw path of the GUI is that of its elements, and of the sub-elements that
\* were deleted.
GlyphsMatchElements == GlyphsAreAlive /\ DrawnWhereItIs /\ GhostsWereParts
=============================================================================
