------------------------------ MODULE TickBox ------------------------------
(***************************************************************************)
(* gui/TickBox.cpp: what the box is, which texture it points to (texture)  *)
(* and which one is drawn (address: m_textureAddress follows m_texture     *)
(* only in an update() that was asked for).                                *)
(***************************************************************************)

VARIABLES
  tick,      \* ticked, texture, hoverTexture (there is one), address, needsUpdate
  unasked,   \* the texture was chosen without asking for the drawing
  tickOver,  \* e_hover is the box
  tickFault  \* a null texture was read

tickVars == <<tick, unasked, tickOver, tickFault>>

Face(ticked) == IF ticked THEN "ticked" ELSE "unticked"

\* A box of a configuration file, or of addTickBox(): one with a texture of its own
\* gets none to hover with; one without gets the default textures, or none at all
\* if these are switched off or the game added the box.  The constructor's update()
\* came before, so the drawing waits until a setting asks for it.
TickInit ==
  /\ \E ticked, asks \in BOOLEAN, given \in {"own", "default", "none"} :
       /\ tick = [ticked |-> ticked, needsUpdate |-> given = "own" \/ asks,
                  hoverTexture |-> given = "default", address |-> "none",
                  texture |-> IF given = "default" THEN Face(ticked) ELSE given]
       /\ unasked = (given = "default")
  /\ tickOver = FALSE /\ tickFault = FALSE

\* Mutation of HoverTick: there is no texture to hover with.
BareHoverTick ==
  /\ tickOver' = TRUE
  /\ tick' = [tick EXCEPT !.texture = "none"]
  /\ UNCHANGED <<unasked, tickFault>>

HoverTick ==
  /\ tickOver' = TRUE
  /\ tick' = [tick EXCEPT !.texture = IF tick.hoverTexture THEN "hover" ELSE "none"]
  /\ UNCHANGED <<unasked, tickFault>>

\* setTicked() asks for no update.  A box without the default textures may have been
\* given the ticked and the unticked one.
SetTicked(ticked) ==
  /\ \E texture \in {Face(ticked)} \cup (IF tick.hoverTexture THEN {} ELSE {"none"}) :
       tick' = [tick EXCEPT !.ticked = ticked, !.texture = texture]
  /\ unasked' = TRUE
  /\ UNCHANGED tickFault

ClickTick == tickOver' = TRUE /\ SetTicked(~tick.ticked)

LeaveTick == tickOver' = FALSE /\ UNCHANGED <<tick, unasked, tickFault>>

\* Mutation of ResetTick: the drawing is not asked for.
StillResetTick(t) == [t EXCEPT !.texture = Face(t.ticked)]

ResetTick(t) == [t EXCEPT !.texture = Face(t.ticked), !.needsUpdate = TRUE]

\* update(): a box the mouse has left takes its hover texture off, but not if it
\* is ticked.
UpdateTick ==
  /\ ~tickFault
  /\ IF tick.needsUpdate
     THEN /\ tick' = [tick EXCEPT !.needsUpdate = FALSE,
                        !.address = IF tick.texture = "none" THEN @ ELSE tick.texture]
          /\ unasked' = FALSE
          /\ UNCHANGED tickFault
     ELSE IF ~tickOver /\ (tick.texture = "none" \/ ~tick.hoverTexture)
     THEN tickFault' = TRUE /\ UNCHANGED <<tick, unasked>>
     ELSE /\ tick' = IF ~tickOver /\ tick.texture = "hover" /\ ~tick.ticked
                     THEN ResetTick(tick) ELSE tick
          /\ UNCHANGED <<unasked, tickFault>>
  /\ UNCHANGED tickOver

\* forceUpdate(), setCursor(): the frame was dragged, another object is touched.
ForceTick == tick' = [tick EXCEPT !.needsUpdate = TRUE] /\ UNCHANGED <<unasked, tickOver, tickFault>>

\* setTicked() and setTexture(), called by the game.
GameTicks(ticked) == SetTicked(ticked) /\ UNCHANGED tickOver

GameTextures ==
  /\ tick' = [tick EXCEPT !.texture = "own", !.needsUpdate = TRUE]
  /\ UNCHANGED <<unasked, tickOver, tickFault>>

TickNext ==
  \/ UpdateTick
  \/ ~tickFault /\ \/ HoverTick \/ ClickTick \/ LeaveTick \/ ForceTick \/ GameTextures
                   \/ \E ticked \in BOOLEAN : GameTicks(ticked)

\* A null texture is read only of a tick box that has none to hover with: it was
\* given a texture of its own, or neither one nor the default ones.  With the
\* default textures every texture is there.
FaultsWithoutHover == tickFault => ~tick.hoverTexture

\* The box shows a texture the game gave it.
WearsOwn == tick.texture = "own"

\* The mouse left a ticked box, which keeps its hover texture.
KeepsHover == tick.texture = "hover" /\ tick.ticked

\* The right texture is there and nobody asked for its drawing: a box that was
\* ticked or unticked by a click stays drawn as it was.
StaysAsItWas == tick.texture = Face(tick.ticked) /\ unasked /\ ~tick.needsUpdate

\* A box the mouse has left is drawn as what it is in the end, ticked or unticked,
\* except in the three cases above, or if a null texture is read.
HoverEnds ==
  ~tickOver ~> \/ tick.address = Face(tick.ticked)
               \/ WearsOwn \/ KeepsHover \/ StaysAsItWas
               \/ tickOver \/ tickFault

=============================================================================
