----------------------------- MODULE PushButton -----------------------------
(***************************************************************************)
(* gui/PushButton.cpp: the textures of a button the mouse comes to,        *)
(* presses and leaves.  As in TickBox, address is what is drawn.           *)
(***************************************************************************)

VARIABLES
  push,     \* loaded (base, click and hover texture), texture, address, needsUpdate, pressed
  pushOver  \* e_hover is the button

pushVars == <<push, pushOver>>

\* A button of a configuration file: the default textures, or one of its own and
\* nothing else.
PushInit ==
  /\ \E own \in BOOLEAN :
       push = [loaded |-> ~own, texture |-> IF own THEN "own" ELSE "none", address |-> "none",
               needsUpdate |-> TRUE, pressed |-> FALSE]
  /\ pushOver = FALSE

\* hasCollision()
TouchPush(texture) ==
  /\ pushOver' = TRUE
  /\ push' = [push EXCEPT !.texture = IF push.loaded THEN texture ELSE "none",
                          !.needsUpdate = TRUE, !.pressed = @ \/ texture = "click"]

LeavePush == pushOver' = FALSE /\ UNCHANGED push

\* m_timeTilBaseTexture runs out in some update; the drawing is not asked for.
Release(p, runsOut) ==
  IF p.pressed /\ runsOut
  THEN [p EXCEPT !.pressed = FALSE, !.texture = IF p.loaded THEN "base" ELSE "none"]
  ELSE p

\* Mutation of Updated: what the mouse has left is not looked at again.
StillUpdated(p, over) ==
  IF p.needsUpdate
  THEN [p EXCEPT !.needsUpdate = FALSE, !.address = IF p.texture = "none" THEN @ ELSE p.texture]
  ELSE IF ~over /\ ~p.loaded THEN [p EXCEPT !.loaded = TRUE, !.needsUpdate = TRUE]
  ELSE p

\* defaultTextures() loads what is missing, once the mouse is elsewhere.
Updated(p, over) ==
  IF p.needsUpdate
  THEN [p EXCEPT !.needsUpdate = FALSE, !.address = IF p.texture = "none" THEN @ ELSE p.texture]
  ELSE IF over THEN p
  ELSE IF ~p.loaded THEN [p EXCEPT !.loaded = TRUE, !.needsUpdate = TRUE]
  ELSE IF p.texture # "base"
  THEN [p EXCEPT !.texture = "base", !.address = "base", !.needsUpdate = TRUE]
  ELSE p

UpdatePush ==
  /\ \E runsOut \in BOOLEAN : push' = Release(Updated(push, pushOver), runsOut)
  /\ UNCHANGED pushOver

ForcePush == push' = [push EXCEPT !.needsUpdate = TRUE] /\ UNCHANGED pushOver

PushNext ==
  \/ TouchPush("hover") \/ TouchPush("click") \/ LeavePush
  \/ UpdatePush \/ ForcePush

\* The press ran out after the last drawing: update() finds the base texture set
\* and draws nothing, and the button goes on looking pressed.
StaysPressed == push.texture = "base" /\ push.address # "base" /\ ~push.needsUpdate

\* A push button the mouse has left is drawn in its base texture in the end,
\* whatever it was built with, unless it stays pressed.
PushReturns == ~pushOver ~> (push.address = "base" \/ pushOver \/ StaysPressed)

=============================================================================
