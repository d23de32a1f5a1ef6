------------------------------ MODULE Camera2D ------------------------------
(***************************************************************************)
(* Camera2D (draw/Camera2D.cpp): the matrix is computed again in update()   *)
(* when something has changed; zooming moves the camera within a range,     *)
(* which setScale() and setPosition() do not look at.  A matrix is what it  *)
(* was computed from.                                                       *)
(***************************************************************************)
EXTENDS Integers

CONSTANTS
  Screens,  \* sizes of the screen
  Positions,   \* x and y of the camera
  Heights,  \* its z: scales, and 0
  ScaleRanges,   \* [least, most]: ranges of the scale
  Zooms     \* amounts of zoom

ASSUME CameraAssumption ==
  /\ Heights \subseteq Int /\ 0 \in Heights /\ Zooms \subseteq Nat
  /\ \A r \in ScaleRanges : r.least \in Heights /\ r.most \in Heights /\ r.least <= r.most

VARIABLES camera
\* screen, place, height, scale, range, changed (m_hasChanged) and matrix; resized:
\* init() was called since the matrix was computed; zoomed: the last call was a zoom

CameraInit ==
  \E s \in Screens, r \in ScaleRanges, p \in Positions :
    camera = [screen |-> s, place |-> p, height |-> 0, scale |-> r.least, range |-> r,
              changed |-> TRUE, matrix |-> <<>>, resized |-> FALSE, zoomed |-> FALSE]

Projection(c) == <<c.screen, c.place, c.height>>

\* init() does not say that anything has changed.
InitCamera(s) == camera' = [camera EXCEPT !.screen = s, !.resized = TRUE, !.zoomed = FALSE]

\* Mutation of UpdateCamera: the flag is cleared, and nothing is computed.
LateUpdateCamera ==
  camera' = IF camera.changed THEN [camera EXCEPT !.changed = FALSE, !.zoomed = FALSE] ELSE camera

UpdateCamera ==
  camera' = IF camera.changed
            THEN [camera EXCEPT !.changed = FALSE, !.matrix = Projection(camera), !.resized = FALSE, !.zoomed = FALSE]
            ELSE camera

\* Of three coordinates or of two, which puts the camera at height 0.
SetPosition(p, z) == camera' = [camera EXCEPT !.place = p, !.height = z, !.changed = TRUE, !.zoomed = FALSE]
SetScale(z) == camera' = [camera EXCEPT !.scale = z, !.height = z, !.changed = TRUE, !.zoomed = FALSE]
SetRange(r) == camera' = [camera EXCEPT !.range = r, !.zoomed = FALSE]

\* Mutation of Clamped: only the upper end is looked at.
HalfClamped(z, r) == IF z >= r.most THEN r.most ELSE z

Clamped(z, r) == IF z <= r.least THEN r.least ELSE IF z >= r.most THEN r.most ELSE z

\* tryZoom(): m_scale stays, so that isBoxInView() and convertScreenToWorld()
\* go on with the old one.
TryZoom(v) ==
  camera' = [camera EXCEPT !.height = Clamped(@ + v, camera.range), !.changed = TRUE, !.zoomed = TRUE]

CameraNext ==
  \/ UpdateCamera
  \/ \E s \in Screens : InitCamera(s)
  \/ \E p \in Positions, z \in Heights : SetPosition(p, z)
  \/ \E z \in Heights : SetScale(z)
  \/ \E r \in ScaleRanges : SetRange(r)
  \/ \E v \in Zooms : TryZoom(v) \/ TryZoom(-v)

-----------------------------------------------------------------------------

\* A matrix that update() would leave is that of the camera, unless init() gave
\* the camera another screen.
MatrixIsCurrent == ~camera.changed /\ ~camera.resized => camera.matrix = Projection(camera)

\* Wherever the camera was, a zoom brings it into the range.
ZoomEndsInRange == camera.zoomed => camera.height \in camera.range.least .. camera.range.most
=============================================================================
