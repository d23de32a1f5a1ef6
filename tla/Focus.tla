------------------------------- MODULE Focus -------------------------------
(***************************************************************************)
(* What the GUI promises about the keyboard: one object at most has the    *)
(* focus, keys are taken only while it is edited, and what is typed is     *)
(* drafted for that object and for no other.                               *)
(***************************************************************************)
CONSTANTS Objects, Nobody

VARIABLES focus, typing, draft  \* draft: whose text the typed string continues

focusVars == <<focus, typing, draft>>

FocusInit == focus = Nobody /\ typing = FALSE /\ draft = Nobody

\* A click gives an object the focus; its text, if it shows one, is the draft.
Take(o) ==
  /\ focus' = o
  /\ typing' \in BOOLEAN
  /\ draft' \in {o, Nobody}

Type ==
  /\ typing
  /\ draft' = focus
  /\ UNCHANGED <<focus, typing>>

Release ==
  /\ typing
  /\ focus' = Nobody /\ typing' = FALSE /\ draft' = Nobody

\* The GUI starts anew: keys are no longer taken.
Restart ==
  /\ typing' = FALSE
  /\ UNCHANGED <<focus, draft>>

FocusNext == Type \/ Release \/ Restart \/ \E o \in Objects : Take(o)

FocusSpec == FocusInit /\ [][FocusNext]_focusVars
=============================================================================
