----------------------------- MODULE RadioGroup -----------------------------
(***************************************************************************)
(* gui/RadioButton.cpp: the buttons of one group.                          *)
(***************************************************************************)
EXTENDS Naturals, FiniteSets

CONSTANTS Radios,      \* the buttons of the group
          RadioOrder   \* their places in m_radiobuttons

ASSUME RadioAssumption == IsFiniteSet(Radios) /\ RadioOrder \in [Radios -> Nat]

VARIABLES
  radio,   \* of each button: ticked, needsUpdate, address (the texture drawn)
  clicked  \* a button was clicked since the game last set one itself

radioVars == <<radio, clicked>>

RadioFace(ticked) == IF ticked THEN "ticked" ELSE "unticked"

\* The file ticks its buttons one by one, two if it says so.
RadioInit ==
  /\ \E ticked \in SUBSET Radios, asks \in BOOLEAN :
       radio = [b \in Radios |-> [ticked |-> b \in ticked, address |-> "none",
                                  needsUpdate |-> asks \/ b \in ticked]]
  /\ clicked = FALSE

\* Mutation of SetRadio: the drawing is not asked for.
StillSetRadio(r, ticked) == [r EXCEPT !.ticked = ticked]

\* setTicked()
SetRadio(r, ticked) == [r EXCEPT !.ticked = ticked, !.needsUpdate = TRUE]

\* Mutation of TickButton: the others are left as they are.
LoneTickButton(b) == radio' = [radio EXCEPT ![b] = SetRadio(@, TRUE)]

\* RadioGroup::tickButton()
TickButton(b) == radio' = [r \in Radios |-> SetRadio(radio[r], r = b)]

ClickRadio(b) == TickButton(b) /\ clicked' = TRUE

\* setTicked() of one button, by the game, passes the group by.
GameTicksRadio(b, ticked) ==
  /\ radio' = [radio EXCEPT ![b] = SetRadio(@, ticked)]
  /\ clicked' = FALSE

UpdateRadios ==
  /\ radio' = [b \in Radios |->
                 IF radio[b].needsUpdate
                 THEN [radio[b] EXCEPT !.needsUpdate = FALSE, !.address = RadioFace(radio[b].ticked)]
                 ELSE radio[b]]
  /\ UNCHANGED clicked

\* getTicked(): the first in the list.
GetTicked ==
  CHOOSE b \in Radios :
    radio[b].ticked /\ \A o \in Radios : radio[o].ticked => RadioOrder[b] <= RadioOrder[o]

RadioNext ==
  \/ UpdateRadios
  \/ \E b \in Radios : ClickRadio(b)
  \/ \E b \in Radios, t \in BOOLEAN : GameTicksRadio(b, t)

\* After a click exactly one button of the group is ticked, even if the file or
\* the game had ticked two, and it is the one the group reports.
OneTickedAfterClick ==
  clicked => \E b \in Radios : {r \in Radios : radio[r].ticked} = {b} /\ GetTicked = b

\* A button that waits for no update is drawn as what it is.
RadiosDrawnRight ==
  \A b \in Radios : ~radio[b].needsUpdate => radio[b].address \in {"none", RadioFace(radio[b].ticked)}

=============================================================================
