----------------------------- MODULE ScrollBox -----------------------------
(***************************************************************************)
(* gui/ScrollBox.cpp: a number with two arrows.  The arrows are made by    *)
(* update(), which runs only when something asked for it, and events come  *)
(* between two updates.  Numbers are whole here; what the text looks like  *)
(* (precision, trimming) is left out, which number it shows is not.        *)
(***************************************************************************)
EXTENDS Integers

CONSTANTS Ranges,   \* <<minimum, maximum>> of m_range
          Steps,    \* m_stepValue
          Values    \* what the game passes to setValue() or points m_valuePtr to

ASSUME ScrollBoxAssumption ==
  /\ Ranges \subseteq Int \X Int /\ \A r \in Ranges : r[1] <= r[2]
  /\ Steps \subseteq Nat /\ Values \subseteq Int

NoPointer == 99
Given == 98

VARIABLES
  box,      \* the members, named as in the code; up and down: where an arrow is
  boxFault  \* a null arrow was used

scrollBoxVars == <<box, boxFault>>

\* A box of the configuration file.  The constructor's update() makes the arrows,
\* the lower one in the place of the upper one; the settings follow, a text among
\* them if the file gives one.
ScrollBoxInit ==
  /\ \E r \in Ranges, s \in Steps, rollover, needsUpdate \in BOOLEAN,
        buttons \in {"made", "none", "deleted"}, text \in {0, Given} :
       box = [value |-> 0, range |-> r, step |-> s, rollover |-> rollover,
              noButtons |-> buttons = "none",
              up |-> IF buttons = "made" THEN "upper" ELSE "none",
              down |-> IF buttons = "made" THEN "upper" ELSE "none",
              valuePtr |-> NoPointer, needsUpdate |-> needsUpdate \/ buttons # "made",
              text |-> text, editing |-> FALSE]
  /\ boxFault = FALSE

\* Mutation of NextValue: the maximum is not looked at.
OpenNextValue(b, val, force) ==
  IF b.valuePtr # NoPointer THEN b.valuePtr
  ELSE IF val <= b.range[1]
  THEN IF ~force /\ b.rollover /\ b.value = b.range[1] THEN b.range[2] ELSE b.range[1]
  ELSE val

\* A value beyond an end becomes the end, or the other end if the box is at this
\* one already and rolls over.
NextValue(b, val, force) ==
  IF b.valuePtr # NoPointer THEN b.valuePtr
  ELSE IF val <= b.range[1]
  THEN IF ~force /\ b.rollover /\ b.value = b.range[1] THEN b.range[2] ELSE b.range[1]
  ELSE IF val >= b.range[2]
  THEN IF ~force /\ b.rollover /\ b.value = b.range[2] THEN b.range[1] ELSE b.range[2]
  ELSE val

\* Mutation of SetTo: the box is not updated.
StillSetTo(b, val, force) ==
  [b EXCEPT !.value = NextValue(b, val, force)]

\* setValue(): the text is set at once and formatted by the next update().
SetTo(b, val, force) ==
  LET v == NextValue(b, val, force)
  IN [b EXCEPT !.value = v, !.text = v, !.needsUpdate = TRUE]

-----------------------------------------------------------------------------
(* hasCollision()                                                          *)

Arrow(where, action, change, b) ==
  /\ where \in {"up", "down"}
  /\ LET sign == IF where = "up" THEN 1 ELSE -1
         wheel == IF where = "up" THEN "wheel up" ELSE "wheel down"
     IN box' = [(IF action \in {"left", wheel} THEN SetTo(b, b.value + sign * change, FALSE) ELSE b)
                EXCEPT !.editing = FALSE]

TextBox(action, b) ==
  box' = CASE action = "left" -> [b EXCEPT !.needsUpdate = TRUE, !.editing = TRUE]
           [] action = "wheel up" -> SetTo(b, b.value + b.step, FALSE)
           [] action = "wheel down" -> SetTo(b, b.value - b.step, FALSE)
           [] OTHER -> b

\* The arrow at a place; the upper one is asked first.
ArrowAt(place) ==
  IF box.up = place THEN "up" ELSE IF box.down = place THEN "down" ELSE "none"

\* With arrows that are not there every event reads a null pointer.
HasCollision(place, action) ==
  IF ~box.noButtons /\ box.up = "none"
  THEN boxFault' = TRUE /\ UNCHANGED box
  ELSE /\ \/ ~box.noButtons /\ Arrow(ArrowAt(place), action, box.step, box)
          \/ place = "text" /\ TextBox(action, box)
       /\ UNCHANGED boxFault

-----------------------------------------------------------------------------
(* update()                                                                *)

Built(b) ==
  IF ~b.needsUpdate THEN b
  ELSE [b EXCEPT !.needsUpdate = FALSE, !.text = b.value,
                 !.up = IF b.noButtons THEN @ ELSE "upper",
                 !.down = IF b.noButtons THEN @ ELSE IF @ = "none" THEN "upper" ELSE "lower"]

\* A game value that is pointed to is taken over; an arrow that is held changes
\* the value by one, whatever the step.
UpdateScrollBox(held) ==
  LET b == Built(IF box.valuePtr = NoPointer THEN box ELSE SetTo(box, box.value, FALSE))
      arrow == IF b.up = held THEN "up" ELSE IF b.down = held THEN "down" ELSE "none"
  IN /\ box' = IF b.noButtons \/ arrow = "none" THEN b
               ELSE SetTo(b, b.value + (IF arrow = "up" THEN 1 ELSE -1), FALSE)
     /\ UNCHANGED boxFault

-----------------------------------------------------------------------------
(* What the game calls                                                     *)

\* Mutation of SetNoButtons: no update follows.
StillSetNoButtons(noButtons) ==
  /\ box' = [box EXCEPT !.noButtons = noButtons, !.up = "none", !.down = "none"]
  /\ UNCHANGED boxFault

\* The arrows are deleted, whether they are wanted or not.
SetNoButtons(noButtons) ==
  /\ box' = [box EXCEPT !.noButtons = noButtons, !.needsUpdate = TRUE, !.up = "none", !.down = "none"]
  /\ UNCHANGED boxFault

\* setRange() asks for an update, setMinValue() and setMaxValue() do not; none
\* of them moves the value into the new range.
SetRange(r, asks) ==
  /\ box' = [box EXCEPT !.range = r, !.needsUpdate = @ \/ asks]
  /\ UNCHANGED boxFault

SetValue(v, force) == box' = SetTo(box, v, force) /\ UNCHANGED boxFault

\* setValuePtr(), and the game writes what it points to.
SetValuePtr(v) ==
  /\ box' = [box EXCEPT !.valuePtr = v, !.needsUpdate = TRUE]
  /\ UNCHANGED boxFault

WriteValue(v) ==
  /\ box.valuePtr # NoPointer
  /\ box' = [box EXCEPT !.valuePtr = v]
  /\ UNCHANGED boxFault

\* setText(): the game gives the box a text of its own, or the GUI the characters
\* typed into it; no update is asked for, and the next one writes the value again.
SetText ==
  /\ box' = [box EXCEPT !.text = Given]
  /\ UNCHANGED boxFault

\* The number typed goes to the m_value of the base class, which a scroll box never
\* reads.

TypedValue ==
  /\ box.editing
  /\ box' = [box EXCEPT !.needsUpdate = TRUE]
  /\ UNCHANGED boxFault

ScrollBoxNext ==
  /\ ~boxFault
  /\ \/ \E place \in {"upper", "lower", "text"}, action \in {"move", "left", "wheel up", "wheel down"} :
          HasCollision(place, action)
     \/ \E held \in {"upper", "lower", "nowhere"} : UpdateScrollBox(held)
     \/ \E b \in BOOLEAN : SetNoButtons(b)
     \/ \E r \in Ranges, asks \in BOOLEAN : SetRange(r, asks)
     \/ \E v \in Values, force \in BOOLEAN : SetValue(v, force)
     \/ \E v \in Values \cup {NoPointer} : SetValuePtr(v)
     \/ \E v \in Values : WriteValue(v)
     \/ SetText \/ TypedValue

-----------------------------------------------------------------------------

\* No step, no arrow held and no rollover takes the value out of the range,
\* unless the game has pointed the box to a value of its own.
StepsStayInRange ==
  [][box'.value # box.value =>
       \/ box'.valuePtr # NoPointer
       \/ box'.value \in box'.range[1] .. box'.range[2]]_scrollBoxVars

\* Arrows that are wanted and not there are made by the next update, so the null
\* pointer is read only by an event between the two.
ArrowsComing ==
  ~box.noButtons /\ (box.up = "none" \/ box.down = "none") => box.needsUpdate

\* A box that waits for no update shows its value of this moment, never an older
\* one, or the text it was given: by the game, or by typing.
TextShowsValue == ~box.needsUpdate => box.text \in {box.value, Given}

=============================================================================
