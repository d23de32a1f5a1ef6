------------------------------- MODULE MCGui -------------------------------
(***************************************************************************)
(* The GUI, its elements one by one, the reading of a frame's file and a   *)
(* timer share no state: a behaviour of this instance is that of one of    *)
(* them, the subject, while the others stay as they were made.  The state  *)
(* spaces add up instead of multiplying.                                   *)
(***************************************************************************)
EXTENDS Gui, ScrollBox, Slider, Dropdown, TickBox, PushButton, RadioGroup, BuildUI, Timer

CONSTANTS f1, f2, sb, dd, easy, hard, rb1, rb2, rb3, ok, mode

VARIABLE subject

\* Two frames: one with a scroll box, one with a drop-down list.
MCOwner == [e \in {sb, dd} |-> IF e = sb THEN f1 ELSE f2]
MCKind == [e \in {sb, dd} |-> IF e = sb THEN "scrollbox" ELSE "dropdown"]

MCRanges == {<<0, 2>>, <<1, 3>>}
MCSliderRanges == {<<0, 5>>, <<1, 4>>, <<0, 3>>}
MCLists == {<<>>, <<easy>>, <<hard, easy>>}
\* Two units, neither of them as fine as the clock.
MCTicks == [ms |-> 2, s |-> 3]

MCRadioOrder == [r \in {rb1, rb2, rb3} |-> CASE r = rb1 -> 0 [] r = rb2 -> 1 [] r = rb3 -> 2]

Item(kind, name, texture) == [kind |-> kind, name |-> name, texture |-> texture]

\* A file without shared names, one that names a group as an element, one that
\* changes a kind, and one that gives two elements one name.
MCFiles == {
  {Item("pushbuttons", ok, FALSE), Item("dropdowns", mode, TRUE)},
  {Item("radiogroups", mode, FALSE), Item("sliders", mode, FALSE)},
  {Item("tickboxes", ok, TRUE)},
  {Item("scrollboxes", mode, FALSE), Item("sliders", mode, TRUE), Item("textobjects", ok, FALSE)}}

vars == <<subject, guiVars, scrollBoxVars, slider, dropdownVars, tickVars, pushVars, radioVars, buildVars, timerVars>>

Init ==
  /\ subject \in {"GUI", "scroll box", "slider", "dropdown", "tick box", "push button", "radio group", "file", "timer"}
  /\ GuiInit
  /\ ScrollBoxInit
  /\ subject # "scroll box" => box.range = <<0, 2>> /\ box.step = 1 /\ ~box.rollover /\ box.up = "upper" /\ box.needsUpdate
  /\ SliderInit
  /\ subject # "slider" => slider.range = <<0, 3>> /\ slider.tick # NoTick /\ slider.needsUpdate
  /\ DropdownInit
  /\ subject # "dropdown" => list.elements = <<>>
  /\ TickInit
  /\ subject # "tick box" => ~tick.ticked /\ tick.hoverTexture /\ tick.needsUpdate
  /\ PushInit
  /\ subject # "push button" => push.loaded
  /\ RadioInit
  /\ subject # "radio group" => \A r \in Radios : ~radio[r].ticked /\ radio[r].needsUpdate
  /\ BuildInit
  /\ subject # "file" => file = {Item("tickboxes", ok, TRUE)} /\ fallback
  /\ TimerInit
  /\ subject # "timer" => timer.life = 0 /\ timer.units = "ms" /\ timer.expired

Moves(name, A, v) == IF subject = name THEN A ELSE UNCHANGED v

Next ==
  /\ UNCHANGED subject
  /\ Moves("GUI", GuiNext, guiVars)
  /\ Moves("scroll box", ScrollBoxNext, scrollBoxVars)
  /\ Moves("slider", SliderNext, slider)
  /\ Moves("dropdown", DropdownNext, dropdownVars)
  /\ Moves("tick box", TickNext, tickVars)
  /\ Moves("push button", PushNext, pushVars)
  /\ Moves("radio group", RadioNext, radioVars)
  /\ Moves("file", BuildNext, buildVars)
  /\ Moves("timer", TimerNext, timerVars)

OfGui(A) == subject = "GUI" /\ undefined = "" /\ A /\ UNCHANGED <<subject, scrollBoxVars, slider, dropdownVars, tickVars, pushVars, radioVars, buildVars, timerVars>>
OfTick(A) == subject = "tick box" /\ A /\ UNCHANGED <<subject, guiVars, scrollBoxVars, slider, dropdownVars, pushVars, radioVars, buildVars, timerVars>>
OfPush(A) == subject = "push button" /\ A /\ UNCHANGED <<subject, guiVars, scrollBoxVars, slider, dropdownVars, tickVars, radioVars, buildVars, timerVars>>

\* The game updates its GUI in every frame and time passes; the GUI updates its
\* elements in every frame, and nobody drags theirs between any two updates.
Spec == Init /\ [][Next]_vars
             /\ WF_vars(OfGui(Update)) /\ WF_vars(OfGui(MenuTimer)) /\ WF_vars(OfGui(TipTimer))
             /\ SF_vars(OfTick(~tick.needsUpdate /\ UpdateTick)) /\ WF_vars(OfTick(UpdateTick))
             /\ SF_vars(OfPush(~push.needsUpdate /\ UpdatePush)) /\ WF_vars(OfPush(UpdatePush))

\* HoverEnds of TickBox, of the behaviours of the tick box.
TickBoxHoverEnds == subject = "tick box" => HoverEnds

\* PushReturns of PushButton, of the behaviours of the push button.
PushButtonReturns == subject = "push button" => PushReturns

\* The pointers of the GUI: each is to an object that is alive, or dangles in one
\* of the ways named in DanglingIsKnown; the cursor is where the focus is.
PointersKnown == TypeOK /\ DanglingIsKnown /\ CursorOnTouched

\* What comes up under the mouse shows and goes again: tips, menus, the textures
\* of a tick box and of a button, but for the boxes and buttons that stay as they
\* were drawn (StaysAsItWas, KeepsHover, StaysPressed).
WhatShowsGoes == TipShown /\ MenuGoes /\ TickBoxHoverEnds /\ PushButtonReturns

\* An element that waits for no update is drawn as what it is: the number of a
\* scroll box and the text of a list, unless it was given a text since, the tick
\* of a slider, each button of a group, of which one is ticked.
ShownIsHeld == TextShowsValue /\ TickTellsValue /\ TextIsSelected /\ RadiosDrawnRight /\ OneTickedAfterClick

\* Each null pointer, index beyond a list and wrong cast has a cause that is named:
\* a tick box without the default textures, a list shortened while it is open, an
\* event before the update that makes the arrows, a name that two kinds share.
FaultsAreKnown == SelectionExists /\ FaultsWithoutHover /\ ArrowsComing /\ MiscastNeedsSharedName

\* A frame is what its last file says, with the textures the file gives or those of
\* the kind, and only groups leak.
FrameIsItsFile == ElementsAreTheFiles /\ FileTexturesKept /\ EverythingTextured /\ OnlyGroupsLost

\* Whatever moves the value of a scroll box or a slider, and however the range
\* changes, it is not moved out of the range of that moment.
StaysInRange == StepsStayInRange /\ SliderStaysInRange

\* isExpired(), getTimeLeft(), addTime() and the settings agree about the end of a
\* timer, up to the unit that is cut off.
TimerAgrees == []ExpiryAgreesWithTimeLeft /\ ExpiredForGood
=============================================================================
