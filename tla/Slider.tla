------------------------------- MODULE Slider -------------------------------
(***************************************************************************)
(* gui/Slider.cpp: a value on a scale and the tick that shows it.  The     *)
(* scale is as many points wide as Points says; where it lies on the       *)
(* screen is left out.                                                     *)
(***************************************************************************)
EXTENDS Integers

CONSTANTS SliderRanges, Points

ASSUME SliderAssumption ==
  /\ SliderRanges \subseteq Int \X Nat /\ \A r \in SliderRanges : r[1] <= r[2]
  /\ Points \in Nat \ {0}

VARIABLE slider \* value, range, tick, bounds (m_xBounds is computed), needsUpdate

NoTick == [value |-> -1, max |-> -1]

\* A slider of the configuration file: what setRange() leaves to the next update,
\* what setFillSlider() and setSliderTickPct() take from the tick.
SliderInit ==
  \E r \in SliderRanges, asks, torn \in BOOLEAN :
    slider = [value |-> 0, range |-> r, bounds |-> TRUE, needsUpdate |-> asks,
              tick |-> IF torn THEN NoTick ELSE [value |-> 0, max |-> 100]]

\* Mutation of Clamped: values above the maximum are kept.
OpenClamped(r, val) == IF val <= r[1] THEN r[1] ELSE val

Clamped(r, val) ==
  IF val <= r[1] THEN r[1] ELSE IF val >= r[2] THEN r[2] ELSE val

\* Mutation of SetSlider: the tick stays where it was.
StillSetSlider(val) ==
  slider' = [slider EXCEPT !.value = Clamped(slider.range, val)]

\* setValue()
SetSlider(val) ==
  slider' = [slider EXCEPT !.value = Clamped(slider.range, val), !.needsUpdate = TRUE]

\* A click takes the part of the maximum that lies left of it, the minimum left
\* aside.  With bounds of no width the conversion to int has no defined result;
\* setValue() makes one of the ends or of the values between of it.
ClickSlider(x) ==
  IF slider.bounds THEN SetSlider((x * slider.range[2]) \div Points)
  ELSE \E v \in slider.range[1] .. slider.range[2] : SetSlider(v)

\* update(): an existing tick is moved, a missing one is made.
UpdateSlider ==
  slider' = IF ~slider.needsUpdate THEN slider
            ELSE [slider EXCEPT !.needsUpdate = FALSE, !.bounds = TRUE,
                    !.tick = [value |-> slider.value, max |-> slider.range[2]]]

SetSliderRange(r) == slider' = [slider EXCEPT !.range = r, !.needsUpdate = TRUE]

\* setMinValue(), setMaxValue(), setFillSlider(), setSliderTickPct(): the tick is
\* destroyed and made again, the latter only if an update was due anyway.
DestroySliderTick(r) ==
  slider' = [slider EXCEPT !.range = r, !.needsUpdate = FALSE,
               !.bounds = @ \/ slider.needsUpdate,
               !.tick = IF slider.needsUpdate THEN [value |-> slider.value, max |-> r[2]]
                        ELSE NoTick]

SetUsableBoundsPct == slider' = [slider EXCEPT !.bounds = FALSE, !.needsUpdate = TRUE]

SetXBounds == slider' = [slider EXCEPT !.bounds = TRUE, !.needsUpdate = TRUE]

SliderNext ==
  \/ \E x \in 0 .. Points : ClickSlider(x)
  \/ SetSlider(slider.value + 1) \/ SetSlider(slider.value - 1)
  \/ UpdateSlider
  \/ \E r \in SliderRanges : SetSliderRange(r) \/ DestroySliderTick(r)
  \/ SetUsableBoundsPct \/ SetXBounds

-----------------------------------------------------------------------------

\* Clicks and wheel steps leave the value within the range of that moment.
SliderStaysInRange ==
  [][slider'.value # slider.value =>
       slider'.value \in slider'.range[1] .. slider'.range[2]]_slider

\* A tick that waits for no update shows the value on the scale of now; it may be
\* gone, but it does not show another value.
TickTellsValue ==
  ~slider.needsUpdate =>
    slider.tick \in {NoTick, [value |-> slider.value, max |-> slider.range[2]],
                     [value |-> 0, max |-> 100]}

=============================================================================
