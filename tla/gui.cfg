SPECIFICATION Spec
CONSTANTS
  f1 = f1
  f2 = f2
  sb = sb
  dd = dd
  None = None
  Frames = {f1, f2}
  Elements = {sb, dd}
  Menus = {m1}
  Owner <- MCOwner
  Kind <- MCKind
  Tipped = {sb}
  First = {f1}
  MaxStarts = 2
  easy = easy
  hard = hard
  rb1 = rb1
  rb2 = rb2
  rb3 = rb3
  ok = ok
  mode = mode
  Names = {ok, mode}
  Files <- MCFiles
  MaxTime = 4
  MaxLife = 2
  Ticks <- MCTicks
  Width = 3
  Ranges <- MCRanges
  Steps = {1, 2}
  Values = {0, 3, 5}
  SliderRanges <- MCSliderRanges
  Points = 4
  Lists <- MCLists
  MaxElements = 3
  Radios = {rb1, rb2, rb3}
  RadioOrder <- MCRadioOrder
\* a null pointer or an index beyond the list ends the behaviour
CHECK_DEADLOCK FALSE
INVARIANTS PointersKnown ShownIsHeld FaultsAreKnown FrameIsItsFile
PROPERTIES KeysGoToFocus WhatShowsGoes StaysInRange TimerAgrees
