----------------------------- MODULE GuiProofs -----------------------------
(***************************************************************************)
(* What holds of the GUI and its elements for any frames, elements, menus, *)
(* ranges, lists, files and buttons.  MCGui lets one of its parts move and *)
(* leaves the others alone: each step is one of every part, or a stutter.  *)
(***************************************************************************)
EXTENDS MCGui, TLAPS

LEMMA PartSteps ==
    ASSUME [Next]_vars
    PROVE  /\ [GuiNext]_guiVars
           /\ [ScrollBoxNext]_scrollBoxVars
           /\ [SliderNext]_slider
           /\ [DropdownNext]_dropdownVars
           /\ [TickNext]_tickVars
           /\ [RadioNext]_radioVars
           /\ [BuildNext]_buildVars
           /\ [TimerNext]_timerVars
BY DEF Next, Moves, vars

-----------------------------------------------------------------------------
(* The pointers of the GUI *)

\* Frames and elements are never taken away but by dispose(), all at once: what
\* was touched or under the mouse belongs to a frame that was made, and what is
\* under the mouse or popped out to one that is there.
GuiInv ==
    /\ TypeOK
    /\ frames \subseteq created
    /\ lastFrame # None => lastFrame \in created
    /\ hover \in Elements => Owner[hover] \in frames
    /\ popout # None => Owner[popout] \in frames
    /\ lastTouched \in Elements => Owner[lastTouched] \in created
    /\ CursorOnTouched

LEMMA GuiInvInit == GuiInit => GuiInv
<1> SUFFICES ASSUME GuiInit PROVE GuiInv
  OBVIOUS
<1>1. None \notin Elements /\ None \notin Menus /\ None \notin Frames /\ First \subseteq Frames
  BY GuiAssumption DEF Objects
<1>2. tip \in [active : BOOLEAN, visible : BOOLEAN, due : BOOLEAN]
  BY DEF GuiInit, Hidden
<1>3. TypeOK
  BY <1>1, <1>2 DEF GuiInit, TypeOK
<1> QED BY <1>1, <1>3 DEF GuiInit, GuiInv, CursorOnTouched

\* What an event may find: something of a frame that is there, or a menu.
LEMMA CollisionFinds ==
    ASSUME GuiInv, ~LastFrameIsDead, NEW action, NEW ret \in Objects \cup {None},
           GuiCollision(action, ret)
    PROVE  /\ ret \in Elements => Owner[ret] \in frames
           /\ hover' \in Objects \cup {None}
           /\ hover' \in Elements => Owner[hover'] \in frames
           /\ lastFrame' \in frames \cup {None}
           /\ popout' \in Elements \cup {None}
           /\ popout' # None => Owner[popout'] \in frames
           /\ menu' \in Menus \cup {None}
           /\ editing' \subseteq Elements
<1> USE DEF GuiInv, TypeOK
<1>1. lastFrame # None => lastFrame \in frames
  BY DEF LastFrameIsDead
<1>2. ASSUME NEW f \in frames, NEW hit, CollisionObject(f, action, hit)
      PROVE  /\ hit \in Elements \cup {None}
             /\ hit \in Elements => Owner[hit] \in frames
             /\ popout' \in Elements \cup {None}
             /\ popout' # None => Owner[popout'] \in frames
             /\ editing' \subseteq Elements
  <2>1. CASE hit = None /\ UNCHANGED <<editing, popout>>
    BY <2>1, GuiAssumption DEF Objects
  <2>2. ASSUME NEW e \in Elements, NEW arrow \in BOOLEAN, Owner[e] = f, hit = e, React(e, action, arrow)
        PROVE  /\ hit \in Elements /\ Owner[hit] \in frames
               /\ popout' \in Elements \cup {None}
               /\ popout' # None => Owner[popout'] \in frames
               /\ editing' \subseteq Elements
    <3>1. popout' = e \/ popout' = popout
      BY <2>2 DEF React
    <3>2. editing' \subseteq editing \cup {e}
      BY <2>2 DEF React
    <3> QED BY <2>2, <3>1, <3>2
  <2> QED BY <1>2, <2>1, <2>2 DEF CollisionObject
<1>3. CASE InLastFrame(action, ret)
  BY <1>1, <1>2, <1>3 DEF InLastFrame
<1>4. CASE OnPopout(action, ret)
  BY <1>1, <1>4, GuiAssumption DEF OnPopout, Objects
<1>5. CASE OnMenu(action, ret)
  BY <1>1, <1>5, GuiAssumption DEF OnMenu, Objects
<1>6. ASSUME NEW f \in frames, InFrame(f, action, ret)
      PROVE  /\ ret \in Elements => Owner[ret] \in frames
             /\ hover' \in Objects \cup {None}
             /\ hover' \in Elements => Owner[hover'] \in frames
             /\ lastFrame' \in frames \cup {None}
             /\ popout' \in Elements \cup {None}
             /\ popout' # None => Owner[popout'] \in frames
             /\ menu' \in Menus \cup {None}
             /\ editing' \subseteq Elements
  BY <1>2, <1>6 DEF InFrame
<1>7. CASE Nowhere(action, ret)
  <2>1. hover' = None /\ ret = None /\ menu' = menu
    BY <1>7 DEF Nowhere
  <2>2. None \notin Elements
    BY GuiAssumption DEF Objects
  <2>3. CASE lastFrame' = None /\ UNCHANGED <<editing, popout>>
    BY <2>1, <2>2, <2>3
  <2>4. ASSUME lastFrame # None, NEW hit, CollisionObject(lastFrame, action, hit), lastFrame' = lastFrame
        PROVE  /\ lastFrame' \in frames
               /\ popout' \in Elements \cup {None}
               /\ popout' # None => Owner[popout'] \in frames
               /\ editing' \subseteq Elements
    BY <1>1, <1>2, <2>4
  <2> QED BY <1>7, <2>1, <2>2, <2>3, <2>4 DEF Nowhere
<1> QED BY <1>3, <1>4, <1>5, <1>6, <1>7 DEF GuiCollision

LEMMA TipType ==
    ASSUME NEW a \in BOOLEAN, NEW v \in BOOLEAN, NEW d \in BOOLEAN
    PROVE  [active |-> a, visible |-> v, due |-> d] \in [active : BOOLEAN, visible : BOOLEAN, due : BOOLEAN]
OBVIOUS

LEMMA MouseKeepsGuiInv ==
    ASSUME GuiInv, ~LastFrameIsDead,
           MouseMotion \/ MouseButtonDown("left") \/ MouseButtonDown("right") \/ MouseWheel
    PROVE  GuiInv'
<1>1. CASE MouseMotion
  <2>1. PICK ret \in Objects \cup {None} : GuiCollision("move", ret)
    BY <1>1 DEF MouseMotion
  <2>2. /\ UNCHANGED <<lives, keyboard>> /\ undefined' \in {"hover", undefined}
        /\ tip' = tip \/ ToolTipLogic(hover')
    BY <1>1 DEF MouseMotion
  <2>3. tip' \in [active : BOOLEAN, visible : BOOLEAN, due : BOOLEAN]
    <3>1. tip \in [active : BOOLEAN, visible : BOOLEAN, due : BOOLEAN]
      BY DEF GuiInv, TypeOK
    <3>2. CASE hover' = None
      BY <2>2, <3>1, <3>2 DEF ToolTipLogic
    <3>3. CASE hover' # None
      <4>1. CASE tip' = tip
        BY <3>1, <4>1
      <4>2. CASE tip' # tip
        <5>1. tip' = [active |-> hover' \in Tipped,
                      visible |-> tip.active /\ hover' \in Tipped /\ tip.visible,
                      due |-> tip.due \/ ~tip.active]
          BY <2>2, <3>3, <4>2 DEF ToolTipLogic
        <5>2. (hover' \in Tipped) \in BOOLEAN
          OBVIOUS
        <5>3. (tip.active /\ hover' \in Tipped /\ tip.visible) \in BOOLEAN
          OBVIOUS
        <5>4. (tip.due \/ ~tip.active) \in BOOLEAN
          OBVIOUS
        <5> QED BY <5>1, <5>2, <5>3, <5>4, TipType
      <4> QED BY <4>1, <4>2
    <3> QED BY <3>2, <3>3
  <2> QED BY <2>1, <2>2, <2>3, CollisionFinds DEF GuiInv, TypeOK, CursorOnTouched, lives, keyboard
<1>2. ASSUME NEW button, MouseButtonDown(button) PROVE GuiInv'
  <2>1. PICK ret \in Objects \cup {None} :
           /\ GuiCollision(button, ret)
           /\ \/ UNCHANGED keyboard /\ undefined' \in {"touched", undefined}
              \/ ret # None /\ TouchObject(ret) /\ UNCHANGED undefined
    BY <1>2 DEF MouseButtonDown
  <2>2. UNCHANGED <<lives, tip>>
    BY <1>2 DEF MouseButtonDown
  <2>3. CASE UNCHANGED keyboard /\ undefined' \in {"touched", undefined}
    BY <2>1, <2>2, <2>3, CollisionFinds DEF GuiInv, TypeOK, CursorOnTouched, lives, keyboard
  <2>4. CASE ret # None /\ TouchObject(ret) /\ UNCHANGED undefined
    <3>1. /\ lastTouched' = ret /\ cursors' = {} /\ draft' \in {ret, None}
      BY <2>4 DEF TouchObject, GuiInv, CursorOnTouched
    <3>2. ret \in Elements => Owner[ret] \in created
      BY <2>1, CollisionFinds DEF GuiInv
    <3> QED BY <2>1, <2>2, <2>4, <3>1, <3>2, CollisionFinds
            DEF GuiInv, TypeOK, CursorOnTouched, lives
  <2> QED BY <2>1, <2>3, <2>4
<1>3. CASE MouseWheel
  <2>1. PICK ret \in Objects \cup {None} : GuiCollision("wheel", ret)
    BY <1>3 DEF MouseWheel
  <2>2. UNCHANGED <<lives, keyboard, tip, undefined>>
    BY <1>3 DEF MouseWheel
  <2> QED BY <2>1, <2>2, CollisionFinds DEF GuiInv, TypeOK, CursorOnTouched, lives, keyboard
<1> QED BY <1>1, <1>2, <1>3

LEMMA GuiInvStep ==
    ASSUME GuiInv, [GuiNext]_guiVars
    PROVE  GuiInv'
<1>13. ASSUME UNCHANGED <<frames, created, menus, lastFrame, hover, popout, menu, editing, tip>>,
              lastTouched' \in {lastTouched, None}, draft' \in {draft, lastTouched, None},
              cursors' \subseteq cursors, cursors' \subseteq {lastTouched'},
              undefined' \in {undefined, "frame", "touched", "delete", "item texture"}
       PROVE  GuiInv'
  <2>1. None \notin Elements
    BY GuiAssumption DEF Objects
  <2>2. TypeOK'
    <3>1. undefined' \in {"", "hover", "touched", "frame", "delete", "item texture"}
      BY <1>13 DEF GuiInv, TypeOK
    <3>2. lastTouched' \in Objects \cup {None} /\ draft' \in Objects \cup {None}
      BY <1>13 DEF GuiInv, TypeOK
    <3>3. cursors' \subseteq Objects
      BY <1>13 DEF GuiInv, TypeOK
    <3> QED BY <1>13, <3>1, <3>2, <3>3 DEF GuiInv, TypeOK
  <2>3. CursorOnTouched'
    BY <1>13 DEF CursorOnTouched
  <2>4. /\ frames' \subseteq created'
        /\ lastFrame' # None => lastFrame' \in created'
        /\ hover' \in Elements => Owner[hover'] \in frames'
        /\ popout' # None => Owner[popout'] \in frames'
    BY <1>13 DEF GuiInv
  <2>5. lastTouched' \in Elements => Owner[lastTouched'] \in created'
    BY <1>13, <2>1 DEF GuiInv
  <2> QED BY <2>2, <2>3, <2>4, <2>5 DEF GuiInv
<1> USE DEF GuiInv, TypeOK, CursorOnTouched
<1>1. CASE KeyEvent
  <2>1. UNCHANGED <<frames, created, menus, lastFrame, hover, popout, menu, editing, tip>>
    BY <1>1 DEF KeyEvent, lives, pointers
  <2>2. /\ lastTouched' \in {lastTouched, None} /\ draft' \in {draft, lastTouched, None}
        /\ cursors' \subseteq cursors /\ cursors' \subseteq {lastTouched'}
        /\ undefined' \in {undefined, "touched"}
    BY <1>1 DEF KeyEvent, Insert, Finish, keyboard
  <2> QED BY <1>13, <2>1, <2>2
<1>14. ASSUME UNCHANGED <<frames, created, menus, pointers, keyboard, tip, undefined>> PROVE GuiInv'
  <2>1. UNCHANGED <<frames, created, menus, lastFrame, hover, popout, menu, editing, tip>>
    BY <1>14 DEF pointers
  <2>2. UNCHANGED <<lastTouched, draft, cursors, undefined>>
    BY <1>14 DEF keyboard
  <2>3. /\ lastTouched' \in {lastTouched, None} /\ draft' \in {draft, lastTouched, None}
        /\ cursors' \subseteq cursors /\ cursors' \subseteq {lastTouched'}
        /\ undefined' \in {undefined, "frame", "touched", "delete", "item texture"}
    BY <2>2
  <2> QED BY <1>13, <2>1, <2>3
<1>2. ASSUME NEW what \in {"frame", "touched", "delete", "item texture"}, Undefined(what)
      PROVE  GuiInv'
  <2>1. UNCHANGED <<frames, created, menus, lastFrame, hover, popout, menu, editing, tip>>
    BY <1>2 DEF Undefined, lives, pointers
  <2>2. UNCHANGED <<lastTouched, draft, cursors>> /\ undefined' = what
    BY <1>2 DEF Undefined, keyboard
  <2>3. /\ lastTouched' \in {lastTouched, None} /\ draft' \in {draft, lastTouched, None}
        /\ cursors' \subseteq cursors /\ cursors' \subseteq {lastTouched'}
        /\ undefined' \in {undefined, "frame", "touched", "delete", "item texture"}
    BY <2>2
  <2> QED BY <1>13, <2>1, <2>3
<1>3. CASE OnSDLEvent
  BY <1>1, <1>2, <1>3, MouseKeepsGuiInv DEF OnSDLEvent
<1>4. CASE Quit
  BY <1>4, <1>14 DEF Quit
<1>5. CASE Update
  <2>1. SUFFICES ASSUME NEW blinks \in BOOLEAN, UpdateToolTip, UpdateContextMenu, UpdateCursor(blinks),
                        UNCHANGED <<lives, lastFrame, hover, popout, editing, lastTouched,
                                    textInput, draft, menuExpired, undefined>>
                 PROVE  GuiInv'
    BY <1>2, <1>5 DEF Update
  <2>2. tip' \in [active : BOOLEAN, visible : BOOLEAN, due : BOOLEAN]
    BY <2>1 DEF UpdateToolTip
  <2>3. menu' \in Menus \cup {None}
    BY <2>1 DEF UpdateContextMenu
  <2>4. cursors' \subseteq Objects /\ cursors' \subseteq {lastTouched}
    BY <2>1 DEF UpdateCursor, TakesKeys
  <2> QED BY <2>1, <2>2, <2>3, <2>4 DEF lives
<1>6. CASE MenuTimer
  BY <1>6, <1>14 DEF MenuTimer, lives
<1>7. CASE TipTimer
  BY <1>7 DEF TipTimer, lives, pointers, keyboard
<1>8. CASE Dispose
  <2>1. CASE hover # None
    BY <1>2, <1>8, <2>1 DEF Dispose
  <2>2. CASE hover = None
    <3>1. /\ frames' = {} /\ popout' = None /\ menu' = None /\ hover' = None
          /\ tip' = Hidden /\ editing' = {} /\ cursors' = {}
          /\ UNCHANGED <<created, menus, lastFrame, lastTouched, draft, undefined>>
      BY <1>8, <2>2 DEF Dispose
    <3>2. Hidden \in [active : BOOLEAN, visible : BOOLEAN, due : BOOLEAN]
      BY DEF Hidden
    <3>3. None \notin Elements
      BY GuiAssumption DEF Objects
    <3> QED BY <3>1, <3>2, <3>3
  <2> QED BY <2>1, <2>2
<1>9. CASE Start
  BY <1>9 DEF Start, Hidden, pointers
<1>10. ASSUME NEW m \in Menus, AddContextMenu(m) PROVE GuiInv'
  BY <1>2, <1>10 DEF AddContextMenu, keyboard
<1>11. ASSUME NEW f \in Frames, AddFrame(f) PROVE GuiInv'
  <2>1. /\ frames' = frames \cup {f} /\ created' = created \cup {f}
        /\ UNCHANGED <<menus, lastFrame, hover, popout, menu, editing>>
        /\ UNCHANGED <<lastTouched, draft, cursors, tip, undefined>>
    BY <1>11 DEF AddFrame, pointers, keyboard
  <2>2. TypeOK'
    BY <2>1
  <2> QED BY <2>1, <2>2
<1>12. CASE UNCHANGED guiVars
  BY <1>12, <1>14 DEF guiVars, lives
<1> QED BY <1>3, <1>4, <1>5, <1>6, <1>7, <1>8, <1>9, <1>10, <1>11, <1>12 DEF GuiNext

\* Whatever frames, elements and menus there are, and in whatever order events,
\* updates, dispose() and init() come: a pointer of the GUI dangles only in the
\* ways DanglingIsKnown names, and only the touched object shows a cursor.
THEOREM PointersAreKnown == Spec => []PointersKnown
<1>1. GuiInv => PointersKnown
  BY GuiAssumption DEF GuiInv, PointersKnown, DanglingIsKnown, LastFrameIsDead, Alive, TypeOK, Objects
<1>2. Init => GuiInv
  BY GuiInvInit DEF Init
<1>3. GuiInv /\ [Next]_vars => GuiInv'
  BY GuiInvStep, PartSteps
<1> QED BY <1>1, <1>2, <1>3, PTL DEF Spec

-----------------------------------------------------------------------------
(* The keyboard *)

\* Every event, update and call of the game is a step of Focus, or one that does
\* not concern it.
LEMMA FocusStep ==
    ASSUME [GuiNext]_guiVars
    PROVE  [Keyboard!FocusNext]_(Keyboard!focusVars)
<1> USE DEF Keyboard!FocusNext, Keyboard!focusVars
<1>1. CASE UNCHANGED <<lastTouched, textInput, draft>>
  BY <1>1
<1>2. ASSUME NEW button, MouseButtonDown(button) PROVE Keyboard!FocusNext \/ UNCHANGED Keyboard!focusVars
  <2>1. CASE UNCHANGED keyboard
    BY <2>1 DEF keyboard
  <2>2. ASSUME NEW o \in Objects, TouchObject(o) PROVE Keyboard!Take(o)
    BY <2>2 DEF TouchObject, Keyboard!Take
  <2> QED BY <1>2, <2>1, <2>2 DEF MouseButtonDown
<1>3. CASE KeyEvent
  BY <1>3 DEF KeyEvent, TakesKeys, Insert, Finish, keyboard, Keyboard!Type, Keyboard!Release
<1>4. CASE Start
  BY <1>4 DEF Start, Keyboard!Restart
<1> QED BY <1>1, <1>2, <1>3, <1>4
        DEF GuiNext, OnSDLEvent, MouseMotion, MouseWheel, Undefined, Quit, Update, MenuTimer, TipTimer,
            Dispose, AddContextMenu, AddFrame, guiVars, keyboard

\* The GUI implements Focus: what is typed goes to the object that was touched
\* last, and to none while none is edited.
THEOREM FocusIsKept == Spec => KeysGoToFocus
<1>1. Init => Keyboard!FocusInit
  BY DEF Init, GuiInit, Keyboard!FocusInit
<1>2. [Next]_vars => [Keyboard!FocusNext]_(Keyboard!focusVars)
  BY PartSteps, FocusStep
<1> QED BY <1>1, <1>2, PTL DEF Spec, KeysGoToFocus, Keyboard!FocusSpec
-----------------------------------------------------------------------------
(* The scroll box *)

BoxType == [value : Int, range : Ranges, step : Nat, rollover : BOOLEAN, noButtons : BOOLEAN,
            up : {"upper", "lower", "none"}, down : {"upper", "lower", "none"},
            valuePtr : Int, needsUpdate : BOOLEAN, text : Int, editing : BOOLEAN]

InRange(b) == b.valuePtr # NoPointer \/ b.value \in b.range[1] .. b.range[2]

\* Either an update is due, or the text is the value and the arrows are there.
Settled(b) ==
    \/ b.needsUpdate
    \/ /\ b.text \in {b.value, Given}
       /\ b.noButtons \/ (b.up # "none" /\ b.down # "none")

\* What any call leaves of box b: a settled box, whose value is in the range if
\* it is another one.
BoxFollows(b, c) == c \in BoxType /\ Settled(c) /\ (c.value # b.value => InRange(c))

BoxInv == box \in BoxType /\ Settled(box)

LEMMA RangeType ==
    ASSUME NEW b \in BoxType
    PROVE  b.range[1] \in Int /\ b.range[2] \in Int /\ b.range[1] <= b.range[2]
<1>1. b.range \in Ranges
  BY DEF BoxType
<1> QED BY <1>1, ScrollBoxAssumption

LEMMA NextValueInRange ==
    ASSUME NEW b \in BoxType, NEW val \in Int, NEW force \in BOOLEAN
    PROVE  /\ NextValue(b, val, force) \in Int
           /\ b.valuePtr = NoPointer => NextValue(b, val, force) \in b.range[1] .. b.range[2]
<1>1. b.valuePtr \in Int
  BY DEF BoxType
<1> QED BY <1>1, RangeType DEF NextValue

LEMMA SetToFollows ==
    ASSUME NEW b \in BoxType, NEW val \in Int, NEW force \in BOOLEAN
    PROVE  /\ SetTo(b, val, force) \in BoxType
           /\ SetTo(b, val, force).needsUpdate
           /\ SetTo(b, val, force).valuePtr = b.valuePtr
           /\ SetTo(b, val, force).noButtons = b.noButtons
           /\ InRange(SetTo(b, val, force))
<1> DEFINE v == NextValue(b, val, force)
<1>1. v \in Int /\ (b.valuePtr = NoPointer => v \in b.range[1] .. b.range[2])
  BY NextValueInRange
<1>2. SetTo(b, val, force) = [b EXCEPT !.value = v, !.text = v, !.needsUpdate = TRUE]
  BY DEF SetTo
<1> HIDE DEF v
<1>3. SetTo(b, val, force) \in BoxType
  BY <1>1, <1>2 DEF BoxType
<1> QED BY <1>1, <1>2, <1>3 DEF BoxType, InRange

\* A step of the value, up or down.
Stepped(b, c) == \E val \in Int : c = SetTo(b, val, FALSE)

LEMMA SteppedFollows ==
    ASSUME NEW b \in BoxType, NEW c, Stepped(b, c)
    PROVE  c \in BoxType /\ c.needsUpdate /\ InRange(c)
<1>1. PICK val \in Int : c = SetTo(b, val, FALSE)
  BY DEF Stepped
<1>2. /\ SetTo(b, val, FALSE) \in BoxType /\ SetTo(b, val, FALSE).needsUpdate
      /\ InRange(SetTo(b, val, FALSE))
  BY SetToFollows
<1> QED BY <1>1, <1>2

LEMMA BuiltFollows ==
    ASSUME NEW b \in BoxType, Settled(b)
    PROVE  /\ Built(b) \in BoxType /\ Settled(Built(b))
           /\ Built(b).value = b.value /\ Built(b).valuePtr = b.valuePtr
           /\ Built(b).range = b.range
<1>1. CASE ~b.needsUpdate
  BY <1>1 DEF Built
<1>2. CASE b.needsUpdate
  <2> DEFINE up == IF b.noButtons THEN b.up ELSE "upper"
             down == IF b.noButtons THEN b.down ELSE IF b.down = "none" THEN "upper" ELSE "lower"
  <2>1. /\ up \in {"upper", "lower", "none"} /\ down \in {"upper", "lower", "none"}
        /\ b.noButtons \/ (up # "none" /\ down # "none")
    BY DEF BoxType
  <2>2. Built(b) = [b EXCEPT !.needsUpdate = FALSE, !.text = b.value, !.up = up, !.down = down]
    BY <1>2 DEF Built
  <2> HIDE DEF up, down
  <2>3. Built(b) \in BoxType
    BY <2>1, <2>2 DEF BoxType
  <2> QED BY <2>1, <2>2, <2>3 DEF BoxType, Settled
<1> QED BY <1>1, <1>2

LEMMA CollisionFollows ==
    ASSUME BoxInv, NEW place, NEW action, HasCollision(place, action)
    PROVE  BoxFollows(box, box')
<1> USE DEF BoxInv
<1>1. box.value \in Int /\ box.step \in Nat
  BY DEF BoxType
<1>5. /\ Stepped(box, SetTo(box, box.value + box.step, FALSE))
      /\ Stepped(box, SetTo(box, box.value - box.step, FALSE))
  <2>1. box.value + box.step \in Int /\ box.value - box.step \in Int
    BY <1>1
  <2> QED BY <2>1 DEF Stepped
<1>2. ASSUME NEW where, Arrow(where, action, box.step, box) PROVE BoxFollows(box, box')
  <2>1. PICK c : c \in {box, SetTo(box, box.value + box.step, FALSE), SetTo(box, box.value - box.step, FALSE)}
                 /\ box' = [c EXCEPT !.editing = FALSE]
    <3>1. box.value + 1 * box.step = box.value + box.step /\ box.value + (-1) * box.step = box.value - box.step
      BY <1>1
    <3> QED BY <1>2, <3>1 DEF Arrow
  <2>2. c \in BoxType /\ (c = box \/ (c.needsUpdate /\ InRange(c)))
    <3>1. c = box \/ Stepped(box, c)
      BY <1>5, <2>1
    <3> QED BY <3>1, SteppedFollows
  <2>3. /\ box' \in BoxType
        /\ box'.value = c.value /\ box'.range = c.range /\ box'.valuePtr = c.valuePtr
        /\ box'.needsUpdate = c.needsUpdate /\ box'.text = c.text
        /\ box'.noButtons = c.noButtons /\ box'.up = c.up /\ box'.down = c.down
    BY <2>1, <2>2 DEF BoxType
  <2> QED BY <2>2, <2>3 DEF BoxFollows, Settled, InRange
<1>3. CASE TextBox(action, box)
  <2>1. CASE action = "left"
    <3>1. box' = [box EXCEPT !.needsUpdate = TRUE, !.editing = TRUE]
      BY <1>3, <2>1 DEF TextBox
    <3>2. box' \in BoxType /\ box'.needsUpdate /\ box'.value = box.value
      BY <3>1 DEF BoxType
    <3> QED BY <3>2 DEF BoxFollows, Settled
  <2>2. CASE action # "left"
    <3>1. box' \in {box, SetTo(box, box.value + box.step, FALSE), SetTo(box, box.value - box.step, FALSE)}
      BY <1>3, <2>2 DEF TextBox
    <3>2. box' = box \/ Stepped(box, box')
      BY <1>5, <3>1
    <3>3. box' = box \/ (box' \in BoxType /\ box'.needsUpdate /\ InRange(box'))
      BY <3>2, SteppedFollows
    <3> QED BY <3>3 DEF BoxFollows, Settled
  <2> QED BY <2>1, <2>2
<1>4. CASE UNCHANGED box
  BY <1>4 DEF BoxFollows
<1> QED BY <1>2, <1>3, <1>4 DEF HasCollision

LEMMA UpdateFollows ==
    ASSUME BoxInv, NEW held, UpdateScrollBox(held)
    PROVE  BoxFollows(box, box')
<1> USE DEF BoxInv
<1> DEFINE c == IF box.valuePtr = NoPointer THEN box ELSE SetTo(box, box.value, FALSE)
           b == Built(c)
<1>1. c \in BoxType /\ Settled(c) /\ (c.value # box.value => c.valuePtr # NoPointer)
  <2>1. box.value \in Int
    BY DEF BoxType
  <2> QED BY <2>1, SetToFollows DEF Settled
<1>2. b \in BoxType /\ Settled(b) /\ (b.value # box.value => b.valuePtr # NoPointer)
  <2> HIDE DEF c
  <2> QED BY <1>1, BuiltFollows
<1>3. box' \in {b, SetTo(b, b.value + 1, FALSE), SetTo(b, b.value + (-1), FALSE)}
  BY DEF UpdateScrollBox
<1> HIDE DEF b
<1>4. CASE box' = b
  BY <1>2, <1>4 DEF BoxFollows, InRange
<1>5. CASE box' # b
  <2>1. b.value + 1 \in Int /\ b.value + (-1) \in Int
    BY <1>2 DEF BoxType
  <2>2. Stepped(b, box')
    BY <1>3, <1>5, <2>1 DEF Stepped
  <2>3. box' \in BoxType /\ box'.needsUpdate /\ InRange(box')
    BY <1>2, <2>2, SteppedFollows
  <2> QED BY <2>3 DEF BoxFollows, Settled
<1> QED BY <1>4, <1>5

LEMMA ScrollBoxFollows ==
    ASSUME BoxInv, [ScrollBoxNext]_scrollBoxVars
    PROVE  BoxFollows(box, box')
<1> USE DEF BoxInv
<1>1. ASSUME NEW b \in BOOLEAN, SetNoButtons(b) PROVE BoxFollows(box, box')
  <2>1. box' = [box EXCEPT !.noButtons = b, !.needsUpdate = TRUE, !.up = "none", !.down = "none"]
    BY <1>1 DEF SetNoButtons
  <2>2. box' \in BoxType /\ box'.needsUpdate /\ box'.value = box.value
    BY <2>1 DEF BoxType
  <2> QED BY <2>2 DEF BoxFollows, Settled
<1>2. ASSUME NEW r \in Ranges, NEW asks \in BOOLEAN, SetRange(r, asks) PROVE BoxFollows(box, box')
  <2> DEFINE due == box.needsUpdate \/ asks
  <2>1. box' = [box EXCEPT !.range = r, !.needsUpdate = due]
    BY <1>2 DEF SetRange
  <2>2. due \in BOOLEAN /\ (box.needsUpdate => due)
    OBVIOUS
  <2> HIDE DEF due
  <2>3. /\ box' \in BoxType /\ box'.needsUpdate = due /\ box'.value = box.value /\ box'.text = box.text
        /\ box'.noButtons = box.noButtons /\ box'.up = box.up /\ box'.down = box.down
    BY <2>1, <2>2 DEF BoxType
  <2> QED BY <2>2, <2>3 DEF BoxFollows, Settled
<1>3. ASSUME NEW v \in Values, NEW force \in BOOLEAN, SetValue(v, force) PROVE BoxFollows(box, box')
  BY <1>3, SetToFollows, ScrollBoxAssumption DEF SetValue, BoxFollows, Settled
<1>4. ASSUME NEW v \in Values \cup {NoPointer}, SetValuePtr(v) PROVE BoxFollows(box, box')
  <2>1. box' = [box EXCEPT !.valuePtr = v, !.needsUpdate = TRUE] /\ v \in Int
    BY <1>4, ScrollBoxAssumption DEF SetValuePtr, NoPointer
  <2>2. box' \in BoxType /\ box'.needsUpdate /\ box'.value = box.value
    BY <2>1 DEF BoxType
  <2> QED BY <2>2 DEF BoxFollows, Settled
<1>5. ASSUME NEW v \in Values, WriteValue(v) PROVE BoxFollows(box, box')
  <2>1. box' = [box EXCEPT !.valuePtr = v] /\ v \in Int
    BY <1>5, ScrollBoxAssumption DEF WriteValue
  <2>2. /\ box' \in BoxType /\ box'.needsUpdate = box.needsUpdate /\ box'.value = box.value
        /\ box'.text = box.text
        /\ box'.noButtons = box.noButtons /\ box'.up = box.up /\ box'.down = box.down
    BY <2>1 DEF BoxType
  <2> QED BY <2>2 DEF BoxFollows, Settled
<1>6. CASE SetText
  <2>1. box' = [box EXCEPT !.text = Given] /\ Given \in Int
    BY <1>6 DEF SetText, Given
  <2>2. /\ box' \in BoxType /\ box'.needsUpdate = box.needsUpdate /\ box'.value = box.value
        /\ box'.text = Given
        /\ box'.noButtons = box.noButtons /\ box'.up = box.up /\ box'.down = box.down
    BY <2>1 DEF BoxType
  <2> QED BY <2>2 DEF BoxFollows, Settled
<1>7. CASE TypedValue
  <2>1. box' = [box EXCEPT !.needsUpdate = TRUE]
    BY <1>7 DEF TypedValue
  <2>2. box' \in BoxType /\ box'.needsUpdate /\ box'.value = box.value
    BY <2>1 DEF BoxType
  <2> QED BY <2>2 DEF BoxFollows, Settled
<1>8. CASE UNCHANGED scrollBoxVars
  BY <1>8 DEF scrollBoxVars, BoxFollows
<1> QED BY <1>1, <1>2, <1>3, <1>4, <1>5, <1>6, <1>7, <1>8, CollisionFollows, UpdateFollows
        DEF ScrollBoxNext

LEMMA BoxInvInit == ScrollBoxInit => BoxInv
<1> SUFFICES ASSUME ScrollBoxInit PROVE BoxInv
  OBVIOUS
<1>1. PICK r \in Ranges, s \in Steps, rollover \in BOOLEAN, asks \in BOOLEAN,
           buttons \in {"made", "none", "deleted"}, text \in {0, Given} :
         box = [value |-> 0, range |-> r, step |-> s, rollover |-> rollover,
                noButtons |-> buttons = "none",
                up |-> IF buttons = "made" THEN "upper" ELSE "none",
                down |-> IF buttons = "made" THEN "upper" ELSE "none",
                valuePtr |-> NoPointer, needsUpdate |-> asks \/ buttons # "made",
                text |-> text, editing |-> FALSE]
  BY DEF ScrollBoxInit
<1>2. s \in Nat /\ NoPointer \in Int /\ text \in Int
  BY ScrollBoxAssumption DEF NoPointer, Given
<1>3. (buttons = "none") \in BOOLEAN /\ (asks \/ buttons # "made") \in BOOLEAN
  OBVIOUS
<1>4. box \in BoxType
  BY <1>1, <1>2, <1>3 DEF BoxType
<1>5. Settled(box)
  BY <1>1 DEF Settled
<1> QED BY <1>4, <1>5 DEF BoxInv

-----------------------------------------------------------------------------
(* The slider *)

SliderType == [value : Int, range : SliderRanges, bounds : BOOLEAN, needsUpdate : BOOLEAN,
               tick : [value : Int, max : Int]]

SliderInv == slider \in SliderType /\ TickTellsValue

SliderFollows == SliderInv' /\ (slider'.value # slider.value =>
                                  slider'.value \in slider'.range[1] .. slider'.range[2])

LEMMA SliderRangeType ==
    ASSUME NEW r \in SliderRanges
    PROVE  r[1] \in Int /\ r[2] \in Int /\ r[1] <= r[2]
BY SliderAssumption

LEMMA SetSliderFollows ==
    ASSUME SliderInv, NEW val \in Int, SetSlider(val)
    PROVE  SliderFollows
<1>1. slider.range \in SliderRanges
  BY DEF SliderInv, SliderType
<1> DEFINE v == Clamped(slider.range, val)
<1>2. v \in Int /\ v \in slider.range[1] .. slider.range[2]
  BY <1>1, SliderRangeType DEF Clamped
<1>3. slider' = [slider EXCEPT !.value = v, !.needsUpdate = TRUE]
  BY DEF SetSlider
<1> HIDE DEF v
<1>4. /\ slider' \in SliderType /\ slider'.needsUpdate
      /\ slider'.value = v /\ slider'.range = slider.range
  BY <1>2, <1>3 DEF SliderInv, SliderType
<1> QED BY <1>2, <1>4 DEF SliderFollows, SliderInv, TickTellsValue

LEMMA SliderStep ==
    ASSUME SliderInv, [SliderNext]_slider
    PROVE  SliderFollows
<1>1. slider \in SliderType
  BY DEF SliderInv
<1>2. slider.value \in Int /\ slider.range \in SliderRanges
  BY <1>1 DEF SliderType
<1>3. ASSUME NEW x \in 0 .. Points, ClickSlider(x) PROVE SliderFollows
  <2>1. x * slider.range[2] \in Int
    <3>1. x \in Int /\ slider.range[2] \in Int
      BY <1>2, SliderRangeType, SliderAssumption
    <3> QED BY <3>1
  <2>2. (x * slider.range[2]) \div Points \in Int
    BY <2>1, SliderAssumption
  <2>3. \A v \in slider.range[1] .. slider.range[2] : v \in Int
    BY <1>2, SliderRangeType
  <2> QED BY <1>3, <2>2, <2>3, SetSliderFollows DEF ClickSlider
<1>4. ASSUME NEW d \in {1, -1}, SetSlider(slider.value + d) PROVE SliderFollows
  BY <1>2, <1>4, SetSliderFollows
<1>5. CASE UpdateSlider
  <2>1. CASE slider' = slider
    BY <2>1 DEF SliderFollows, SliderInv, TickTellsValue
  <2>2. CASE slider' # slider
    <3> DEFINE k == [value |-> slider.value, max |-> slider.range[2]]
    <3>1. slider' = [slider EXCEPT !.needsUpdate = FALSE, !.bounds = TRUE, !.tick = k]
      BY <1>5, <2>2 DEF UpdateSlider
    <3>2. k \in [value : Int, max : Int]
      BY <1>2, SliderRangeType
    <3> HIDE DEF k
    <3>3. slider' \in SliderType /\ slider'.tick = k /\ slider'.value = slider.value
          /\ slider'.range = slider.range
      BY <1>1, <3>1, <3>2 DEF SliderType
    <3> QED BY <3>3 DEF k, SliderFollows, SliderInv, TickTellsValue
  <2> QED BY <2>1, <2>2
<1>6. ASSUME NEW r \in SliderRanges, SetSliderRange(r) PROVE SliderFollows
  <2>1. slider' \in SliderType /\ slider'.needsUpdate /\ slider'.value = slider.value
    BY <1>1, <1>6 DEF SetSliderRange, SliderType
  <2> QED BY <2>1 DEF SliderFollows, SliderInv, TickTellsValue
<1>7. ASSUME NEW r \in SliderRanges, DestroySliderTick(r) PROVE SliderFollows
  <2> DEFINE k == IF slider.needsUpdate THEN [value |-> slider.value, max |-> r[2]] ELSE NoTick
             wide == slider.bounds \/ slider.needsUpdate
  <2>1. slider' = [slider EXCEPT !.range = r, !.needsUpdate = FALSE, !.bounds = wide, !.tick = k]
    BY <1>7 DEF DestroySliderTick
  <2>2. k \in [value : Int, max : Int]
    BY <1>2, SliderRangeType DEF NoTick
  <2>3. wide \in BOOLEAN
    OBVIOUS
  <2> HIDE DEF k, wide
  <2>4. slider' \in SliderType /\ slider'.tick = k /\ slider'.value = slider.value /\ slider'.range = r
    BY <1>1, <2>1, <2>2, <2>3 DEF SliderType
  <2> QED BY <2>4 DEF k, SliderFollows, SliderInv, TickTellsValue
<1>8. CASE SetUsableBoundsPct \/ SetXBounds
  <2>1. slider' \in SliderType /\ slider'.needsUpdate /\ slider'.value = slider.value
    BY <1>1, <1>8 DEF SetUsableBoundsPct, SetXBounds, SliderType
  <2> QED BY <2>1 DEF SliderFollows, SliderInv, TickTellsValue
<1>9. CASE UNCHANGED slider
  BY <1>9 DEF SliderFollows, SliderInv, TickTellsValue
<1>10. slider.value - 1 = slider.value + (-1)
  BY <1>2
<1> QED BY <1>3, <1>4, <1>5, <1>6, <1>7, <1>8, <1>9, <1>10 DEF SliderNext

LEMMA SliderInvInit == SliderInit => SliderInv
<1> SUFFICES ASSUME SliderInit PROVE SliderInv
  OBVIOUS
<1>1. PICK r \in SliderRanges, asks \in BOOLEAN, torn \in BOOLEAN :
         slider = [value |-> 0, range |-> r, bounds |-> TRUE, needsUpdate |-> asks,
                   tick |-> IF torn THEN NoTick ELSE [value |-> 0, max |-> 100]]
  BY DEF SliderInit
<1>2. slider \in SliderType
  BY <1>1 DEF SliderType, NoTick
<1> QED BY <1>1, <1>2 DEF SliderInv, TickTellsValue

\* Of any range, step, click, wheel and arrow, and whatever the game sets the
\* value, the range or the pointer to: what a scroll box or a slider moves to is
\* in the range of that moment, unless the game's own value is shown.
THEOREM ValuesStayInRange == Spec => StaysInRange
<1>1. Init => BoxInv /\ SliderInv
  BY BoxInvInit, SliderInvInit DEF Init
<1>2. BoxInv /\ SliderInv /\ [Next]_vars =>
        /\ BoxInv' /\ SliderInv'
        /\ [box'.value # box.value =>
              \/ box'.valuePtr # NoPointer
              \/ box'.value \in box'.range[1] .. box'.range[2]]_scrollBoxVars
        /\ [slider'.value # slider.value =>
              slider'.value \in slider'.range[1] .. slider'.range[2]]_slider
  BY PartSteps, ScrollBoxFollows, SliderStep DEF BoxInv, BoxFollows, InRange, SliderFollows
<1> QED BY <1>1, <1>2, PTL DEF Spec, StaysInRange, StepsStayInRange, SliderStaysInRange
-----------------------------------------------------------------------------
(* The timer *)

TimerType == [life : Nat, end : Nat, expired : BOOLEAN, units : Units]

\* A timer whose unit is unknown has expired, whatever else was set.
TimerInv ==
    /\ timer \in TimerType /\ now \in Nat
    /\ timer.units = "NONE" => timer.expired

LEMMA TicksAreNumbers ==
    ASSUME NEW u \in Units, u # "NONE"
    PROVE  Ticks[u] \in Nat \ {0}
BY TimerAssumption DEF Units

LEMMA AskedType ==
    ASSUME NEW t \in TimerType, now \in Nat
    PROVE  /\ Asked(t) \in TimerType /\ Asked(t).units = t.units
           /\ Asked(t).end = t.end /\ Asked(t).life = t.life
           /\ Asked(t).expired = (t.expired \/ now >= t.end)
<1> DEFINE over == t.expired \/ now >= t.end
<1>1. Asked(t) = [t EXCEPT !.expired = over]
  BY DEF Asked
<1>2. over \in BOOLEAN
  OBVIOUS
<1> HIDE DEF over
<1>3. Asked(t) \in TimerType /\ Asked(t).end = t.end /\ Asked(t).life = t.life
      /\ Asked(t).units = t.units
      /\ Asked(t).expired = over
  BY <1>1, <1>2 DEF TimerType
<1> QED BY <1>3 DEF over

LEMMA AdjustedType ==
    ASSUME NEW t \in TimerType, now \in Nat
    PROVE  /\ Adjusted(t) \in TimerType /\ Adjusted(t).units = t.units
           /\ t.expired => Adjusted(t).expired
           /\ t.units = "NONE" => Adjusted(t).expired
           /\ ~Adjusted(t).expired =>
                Adjusted(t).end = t.end + t.life * Ticks[t.units] /\ Adjusted(t).life = t.life
<1>1. CASE t.units # "NONE"
  <2> DEFINE e == t.end + t.life * Ticks[t.units]
             u == [t EXCEPT !.end = e]
  <2>1. e \in Nat
    <3>1. Ticks[t.units] \in Nat /\ t.life \in Nat /\ t.end \in Nat
      BY <1>1, TicksAreNumbers DEF TimerType
    <3>2. t.life * Ticks[t.units] \in Nat
      BY <3>1
    <3> QED BY <3>1, <3>2
  <2>2. Adjusted(t) = Asked(u)
    BY <1>1 DEF Adjusted
  <2> HIDE DEF e
  <2>3. u \in TimerType /\ u.end = e /\ u.life = t.life /\ u.expired = t.expired /\ u.units = t.units
    BY <2>1 DEF TimerType
  <2> HIDE DEF u
  <2>4. /\ Asked(u) \in TimerType /\ Asked(u).units = u.units
        /\ Asked(u).end = u.end /\ Asked(u).life = u.life
        /\ Asked(u).expired = (u.expired \/ now >= u.end)
    BY <2>3, AskedType
  <2> QED BY <1>1, <2>2, <2>3, <2>4 DEF e
<1>2. CASE t.units = "NONE"
  <2>1. Adjusted(t) = [t EXCEPT !.expired = TRUE]
    BY <1>2 DEF Adjusted
  <2>2. Adjusted(t) \in TimerType /\ Adjusted(t).expired /\ Adjusted(t).units = t.units
    BY <2>1 DEF TimerType
  <2> QED BY <2>2
<1> QED BY <1>1, <1>2

LEMMA SetUpType ==
    ASSUME NEW t \in TimerType, now \in Nat
    PROVE  /\ SetUp(t) \in TimerType
           /\ SetUp(t).units = "NONE" => SetUp(t).expired
           /\ ~SetUp(t).expired => SetUp(t).end = now + SetUp(t).life * Ticks[SetUp(t).units]
<1> DEFINE u == [t EXCEPT !.expired = FALSE, !.end = now]
<1>1. u \in TimerType /\ u.end = now
  BY DEF TimerType
<1>2. SetUp(t) = Adjusted(u)
  BY DEF SetUp
<1> HIDE DEF u
<1>3. /\ Adjusted(u) \in TimerType /\ Adjusted(u).units = u.units
      /\ u.units = "NONE" => Adjusted(u).expired
      /\ ~Adjusted(u).expired =>
           Adjusted(u).end = u.end + u.life * Ticks[u.units] /\ Adjusted(u).life = u.life
  BY <1>1, AdjustedType
<1> QED BY <1>1, <1>2, <1>3

\* An expired timer stays so or is set up.
TimerFollows ==
    timer.expired /\ ~timer'.expired =>
       /\ started' = now
       /\ timer'.units # "NONE" /\ timer'.end = now + timer'.life * Ticks[timer'.units]

LEMMA TimerStep ==
    ASSUME TimerInv, [TimerNext]_timerVars
    PROVE  TimerInv' /\ TimerFollows
<1> USE DEF TimerInv, TimerFollows
<1>1. CASE IsExpired
  BY <1>1, AskedType DEF IsExpired
<1>2. CASE AddTime
  BY <1>2, AdjustedType DEF AddTime
<1>3. CASE Restart
  BY <1>3, SetUpType DEF Restart
<1>4. ASSUME NEW life \in 0 .. MaxLife, NEW noSetup \in BOOLEAN, SetLife(life, noSetup)
      PROVE  TimerInv' /\ TimerFollows
  <2> DEFINE t == [timer EXCEPT !.life = life]
  <2>1. t \in TimerType /\ t.expired = timer.expired /\ t.units = timer.units
    BY TimerAssumption DEF TimerType
  <2>2. timer' = (IF noSetup THEN t ELSE SetUp(t)) /\ now' = now
        /\ (~noSetup => started' = now)
    BY <1>4 DEF SetLife
  <2> HIDE DEF t
  <2>3. /\ SetUp(t) \in TimerType
        /\ SetUp(t).units = "NONE" => SetUp(t).expired
        /\ ~SetUp(t).expired => SetUp(t).end = now + SetUp(t).life * Ticks[SetUp(t).units]
    BY <2>1, SetUpType
  <2> QED BY <2>1, <2>2, <2>3
<1>5. ASSUME NEW units \in Units, SetTimeUnits(units)
      PROVE  TimerInv' /\ TimerFollows
  <2> DEFINE t == [timer EXCEPT !.units = units]
  <2>1. t \in TimerType
    BY DEF TimerType
  <2>2. timer' = SetUp(t) /\ now' = now /\ started' = now
    BY <1>5 DEF SetTimeUnits
  <2> HIDE DEF t
  <2>3. /\ SetUp(t) \in TimerType
        /\ SetUp(t).units = "NONE" => SetUp(t).expired
        /\ ~SetUp(t).expired => SetUp(t).end = now + SetUp(t).life * Ticks[SetUp(t).units]
    BY <2>1, SetUpType
  <2> QED BY <2>2, <2>3
<1>6. CASE SetExpired
  BY <1>6 DEF SetExpired, TimerType
<1>7. CASE Passes
  BY <1>7, TimerAssumption DEF Passes
<1>8. CASE UNCHANGED timerVars
  BY <1>8 DEF timerVars
<1> QED BY <1>1, <1>2, <1>3, <1>4, <1>5, <1>6, <1>7, <1>8 DEF TimerNext

LEMMA TimerInvInit == TimerInit => TimerInv
<1> SUFFICES ASSUME TimerInit PROVE TimerInv
  OBVIOUS
<1>1. PICK life \in 0 .. MaxLife, units \in Units, noStart \in BOOLEAN :
         LET t == [life |-> life, end |-> 0, expired |-> noStart, units |-> units]
         IN timer = IF noStart THEN t ELSE SetUp(t)
  BY DEF TimerInit
<1> DEFINE t == [life |-> life, end |-> 0, expired |-> noStart, units |-> units]
<1>2. now \in Nat /\ life \in Nat
  BY TimerAssumption DEF TimerInit
<1>3. t \in TimerType /\ t.expired = noStart
  BY <1>2 DEF TimerType
<1>4. timer = IF noStart THEN t ELSE SetUp(t)
  BY <1>1
<1> HIDE DEF t
<1> QED BY <1>2, <1>3, <1>4, SetUpType DEF TimerInv

LEMMA CutToUnits ==
    ASSUME NEW left \in Nat, NEW ticks \in Nat \ {0}, NEW w \in Nat \ {0}, left < w * ticks
    PROVE  LET k == (left \div ticks) % w
           IN k * ticks <= left /\ left < (k + 1) * ticks
<1> DEFINE q == left \div ticks
<1>1. q \in Int /\ q * ticks <= left /\ left < (q + 1) * ticks
  OBVIOUS
<1> HIDE DEF q
<1>2. q >= 0
  <2> SUFFICES ASSUME q + 1 <= 0 PROVE FALSE
    BY <1>1
  <2>1. (q + 1) * ticks <= 0
    BY <1>1
  <2> QED BY <1>1, <2>1
<1>3. q < w
  <2> SUFFICES ASSUME q >= w PROVE FALSE
    BY <1>1
  <2>1. q * ticks >= w * ticks
    BY <1>1
  <2> QED BY <1>1, <2>1
<1>4. q % w = q
  BY <1>1, <1>2, <1>3
<1> QED BY <1>1, <1>4 DEF q

\* isExpired() and getTimeLeft() agree up to the unit that is cut off, and nothing
\* but setup() makes an expired timer run again, for any units, lives and times.
THEOREM TimersAgree == Spec => TimerAgrees
<1>1. TimerInv => ExpiryAgreesWithTimeLeft
  <2> DEFINE left == timer.end - now
             ticks == Ticks[timer.units]
  <2> SUFFICES ASSUME TimerInv, ~Asked(timer).expired
               PROVE  /\ timer.units # "NONE" /\ now < timer.end
                      /\ left < Width * ticks => TimeLeft * ticks <= left /\ left < (TimeLeft + 1) * ticks
    BY DEF ExpiryAgreesWithTimeLeft
  <2>1. ~(now >= timer.end) /\ ~timer.expired /\ timer.units # "NONE"
    BY AskedType DEF TimerInv
  <2>2. timer.end \in Nat /\ now \in Nat /\ timer.units \in Units
    BY DEF TimerInv, TimerType
  <2>3. left \in Nat /\ now < timer.end
    BY <2>1, <2>2
  <2>4. ticks \in Nat \ {0} /\ Width \in Nat \ {0}
    BY <2>1, <2>2, TicksAreNumbers, TimerAssumption
  <2>5. TimeLeft = (left \div ticks) % Width
    BY <2>1, <2>3 DEF TimeLeft, Whole
  <2> HIDE DEF left, ticks
  <2>6. left < Width * ticks => TimeLeft * ticks <= left /\ left < (TimeLeft + 1) * ticks
    BY <2>3, <2>4, <2>5, CutToUnits
  <2> QED BY <2>1, <2>3, <2>6
<1>2. Init => TimerInv
  BY TimerInvInit DEF Init
<1>3. TimerInv /\ [Next]_vars =>
        /\ TimerInv'
        /\ [timer.expired /\ ~timer'.expired =>
               /\ started' = now
               /\ timer'.units # "NONE" /\ timer'.end = now + timer'.life * Ticks[timer'.units]]_timerVars
  BY PartSteps, TimerStep DEF TimerFollows
<1> QED BY <1>1, <1>2, <1>3, PTL DEF Spec, TimerAgrees, ExpiredForGood
-----------------------------------------------------------------------------
(* The drop-down list *)

\* The selection is an element of the list, or of one that was shortened under an
\* open popout, which offers no more than the list had when it made its boxes.
ListInv ==
    /\ list = [elements |-> list.elements, selected |-> list.selected,
               text |-> list.text, needsUpdate |-> list.needsUpdate]
    /\ \E S : list.elements \in Seq(S)
    /\ list.selected \in Nat
    /\ boxes \in Nat
    /\ shrunk \/ list.selected < Len(list.elements) \/ (list.elements = <<>> /\ list.selected = 0)
    /\ shrunk \/ boxes = Closed \/ boxes <= Len(list.elements)
    /\ listFault => shrunk
    /\ TextIsSelected

LEMMA ListsAreSequences ==
    ASSUME NEW l \in Lists
    PROVE  \E S : l \in Seq(S)
BY DropdownAssumption

LEMMA ListLength ==
    ASSUME NEW l, \E S : l \in Seq(S)
    PROVE  Len(l) \in Nat /\ (l # <<>> => Len(l) > 0)
OBVIOUS

LEMMA ListsJoin ==
    ASSUME NEW k, \E S : k \in Seq(S), NEW l, \E S : l \in Seq(S)
    PROVE  /\ \E S : k \o l \in Seq(S)
           /\ Len(k \o l) = Len(k) + Len(l)
           /\ k = <<>> => k \o l = l
<1>1. PICK S : k \in Seq(S)
  OBVIOUS
<1>2. PICK T : l \in Seq(T)
  OBVIOUS
<1>3. k \in Seq(S \cup T) /\ l \in Seq(S \cup T)
  BY <1>1, <1>2
<1> QED BY <1>3

LEMMA ListIsStep ==
    ASSUME ListInv, NEW l, \E S : l \in Seq(S), NEW n \in Nat,
           ListIs(l, n),
           n < Len(l) \/ (l = <<>> /\ n = 0) \/ shrunk
    PROVE  ListInv'
<1>1. /\ list' = [elements |-> l, selected |-> n, text |-> list.text, needsUpdate |-> TRUE]
      /\ shrunk' = (shrunk \/ (boxes # Closed /\ boxes > Len(l)))
      /\ boxes' = boxes /\ listFault' = listFault
  <2>1. list' = [list EXCEPT !.elements = l, !.selected = n, !.needsUpdate = TRUE]
    BY DEF ListIs
  <2>2. list' = [elements |-> l, selected |-> n, text |-> list.text, needsUpdate |-> TRUE]
    BY <2>1 DEF ListInv
  <2> QED BY <2>2 DEF ListIs, UnchangedPopout
<1>2. Len(l) \in Nat /\ boxes \in Nat
  BY ListLength DEF ListInv
<1>3. boxes > Len(l) \/ boxes <= Len(l)
  BY <1>2
<1>4. shrunk' \/ boxes' = Closed' \/ boxes' <= Len(list'.elements)
  BY <1>1, <1>3 DEF Closed
<1>5. shrunk' \/ n < Len(l) \/ (l = <<>> /\ n = 0)
  BY <1>1
<1>6. listFault' => shrunk'
  BY <1>1 DEF ListInv
<1> QED BY <1>1, <1>2, <1>4, <1>5, <1>6 DEF ListInv, TextIsSelected

LEMMA ListStep ==
    ASSUME ListInv, [DropdownNext]_dropdownVars
    PROVE  ListInv'
<1>1. Len(list.elements) \in Nat /\ (list.elements # <<>> => Len(list.elements) > 0)
  BY ListLength DEF ListInv
<1>2. CASE UpdateList
  <2>1. UNCHANGED <<boxes, shrunk>>
    BY <1>2 DEF UpdateList, UnchangedPopout
  <2>2. CASE UNCHANGED <<list, listFault>>
    BY <2>1, <2>2 DEF ListInv, TextIsSelected, Closed
  <2>3. CASE list.needsUpdate /\ list.elements = <<>>
    <3>1. list' = [elements |-> list.elements, selected |-> 0, text |-> "NULL", needsUpdate |-> FALSE]
          /\ listFault' = listFault
      BY <1>2, <2>3 DEF UpdateList, ListInv
    <3> QED BY <2>1, <2>3, <3>1 DEF ListInv, TextIsSelected, Closed
  <2>4. CASE list.needsUpdate /\ list.elements # <<>> /\ list.selected >= Len(list.elements)
    <3>1. listFault' = TRUE /\ list' = list
      BY <1>2, <2>4 DEF UpdateList
    <3>2. shrunk
      BY <1>1, <2>4 DEF ListInv
    <3> QED BY <2>1, <3>1, <3>2 DEF ListInv, TextIsSelected, Closed
  <2>5. CASE list.needsUpdate /\ list.elements # <<>> /\ ~(list.selected >= Len(list.elements))
    <3>1. list' = [elements |-> list.elements, selected |-> list.selected,
                   text |-> list.elements[list.selected + 1], needsUpdate |-> FALSE]
          /\ listFault' = listFault
      BY <1>2, <2>5 DEF UpdateList, ListInv
    <3> QED BY <2>1, <2>5, <3>1 DEF ListInv, TextIsSelected, Closed
  <2> QED BY <1>2, <2>2, <2>3, <2>4, <2>5 DEF UpdateList
<1>3. CASE OpenPopout
  BY <1>1, <1>3 DEF OpenPopout, ListInv, TextIsSelected, Closed
<1>4. CASE UpdatePopout
  <2>1. boxes' \in {boxes, Len(list.elements)} /\ UNCHANGED <<list, shrunk, listFault>>
    BY <1>4 DEF UpdatePopout
  <2> QED BY <1>1, <2>1 DEF ListInv, TextIsSelected, Closed
<1>5. CASE ScrollPopout
  BY <1>5 DEF ScrollPopout, ListInv, TextIsSelected, Closed
<1>6. CASE ClickPopout
  <2>1. boxes' = Closed /\ Closed \in Nat /\ boxes # Closed /\ shrunk' = shrunk /\ listFault' = listFault
    <3>1. Closed \in Nat
      BY DropdownAssumption DEF Closed
    <3> QED BY <1>6, <3>1 DEF ClickPopout
  <2>2. CASE UNCHANGED list
    BY <2>1, <2>2 DEF ListInv, TextIsSelected, Closed
  <2>3. ASSUME NEW i \in 0 .. boxes - 1, list' = [list EXCEPT !.selected = i, !.needsUpdate = TRUE]
        PROVE  ListInv'
    <3>1. list' = [elements |-> list.elements, selected |-> i, text |-> list.text, needsUpdate |-> TRUE]
      BY <2>3 DEF ListInv
    <3>2. i \in Nat /\ i < boxes
      BY DEF ListInv
    <3>3. shrunk \/ i < Len(list.elements)
      BY <1>1, <2>1, <3>2 DEF ListInv
    <3> QED BY <2>1, <3>1, <3>2, <3>3 DEF ListInv, TextIsSelected, Closed
  <2> QED BY <1>6, <2>2, <2>3 DEF ClickPopout
<1>7. ASSUME NEW l \in Lists, SetElements(l) PROVE ListInv'
  <2>1. \E S : l \in Seq(S)
    BY ListsAreSequences
  <2>2. 0 < Len(l) \/ l = <<>>
    BY <2>1, ListLength
  <2> QED BY <1>7, <2>1, <2>2, ListIsStep DEF SetElements
<1>8. ASSUME NEW l \in Lists, AddElements(l) PROVE ListInv'
  <2> DEFINE k == list.elements
             n == list.selected
  <2>1. /\ \E S : k \o l \in Seq(S)
        /\ Len(k \o l) = Len(k) + Len(l)
        /\ k = <<>> => k \o l = l
    BY ListsAreSequences, ListsJoin DEF ListInv
  <2>2. Len(l) \in Nat /\ (l # <<>> => Len(l) > 0) /\ Len(k) \in Nat
    BY <1>1, ListsAreSequences, ListLength
  <2>3. n \in Nat /\ ListIs(k \o l, n)
    BY <1>8 DEF AddElements, ListInv
  <2>4. n < Len(k \o l) \/ (k \o l = <<>> /\ n = 0) \/ shrunk
    <3>1. shrunk \/ n < Len(k) \/ (k = <<>> /\ n = 0)
      BY DEF ListInv
    <3> HIDE DEF k, n
    <3>2. CASE n < Len(k)
      BY <2>1, <2>2, <2>3, <3>2
    <3>3. CASE k = <<>> /\ n = 0
      BY <2>1, <2>2, <3>3
    <3> QED BY <3>1, <3>2, <3>3
  <2> HIDE DEF k, n
  <2> QED BY <2>1, <2>3, <2>4, ListIsStep
<1>9. ASSUME NEW i \in 0 .. MaxElements - 1, SetSelectedElement(i) PROVE ListInv'
  <2>1. list' = [elements |-> list.elements, selected |-> i, text |-> list.text, needsUpdate |-> TRUE]
        /\ UNCHANGED <<boxes, shrunk, listFault>>
    BY <1>9 DEF SetSelectedElement, UnchangedPopout, ListInv
  <2>2. i \in Nat /\ i < Len(list.elements)
    BY <1>9, DropdownAssumption DEF SetSelectedElement
  <2> QED BY <2>1, <2>2 DEF ListInv, TextIsSelected, Closed
<1>10. CASE SetListText
  <2>1. list' = [elements |-> list.elements, selected |-> list.selected, text |-> "given",
                 needsUpdate |-> list.needsUpdate]
        /\ UNCHANGED <<boxes, shrunk, listFault>>
    BY <1>10 DEF SetListText, UnchangedPopout, ListInv
  <2> QED BY <2>1 DEF ListInv, TextIsSelected, Closed
<1>11. CASE UNCHANGED dropdownVars
  BY <1>11 DEF dropdownVars, ListInv, TextIsSelected, Closed
<1> QED BY <1>2, <1>3, <1>4, <1>5, <1>6, <1>7, <1>8, <1>9, <1>10, <1>11 DEF DropdownNext

LEMMA ListInvInit == DropdownInit => ListInv
<1> SUFFICES ASSUME DropdownInit PROVE ListInv
  OBVIOUS
<1>1. PICK l \in Lists, text \in {"NULL", "given"} :
         list = [elements |-> l, selected |-> 0, text |-> text, needsUpdate |-> l # <<>>]
  BY DEF DropdownInit
<1>2. /\ \E S : l \in Seq(S)
      /\ Len(l) \in Nat /\ (l # <<>> => Len(l) > 0)
  BY ListsAreSequences, ListLength
<1>3. boxes = Closed /\ Closed \in Nat /\ ~listFault
  BY DropdownAssumption DEF DropdownInit, Closed
<1>4. TextIsSelected
  BY <1>1 DEF TextIsSelected
<1> QED BY <1>1, <1>2, <1>3, <1>4 DEF ListInv

-----------------------------------------------------------------------------
(* The radio buttons and the tick box *)

RadioInv ==
    /\ radio \in [Radios -> [ticked : BOOLEAN, needsUpdate : BOOLEAN,
                             address : {"none", "ticked", "unticked"}]]
    /\ RadiosDrawnRight
    /\ clicked => \E b \in Radios : \A r \in Radios : radio[r].ticked <=> r = b

LEMMA RadioStep ==
    ASSUME RadioInv, [RadioNext]_radioVars
    PROVE  RadioInv'
<1> DEFINE Button == [ticked : BOOLEAN, needsUpdate : BOOLEAN, address : {"none", "ticked", "unticked"}]
<1>1. radio \in [Radios -> Button]
  BY DEF RadioInv
<1>2. ASSUME NEW r \in Button, NEW t \in BOOLEAN
      PROVE  SetRadio(r, t) \in Button /\ SetRadio(r, t).needsUpdate /\ SetRadio(r, t).ticked = t
  BY DEF SetRadio
<1>3. CASE UpdateRadios
  <2> DEFINE drawn(r) == [r EXCEPT !.needsUpdate = FALSE, !.address = RadioFace(r.ticked)]
  <2>1. ASSUME NEW r \in Button
        PROVE  drawn(r) \in Button /\ drawn(r).ticked = r.ticked /\ drawn(r).address = RadioFace(r.ticked)
    BY DEF RadioFace
  <2>2. radio' = [b \in Radios |-> IF radio[b].needsUpdate THEN drawn(radio[b]) ELSE radio[b]]
        /\ clicked' = clicked
    BY <1>3 DEF UpdateRadios
  <2> HIDE DEF drawn
  <2>3. radio' \in [Radios -> Button]
    BY <1>1, <2>1, <2>2
  <2>4. \A b \in Radios : radio'[b].ticked = radio[b].ticked
    BY <1>1, <2>1, <2>2
  <2>5. RadiosDrawnRight'
    <3> SUFFICES ASSUME NEW b \in Radios, ~radio'[b].needsUpdate
                 PROVE  radio'[b].address \in {"none", RadioFace(radio'[b].ticked)}
      BY DEF RadiosDrawnRight, RadioFace
    <3>1. CASE radio[b].needsUpdate
      BY <1>1, <2>1, <2>2, <3>1
    <3>2. CASE ~radio[b].needsUpdate
      BY <1>1, <2>2, <3>2 DEF RadioInv, RadiosDrawnRight
    <3> QED BY <3>1, <3>2
  <2> QED BY <2>2, <2>3, <2>4, <2>5 DEF RadioInv
<1>4. ASSUME NEW b \in Radios, ClickRadio(b) PROVE RadioInv'
  <2>1. radio' = [r \in Radios |-> SetRadio(radio[r], r = b)]
    BY <1>4 DEF ClickRadio, TickButton
  <2>2. \A r \in Radios : /\ radio'[r] \in Button /\ radio'[r].needsUpdate
                          /\ radio'[r].ticked = (r = b)
    BY <1>1, <1>2, <2>1
  <2>3. radio' \in [Radios -> Button]
    BY <2>1, <2>2
  <2> QED BY <2>2, <2>3 DEF RadioInv, RadiosDrawnRight
<1>5. ASSUME NEW b \in Radios, NEW t \in BOOLEAN, GameTicksRadio(b, t) PROVE RadioInv'
  <2>1. radio' = [radio EXCEPT ![b] = SetRadio(radio[b], t)] /\ clicked' = FALSE
    BY <1>5 DEF GameTicksRadio
  <2>2. SetRadio(radio[b], t) \in Button /\ SetRadio(radio[b], t).needsUpdate
    BY <1>1, <1>2
  <2>3. radio' \in [Radios -> Button]
    BY <1>1, <2>1, <2>2
  <2>4. RadiosDrawnRight'
    BY <1>1, <2>1, <2>2 DEF RadioInv, RadiosDrawnRight, RadioFace
  <2> QED BY <2>1, <2>3, <2>4 DEF RadioInv
<1>6. CASE UNCHANGED radioVars
  BY <1>6 DEF radioVars, RadioInv, RadiosDrawnRight, RadioFace
<1> QED BY <1>3, <1>4, <1>5, <1>6 DEF RadioNext

LEMMA RadioInvInit == RadioInit => RadioInv
<1> SUFFICES ASSUME RadioInit PROVE RadioInv
  OBVIOUS
<1>1. PICK ticked \in SUBSET Radios, asks \in BOOLEAN :
         radio = [b \in Radios |-> [ticked |-> b \in ticked, address |-> "none",
                                    needsUpdate |-> asks \/ b \in ticked]]
  BY DEF RadioInit
<1>2. \A b \in Radios : /\ radio[b] \in [ticked : BOOLEAN, needsUpdate : BOOLEAN,
                                         address : {"none", "ticked", "unticked"}]
                        /\ radio[b].address = "none"
  BY <1>1
<1> QED BY <1>1, <1>2 DEF RadioInit, RadioInv, RadiosDrawnRight

LEMMA OneTicked == RadioInv => OneTickedAfterClick
<1> SUFFICES ASSUME RadioInv, clicked
             PROVE  \E b \in Radios : {r \in Radios : radio[r].ticked} = {b} /\ GetTicked = b
  BY DEF OneTickedAfterClick
<1>1. PICK b \in Radios : \A r \in Radios : radio[r].ticked <=> r = b
  BY DEF RadioInv
<1>2. RadioOrder[b] <= RadioOrder[b]
  BY RadioAssumption
<1>3. \A c \in Radios :
        (radio[c].ticked /\ \A o \in Radios : radio[o].ticked => RadioOrder[c] <= RadioOrder[o]) <=> c = b
  BY <1>1, <1>2
<1>4. GetTicked = b
  BY <1>3 DEF GetTicked
<1> QED BY <1>1, <1>4

\* With the default textures no texture is ever missing.
TickInv ==
    /\ tick = [ticked |-> tick.ticked, needsUpdate |-> tick.needsUpdate,
               hoverTexture |-> tick.hoverTexture, address |-> tick.address, texture |-> tick.texture]
    /\ tick.hoverTexture => tick.texture # "none"
    /\ FaultsWithoutHover

LEMMA ResetRecord ==
    ASSUME tick = [ticked |-> tick.ticked, needsUpdate |-> tick.needsUpdate,
                   hoverTexture |-> tick.hoverTexture, address |-> tick.address, texture |-> tick.texture]
    PROVE  ResetTick(tick) = [ticked |-> tick.ticked, needsUpdate |-> TRUE,
                              hoverTexture |-> tick.hoverTexture, address |-> tick.address,
                              texture |-> Face(tick.ticked)]
<1>1. ASSUME NEW f, NEW r, r = [tick EXCEPT !.texture = f, !.needsUpdate = TRUE]
      PROVE  r = [ticked |-> tick.ticked, needsUpdate |-> TRUE, hoverTexture |-> tick.hoverTexture,
                  address |-> tick.address, texture |-> f]
  BY <1>1
<1>2. ResetTick(tick) = [tick EXCEPT !.texture = Face(tick.ticked), !.needsUpdate = TRUE]
  BY DEF ResetTick
<1> QED BY <1>1, <1>2

LEMMA TickStep ==
    ASSUME TickInv, [TickNext]_tickVars
    PROVE  TickInv'
<1> USE DEF TickInv, FaultsWithoutHover
<1>1. Face(tick.ticked) # "none" /\ Face(~tick.ticked) # "none"
  BY DEF Face
<1>2. ASSUME NEW texture, NEW ticked, NEW asks, NEW address,
             tick.hoverTexture => texture # "none",
             tick' = [ticked |-> ticked, needsUpdate |-> asks, hoverTexture |-> tick.hoverTexture,
                      address |-> address, texture |-> texture],
             tickFault' = tickFault
      PROVE  TickInv'
  BY <1>2
<1>3. CASE UNCHANGED <<tick, tickFault>>
  BY <1>3
<1>4. CASE HoverTick
  <2>1. tick' = [ticked |-> tick.ticked, needsUpdate |-> tick.needsUpdate,
                 hoverTexture |-> tick.hoverTexture, address |-> tick.address,
                 texture |-> IF tick.hoverTexture THEN "hover" ELSE "none"]
        /\ tickFault' = tickFault
    BY <1>4 DEF HoverTick
  <2> QED BY <2>1
<1>5. ASSUME NEW ticked, SetTicked(ticked) PROVE TickInv'
  <2>1. PICK texture \in {Face(ticked)} \cup (IF tick.hoverTexture THEN {} ELSE {"none"}) :
           tick' = [ticked |-> ticked, needsUpdate |-> tick.needsUpdate,
                    hoverTexture |-> tick.hoverTexture, address |-> tick.address,
                    texture |-> texture]
    BY <1>5 DEF SetTicked
  <2>2. tick.hoverTexture => texture # "none"
    BY <2>1 DEF Face
  <2> QED BY <1>2, <1>5, <2>1, <2>2 DEF SetTicked
<1>6. CASE ForceTick
  BY <1>6 DEF ForceTick
<1>8. CASE GameTextures
  BY <1>8 DEF GameTextures
<1>7. CASE UpdateTick
  <2>1. CASE tick.needsUpdate
    BY <1>7, <2>1 DEF UpdateTick
  <2>2. CASE ~tick.needsUpdate /\ ~tickOver /\ (tick.texture = "none" \/ ~tick.hoverTexture)
    BY <1>7, <2>2 DEF UpdateTick
  <2>3. CASE ~tick.needsUpdate /\ ~(~tickOver /\ (tick.texture = "none" \/ ~tick.hoverTexture))
    <3>1. (tick' = tick \/ tick' = ResetTick(tick)) /\ tickFault' = tickFault
      BY <1>7, <2>3 DEF UpdateTick
    <3>2. ResetTick(tick) = [ticked |-> tick.ticked, needsUpdate |-> TRUE,
                             hoverTexture |-> tick.hoverTexture, address |-> tick.address,
                             texture |-> Face(tick.ticked)]
      BY ResetRecord
    <3>3. CASE tick' = tick
      BY <1>3, <3>1, <3>3
    <3>4. CASE tick' = ResetTick(tick)
      BY <1>1, <1>2, <3>1, <3>2, <3>4
    <3> QED BY <3>1, <3>3, <3>4
  <2> QED BY <2>1, <2>2, <2>3
<1> QED BY <1>3, <1>4, <1>5, <1>6, <1>7, <1>8 DEF TickNext, LeaveTick, ClickTick, GameTicks, tickVars

LEMMA TickInvInit == TickInit => TickInv
<1> SUFFICES ASSUME TickInit PROVE TickInv
  OBVIOUS
<1>1. PICK ticked \in BOOLEAN, asks \in BOOLEAN, given \in {"own", "default", "none"} :
         tick = [ticked |-> ticked, needsUpdate |-> given = "own" \/ asks,
                 hoverTexture |-> given = "default", address |-> "none",
                 texture |-> IF given = "default" THEN Face(ticked) ELSE given]
  BY DEF TickInit
<1> QED BY <1>1 DEF TickInit, TickInv, FaultsWithoutHover, Face

\* A scroll box, slider, list or radio button that waits for no update is drawn
\* as what it is, or with the text it was given since, for every range, step, list
\* and number of buttons.
THEOREM ShownIsTrue == Spec => []ShownIsHeld
<1>1. Init => BoxInv /\ SliderInv /\ ListInv /\ RadioInv
  BY BoxInvInit, SliderInvInit, ListInvInit, RadioInvInit DEF Init
<1>2. BoxInv /\ SliderInv /\ ListInv /\ RadioInv /\ [Next]_vars
        => BoxInv' /\ SliderInv' /\ ListInv' /\ RadioInv'
  BY PartSteps, ScrollBoxFollows, SliderStep, ListStep, RadioStep DEF BoxInv, BoxFollows, SliderFollows
<1>3. BoxInv => TextShowsValue
  BY DEF BoxInv, Settled, TextShowsValue
<1>4. BoxInv /\ SliderInv /\ ListInv /\ RadioInv => ShownIsHeld
  BY <1>3, OneTicked DEF ShownIsHeld, SliderInv, ListInv, RadioInv
<1> QED BY <1>1, <1>2, <1>4, PTL DEF Spec

-----------------------------------------------------------------------------
(* The file of a frame *)

IsBuilt(o) == o \in Elemental(file) /\ o \notin todo

Entry == [kind : Kinds \cup {"none"}, texture : {"none", "own", "default"}]

\* A name is taken by the kind of an object that is built; until two kinds share
\* one, every object that is built finds its kind under its name.
BuildInv ==
    /\ file \in Files /\ todo \subseteq file
    /\ elements \in [Names -> Entry]
    /\ \A n \in Names :
         elements[n] = Absent \/ \E o : IsBuilt(o) /\ o.name = n /\ o.kind = elements[n].kind
    /\ ~miscast => \A o : IsBuilt(o) => elements[o.name].kind = o.kind
    /\ FileTexturesKept /\ EverythingTextured /\ OnlyGroupsLost /\ MiscastNeedsSharedName

LEMMA ObjectsOfFiles ==
    ASSUME BuildInv, NEW o \in file
    PROVE  o.kind \in Kinds /\ o.name \in Names /\ o.kind # "none" /\ o.texture \in BOOLEAN
<1>1. o \in [kind : Kinds, name : Names, texture : BOOLEAN]
  BY FilesAssumption DEF BuildInv
<1> QED BY <1>1 DEF Kinds

LEMMA BuildInvInit == BuildInit => BuildInv
<1> SUFFICES ASSUME BuildInit PROVE BuildInv
  OBVIOUS
<1>1. elements \in [Names -> Entry] /\ \A n \in Names : elements[n] = Absent
  BY DEF BuildInit, Empty, Absent, Entry
<1>2. \A o : ~IsBuilt(o)
  BY DEF BuildInit, IsBuilt, Elemental
<1> QED BY <1>1, <1>2 DEF BuildInit, BuildInv, EverythingTextured, FileTexturesKept, IsBuilt, Absent, OnlyGroupsLost, MiscastNeedsSharedName

LEMMA ElementIsBuilt ==
    ASSUME BuildInv, ~miscast, NEW o \in todo, BuildElement(o)
    PROVE  BuildInv'
<1>0. PICK arrows \in BOOLEAN :
         elements' = [elements EXCEPT ![o.name] = [Added(o) EXCEPT !.texture = Texture(o, arrows)]]
  BY DEF BuildElement
<1> DEFINE old == elements[o.name]
           new == [kind |-> Added(o).kind, texture |-> Texture(o, arrows)]
<1>1. o \in file /\ o.kind \in Kinds /\ o.name \in Names /\ o.kind # "none" /\ o \in Elemental(file)
  BY ObjectsOfFiles DEF BuildInv, BuildElement, Elemental
<1>2. old \in Entry /\ elements \in [Names -> Entry]
  BY <1>1 DEF BuildInv
<1>3. Added(o) \in Entry /\ Added(o).kind = (IF old = Absent THEN o.kind ELSE old.kind)
  BY <1>1, <1>2 DEF Added, Entry
<1>4. /\ new \in Entry /\ new.kind = Added(o).kind
      /\ fallback /\ new.texture = "none" => new.kind \in NoDefault
      /\ o.texture => new.texture = "own"
  BY <1>3 DEF Entry, Texture
<1>5. /\ elements' = [elements EXCEPT ![o.name] = new]
      /\ todo' = todo \ {o} /\ file' = file /\ fallback' = fallback
      /\ lost' = (IF old = Absent THEN lost ELSE lost \cup {o})
      /\ miscast' = (miscast \/ Added(o).kind # o.kind)
  <2>1. [Added(o) EXCEPT !.texture = Texture(o, arrows)] = new
    BY <1>3 DEF Entry
  <2> QED BY <1>0, <2>1 DEF BuildElement
<1>6. \A p : IsBuilt(p)' <=> IsBuilt(p) \/ p = o
  BY <1>1, <1>5 DEF IsBuilt, Elemental, BuildInv
<1>7. new # Absent
  <2>1. CASE old = Absent
    BY <1>1, <1>3, <1>4, <2>1 DEF Absent
  <2>2. CASE old # Absent
    <3>1. PICK p : IsBuilt(p) /\ p.kind = old.kind
      BY <1>1, <2>2 DEF BuildInv
    <3>2. old.kind # "none"
      BY <3>1, ObjectsOfFiles DEF IsBuilt, Elemental
    <3> HIDE DEF old, new
    <3> QED BY <1>3, <1>4, <2>2, <3>2 DEF Absent
  <2> QED BY <2>1, <2>2
<1>8. elements' \in [Names -> Entry] /\ elements'[o.name] = new
      /\ \A n \in Names \ {o.name} : elements'[n] = elements[n]
  BY <1>1, <1>2, <1>4, <1>5
<1> HIDE DEF new, old
<1>9. \E p : IsBuilt(p)' /\ p.name = o.name /\ p.kind = new.kind
  <2>1. CASE old = Absent
    BY <1>3, <1>4, <1>6, <2>1
  <2>2. CASE old # Absent
    BY <1>1, <1>3, <1>4, <1>6, <2>2 DEF BuildInv, old
  <2> QED BY <2>1, <2>2
<1>10. \A n \in Names : elements'[n] = Absent \/ \E p : IsBuilt(p)' /\ p.name = n /\ p.kind = elements'[n].kind
  <2> SUFFICES ASSUME NEW n \in Names, elements'[n] # Absent
               PROVE  \E p : IsBuilt(p)' /\ p.name = n /\ p.kind = elements'[n].kind
    OBVIOUS
  <2>1. CASE n = o.name
    BY <1>8, <1>9, <2>1
  <2>2. CASE n # o.name
    BY <1>6, <1>8, <2>2 DEF BuildInv
  <2> QED BY <2>1, <2>2
<1>11. ~miscast' => \A p : IsBuilt(p)' => elements'[p.name].kind = p.kind
  <2> SUFFICES ASSUME Added(o).kind = o.kind, NEW p, IsBuilt(p)'
               PROVE  elements'[p.name].kind = p.kind
    BY <1>5
  <2>1. CASE p = o
    BY <1>4, <1>8, <2>1
  <2>2. CASE p # o
    <3>1. IsBuilt(p) /\ p.name \in Names /\ elements[p.name].kind = p.kind
      BY <1>6, <2>2, ObjectsOfFiles DEF BuildInv, IsBuilt, Elemental
    <3>2. CASE p.name = o.name
      <4>1. old.kind = p.kind /\ old # Absent
        BY <3>1, <3>2, ObjectsOfFiles DEF old, Absent, IsBuilt, Elemental
      <4> QED BY <1>3, <1>4, <1>8, <3>2, <4>1
    <3>3. CASE p.name # o.name
      BY <1>8, <3>1, <3>3
    <3> QED BY <3>2, <3>3
  <2> QED BY <2>1, <2>2
<1>12. EverythingTextured'
  <2> SUFFICES ASSUME fallback, NEW n \in Names, elements'[n].texture = "none"
               PROVE  elements'[n].kind \in NoDefault \cup {"none"}
    BY <1>5 DEF EverythingTextured, NoDefault
  <2>1. CASE n = o.name
    BY <1>4, <1>8, <2>1
  <2>2. CASE n # o.name
    BY <1>8, <2>2 DEF BuildInv, EverythingTextured
  <2> QED BY <2>1, <2>2
<1>13. old # Absent => \E p \in Elemental(file) : p # o /\ p.name = o.name /\ p.kind = old.kind
  BY <1>1 DEF BuildInv, IsBuilt, old
<1>14. OnlyGroupsLost'
  <2> SUFFICES ASSUME Added(o).kind = o.kind PROVE lost' = lost
    BY <1>5 DEF BuildInv, OnlyGroupsLost
  <2>1. CASE old = Absent
    BY <1>5, <2>1
  <2>2. CASE old # Absent
    <3>1. PICK p \in Elemental(file) : p # o /\ p.name = o.name /\ p.kind = o.kind
      BY <1>3, <1>13, <2>2
    <3> QED BY <1>1, <3>1, FilesAssumption DEF BuildInv, Elemental
  <2> QED BY <2>1, <2>2
<1>15. MiscastNeedsSharedName'
  <2> SUFFICES ASSUME Added(o).kind # o.kind
               PROVE  \E p, q \in Elemental(file) : p.name = q.name /\ p.kind # q.kind
    BY <1>5 DEF MiscastNeedsSharedName, Elemental
  <2>1. PICK p \in Elemental(file) : p.name = o.name /\ p.kind # o.kind
    BY <1>3, <1>13
  <2> QED BY <1>1, <2>1
<1>17. FileTexturesKept'
  <2> SUFFICES ASSUME Added(o).kind = o.kind, NEW p, IsBuilt(p)', p.texture
               PROVE  elements'[p.name].texture = "own"
    BY <1>5 DEF FileTexturesKept, IsBuilt
  <2>1. CASE p = o
    BY <1>4, <1>8, <2>1
  <2>2. CASE p # o
    <3>1. IsBuilt(p) /\ p.name \in Names /\ elements[p.name].texture = "own" /\ elements[p.name].kind = p.kind
      BY <1>6, <2>2, ObjectsOfFiles DEF BuildInv, IsBuilt, Elemental, FileTexturesKept
    <3>2. p.name # o.name
      <4> SUFFICES ASSUME p.name = o.name PROVE FALSE
        OBVIOUS
      <4>1. old.kind = p.kind /\ old # Absent
        BY <3>1, ObjectsOfFiles DEF old, Absent, IsBuilt, Elemental
      <4>2. p.kind = o.kind
        BY <1>3, <4>1
      <4> QED BY <1>1, <2>2, <3>1, <4>2, FilesAssumption DEF BuildInv, IsBuilt, Elemental
    <3> QED BY <1>8, <3>1, <3>2
  <2> QED BY <2>1, <2>2
<1>16. file' \in Files /\ todo' \subseteq file'
  BY <1>5 DEF BuildInv
<1> QED BY <1>8, <1>10, <1>11, <1>12, <1>14, <1>15, <1>16, <1>17 DEF BuildInv, Absent

LEMMA BuildStep ==
    ASSUME BuildInv, [BuildNext]_buildVars
    PROVE  BuildInv'
<1>1. ASSUME ~miscast, NEW o \in todo, BuildElement(o) PROVE BuildInv'
  BY <1>1, ElementIsBuilt
<1>2. ASSUME NEW o \in todo, BuildRadioGroup(o) PROVE BuildInv'
  <2>1. \A p : IsBuilt(p)' <=> IsBuilt(p)
    BY <1>2 DEF BuildRadioGroup, IsBuilt, Elemental
  <2>2. OnlyGroupsLost' /\ MiscastNeedsSharedName' /\ EverythingTextured' /\ FileTexturesKept'
    BY <1>2 DEF BuildRadioGroup, BuildInv, OnlyGroupsLost, MiscastNeedsSharedName, EverythingTextured,
                FileTexturesKept, Elemental, NoDefault
  <2> QED BY <1>2, <2>1, <2>2 DEF BuildRadioGroup, BuildInv, Absent
<1>3. ASSUME ~miscast, NEW f \in Files, BuildAgain(f) PROVE BuildInv'
  <2>1. elements' \in [Names -> Entry] /\ \A n \in Names : elements'[n] = Absent
    BY <1>3 DEF BuildAgain, Empty, Absent, Entry
  <2>2. \A o : ~IsBuilt(o)'
    BY <1>3 DEF BuildAgain, IsBuilt, Elemental
  <2>3. OnlyGroupsLost' /\ MiscastNeedsSharedName' /\ EverythingTextured' /\ FileTexturesKept'
    BY <1>3, <2>1 DEF BuildAgain, BuildInv, OnlyGroupsLost, MiscastNeedsSharedName, EverythingTextured,
                      FileTexturesKept, Elemental, Absent
  <2> QED BY <1>3, <2>1, <2>2, <2>3 DEF BuildAgain, BuildInv, Absent
<1>4. CASE UNCHANGED buildVars
  BY <1>4 DEF buildVars, BuildInv, IsBuilt, Elemental, EverythingTextured, OnlyGroupsLost,
              FileTexturesKept, MiscastNeedsSharedName, Absent
<1> QED BY <1>1, <1>2, <1>3, <1>4 DEF BuildNext

LEMMA BuiltIsTheFile == BuildInv => ElementsAreTheFiles
<1> SUFFICES ASSUME BuildInv, todo = {}, ~miscast, NEW n \in Names
             PROVE  {elements[n].kind} \ {"none"} = {o.kind : o \in {p \in Elemental(file) : p.name = n}}
  BY DEF ElementsAreTheFiles
<1>1. \A o : IsBuilt(o) <=> o \in Elemental(file)
  BY DEF IsBuilt
<1>2. \A o \in Elemental(file) : o.name = n => o.kind = elements[n].kind /\ o.kind # "none"
  BY <1>1, ObjectsOfFiles DEF BuildInv, Elemental
<1>3. elements[n].kind # "none" => \E o \in Elemental(file) : o.name = n /\ o.kind = elements[n].kind
  BY <1>1 DEF BuildInv, Absent
<1> QED BY <1>2, <1>3

\* A frame is what its last file says, textured unless that was switched off, and
\* only groups are never deleted, for every set of files.
THEOREM FramesAreTheirFiles == Spec => []FrameIsItsFile
<1>1. Init => BuildInv
  BY BuildInvInit DEF Init
<1>2. BuildInv /\ [Next]_vars => BuildInv'
  BY PartSteps, BuildStep
<1>3. BuildInv => FrameIsItsFile
  BY BuiltIsTheFile DEF FrameIsItsFile, BuildInv
<1> QED BY <1>1, <1>2, <1>3, PTL DEF Spec

\* Each null pointer, each index beyond a list and each wrong cast has a cause that
\* is named, whatever the game, the mouse and the files do.
THEOREM FaultsHaveCauses == Spec => []FaultsAreKnown
<1>1. Init => BoxInv /\ ListInv /\ TickInv /\ BuildInv
  BY BoxInvInit, ListInvInit, TickInvInit, BuildInvInit DEF Init
<1>2. BoxInv /\ ListInv /\ TickInv /\ BuildInv /\ [Next]_vars => BoxInv' /\ ListInv' /\ TickInv' /\ BuildInv'
  BY PartSteps, ScrollBoxFollows, ListStep, TickStep, BuildStep DEF BoxInv, BoxFollows
<1>3. BoxInv => ArrowsComing
  BY DEF BoxInv, Settled, ArrowsComing
<1>4. ListInv => SelectionExists
  <2> SUFFICES ASSUME ListInv, list.elements # <<>>, list.selected >= Len(list.elements)
               PROVE  shrunk
    BY DEF ListInv, SelectionExists
  <2>1. Len(list.elements) \in Nat /\ list.selected \in Nat
    BY ListLength DEF ListInv
  <2>2. ~(list.selected < Len(list.elements))
    BY <2>1
  <2> QED BY <2>2 DEF ListInv
<1>5. TickInv /\ BuildInv => FaultsWithoutHover /\ MiscastNeedsSharedName
  BY DEF TickInv, BuildInv
<1> QED BY <1>1, <1>2, <1>3, <1>4, <1>5, PTL DEF Spec, FaultsAreKnown
=============================================================================
