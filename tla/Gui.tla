-------------------------------- MODULE Gui --------------------------------
(***************************************************************************)
(* gui/GUI.cpp with gui/Frame.cpp, ToolTip.cpp and ContextMenu.cpp: the    *)
(* pointers the GUI keeps from one event to the next (the frame, the       *)
(* object under the mouse, the object being edited, the popout, the        *)
(* context menu) and the lives of what they point to.                      *)
(*                                                                         *)
(* Where the rectangles lie is data: an event finds the mouse inside any   *)
(* set of frames and over any element, because frames are dragged, and     *)
(* moved by the game, between any two events.  A popout and a context menu *)
(* never set the rectangle the GUI tests (m_screenDestRect, all zero): they*)
(* are hit at the corner (0, 0) only.  m_isPermanent is set by nothing, so *)
(* no element of a frame ever expires.                                     *)
(***************************************************************************)
EXTENDS Naturals, FiniteSets

CONSTANTS Frames, Elements, Menus, None,
          Owner,      \* the frame of an element
          Kind,       \* "scrollbox", "dropdown" or "button"
          Tipped,     \* the elements with a tool tip message
          First,      \* the frames the first buildUI() makes
          MaxStarts   \* bound: calls of init()

Objects == Elements \cup Menus

ASSUME GuiAssumption ==
  /\ Owner \in [Elements -> Frames] /\ First \subseteq Frames
  /\ Kind \in [Elements -> {"scrollbox", "dropdown", "button"}]
  /\ Tipped \subseteq Elements
  /\ None \notin Objects \cup Frames
  /\ Elements \cap Menus = {}

VARIABLES
  running,      \* m_isRunning
  starts,       \* calls of init()
  frames,       \* m_frames
  created,      \* the frames made so far
  lastFrame,    \* m_lastFrame
  lastTouched,  \* m_lastTouchedObject
  hover,        \* e_hover
  popout,       \* the parent of e_dropdownPopout
  menu,         \* m_contextMenu
  menus,        \* the context menus made so far
  menuExpired,  \* its m_TTL
  tip,          \* m_toolTip: [active, visible, due]
  textInput,    \* SDL_IsTextInputActive()
  draft,        \* the object whose text m_inputString continues
  editing,      \* the elements with m_isInEditMode
  cursors,      \* the objects with m_hasCursor
  undefined     \* what was done that has no defined outcome

pointers == <<lastFrame, hover, popout, menu, editing>>
keyboard == <<lastTouched, textInput, draft, cursors>>
lives == <<running, starts, frames, created, menus>>
guiVars == <<lives, pointers, keyboard, menuExpired, tip, undefined>>

TypeOK ==
  /\ frames \subseteq Frames /\ created \subseteq Frames /\ menus \subseteq Menus
  /\ lastFrame \in Frames \cup {None}
  /\ lastTouched \in Objects \cup {None} /\ hover \in Objects \cup {None}
  /\ popout \in Elements \cup {None} /\ menu \in Menus \cup {None}
  /\ tip \in [active : BOOLEAN, visible : BOOLEAN, due : BOOLEAN]
  /\ draft \in Objects \cup {None}
  /\ editing \subseteq Elements /\ cursors \subseteq Objects
  /\ undefined \in {"", "hover", "touched", "frame", "delete", "item texture"}

Hidden == [active |-> FALSE, visible |-> FALSE, due |-> FALSE]

\* After the first init() and buildUI().
GuiInit ==
  /\ running = TRUE /\ starts = 1
  /\ frames = First /\ created = First
  /\ lastFrame = None /\ lastTouched = None /\ hover = None
  /\ popout = None /\ menu = None /\ menus = {} /\ menuExpired = FALSE
  /\ tip = Hidden
  /\ textInput = FALSE /\ draft = None
  /\ editing = {} /\ cursors = {}
  /\ undefined = ""

Alive(o) == IF o \in Menus THEN o = menu ELSE Owner[o] \in frames

Undefined(what) ==
  /\ undefined' = what
  /\ UNCHANGED <<lives, pointers, keyboard, menuExpired, tip>>

-----------------------------------------------------------------------------
(* guiCollision()                                                          *)

\* hasCollision() of an element: a scroll box is edited when its text is
\* clicked and no longer when the mouse is on an arrow, a drop-down list opens
\* its popout and closes that of another.
React(e, action, arrow) ==
  /\ editing' = IF Kind[e] # "scrollbox" THEN editing
                ELSE IF arrow THEN editing \ {e}
                ELSE IF action = "left" THEN editing \cup {e} ELSE editing
  /\ popout' = IF Kind[e] = "dropdown" /\ action = "left" THEN e ELSE popout

\* getCollisionObject(): the first element hit; else the frame may be dragged.
CollisionObject(f, action, hit) ==
  \/ \E e \in Elements, arrow \in BOOLEAN :
       Owner[e] = f /\ hit = e /\ React(e, action, arrow)
  \/ hit = None /\ UNCHANGED <<editing, popout>>

\* The frame that was under the mouse last comes before all others.
InLastFrame(action, ret) ==
  /\ lastFrame # None
  /\ CollisionObject(lastFrame, action, ret)
  /\ hover' = ret
  /\ UNCHANGED <<lastFrame, menu>>

\* DropdownPopout::hasCollision(): a left click selects an item or closes.
OnPopout(action, ret) ==
  /\ popout # None
  /\ \/ ret = popout /\ hover' = popout /\ UNCHANGED popout
     \/ action = "left" /\ ret = None /\ popout' = None /\ UNCHANGED hover
  /\ UNCHANGED <<lastFrame, menu, editing>>

\* ContextMenu::hasCollision(), of a menu without items: a click beside closes.
OnMenu(action, ret) ==
  /\ popout = None /\ menu # None
  /\ \/ ret = menu /\ hover' = menu /\ UNCHANGED menu
     \/ action = "left" /\ ret = None /\ menu' = None /\ UNCHANGED hover
  /\ UNCHANGED <<lastFrame, popout, editing>>

InFrame(f, action, ret) ==
  /\ f # lastFrame
  /\ CollisionObject(f, action, ret)
  /\ hover' = ret /\ lastFrame' = f
  /\ UNCHANGED menu

\* Nothing is under the mouse.  A frame that is dragged fast, with the button
\* held, stays the last one; what it reports is not used.
Nowhere(action, ret) ==
  /\ \/ /\ lastFrame # None
        /\ \E hit \in Elements \cup {None} : CollisionObject(lastFrame, action, hit)
        /\ UNCHANGED lastFrame
     \/ lastFrame' = None /\ UNCHANGED <<editing, popout>>
  /\ hover' = None /\ ret = None
  /\ UNCHANGED menu

\* Where the mouse is decides: in the last frame, at the corner (0, 0) with a
\* popout or a menu open, in another frame, or in none.
GuiCollision(action, ret) ==
  \/ InLastFrame(action, ret)
  \/ OnPopout(action, ret)
  \/ OnMenu(action, ret)
  \/ \E f \in frames : InFrame(f, action, ret)
  \/ Nowhere(action, ret)

LastFrameIsDead == lastFrame # None /\ lastFrame \notin frames

-----------------------------------------------------------------------------
(* Mouse events                                                            *)

\* Mutation of ToolTipLogic: the delay starts anew with each motion.
RestlessToolTipLogic(h) ==
  IF h = None THEN tip' = [tip EXCEPT !.active = FALSE, !.visible = FALSE]
  ELSE tip' = [active |-> h \in Tipped, visible |-> FALSE, due |-> FALSE]

\* toolTipLogic() and ToolTip::setHoverObject(): the tip follows the object
\* under the mouse; for a new one its timer is set to expired.
ToolTipLogic(h) ==
  IF h = None
  THEN tip' = IF tip.active THEN [tip EXCEPT !.active = FALSE, !.visible = FALSE] ELSE tip
  ELSE tip' = [active |-> h \in Tipped,
               visible |-> tip.active /\ h \in Tipped /\ tip.visible,
               due |-> tip.due \/ ~tip.active]

MouseMotion ==
  \E ret \in Objects \cup {None} :
    /\ GuiCollision("move", ret)
    /\ IF hover' # None /\ ~(IF hover' \in Menus THEN hover' = menu' ELSE Owner[hover'] \in frames)
       THEN undefined' = "hover" /\ UNCHANGED tip
       ELSE ToolTipLogic(hover') /\ UNCHANGED undefined
    /\ UNCHANGED <<lives, keyboard, menuExpired>>

\* Mutation of TouchObject: the cursor stays with the object left.
CarelessTouchObject(o) ==
  /\ lastTouched' = o
  /\ draft' = IF o \in Elements /\ Kind[o] # "button" THEN o ELSE None
  /\ textInput' = (o \in editing')
  /\ UNCHANGED cursors

\* touchObject(obj): obj is edited from now on if it is in edit mode.
TouchObject(o) ==
  /\ lastTouched' = o
  /\ cursors' = cursors \ {lastTouched}
  /\ draft' = IF o \in Elements /\ Kind[o] # "button" THEN o ELSE None
  /\ textInput' = (o \in editing')

\* A click beside all objects leaves the one that is edited in edit mode.
MouseButtonDown(button) ==
  \E ret \in Objects \cup {None} :
    /\ GuiCollision(button, ret)
    /\ IF ret = None THEN UNCHANGED <<keyboard, undefined>>
       ELSE IF lastTouched # None /\ ~Alive(lastTouched)
       THEN undefined' = "touched" /\ UNCHANGED keyboard
       ELSE TouchObject(ret) /\ UNCHANGED undefined
    /\ UNCHANGED <<lives, menuExpired, tip>>

MouseWheel ==
  \E ret \in Objects \cup {None} :
    /\ GuiCollision("wheel", ret)
    /\ UNCHANGED <<lives, keyboard, menuExpired, tip, undefined>>

-----------------------------------------------------------------------------
(* Keyboard events                                                         *)

TakesKeys == lastTouched # None /\ textInput

\* Mutation of Insert: what is typed continues the text of the object under
\* the mouse.
HoveringInsert ==
  /\ draft' = hover
  /\ UNCHANGED <<lastTouched, textInput, cursors>>

\* SDL_TEXTINPUT, Ctrl-V and backspace.  What is read past an empty string, once
\* its last character has been taken back, decides on an underscore only.
Insert ==
  /\ draft' = lastTouched
  /\ UNCHANGED <<lastTouched, textInput, cursors>>

\* Mutation of Finish: SDL goes on delivering text.
OpenFinish ==
  /\ cursors' = cursors \ {lastTouched}
  /\ draft' = None /\ lastTouched' = None
  /\ UNCHANGED textInput

\* Escape and Return: touchObject(m_lastTouchedObject, true).
Finish ==
  /\ cursors' = cursors \ {lastTouched}
  /\ draft' = None /\ lastTouched' = None
  /\ textInput' = FALSE

KeyEvent ==
  /\ TakesKeys
  /\ IF ~Alive(lastTouched)
     THEN undefined' = "touched" /\ UNCHANGED keyboard
     ELSE (Insert \/ Finish) /\ UNCHANGED undefined
  /\ UNCHANGED <<lives, pointers, menuExpired, tip>>

\* onSDLEvent()
OnSDLEvent ==
  /\ running
  /\ \/ KeyEvent
     \/ /\ ~LastFrameIsDead
        /\ MouseMotion \/ MouseButtonDown("left") \/ MouseButtonDown("right") \/ MouseWheel
     \/ LastFrameIsDead /\ Undefined("frame")

Quit ==
  /\ running
  /\ running' = FALSE
  /\ UNCHANGED <<starts, frames, created, menus, pointers, keyboard, menuExpired, tip, undefined>>

-----------------------------------------------------------------------------
(* update() and the timers                                                 *)

\* ToolTip::update(): whatever is under the mouse, the tip shows when it is due.
UpdateToolTip ==
  tip' = IF hover = None THEN [tip EXCEPT !.active = FALSE, !.visible = FALSE]
         ELSE [tip EXCEPT !.visible = tip.visible \/ tip.due]

\* Mutation of UpdateContextMenu: an open popout comes first.
ShadowedUpdateContextMenu == menu' = IF menuExpired /\ popout = None THEN None ELSE menu

\* ContextMenu::update(): e_hover may still point to the menu that goes.
UpdateContextMenu == menu' = IF menuExpired THEN None ELSE menu

\* Mutation of UpdateCursor: it is not asked whether an object is edited.
EagerUpdateCursor(blinks) ==
  cursors' = IF ~blinks THEN cursors
             ELSE IF lastTouched \in cursors THEN cursors \ {lastTouched}
             ELSE cursors \cup {lastTouched}

\* The cursor of the object that is edited blinks: it changes each time
\* m_cursorBlinkTimer has expired, which it may have at any update.
UpdateCursor(blinks) ==
  cursors' = IF ~TakesKeys \/ ~blinks THEN cursors
             ELSE IF lastTouched \in cursors THEN cursors \ {lastTouched}
             ELSE cursors \cup {lastTouched}

Update ==
  /\ running
  /\ \E blinks \in BOOLEAN :
       IF TakesKeys /\ blinks /\ ~Alive(lastTouched)
       THEN Undefined("touched")
       ELSE /\ UpdateToolTip /\ UpdateContextMenu /\ UpdateCursor(blinks)
            /\ UNCHANGED <<lives, lastFrame, hover, popout, editing, lastTouched,
                           textInput, draft, menuExpired, undefined>>

\* Time passes for the timers of the menu and the tool tip.
MenuTimer ==
  /\ menu # None /\ menuExpired' = TRUE
  /\ UNCHANGED <<lives, pointers, keyboard, tip, undefined>>

TipTimer ==
  /\ tip' = [tip EXCEPT !.due = TRUE]
  /\ UNCHANGED <<lives, pointers, keyboard, menuExpired, undefined>>

-----------------------------------------------------------------------------
(* Calls of the game                                                       *)

\* addContextMenu(): the constructor reads the address of m_hoverTexture, which
\* nothing sets, for the first item: only a menu without items comes to be.
AddContextMenu(m) ==
  /\ m \notin menus
  /\ \/ /\ menu' = m /\ menus' = menus \cup {m} /\ menuExpired' = FALSE
        /\ UNCHANGED <<running, starts, frames, created, lastFrame, hover, popout,
                       editing, keyboard, tip, undefined>>
     \/ Undefined("item texture")

\* addFrame() and the elements added to it.
AddFrame(f) ==
  /\ f \notin created
  /\ frames' = frames \cup {f} /\ created' = created \cup {f}
  /\ UNCHANGED <<running, starts, menus, pointers, keyboard, menuExpired, tip, undefined>>

\* Mutation of Dispose: e_hover is left as it is.
ForgetfulDispose ==
  /\ running' = FALSE
  /\ frames' = {} /\ popout' = None /\ menu' = None
  /\ tip' = Hidden /\ editing' = {} /\ cursors' = {}
  /\ UNCHANGED <<starts, created, menus, lastFrame, hover, lastTouched, textInput, draft,
                 menuExpired, undefined>>

\* dispose(), by the destructor or by a second buildUI(): e_hover is deleted
\* once with its frame, or with the menu, and then once more by its name.
\* m_lastFrame and m_lastTouchedObject are left as they are.
Dispose ==
  IF hover # None THEN Undefined("delete")
  ELSE /\ running' = FALSE
       /\ frames' = {} /\ popout' = None /\ menu' = None /\ hover' = None
       /\ tip' = Hidden /\ editing' = {} /\ cursors' = {}
       /\ UNCHANGED <<starts, created, menus, lastFrame, lastTouched, textInput, draft,
                      menuExpired, undefined>>

\* init(), again: SDL_StopTextInput() and a new tool tip.
Start ==
  /\ ~running /\ starts < MaxStarts
  /\ running' = TRUE /\ starts' = starts + 1
  /\ textInput' = FALSE /\ tip' = Hidden
  /\ UNCHANGED <<frames, created, menus, pointers, lastTouched, draft, cursors,
                 menuExpired, undefined>>

-----------------------------------------------------------------------------

GuiNext ==
  /\ undefined = ""
  /\ \/ OnSDLEvent \/ Quit \/ Update
     \/ MenuTimer \/ TipTimer
     \/ Dispose \/ Start
     \/ \E m \in Menus : AddContextMenu(m)
     \/ \E f \in Frames : AddFrame(f)

-----------------------------------------------------------------------------

\* What the GUI points to is alive, with two exceptions: a context menu that is
\* gone, and, once dispose() has run, the last frame and the last object.
DanglingIsKnown ==
  /\ hover # None /\ ~Alive(hover) => hover \in Menus
  /\ lastTouched # None /\ ~Alive(lastTouched) => lastTouched \in Menus \/ frames # created
  /\ LastFrameIsDead => frames # created
  /\ popout # None => Alive(popout)

\* A cursor is shown on the object that is touched, and on no other.
CursorOnTouched == cursors \subseteq {lastTouched}

\* A context menu goes by itself, unless the GUI stops before.
MenuGoes ==
  \A m \in Menus : menu = m ~> (menu # m \/ ~running \/ undefined # "")

\* The tip of an object the mouse rests or moves on is shown.
TipShown ==
  tip.active ~> (tip.visible \/ ~tip.active \/ ~running \/ undefined # "")

\* The GUI keeps the promise of Focus: keys go to the object that was touched.
Keyboard == INSTANCE Focus WITH
  Nobody <- None, focus <- lastTouched, typing <- textInput, draft <- draft

KeysGoToFocus == Keyboard!FocusSpec

=============================================================================
