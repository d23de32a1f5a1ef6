------------------------------ MODULE Dropdown ------------------------------
(***************************************************************************)
(* gui/DropDown.cpp: a list, the popout that shows it, and what becomes of *)
(* an open popout when the game changes the list.                          *)
(***************************************************************************)
EXTENDS Naturals, Sequences

CONSTANTS Lists,       \* what the game passes to setElements() and addElements()
          MaxElements  \* bound on the length of the list

ASSUME DropdownAssumption ==
  /\ MaxElements \in Nat
  /\ \A l \in Lists : l \in Seq({l[i] : i \in DOMAIN l}) /\ Len(l) <= MaxElements

VARIABLES
  list,       \* elements, selected (m_selectedElement), text, needsUpdate
  boxes,      \* the boxes of the open popout, or Closed
  popoutAsks, \* m_needsUpdate of the popout, or it scrolls
  shrunk,     \* the list became shorter than the boxes of its open popout
  listFault   \* m_elements was read beyond its end

dropdownVars == <<list, boxes, popoutAsks, shrunk, listFault>>
UnchangedPopout == UNCHANGED <<boxes, popoutAsks>>

Closed == MaxElements + 1

\* The constructor's update() came before the elements of the file, and before a
\* text the file may give.
DropdownInit ==
  /\ \E l \in Lists, text \in {"NULL", "given"} :
       list = [elements |-> l, selected |-> 0, text |-> text, needsUpdate |-> l # <<>>]
  /\ boxes = Closed /\ popoutAsks = FALSE /\ shrunk = FALSE /\ listFault = FALSE

\* update()
UpdateList ==
  /\ IF ~list.needsUpdate THEN UNCHANGED <<list, listFault>>
     ELSE IF list.elements = <<>>
     THEN list' = [list EXCEPT !.selected = 0, !.text = "NULL", !.needsUpdate = FALSE] /\ UNCHANGED listFault
     ELSE IF list.selected >= Len(list.elements)
     THEN listFault' = TRUE /\ UNCHANGED list
     ELSE /\ list' = [list EXCEPT !.text = list.elements[list.selected + 1], !.needsUpdate = FALSE]
          /\ UNCHANGED listFault
  /\ UnchangedPopout /\ UNCHANGED shrunk

\* The game changes the elements; the first one is selected, or the selection
\* stays.  An open popout is not told.
ListIs(elements, selected) ==
  /\ list' = [list EXCEPT !.elements = elements, !.selected = selected, !.needsUpdate = TRUE]
  /\ shrunk' = (shrunk \/ (boxes # Closed /\ boxes > Len(elements)))
  /\ UnchangedPopout /\ UNCHANGED listFault

\* Mutation of SetElements: the selection stays.
SelectedSetElements(l) == ListIs(l, list.selected)

\* setElements() and, with no list, clearElements().
SetElements(l) == ListIs(l, 0)

AddElements(l) ==
  /\ Len(list.elements) + Len(l) <= MaxElements
  /\ ListIs(list.elements \o l, list.selected)

\* Mutation of SetSelectedElement: the text stays.
StillSetSelectedElement(i) ==
  /\ i < Len(list.elements)
  /\ list' = [list EXCEPT !.selected = i]
  /\ UnchangedPopout /\ UNCHANGED <<shrunk, listFault>>

\* The game knows its list: it selects an element that is there.
SetSelectedElement(i) ==
  /\ i < Len(list.elements)
  /\ list' = [list EXCEPT !.selected = i, !.needsUpdate = TRUE]
  /\ UnchangedPopout /\ UNCHANGED <<shrunk, listFault>>

\* setText(): the game gives the list a text of its own; no update is asked for, and
\* the next one writes the selected element again.
SetListText ==
  /\ list' = [list EXCEPT !.text = "given"]
  /\ UnchangedPopout /\ UNCHANGED <<shrunk, listFault>>

\* A click on the list replaces an open popout by a new one, without boxes.
OpenPopout ==
  /\ boxes' = 0 /\ popoutAsks' = TRUE /\ shrunk' = shrunk
  /\ UNCHANGED <<list, listFault>>

\* DropdownPopout::update(): boxes are made once, while there are none.
UpdatePopout ==
  /\ boxes # Closed
  /\ boxes' = IF popoutAsks /\ boxes = 0 THEN Len(list.elements) ELSE boxes
  /\ popoutAsks' = FALSE
  /\ UNCHANGED <<list, shrunk, listFault>>

\* The wheel, or the mouse on another box.
ScrollPopout ==
  /\ boxes # Closed
  /\ popoutAsks' = TRUE
  /\ UNCHANGED <<list, boxes, shrunk, listFault>>

\* A click on a box selects the element of its number and closes the popout, a
\* click beside closes it.
ClickPopout ==
  /\ boxes # Closed
  /\ \/ \E i \in 0 .. boxes - 1 :
          list' = [list EXCEPT !.selected = i, !.needsUpdate = TRUE]
     \/ UNCHANGED list
  /\ boxes' = Closed /\ popoutAsks' = FALSE
  /\ UNCHANGED <<shrunk, listFault>>

DropdownNext ==
  /\ ~listFault
  /\ \/ UpdateList \/ SetListText \/ OpenPopout \/ UpdatePopout \/ ScrollPopout \/ ClickPopout
     \/ \E l \in Lists : SetElements(l) \/ AddElements(l)
     \/ \E i \in 0 .. MaxElements - 1 : SetSelectedElement(i)

-----------------------------------------------------------------------------

\* The selected element exists, unless the list was shortened under an open
\* popout, whose boxes still offer what is gone: only then is it read beyond
\* its end.
SelectionExists ==
  /\ list.elements # <<>> /\ list.selected >= Len(list.elements) => shrunk
  /\ listFault => shrunk

\* A list that waits for no update shows the element that is selected now, never one
\* that was, or the text the game gave it.
TextIsSelected ==
  ~list.needsUpdate =>
    \/ list.text = "given"
    \/ list.text = IF list.elements = <<>> THEN "NULL" ELSE list.elements[list.selected + 1]

=============================================================================
