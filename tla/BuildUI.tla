------------------------------ MODULE BuildUI ------------------------------
(***************************************************************************)
(* GUI::buildUI() (gui/GUI.cpp) and the add functions of gui/Frame.cpp:    *)
(* the elements a configuration file becomes.  An object of the file is    *)
(* unique within its kind, and a frame keeps its elements by name alone.   *)
(* What the settings of a kind are is in the modules of the elements; here *)
(* a setting matters by the object it reaches and by the texture it gives. *)
(***************************************************************************)
EXTENDS Naturals, FiniteSets

CONSTANTS Names,    \* of the objects of a frame's file
          Files     \* sets of [kind, name, texture] that a file may hold for it

Kinds == {"dropdowns", "pushbuttons", "radiogroups", "scrollboxes", "sliders", "textobjects", "tickboxes"}

ASSUME FilesAssumption ==
  \A f \in Files :
    /\ f \subseteq [kind : Kinds, name : Names, texture : BOOLEAN]
    /\ \A o, p \in f : o.kind = p.kind /\ o.name = p.name => o = p

VARIABLES
  file,      \* the objects of m_config
  todo,      \* those not yet built
  elements,  \* m_frameElements: of each name, the kind and the texture, or Absent
  lost,      \* objects that nobody will delete
  fallback,  \* m_fallbackDefault
  miscast    \* an object was taken for one of another kind

buildVars == <<file, todo, elements, lost, fallback, miscast>>

Absent == [kind |-> "none", texture |-> "none"]
Empty == [n \in Names |-> Absent]

BuildInit ==
  /\ file \in Files /\ todo = file
  /\ elements = Empty
  /\ lost = {} /\ fallback \in BOOLEAN /\ miscast = FALSE

\* Mutation of Added: the newer object takes the name.
NewestAdded(o) == [kind |-> o.kind, texture |-> "none"]

\* addDropdown() and its likes: insert() keeps the object that has the name
\* already, and at() returns that one.
Added(o) ==
  IF elements[o.name] = Absent THEN [kind |-> o.kind, texture |-> "none"] ELSE elements[o.name]

\* defaultTextures() of a text does nothing, that of a push button leaves m_texture
\* to the first update().
NoDefault == {"textobjects", "pushbuttons"}

\* Mutation of Texture: the default ones are not looked for.
BareTexture(o, arrows) == IF o.texture THEN "own" ELSE Added(o).texture

\* Mutation of Texture: the default ones come last, whether the file gave one or not.
LastTexture(o, arrows) ==
  IF fallback /\ Added(o).kind \notin NoDefault THEN "default"
  ELSE IF o.texture THEN "own" ELSE Added(o).texture

\* setTexture of the file, or defaultTextures() of the object at hand, which is
\* called for a scroll box without arrows of its own even if the fallback is off.
Texture(o, arrows) ==
  IF o.texture THEN "own"
  ELSE IF (fallback /\ Added(o).kind \notin NoDefault) \/ (o.kind = "scrollboxes" /\ ~arrows)
  THEN "default" ELSE Added(o).texture

\* One object of the file is added and its settings are read, with or without the
\* textures of two arrows.  If its name was taken it is lost, and the object of that
\* name is cast to the wrong kind.
BuildElement(o) ==
  /\ o.kind # "radiogroups"
  /\ \E arrows \in BOOLEAN :
       elements' = [elements EXCEPT ![o.name] = [Added(o) EXCEPT !.texture = Texture(o, arrows)]]
  /\ lost' = IF elements[o.name] = Absent THEN lost ELSE lost \cup {o}
  /\ miscast' = (miscast \/ Added(o).kind # o.kind)
  /\ todo' = todo \ {o}
  /\ UNCHANGED <<file, fallback>>

\* The buttons are added under their full path; the group itself is kept by them
\* alone, and by nobody who deletes it.
BuildRadioGroup(o) ==
  /\ o.kind = "radiogroups"
  /\ lost' = lost \cup {o}
  /\ todo' = todo \ {o}
  /\ UNCHANGED <<file, elements, fallback, miscast>>

\* Mutation of BuildAgain: the elements of the file before stay.
KeepingBuildAgain(f) ==
  /\ todo = {}
  /\ file' = f /\ todo' = f
  /\ UNCHANGED <<elements, lost, fallback, miscast>>

\* Another file: dispose() deletes the frames with the elements they keep.
BuildAgain(f) ==
  /\ todo = {}
  /\ file' = f /\ todo' = f
  /\ elements' = Empty
  /\ UNCHANGED <<lost, fallback, miscast>>

BuildNext ==
  /\ ~miscast
  /\ \/ \E o \in todo : BuildElement(o) \/ BuildRadioGroup(o)
     \/ \E f \in Files : BuildAgain(f)

-----------------------------------------------------------------------------

Elemental(f) == {o \in f : o.kind # "radiogroups"}

\* What a frame holds once a file is read is what the file says, of the kind the
\* file says, and nothing of the file before.
ElementsAreTheFiles ==
  todo = {} /\ ~miscast =>
    \A n \in Names : {elements[n].kind} \ {"none"} = {o.kind : o \in {p \in Elemental(file) : p.name = n}}

\* An object is taken for one of another kind only if the file gives one name to
\* two objects of a frame.
MiscastNeedsSharedName ==
  miscast => \E o, p \in Elemental(file) : o.name = p.name /\ o.kind # p.kind

\* A texture the file gives is the one the element has: the default ones, read
\* before it for a scroll box and after it for the others, never take its place.
FileTexturesKept ==
  ~miscast => \A o \in Elemental(file) \ todo : o.texture => elements[o.name].texture = "own"

\* Unless the fallback is off, only texts, which show none, and push buttons, which
\* take theirs in their first update, are built without a texture.
EverythingTextured ==
  fallback => \A n \in Names : elements[n].texture = "none" => elements[n].kind \in NoDefault \cup {"none"}

\* Only radio groups are never deleted, as long as names are not shared.
OnlyGroupsLost == ~miscast => \A o \in lost : o.kind = "radiogroups"

=============================================================================
