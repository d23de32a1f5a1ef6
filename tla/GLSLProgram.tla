---------------------------- MODULE GLSLProgram ----------------------------
(***************************************************************************)
(* GLSLProgram (draw/GLSLProgram.cpp): objects that compile and link a      *)
(* program of the driver, use it, copy its name and delete it.  The driver  *)
(* gives a deleted program's name to the next one that is created, and      *)
(* keeps the enabled attributes of each vertex array.  Sources of shaders,  *)
(* uniforms and the error paths of compiling, which end the process, are    *)
(* left out.                                                                *)
(***************************************************************************)
EXTENDS Integers, FiniteSets, FiniteSetsExt

CONSTANTS
  Programs,      \* the GLSLProgram objects: of DebugRenderer, Renderer2D, GUIRenderer
  Names,         \* names that the driver gives out
  Arrays,        \* vertex arrays of the renderers and of the game
  MaxAttributes  \* bound of the calls of addAttribute()

NoArray == "no array"

ASSUME ProgramAssumption == Names \subseteq Nat \ {0} /\ MaxAttributes \in Nat /\ NoArray \notin Arrays

VARIABLES
  id,          \* m_programID, 0 before
  attributes,  \* m_numAttrib
  inUse,       \* m_isInUse
  maker,        \* maker[p]: the object that compiled what p has, itself or the one it copies
  disposed,    \* objects that were disposed of since they were compiled, and their copies
  living,      \* names of the driver's programs
  current,     \* the driver's program in use
  bound,       \* the driver's vertex array
  enabled,     \* <<v, i>>: attribute i of array v is enabled
  left,        \* those for which no unuse() answers: see LeaveArray, CopyProgram
  robbed       \* <<p, q>>: p deleted the program that q has

programVars == <<id, attributes, inUse, maker, disposed, living, current, bound, enabled, left, robbed>>

ProgramInit ==
  /\ id = [p \in Programs |-> 0] /\ attributes = [p \in Programs |-> 0]
  /\ inUse = [p \in Programs |-> FALSE] /\ maker = [p \in Programs |-> p]
  /\ disposed = {} /\ living = {} /\ current = 0
  /\ bound = NoArray /\ enabled = {} /\ left = {} /\ robbed = {}

Free == Names \ living

Has(p) == id[p] # 0 /\ p \notin disposed

\* compileShadersFromSource() and linkShaders(): what was compiled before is
\* not deleted.
Compile(p) ==
  /\ Free # {}
  /\ id' = [id EXCEPT ![p] = Min(Free)]
  /\ living' = living \cup {Min(Free)}
  /\ maker' = [maker EXCEPT ![p] = p]
  /\ disposed' = disposed \ {p}
  /\ UNCHANGED <<attributes, inUse, current, bound, enabled, left, robbed>>

AddAttribute(p) ==
  /\ attributes[p] < MaxAttributes
  /\ attributes' = [attributes EXCEPT ![p] = @ + 1]
  /\ UNCHANGED <<id, inUse, maker, disposed, living, current, bound, enabled, left, robbed>>

\* glDeleteProgram() of the name that p has, whoever has it as well.
Deleted(p) ==
  /\ living' = living \ {id[p]}
  /\ robbed' = robbed \cup {<<p, q>> : q \in {q \in Programs \ {p} : Has(q) /\ id[q] = id[p]}}

\* Mutation of Recompile: the old program is deleted, or whatever has its name.
CleanRecompile(p) ==
  /\ id[p] # 0
  /\ robbed' = robbed \cup {<<p, q>> : q \in {q \in Programs \ {p} : Has(q) /\ id[q] = id[p]}}
  /\ \E n \in Names : n = Min(Free \cup {id[p]}) /\ id' = [id EXCEPT ![p] = n] /\ living' = (living \ {id[p]}) \cup {n}
  /\ maker' = [maker EXCEPT ![p] = p]
  /\ disposed' = disposed \ {p}
  /\ UNCHANGED <<attributes, inUse, current, bound, enabled, left>>

\* init() of a renderer that was disposed of compiles again.
Recompile(p) == id[p] # 0 /\ Compile(p)

FirstCompile(p) == id[p] = 0 /\ Compile(p)

\* dispose(), which the destructor calls as well: the name is kept.
DisposeProgram(p) ==
  /\ Deleted(p)
  /\ disposed' = disposed \cup {p}
  /\ UNCHANGED <<id, attributes, inUse, maker, current, bound, enabled, left>>

\* The attributes that q has enabled, in whatever array it was used.
EnabledBy(q) == {x \in enabled : x[2] < attributes[q]}

\* The copy constructor and the assignment, q = p: the copy has the same program of
\* the driver.  What q had enabled it forgets.
CopyProgram(p, q) ==
  /\ p # q
  /\ id' = [id EXCEPT ![q] = id[p]]
  /\ attributes' = [attributes EXCEPT ![q] = attributes[p]]
  /\ inUse' = [inUse EXCEPT ![q] = inUse[p]]
  /\ maker' = [maker EXCEPT ![q] = maker[p]]
  /\ disposed' = IF p \in disposed THEN disposed \cup {q} ELSE disposed \ {q}
  /\ left' = IF inUse[q] THEN left \cup EnabledBy(q) ELSE left
  /\ UNCHANGED <<living, current, bound, enabled, robbed>>

\* glEnableVertexAttribArray() and its opposite do nothing while no array is bound.
OfBound(i, j) == IF bound = NoArray THEN {} ELSE {bound} \X (i .. j)

Use(p) ==
  /\ id[p] # 0
  /\ current' = id[p]
  /\ enabled' = enabled \cup OfBound(0, attributes[p] - 1)
  /\ inUse' = [inUse EXCEPT ![p] = TRUE]
  /\ UNCHANGED <<id, attributes, maker, disposed, living, bound, left, robbed>>

\* Mutation of Unuse: one attribute is left enabled.
ShortUnuse(p) ==
  /\ current' = 0
  /\ enabled' = enabled \ OfBound(1, attributes[p] - 1)
  /\ left' = left \ OfBound(1, attributes[p] - 1)
  /\ inUse' = [inUse EXCEPT ![p] = FALSE]
  /\ UNCHANGED <<id, attributes, maker, disposed, living, bound, robbed>>

Unuse(p) ==
  /\ current' = 0
  /\ enabled' = enabled \ OfBound(0, attributes[p] - 1)
  /\ left' = left \ OfBound(0, attributes[p] - 1)
  /\ inUse' = [inUse EXCEPT ![p] = FALSE]
  /\ UNCHANGED <<id, attributes, maker, disposed, living, bound, robbed>>

\* The attributes of the array that is bound, which another takes the place of while
\* an object is in use.
LeaveArray == IF \E p \in Programs : inUse[p] THEN {x \in enabled : x[1] = bound} ELSE {}

\* glBindVertexArray(), of a renderer that draws or of the game.
BindArray(v) ==
  /\ v # bound
  /\ bound' = v
  /\ left' = left \cup LeaveArray
  /\ UNCHANGED <<id, attributes, inUse, maker, disposed, living, current, enabled, robbed>>

\* The renderer of debug shapes sets up an array of its own, whose two attributes
\* stay enabled.
SetUpArray(v) ==
  /\ bound' = NoArray
  /\ enabled' = enabled \cup {<<v, 0>>, <<v, 1>>}
  /\ left' = left \cup LeaveArray \cup {<<v, 0>>, <<v, 1>>}
  /\ UNCHANGED <<id, attributes, inUse, maker, disposed, living, current, robbed>>

\* Names run out only because of the bound.
NamesRunOut == Free = {} /\ UNCHANGED programVars

ProgramNext ==
  \/ NamesRunOut
  \/ \E p \in Programs :
       FirstCompile(p) \/ Recompile(p) \/ AddAttribute(p) \/ DisposeProgram(p) \/ Use(p) \/ Unuse(p)
  \/ \E p, q \in Programs : CopyProgram(p, q)
  \/ \E v \in Arrays \cup {NoArray} : BindArray(v)
  \/ \E v \in Arrays : SetUpArray(v)

-----------------------------------------------------------------------------

\* The first object whose program another deletes loses it in one of two ways: the
\* other is a copy of it (or it of the other, or both of a third), or the other is
\* disposed of for the second time, when its name has been given out again.
FirstRobberyHasCause ==
  [][robbed = {} => \A r \in robbed' : maker[r[1]] = maker[r[2]] \/ r[1] \in disposed \cap disposed']_programVars

\* Whatever the order in which objects are used and left, and share attributes: once
\* none says it is in use, what is enabled is of an array that a renderer has set up,
\* that was left while an object was in use, or of an object that was copied over then.
AttributesReturned == (\A p \in Programs : ~inUse[p]) => enabled \subseteq left

\* Whose programs and attributes are whose, for objects used and copied in any order.
ProgramsOwned == FirstRobberyHasCause /\ []AttributesReturned
=============================================================================
