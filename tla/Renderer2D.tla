----------------------------- MODULE Renderer2D -----------------------------
(***************************************************************************)
(* Renderer2D (draw/Renderer2D.cpp), its draw paths and the fences of       *)
(* draw/BufferLock.h: what a preparation writes, where it writes it, and    *)
(* what the graphics card reads of it.                                      *)
(*                                                                          *)
(* A ring buffer has three fragments, and the head moves to the next one    *)
(* after every write.  Every draw call passes the offset 0, so that the     *)
(* card reads the first fragment whichever was written last.  A glyph       *)
(* stands for its vertices, its transform and its texture; each has a draw  *)
(* command of its own (module Batching has the merging of commands).  The   *)
(* draw path of the GUI is one more long path.                              *)
(***************************************************************************)
EXTENDS Integers, Sequences, FiniteSets, SequencesExt

CONSTANTS Mixes,     \* what a program draws: of each path, the most glyphs it gets
          MaxQueue,  \* draw calls that the driver lets the card lag behind
          MaxLocks   \* copies of a lock that are told apart

Paths == {"static", "long", "fast"}

ASSUME RendererAssumption ==
  Mixes \subseteq [Paths -> Nat] /\ MaxQueue \in Nat /\ MaxLocks \in Nat \ {0}

Buffers == {"commands", "transforms", "vertices"}
Fragments == 0 .. 2

\* The buffers that setupDrawPath() maps; what a path has beyond them is
\* replaced as a whole by glNamedBufferData().
Ring(p) ==
  CASE p = "static" -> {"commands"}
    [] p = "long" -> {"commands", "transforms"}
    [] p = "fast" -> Buffers

\* sizeof of DAIC, glm::mat4 and Vertex.
Size == [commands |-> 16, transforms |-> 64, vertices |-> 20]

VARIABLES
  mix,      \* the member of Mixes at hand
  phase,    \* "begun" while m_beginCalled; "ended" until what was ended is rendered
  glyphs,   \* of each path: its glyphs, numbered as added, in the order of their addresses
  updated,  \* of each path
  batch,    \* of each path: drawCommands.size()
  head,     \* of each path and buffer: the fragment of head
  oldHead,  \* of each path and buffer: that of oldHead
  ring,     \* of each path, buffer, fragment and slot: whose data is there
  locks,    \* m_locks: of each range, how often it is locked
  queue,    \* draw calls that the card has not finished
  trampled, \* data was written that an unfinished draw call reads
  settled,  \* preparations of the long path since its last update, and with it
  sizes     \* of the long path: how many glyphs the last three updates had

rendererVars == <<mix, phase, glyphs, updated, batch, head, oldHead, ring, locks, queue, trampled, settled, sizes>>

Nothing == 0
Slots(p) == 1 .. mix[p]

RangeOf(b, f) == [from |-> f * Size[b], to |-> (f + 1) * Size[b]]
Ranges == {RangeOf(b, f) : b \in Buffers, f \in Fragments}

RendererInit ==
  /\ mix \in Mixes
  /\ phase = "idle"
  /\ glyphs = [p \in Paths |-> <<>>]
  /\ updated = [p \in Paths |-> FALSE]
  /\ batch = [p \in Paths |-> 0]
  /\ head = [p \in Paths |-> [b \in Buffers |-> 0]]
  /\ oldHead = [p \in Paths |-> [b \in Buffers |-> 0]]
  /\ ring = [p \in Paths |-> [b \in Buffers |-> [f \in Fragments |-> [s \in Slots(p) |-> Nothing]]]]
  /\ locks = [r \in Ranges |-> 0]
  /\ queue = <<>> /\ trampled = FALSE
  /\ settled = 3 /\ sizes = <<0, 0, 0>>

\* draw(), addLongDraw(), addStaticDraw(): createGlyph() with a texture.  The
\* next update sorts by address, and that of the new glyph is below those of the
\* others or above.
AddGlyph(p, last) ==
  /\ Len(glyphs[p]) < mix[p]
  /\ LET new == Len(glyphs[p]) + 1
     IN  glyphs' = [glyphs EXCEPT ![p] = IF last THEN Append(@, new) ELSE <<new>> \o @]
  /\ updated' = [updated EXCEPT ![p] = TRUE]
  /\ UNCHANGED <<mix, phase, batch, head, oldHead, ring, locks, queue, trampled, settled, sizes>>

Begin ==
  /\ phase = "idle"
  /\ phase' = "begun"
  /\ updated' = [updated EXCEPT !["fast"] = TRUE]
  /\ UNCHANGED <<mix, glyphs, batch, head, oldHead, ring, locks, queue, trampled, settled, sizes>>

Overlaps(r, s) == r.from < s.to /\ s.from < r.to

\* Mutation of Waited: only the lock of the very range is let go.
ExactWaited(written) ==
  [r \in Ranges |-> IF \E w \in written : w = r THEN 0 ELSE locks[r]]

\* waitForLockedRange() of the ranges about to be written.  The manager is made
\* with m_cpuUpdating off: glWaitSync() makes the card wait, not the writer.
Waited(written) ==
  [r \in Ranges |-> IF \E w \in written : Overlaps(w, r) THEN 0 ELSE locks[r]]

\* What renderPrep() writes to: all ring buffers of an updated path, and the
\* transforms of a long one in any case.
Written(p) ==
  IF glyphs[p] = <<>> THEN {}
  ELSE IF updated[p] THEN Ring(p)
  ELSE IF p = "long" THEN {"transforms"} ELSE {}

Mapped(p) == IF glyphs[p] # <<>> /\ updated[p] THEN Len(glyphs[p]) ELSE batch[p]

\* Mutation of Moved: the vertices stay in their fragment.
StuckMoved(p, b) == IF b \in Written(p) \ {"vertices"} THEN (head[p][b] + 1) % 3 ELSE head[p][b]

Moved(p, b) == IF b \in Written(p) THEN (head[p][b] + 1) % 3 ELSE head[p][b]

\* Mutation of Stored: the transforms of a long path wait for an update.
LazyStored(p, b, f, s) ==
  IF b \in Written(p) /\ updated[p] /\ f = head[p][b] /\ s <= Len(glyphs[p]) THEN glyphs[p][s] ELSE ring[p][b][f][s]

\* Mutation of Stored: the last glyph is forgotten.
ShortStored(p, b, f, s) ==
  IF b \in Written(p) /\ f = head[p][b] /\ s < Len(glyphs[p]) THEN glyphs[p][s] ELSE ring[p][b][f][s]

\* The slots past the glyphs of this preparation keep what they had.
Stored(p, b, f, s) ==
  IF b \in Written(p) /\ f = head[p][b] /\ s <= Len(glyphs[p]) THEN glyphs[p][s] ELSE ring[p][b][f][s]

Reads(p) == \E i \in DOMAIN queue : queue[i] = p

LongUpdated == "commands" \in Written("long")

\* end(): the preparation of the three paths.
End ==
  /\ phase = "begun"
  /\ phase' = "ended"
  /\ updated' = [p \in Paths |-> updated[p] /\ glyphs[p] = <<>>]
  /\ batch' = [p \in Paths |-> Mapped(p)]
  /\ head' = [p \in Paths |-> [b \in Buffers |-> Moved(p, b)]]
  /\ oldHead' = [p \in Paths |-> [b \in Buffers |-> IF b \in Written(p) THEN head[p][b] ELSE oldHead[p][b]]]
  /\ ring' = [p \in Paths |-> [b \in Buffers |-> [f \in Fragments |-> [s \in Slots(p) |-> Stored(p, b, f, s)]]]]
  /\ locks' = Waited(UNION {{RangeOf(b, head[p][b]) : b \in Written(p)} : p \in Paths})
  /\ trampled' = (trampled \/ \E p \in Paths, b \in Buffers : b \in Written(p) /\ head[p][b] = 0 /\ Reads(p))
  /\ settled' = IF LongUpdated THEN 1 ELSE IF settled < 3 /\ glyphs["long"] # <<>> THEN settled + 1 ELSE settled
  /\ sizes' = IF LongUpdated THEN Append(Tail(sizes), Len(glyphs["long"])) ELSE sizes
  /\ UNCHANGED <<mix, glyphs, queue>>

\* What render() draws: renderDrawPath() of the paths with draw commands.
Drawn == {p \in Paths : batch[p] > 0 /\ glyphs[p] # <<>>}

\* A fast path's glyphs are deleted once it is drawn, those added since end() too.
Kept(p) == IF p = "fast" /\ p \in Drawn THEN <<>> ELSE glyphs[p]

Capped(n) == IF n > MaxLocks THEN MaxLocks ELSE n

\* The driver makes the program wait for all but the last MaxQueue calls.
Lagging(calls) == IF Len(calls) <= MaxQueue THEN calls ELSE SubSeq(calls, Len(calls) - MaxQueue + 1, Len(calls))

\* lockRange() with the ring buffers' old heads, the offsets of all buffers in
\* one list.
Render ==
  /\ phase = "ended"
  /\ phase' = "idle"
  /\ queue' = Lagging(queue \o SelectSeq(<<"static", "long", "fast">>, LAMBDA p : p \in Drawn))
  /\ locks' = [r \in Ranges |->
       Capped(locks[r] + Cardinality({pb \in Drawn \X Buffers : pb[2] \in Ring(pb[1]) /\ RangeOf(pb[2], oldHead[pb[1]][pb[2]]) = r}))]
  /\ batch' = [batch EXCEPT !["fast"] = IF "fast" \in Drawn THEN 0 ELSE @]
  /\ glyphs' = [p \in Paths |-> Kept(p)]
  /\ UNCHANGED <<mix, updated, head, oldHead, ring, trampled, settled, sizes>>

\* The card finishes its oldest draw call; this is not the program's doing.
CardFinishes ==
  /\ queue # <<>>
  /\ queue' = Tail(queue)
  /\ UNCHANGED <<mix, phase, glyphs, updated, batch, head, oldHead, ring, locks, trampled, settled, sizes>>

RendererNext ==
  \/ \E p \in Paths, last \in BOOLEAN : AddGlyph(p, last)
  \/ Begin \/ End \/ Render \/ CardFinishes

-----------------------------------------------------------------------------

\* The three buffers of the fast path never get out of step: what a slot of a
\* fragment has is one glyph's command, vertices and transform.
FastSlotsTogether ==
  \A f \in Fragments, s \in Slots("fast"), b, c \in Buffers : ring["fast"][b][f][s] = ring["fast"][c][f][s]

\* Three preparations after the last change of the long path, every glyph that
\* is drawn is drawn at its own place.
LongSettles ==
  settled = 3 /\ ~updated["long"] =>
    \A s \in 1 .. batch["long"] : ring["long"]["transforms"][0][s] = glyphs["long"][s]

\* As many glyphs of the long path are drawn as there were two updates ago: an
\* added one is missing until the path has been updated twice more, not longer.
LongShown ==
  Cardinality({s \in Slots("long") : ring["long"]["commands"][0][s] # Nothing}) >= sizes[1]

\* With something in the long path, whose transforms are written in every frame,
\* the list of locks stays short; static paths alone only ever add to it.
LocksBounded ==
  glyphs["long"] # <<>> /\ ~updated["long"] => \A r \in Ranges : locks[r] <= 9

\* BufferLock.h: "wait until this has resolved, or data trampling will occur".
NoTrampling == ~trampled

\* What the buffers hold for the card agrees with the glyphs of the paths.
RingsAgree == FastSlotsTogether /\ LongSettles /\ LongShown
=============================================================================
