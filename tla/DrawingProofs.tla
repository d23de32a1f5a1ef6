--------------------------- MODULE DrawingProofs ---------------------------
(***************************************************************************)
(* What holds of the drawing for any mixes of glyphs, textures, shapes,     *)
(* elements and programs.  MCDrawing lets one of its parts move and leaves  *)
(* the others alone: each step is one of every part, or a stutter.          *)
(***************************************************************************)
EXTENDS MCDrawing, DataLemmas

LEMMA PartSteps ==
    ASSUME [Next]_vars
    PROVE  /\ [RendererNext]_rendererVars
           /\ [BatchingNext]_batchingVars
           /\ [DrawingNext]_drawingVars
           /\ [FontNext]_fontVars
           /\ [TexturesNext]_textureVars
           /\ [DebugNext]_debugVars
           /\ [ProgramNext]_programVars
           /\ [CameraNext]_camera
           /\ [FrameNext]_frameVars
BY DEF Next, Moves, vars

-----------------------------------------------------------------------------
(* The draw paths and their locks *)

Live(p) == batch[p] > 0

RendererType ==
    /\ mix \in [Paths -> Nat]
    /\ phase \in {"idle", "begun", "ended"}
    /\ glyphs \in [Paths -> Seq(Nat \ {0})]
    /\ \A p \in Paths : Len(glyphs[p]) <= mix[p]
    /\ updated \in [Paths -> BOOLEAN]
    /\ batch \in [Paths -> Nat]
    /\ head \in [Paths -> [Buffers -> Fragments]]
    /\ oldHead \in [Paths -> [Buffers -> Fragments]]
    /\ locks \in [Ranges -> Nat]

\* The long path keeps its glyphs, and its ring turns once it has any; the fast
\* path begins each frame anew.
PathsInv ==
    /\ \A p \in Paths : Live(p) => glyphs[p] # <<>>
    /\ ~Live("long") => head["long"]["transforms"] = 0 /\ (glyphs["long"] # <<>> => updated["long"])
    /\ phase = "begun" => updated["fast"]
    /\ phase # "ended" => ~Live("fast")

\* Renderings since the first fragment of the long path's transforms was written,
\* which lets go of every lock of the commands: their ranges all overlap it.
Age == ((head["long"]["transforms"] + 2) % 3) + (IF phase = "ended" THEN 0 ELSE 1)

\* Transforms and vertices are locked only where they were just written.
LockInv ==
    /\ RendererType /\ PathsInv
    /\ \A b \in {"transforms", "vertices"}, f \in Fragments : locks[RangeOf(b, f)] <= 3
    /\ phase = "ended" =>
         \A p \in {"long", "fast"}, b \in {"transforms", "vertices"} :
           Live(p) /\ b \in Ring(p) => locks[RangeOf(b, oldHead[p][b])] = 0
    /\ Live("long") => \A f \in Fragments : locks[RangeOf("commands", f)] <= 3 * Age

LEMMA SizeValues ==
    /\ Size["commands"] = 16 /\ Size["transforms"] = 64 /\ Size["vertices"] = 20
BY DEF Size

LEMMA RangesApart ==
    ASSUME NEW b \in Buffers, NEW c \in Buffers, NEW f \in Fragments, NEW g \in Fragments,
           RangeOf(b, f) = RangeOf(c, g)
    PROVE  b = c /\ f = g
<1>1. f * Size[b] = g * Size[c] /\ (f + 1) * Size[b] = (g + 1) * Size[c]
  BY DEF RangeOf
<1>2. f \in 0 .. 2 /\ g \in 0 .. 2
  BY DEF Fragments
<1>3. b \in {"commands", "transforms", "vertices"} /\ c \in {"commands", "transforms", "vertices"}
  BY DEF Buffers
<1> QED BY <1>1, <1>2, <1>3, SizeValues

LEMMA RangeIsIn ==
    ASSUME NEW b \in Buffers, NEW f \in Fragments
    PROVE  RangeOf(b, f) \in Ranges
BY DEF Ranges

LEMMA RangeOverlaps ==
    ASSUME NEW b \in Buffers, NEW f \in Fragments
    PROVE  Overlaps(RangeOf(b, f), RangeOf(b, f))
<1>1. f \in 0 .. 2 /\ b \in {"commands", "transforms", "vertices"}
  BY DEF Fragments, Buffers
<1> QED BY <1>1, SizeValues DEF RangeOf, Overlaps

LEMMA CommandsOverlap ==
    ASSUME NEW f \in Fragments
    PROVE  Overlaps(RangeOf("transforms", 0), RangeOf("commands", f))
<1>1. f \in 0 .. 2
  BY DEF Fragments
<1> QED BY <1>1, SizeValues DEF RangeOf, Overlaps

LEMMA AtMostOneMore ==
    ASSUME NEW S, NEW x, IsFiniteSet(S), NEW n \in Nat, Cardinality(S) \in Nat, Cardinality(S) <= n
    PROVE  /\ IsFiniteSet(S \cup {x})
           /\ Cardinality(S \cup {x}) \in Nat /\ Cardinality(S \cup {x}) <= n + 1
<1>1. /\ IsFiniteSet(S \cup {x})
      /\ Cardinality(S \cup {x}) = IF x \in S THEN Cardinality(S) ELSE Cardinality(S) + 1
  BY FS_AddElement
<1>2. CASE x \in S
  BY <1>1, <1>2
<1>3. CASE x \notin S
  BY <1>1, <1>3
<1> QED BY <1>2, <1>3

\* What a path locks of one range is one of its buffers.
LEMMA LocksOfRange ==
    ASSUME NEW b \in Buffers, NEW f \in Fragments, NEW S \in SUBSET Paths,
           oldHead \in [Paths -> [Buffers -> Fragments]]
    PROVE  LET taken == {pb \in S \X Buffers : pb[2] \in Ring(pb[1]) /\ RangeOf(pb[2], oldHead[pb[1]][pb[2]]) = RangeOf(b, f)}
           IN  /\ Cardinality(taken) \in Nat
               /\ Cardinality(taken) <= 3
               /\ (\A p \in S : ~(b \in Ring(p) /\ oldHead[p][b] = f)) => Cardinality(taken) = 0
<1> DEFINE taken == {pb \in S \X Buffers : pb[2] \in Ring(pb[1]) /\ RangeOf(pb[2], oldHead[pb[1]][pb[2]]) = RangeOf(b, f)}
           all == {<<"static", b>>} \cup {<<"long", b>>} \cup {<<"fast", b>>}
<1>1. \A pb \in taken : /\ pb[1] \in S /\ pb = <<pb[1], b>>
                        /\ b \in Ring(pb[1]) /\ oldHead[pb[1]][b] = f
  <2> TAKE pb \in taken
  <2>1. /\ pb[1] \in S /\ pb[2] \in Buffers /\ pb = <<pb[1], pb[2]>> /\ pb[2] \in Ring(pb[1])
        /\ RangeOf(pb[2], oldHead[pb[1]][pb[2]]) = RangeOf(b, f)
    OBVIOUS
  <2>2. oldHead[pb[1]][pb[2]] \in Fragments
    BY <2>1
  <2>3. pb[2] = b /\ oldHead[pb[1]][pb[2]] = f
    BY <2>1, <2>2, RangesApart
  <2> QED BY <2>1, <2>3
<1> HIDE DEF taken
<1>2. taken \subseteq all
  BY <1>1 DEF Paths
<1>3. IsFiniteSet(all) /\ Cardinality(all) <= 3 /\ Cardinality(all) \in Nat
  <2> DEFINE one == {<<"static", b>>}
             two == one \cup {<<"long", b>>}
  <2>1. IsFiniteSet(one) /\ Cardinality(one) \in Nat /\ Cardinality(one) <= 1
    <3>1. IsFiniteSet(one) /\ Cardinality(one) = 1
      BY FS_Singleton
    <3> QED BY <3>1
  <2> HIDE DEF one
  <2>2. IsFiniteSet(two) /\ Cardinality(two) \in Nat /\ Cardinality(two) <= 1 + 1
    BY <2>1, AtMostOneMore, 1 \in Nat
  <2>3. Cardinality(two) <= 2
    BY <2>2
  <2> HIDE DEF two
  <2>4. IsFiniteSet(two \cup {<<"fast", b>>}) /\ Cardinality(two \cup {<<"fast", b>>}) \in Nat
        /\ Cardinality(two \cup {<<"fast", b>>}) <= 2 + 1
    BY <2>2, <2>3, AtMostOneMore, 2 \in Nat
  <2> QED BY <2>4 DEF one, two
<1> HIDE DEF all
<1>4. IsFiniteSet(taken) /\ Cardinality(taken) <= 3 /\ Cardinality(taken) \in Nat
  BY <1>2, <1>3, FS_Subset, FS_CardinalityType
<1>5. (\A p \in S : ~(b \in Ring(p) /\ oldHead[p][b] = f)) => taken = {}
  BY <1>1
<1> QED BY <1>4, <1>5, FS_EmptySet DEF taken

LEMMA WhatWrites ==
    ASSUME RendererType, PathsInv, NEW p \in Paths
    PROVE  /\ Written(p) \subseteq Ring(p) /\ Ring(p) \subseteq Buffers
           /\ glyphs[p] = <<>> => Written(p) = {}
           /\ glyphs[p] # <<>> /\ updated[p] => Written(p) = Ring(p)
           /\ p = "long" /\ glyphs[p] # <<>> => "transforms" \in Written(p)
           /\ p = "long" /\ glyphs[p] # <<>> /\ ~updated[p] => Written(p) = {"transforms"}
           /\ "transforms" \in Ring("long")
BY DEF Written, Ring, Buffers, Paths

LEMMA LocksInit == RendererInit => LockInv
<1> SUFFICES ASSUME RendererInit PROVE LockInv
  OBVIOUS
<1>1. RendererType
  <2>1. mix \in [Paths -> Nat] /\ <<>> \in Seq(Nat \ {0}) /\ 0 \in Fragments /\ Len(<<>>) = 0
    BY RendererAssumption DEF RendererInit, Fragments
  <2> QED BY <2>1 DEF RendererInit, RendererType
<1>2. \A p \in Paths : ~Live(p)
  BY DEF RendererInit, Live
<1>3. PathsInv
  BY <1>2 DEF RendererInit, PathsInv, Paths, Buffers
<1>4. \A b \in Buffers, f \in Fragments : locks[RangeOf(b, f)] = 0
  BY RangeIsIn DEF RendererInit
<1> QED BY <1>1, <1>2, <1>3, <1>4 DEF LockInv, RendererInit, Paths, Buffers

LEMMA LongerSequence ==
    ASSUME NEW S, NEW q \in Seq(S), NEW x \in S
    PROVE  /\ Append(q, x) \in Seq(S) /\ Len(Append(q, x)) = Len(q) + 1 /\ Append(q, x) # <<>>
           /\ <<x>> \o q \in Seq(S) /\ Len(<<x>> \o q) = Len(q) + 1 /\ <<x>> \o q # <<>>
<1>1. Append(q, x) \in Seq(S) /\ Len(Append(q, x)) = Len(q) + 1 /\ Len(q) \in Nat
  OBVIOUS
<1>2. <<x>> \in Seq(S) /\ Len(<<x>>) = 1
  OBVIOUS
<1>3. <<x>> \o q \in Seq(S) /\ Len(<<x>> \o q) = Len(q) + 1
  BY <1>2
<1>4. Len(<<>>) = 0
  OBVIOUS
<1> QED BY <1>1, <1>3, <1>4

LEMMA GlyphAdded ==
    ASSUME LockInv, NEW p \in Paths, NEW last \in BOOLEAN, AddGlyph(p, last)
    PROVE  LockInv'
<1> DEFINE n == Len(glyphs[p]) + 1
           more == IF last THEN Append(glyphs[p], n) ELSE <<n>> \o glyphs[p]
<1>1. glyphs[p] \in Seq(Nat \ {0}) /\ Len(glyphs[p]) \in Nat /\ n \in Nat \ {0}
  BY DEF LockInv, RendererType
<1>2. more \in Seq(Nat \ {0}) /\ Len(more) = Len(glyphs[p]) + 1 /\ more # <<>>
  BY <1>1, LongerSequence
<1>3. /\ glyphs' = [glyphs EXCEPT ![p] = more]
      /\ Len(glyphs[p]) < mix[p] /\ updated' = [updated EXCEPT ![p] = TRUE]
      /\ UNCHANGED <<mix, phase, batch, head, oldHead, locks>>
  BY DEF AddGlyph
<1> HIDE DEF more, n
<1>4. glyphs' \in [Paths -> Seq(Nat \ {0})] /\ glyphs'[p] = more
      /\ \A q \in Paths \ {p} : glyphs'[q] = glyphs[q]
  BY <1>2, <1>3 DEF LockInv, RendererType
<1>5. updated' \in [Paths -> BOOLEAN] /\ updated'[p] /\ \A q \in Paths \ {p} : updated'[q] = updated[q]
  BY <1>3 DEF LockInv, RendererType
<1>6. \A q \in Paths : Len(glyphs'[q]) <= mix'[q]
  <2> TAKE q \in Paths
  <2>1. mix[q] \in Nat /\ Len(glyphs[q]) <= mix[q] /\ mix' = mix
    BY <1>3 DEF LockInv, RendererType
  <2>2. CASE q = p
    BY <1>1, <1>2, <1>3, <1>4, <2>1, <2>2
  <2>3. CASE q # p
    BY <1>4, <2>1, <2>3
  <2> QED BY <2>2, <2>3
<1>7. RendererType'
  BY <1>3, <1>4, <1>5, <1>6 DEF LockInv, RendererType
<1>8. PathsInv'
  BY <1>2, <1>3, <1>4, <1>5 DEF LockInv, PathsInv, Live, Paths
<1> QED BY <1>3, <1>7, <1>8 DEF LockInv, Live, Age

LEMMA PathsEnd ==
    ASSUME LockInv, End
    PROVE  /\ RendererType' /\ PathsInv'
           /\ Live("long")' <=> glyphs["long"] # <<>>
           /\ \A p \in Paths : Live(p)' => glyphs[p] # <<>>
           /\ Live("fast")' => Written("fast") = Ring("fast")
<1>1. /\ phase = "begun" /\ phase' = "ended"
      /\ updated' = [p \in Paths |-> updated[p] /\ glyphs[p] = <<>>]
      /\ batch' = [p \in Paths |-> Mapped(p)]
      /\ head' = [p \in Paths |-> [b \in Buffers |-> Moved(p, b)]]
      /\ oldHead' = [p \in Paths |-> [b \in Buffers |-> IF b \in Written(p) THEN head[p][b] ELSE oldHead[p][b]]]
      /\ locks' = Waited(UNION {{RangeOf(b, head[p][b]) : b \in Written(p)} : p \in Paths})
      /\ mix' = mix /\ glyphs' = glyphs
  BY DEF End
<1>2. \A p \in Paths, b \in Buffers : head[p][b] \in Fragments /\ oldHead[p][b] \in Fragments
  BY DEF LockInv, RendererType
<1>3. \A p \in Paths, b \in Buffers : Moved(p, b) \in Fragments
  BY <1>2 DEF Moved, Fragments
<1>4. \A p \in Paths : Mapped(p) \in Nat
  BY DEF LockInv, RendererType, Mapped
<1>5. locks' \in [Ranges -> Nat]
  BY <1>1 DEF LockInv, RendererType, Waited
<1>6. RendererType'
  BY <1>1, <1>2, <1>3, <1>4, <1>5 DEF LockInv, RendererType
<1>7. \A p \in Paths : Live(p)' <=> Mapped(p) > 0
  BY <1>1 DEF Live
<1>8. \A p \in Paths : glyphs[p] # <<>> => Len(glyphs[p]) > 0
  BY DEF LockInv, RendererType
<1>9. \A p \in Paths : Live(p)' => glyphs[p] # <<>>
  BY <1>7 DEF Mapped, LockInv, PathsInv, Live
<1>10. Live("long")' <=> glyphs["long"] # <<>>
  BY <1>7, <1>8, <1>9 DEF Mapped, LockInv, PathsInv, Live, Paths
<1>11. Live("fast")' => Written("fast") = Ring("fast")
  BY <1>1, <1>9 DEF LockInv, PathsInv, Written, Paths
<1>12. glyphs["long"] = <<>> => Moved("long", "transforms") = head["long"]["transforms"]
                                /\ head["long"]["transforms"] = 0
  BY DEF Moved, Written, LockInv, PathsInv, Paths
<1>13. PathsInv'
  BY <1>1, <1>9, <1>10, <1>12 DEF PathsInv, Paths, Buffers
<1> QED BY <1>6, <1>9, <1>10, <1>11, <1>13

LEMMA LocksEnd ==
    ASSUME LockInv, End
    PROVE  LockInv'
<1> DEFINE written == UNION {{RangeOf(b, head[p][b]) : b \in Written(p)} : p \in Paths}
<1>1. /\ locks' = Waited(written) /\ phase = "begun" /\ phase' = "ended"
      /\ head' = [p \in Paths |-> [b \in Buffers |-> Moved(p, b)]]
      /\ oldHead' = [p \in Paths |-> [b \in Buffers |-> IF b \in Written(p) THEN head[p][b] ELSE oldHead[p][b]]]
  BY DEF End
<1>2. \A p \in Paths, b \in Buffers : b \in Written(p) => RangeOf(b, head[p][b]) \in written
  OBVIOUS
<1> HIDE DEF written
<1>3. \A r \in Ranges : locks'[r] = (IF \E w \in written : Overlaps(w, r) THEN 0 ELSE locks[r])
  BY <1>1 DEF Waited
<1>4. \A p \in Paths, b \in Buffers : head[p][b] \in Fragments
  BY DEF LockInv, RendererType
<1>5. \A p \in Paths, b \in Buffers : b \in Written(p) => locks'[RangeOf(b, head[p][b])] = 0
  BY <1>2, <1>3, <1>4, RangeIsIn, RangeOverlaps
<1>6. \A b \in {"transforms", "vertices"}, f \in Fragments : locks'[RangeOf(b, f)] <= 3
  <2> TAKE b \in {"transforms", "vertices"}, f \in Fragments
  <2>1. RangeOf(b, f) \in Ranges /\ locks[RangeOf(b, f)] <= 3
    BY RangeIsIn DEF LockInv, Buffers
  <2> QED BY <1>3, <2>1
<1>7. \A p \in {"long", "fast"}, b \in {"transforms", "vertices"} :
        Live(p)' /\ b \in Ring(p) => locks'[RangeOf(b, oldHead'[p][b])] = 0
  <2> SUFFICES ASSUME NEW p \in {"long", "fast"}, NEW b \in {"transforms", "vertices"},
                      Live(p)', b \in Ring(p)
               PROVE  locks'[RangeOf(b, oldHead'[p][b])] = 0
    OBVIOUS
  <2>1. p \in Paths /\ b \in Buffers
    BY DEF Paths, Buffers
  <2>2. b \in Written(p)
    <3>1. CASE p = "long"
      BY <2>1, <3>1, PathsEnd, WhatWrites DEF LockInv, Ring
    <3>2. CASE p = "fast"
      BY <3>2, PathsEnd
    <3> QED BY <3>1, <3>2
  <2>3. oldHead'[p][b] = head[p][b]
    BY <1>1, <2>1, <2>2
  <2> QED BY <1>5, <2>1, <2>2, <2>3
<1>8. Live("long")' => \A f \in Fragments : locks'[RangeOf("commands", f)] <= 3 * Age'
  <2> SUFFICES ASSUME Live("long")', NEW f \in Fragments
               PROVE  locks'[RangeOf("commands", f)] <= 3 * Age'
    OBVIOUS
  <2> DEFINE h == head["long"]["transforms"]
             r == RangeOf("commands", f)
  <2>1. "long" \in Paths /\ "transforms" \in Buffers /\ "commands" \in Buffers
    BY DEF Paths, Buffers
  <2>2. "transforms" \in Written("long") /\ h \in 0 .. 2
    BY <1>4, <2>1, PathsEnd, WhatWrites DEF LockInv, Fragments
  <2>3. head'["long"]["transforms"] = (h + 1) % 3
    BY <1>1, <2>1, <2>2 DEF Moved
  <2>4. Age' = (((h + 1) % 3) + 2) % 3
    BY <1>1, <2>2, <2>3 DEF Age
  <2>5. r \in Ranges /\ locks[r] \in Nat
    BY <2>1, RangeIsIn DEF LockInv, RendererType
  <2>6. CASE h = 0
    <3>1. RangeOf("transforms", 0) \in written
      BY <1>2, <2>1, <2>2, <2>6
    <3>2. locks'[r] = 0
      BY <1>3, <2>5, <3>1, CommandsOverlap
    <3>3. Age' = 0
      BY <2>4, <2>6
    <3> QED BY <3>2, <3>3
  <2>7. CASE h # 0
    <3>1. Live("long") /\ Age = ((h + 2) % 3) + 1
      BY <1>1, <2>7 DEF LockInv, PathsInv, Age
    <3>2. locks[r] <= 3 * Age
      BY <3>1 DEF LockInv
    <3>3. Age' = Age /\ Age \in Nat
      BY <2>2, <2>4, <2>7, <3>1
    <3>4. locks'[r] \in {0, locks[r]}
      BY <1>3, <2>5
    <3> HIDE DEF r, h
    <3> QED BY <2>5, <3>2, <3>3, <3>4 DEF r
  <2> QED BY <2>6, <2>7
<1> QED BY <1>1, <1>6, <1>7, <1>8, PathsEnd DEF LockInv, Ring

LEMMA PathsRender ==
    ASSUME LockInv, Render
    PROVE  /\ RendererType' /\ PathsInv'
           /\ Live("long")' <=> Live("long")
           /\ \A p \in Paths : p \in Drawn <=> Live(p)
<1>1. \A p \in Paths : p \in Drawn <=> Live(p)
  BY DEF Drawn, LockInv, PathsInv, Live
<1>2. /\ phase = "ended" /\ phase' = "idle"
      /\ batch' = [batch EXCEPT !["fast"] = IF "fast" \in Drawn THEN 0 ELSE @]
      /\ glyphs' = [p \in Paths |-> Kept(p)]
      /\ UNCHANGED <<mix, updated, head, oldHead>>
  BY DEF Render
<1>3. batch' \in [Paths -> Nat] /\ batch'["fast"] = 0 /\ batch'["long"] = batch["long"] /\ batch'["static"] = batch["static"]
  BY <1>1, <1>2 DEF LockInv, RendererType, Paths, Live
<1>4. \A p \in Paths : Kept(p) = glyphs[p] \/ Kept(p) = <<>>
  BY DEF Kept
<1>5. Kept("long") = glyphs["long"] /\ Kept("static") = glyphs["static"]
  BY DEF Kept
<1>6. glyphs' \in [Paths -> Seq(Nat \ {0})] /\ \A p \in Paths : Len(glyphs'[p]) <= mix'[p]
  <2> SUFFICES ASSUME NEW p \in Paths PROVE Kept(p) \in Seq(Nat \ {0}) /\ Len(Kept(p)) <= mix[p]
    BY <1>2
  <2>1. glyphs[p] \in Seq(Nat \ {0}) /\ Len(glyphs[p]) <= mix[p] /\ mix[p] \in Nat
    BY DEF LockInv, RendererType
  <2>2. <<>> \in Seq(Nat \ {0}) /\ Len(<<>>) <= mix[p]
    BY <2>1
  <2> QED BY <1>4, <2>1, <2>2
<1>7. locks' \in [Ranges -> Nat]
  <2>1. locks' = [r \in Ranges |->
          Capped(locks[r] + Cardinality({pb \in Drawn \X Buffers : pb[2] \in Ring(pb[1]) /\ RangeOf(pb[2], oldHead[pb[1]][pb[2]]) = r}))]
    BY DEF Render
  <2> SUFFICES ASSUME NEW r \in Ranges
               PROVE  Capped(locks[r] + Cardinality({pb \in Drawn \X Buffers : pb[2] \in Ring(pb[1]) /\ RangeOf(pb[2], oldHead[pb[1]][pb[2]]) = r})) \in Nat
    BY <2>1
  <2>2. PICK b \in Buffers, f \in Fragments : r = RangeOf(b, f)
    BY DEF Ranges
  <2>3. Drawn \in SUBSET Paths /\ oldHead \in [Paths -> [Buffers -> Fragments]] /\ locks[r] \in Nat
    BY DEF Drawn, LockInv, RendererType
  <2>4. Cardinality({pb \in Drawn \X Buffers : pb[2] \in Ring(pb[1]) /\ RangeOf(pb[2], oldHead[pb[1]][pb[2]]) = r}) \in Nat
    BY <2>2, <2>3, LocksOfRange
  <2> QED BY <2>3, <2>4, RendererAssumption DEF Capped
<1>8. RendererType'
  BY <1>2, <1>3, <1>6, <1>7 DEF LockInv, RendererType
<1>9. PathsInv'
  BY <1>2, <1>3, <1>5 DEF LockInv, PathsInv, Live, Paths
<1> QED BY <1>1, <1>3, <1>8, <1>9 DEF Live

LEMMA LocksRender ==
    ASSUME LockInv, Render
    PROVE  LockInv'
<1>1. /\ phase = "ended" /\ phase' = "idle" /\ head' = head
      /\ locks' = [r \in Ranges |->
          Capped(locks[r] + Cardinality({pb \in Drawn \X Buffers : pb[2] \in Ring(pb[1]) /\ RangeOf(pb[2], oldHead[pb[1]][pb[2]]) = r}))]
  BY DEF Render
<1>2. Drawn \in SUBSET Paths /\ oldHead \in [Paths -> [Buffers -> Fragments]]
  BY DEF Drawn, LockInv, RendererType
<1>3. ASSUME NEW b \in Buffers, NEW f \in Fragments
      PROVE  /\ locks'[RangeOf(b, f)] <= locks[RangeOf(b, f)] + 3
             /\ (\A p \in Drawn : ~(b \in Ring(p) /\ oldHead[p][b] = f)) => locks'[RangeOf(b, f)] <= locks[RangeOf(b, f)]
             /\ locks[RangeOf(b, f)] \in Nat
  <2> DEFINE r == RangeOf(b, f)
             n == Cardinality({pb \in Drawn \X Buffers : pb[2] \in Ring(pb[1]) /\ RangeOf(pb[2], oldHead[pb[1]][pb[2]]) = r})
  <2>1. r \in Ranges /\ locks[r] \in Nat
    BY RangeIsIn DEF LockInv, RendererType
  <2>2. n \in Nat /\ n <= 3 /\ ((\A p \in Drawn : ~(b \in Ring(p) /\ oldHead[p][b] = f)) => n = 0)
    BY <1>2, LocksOfRange
  <2>3. locks'[r] = Capped(locks[r] + n)
    BY <1>1, <2>1
  <2> HIDE DEF n, r
  <2>4. Capped(locks[r] + n) <= locks[r] + n
    BY <2>1, <2>2, RendererAssumption DEF Capped
  <2>5. locks'[r] <= locks[r] + 3
    BY <2>1, <2>2, <2>3, <2>4, RendererAssumption DEF Capped
  <2>6. n = 0 => locks'[r] <= locks[r]
    BY <2>1, <2>2, <2>3, <2>4
  <2> QED BY <2>1, <2>2, <2>5, <2>6 DEF r
<1>4. \A b \in {"transforms", "vertices"}, f \in Fragments : locks'[RangeOf(b, f)] <= 3
  <2> TAKE b \in {"transforms", "vertices"}, f \in Fragments
  <2>1. b \in Buffers /\ locks[RangeOf(b, f)] <= 3
    BY DEF LockInv, Buffers
  <2>2. CASE \A p \in Drawn : ~(b \in Ring(p) /\ oldHead[p][b] = f)
    <3> DEFINE x == locks[RangeOf(b, f)]
               y == locks'[RangeOf(b, f)]
    <3>1. x \in Nat /\ x <= 3 /\ y <= x
      BY <1>3, <2>1, <2>2
    <3>2. y \in Nat
      BY <2>1, PathsRender, RangeIsIn DEF RendererType
    <3> HIDE DEF x, y
    <3>3. y <= 3
      BY <3>1, <3>2
    <3> QED BY <3>3 DEF y
  <2>3. ASSUME NEW p \in Drawn, b \in Ring(p), oldHead[p][b] = f PROVE locks'[RangeOf(b, f)] <= 3
    <3>1. p \in {"long", "fast"} /\ Live(p)
      BY <1>2, <2>3, PathsRender DEF Ring, Paths
    <3>2. locks[RangeOf(b, f)] = 0
      BY <1>1, <2>3, <3>1 DEF LockInv
    <3>3. locks'[RangeOf(b, f)] <= locks[RangeOf(b, f)] + 3
      BY <1>3, <2>1
    <3> QED BY <3>2, <3>3
  <2> QED BY <2>2, <2>3
<1>5. Live("long")' => \A f \in Fragments : locks'[RangeOf("commands", f)] <= 3 * Age'
  <2> SUFFICES ASSUME Live("long")', NEW f \in Fragments
               PROVE  locks'[RangeOf("commands", f)] <= 3 * Age'
    OBVIOUS
  <2> DEFINE x == locks[RangeOf("commands", f)]
             y == locks'[RangeOf("commands", f)]
  <2>1. x \in Nat /\ y <= x + 3
    BY <1>3 DEF Buffers
  <2>2. x <= 3 * Age
    BY PathsRender DEF LockInv
  <2>3. Age' = Age + 1 /\ Age \in Nat
    <3>1. head["long"]["transforms"] \in 0 .. 2
      BY DEF LockInv, RendererType, Paths, Buffers, Fragments
    <3> QED BY <1>1, <3>1 DEF Age
  <2>4. y \in Nat
    BY PathsRender, RangeIsIn DEF RendererType, Buffers
  <2> HIDE DEF x, y
  <2>5. y <= 3 * Age'
    BY <2>1, <2>2, <2>3, <2>4
  <2> QED BY <2>5 DEF y
<1> QED BY <1>1, <1>4, <1>5, PathsRender DEF LockInv

LEMMA LocksStep ==
    ASSUME LockInv, [RendererNext]_rendererVars
    PROVE  LockInv'
<1>1. CASE Begin
  <2>1. /\ phase = "idle" /\ phase' = "begun" /\ updated' = [updated EXCEPT !["fast"] = TRUE]
        /\ UNCHANGED <<mix, glyphs, batch, head, oldHead, locks>>
    BY <1>1 DEF Begin
  <2>2. RendererType'
    BY <2>1 DEF LockInv, RendererType
  <2>3. PathsInv'
    BY <2>1 DEF LockInv, RendererType, PathsInv, Live, Paths
  <2>4. Age' = Age
    BY <2>1 DEF Age
  <2> QED BY <2>1, <2>2, <2>3, <2>4 DEF LockInv, Live
<1>2. CASE CardFinishes \/ UNCHANGED rendererVars
  <2>1. UNCHANGED <<mix, phase, glyphs, updated, batch, head, oldHead, locks>>
    BY <1>2 DEF CardFinishes, rendererVars
  <2> QED BY <2>1 DEF LockInv, RendererType, PathsInv, Live, Age
<1> QED BY <1>1, <1>2, GlyphAdded, LocksEnd, LocksRender DEF RendererNext

\* With something in the long path the list of locks stays short, whatever the
\* paths draw and however many locks there may be.
THEOREM LocksStayFew == Spec => []LocksBounded
<1>1. Init => LockInv
  BY LocksInit DEF Init
<1>2. LockInv /\ [Next]_vars => LockInv'
  BY PartSteps, LocksStep
<1>3. LockInv => LocksBounded
  <2> SUFFICES ASSUME LockInv, glyphs["long"] # <<>>, ~updated["long"], NEW r \in Ranges
               PROVE  locks[r] <= 9
    BY DEF LocksBounded
  <2>1. Live("long")
    BY DEF LockInv, PathsInv
  <2>2. PICK b \in Buffers, f \in Fragments : r = RangeOf(b, f)
    BY DEF Ranges
  <2>3. head["long"]["transforms"] \in 0 .. 2 /\ locks[r] \in Nat
    BY DEF LockInv, RendererType, Paths, Buffers, Fragments
  <2>4. 3 * Age <= 9 /\ Age \in Nat
    BY <2>3 DEF Age
  <2>5. CASE b = "commands"
    <3>1. locks[r] <= 3 * Age
      BY <2>1, <2>2, <2>5 DEF LockInv
    <3> QED BY <2>3, <2>4, <3>1
  <2>6. CASE b # "commands"
    <3>1. locks[r] <= 3
      BY <2>2, <2>6 DEF LockInv, Buffers
    <3> QED BY <2>3, <3>1
  <2> QED BY <2>5, <2>6
<1> QED BY <1>1, <1>2, <1>3, PTL DEF Spec

-----------------------------------------------------------------------------
(* What the fragments hold *)

\* The fragment that was written n times before the next one.
Back(f, n) == (f + 3 - n) % 3

\* The buffers of the fast path are in step.
FastInv ==
    /\ \A b, c \in Buffers : head["fast"][b] = head["fast"][c]
    /\ FastSlotsTogether

\* Since the last update of the long path as many fragments of its transforms
\* hold what it has now as there were preparations.
SettledInv ==
    /\ settled \in 1 .. 3
    /\ ~updated["long"] =>
         /\ batch["long"] = Len(glyphs["long"])
         /\ \A n \in 1 .. settled, s \in 1 .. batch["long"] :
              ring["long"]["transforms"][Back(head["long"]["transforms"], n)][s] = glyphs["long"][s]

\* The long path only grows, and each fragment of its commands has those of one of
\* the last three updates.
ShownInv ==
    /\ sizes \in Seq(Nat) /\ Len(sizes) = 3
    /\ sizes[1] <= sizes[2] /\ sizes[2] <= sizes[3] /\ sizes[3] <= Len(glyphs["long"])
    /\ \A i \in 1 .. 3 : \A s \in 1 .. sizes[i] :
         ring["long"]["commands"][Back(head["long"]["commands"], 4 - i)][s] # Nothing

RingInv == LockInv /\ FastInv /\ SettledInv /\ ShownInv

LEMMA Turning ==
    ASSUME NEW f \in Fragments
    PROVE  /\ \A n \in 1 .. 3 : Back(f, n) \in Fragments
           /\ (f + 1) % 3 \in Fragments /\ Back((f + 1) % 3, 1) = f
           /\ \A n \in 1 .. 2 : Back((f + 1) % 3, n + 1) = Back(f, n) /\ Back(f, n) # f
           /\ Back(f, 3) = f
           /\ \E n \in 1 .. 3 : Back(f, n) = 0
<1>1. f \in 0 .. 2
  BY DEF Fragments
<1>2. f = 0 \/ f = 1 \/ f = 2
  BY <1>1
<1>3. ASSUME NEW n \in 1 .. 3
      PROVE  Back(f, n) \in Fragments /\ (f = 0 => Back(f, n) = (3 - n) % 3)
  BY <1>1 DEF Back, Fragments
<1>4. Back(0, 3) = 0 /\ Back(1, 1) = 0 /\ Back(2, 2) = 0
  BY DEF Back
<1>5. \A n \in 1 .. 2 : Back((f + 1) % 3, n + 1) = Back(f, n) /\ Back(f, n) # f
  BY <1>1 DEF Back
<1> QED BY <1>1, <1>2, <1>3, <1>4, <1>5 DEF Back, Fragments

LEMMA ThreeSizes ==
    ASSUME NEW q \in Seq(Nat), Len(q) = 3
    PROVE  q[1] \in Nat /\ q[2] \in Nat /\ q[3] \in Nat
<1>1. 1 \in 1 .. Len(q) /\ 2 \in 1 .. Len(q) /\ 3 \in 1 .. Len(q)
  OBVIOUS
<1> QED BY <1>1, ElementOfSeq

LEMMA NextSizes ==
    ASSUME NEW q \in Seq(Nat), Len(q) = 3, NEW n \in Nat
    PROVE  /\ Append(Tail(q), n) \in Seq(Nat) /\ Len(Append(Tail(q), n)) = 3
           /\ Append(Tail(q), n)[1] = q[2] /\ Append(Tail(q), n)[2] = q[3] /\ Append(Tail(q), n)[3] = n
<1> DEFINE t == Tail(q)
<1>1. q # <<>>
  BY EmptySeq
<1>2. /\ t \in Seq(Nat) /\ Len(t) = Len(q) - 1
      /\ \A i \in 1 .. Len(t) : t[i] = q[i + 1]
  BY <1>1, HeadTailProperties
<1> HIDE DEF t
<1>3. Len(t) = 2 /\ 1 \in 1 .. Len(t) /\ 2 \in 1 .. Len(t) /\ 1 + 1 = 2 /\ 2 + 1 = 3
  BY <1>2
<1>4. t[1] = q[2] /\ t[2] = q[3]
  <2>1. t[1] = q[1 + 1] /\ t[2] = q[2 + 1]
    BY <1>2, <1>3
  <2> QED BY <1>3, <2>1
<1>5. Append(t, n) \in Seq(Nat) /\ Len(Append(t, n)) = Len(t) + 1
  BY <1>2, AppendProperties
<1>6. Append(t, n)[1] = t[1] /\ Append(t, n)[2] = t[2]
  <2>1. t \in Seq(Nat)
    BY <1>2
  <2>2. \A i \in 1 .. Len(t) : Append(t, n)[i] = t[i]
    BY <2>1, Appended
  <2> QED BY <1>3, <2>2
<1>7. Append(t, n)[Len(t) + 1] = n
  BY <1>2, AppendProperties
<1> QED BY <1>3, <1>4, <1>5, <1>6, <1>7 DEF t

LEMMA SizesKnown ==
    ASSUME ShownInv
    PROVE  /\ sizes[1] \in Nat /\ sizes[2] \in Nat /\ sizes[3] \in Nat
           /\ sizes[1] <= sizes[2] /\ sizes[2] <= sizes[3] /\ sizes[3] <= Len(glyphs["long"])
BY ThreeSizes DEF ShownInv

\* What a preparation stores.
LEMMA RingEnd ==
    ASSUME LockInv, End
    PROVE  \A p \in Paths, b \in Buffers, f \in Fragments : \A s \in Slots(p) :
             ring'[p][b][f][s] = IF b \in Written(p) /\ f = head[p][b] /\ s <= Len(glyphs[p])
                                 THEN glyphs[p][s] ELSE ring[p][b][f][s]
<1>1. ring' = [p \in Paths |-> [b \in Buffers |-> [f \in Fragments |-> [s \in Slots(p) |-> Stored(p, b, f, s)]]]]
  BY DEF End
<1> QED BY <1>1 DEF Stored

LEMMA FastEnd ==
    ASSUME RingInv, End
    PROVE  FastInv'
<1>1. "fast" \in Paths /\ Ring("fast") = Buffers /\ mix' = mix
  BY DEF Paths, Ring, End
<1>2. Written("fast") = {} \/ Written("fast") = Buffers
  BY <1>1 DEF Written
<1>3. \A b \in Buffers : head'["fast"][b] = Moved("fast", b)
  BY <1>1 DEF End
<1>4. \A b, c \in Buffers : head["fast"][b] = head["fast"][c]
  BY DEF RingInv, FastInv
<1>5. \A b, c \in Buffers : head'["fast"][b] = head'["fast"][c]
  <2> SUFFICES ASSUME NEW b \in Buffers, NEW c \in Buffers PROVE Moved("fast", b) = Moved("fast", c)
    BY <1>3
  <2> QED BY <1>2, <1>4 DEF Moved
<1>6. \A f \in Fragments, s \in Slots("fast"), b, c \in Buffers : ring'["fast"][b][f][s] = ring'["fast"][c][f][s]
  <2> SUFFICES ASSUME NEW f \in Fragments, NEW s \in Slots("fast"), NEW b \in Buffers, NEW c \in Buffers
               PROVE  ring'["fast"][b][f][s] = ring'["fast"][c][f][s]
    OBVIOUS
  <2>1. ring["fast"][b][f][s] = ring["fast"][c][f][s]
    BY DEF RingInv, FastInv, FastSlotsTogether
  <2>2. head["fast"][b] = head["fast"][c] /\ (b \in Written("fast") <=> c \in Written("fast"))
    BY <1>2, <1>4
  <2> QED BY <1>1, <2>1, <2>2, RingEnd DEF RingInv
<1> QED BY <1>1, <1>5, <1>6 DEF FastInv, FastSlotsTogether, Slots

LEMMA LongSlots ==
    ASSUME RingInv
    PROVE  /\ "long" \in Paths /\ "transforms" \in Buffers /\ "commands" \in Buffers
           /\ Len(glyphs["long"]) \in Nat /\ Len(glyphs["long"]) <= mix["long"] /\ mix["long"] \in Nat
           /\ \A s \in 1 .. Len(glyphs["long"]) : s \in Slots("long") /\ glyphs["long"][s] \in Nat \ {0}
           /\ head["long"]["transforms"] \in Fragments /\ head["long"]["commands"] \in Fragments
<1>1. "long" \in Paths /\ "transforms" \in Buffers /\ "commands" \in Buffers
  BY DEF Paths, Buffers
<1>2. glyphs["long"] \in Seq(Nat \ {0}) /\ Len(glyphs["long"]) <= mix["long"] /\ mix["long"] \in Nat
      /\ head["long"]["transforms"] \in Fragments /\ head["long"]["commands"] \in Fragments
  BY <1>1 DEF RingInv, LockInv, RendererType
<1>3. Len(glyphs["long"]) \in Nat /\ \A s \in 1 .. Len(glyphs["long"]) : glyphs["long"][s] \in Nat \ {0}
  BY <1>2
<1>4. \A s \in 1 .. Len(glyphs["long"]) : s \in 1 .. mix["long"]
  BY <1>2, <1>3
<1> QED BY <1>1, <1>2, <1>3, <1>4 DEF Slots

LEMMA SettledEnd ==
    ASSUME RingInv, End
    PROVE  SettledInv'
<1> DEFINE g == glyphs["long"]
           h == head["long"]["transforms"]
<1>1. /\ updated' = [p \in Paths |-> updated[p] /\ glyphs[p] = <<>>]
      /\ batch' = [p \in Paths |-> Mapped(p)]
      /\ head' = [p \in Paths |-> [b \in Buffers |-> Moved(p, b)]]
      /\ settled' = IF LongUpdated THEN 1 ELSE IF settled < 3 /\ g # <<>> THEN settled + 1 ELSE settled
      /\ glyphs' = glyphs
  BY DEF End
<1>2. "long" \in Paths /\ "transforms" \in Buffers /\ h \in Fragments
      /\ Len(g) \in Nat /\ \A s \in 1 .. Len(g) : s \in Slots("long")
  BY LongSlots
<1>3. settled \in 1 .. 3
  BY DEF RingInv, SettledInv
<1>4. settled' \in 1 .. 3
  BY <1>1, <1>3
<1>5. g = <<>> => Len(g) = 0
  OBVIOUS
<1>6. CASE g = <<>>
  <2>1. batch'["long"] = batch["long"] /\ batch["long"] = 0
    BY <1>1, <1>2, <1>6 DEF Mapped, RingInv, LockInv, PathsInv, Live, RendererType
  <2> QED BY <1>1, <1>4, <1>5, <1>6, <2>1 DEF SettledInv
<1>7. CASE g # <<>>
  <2>1. "transforms" \in Written("long")
    BY <1>2, <1>7, WhatWrites DEF RingInv, LockInv
  <2>2. head'["long"]["transforms"] = (h + 1) % 3
    BY <1>1, <1>2, <2>1 DEF Moved
  <2>3. batch'["long"] = Len(g)
    BY <1>1, <1>2, <1>7 DEF Mapped, RingInv, SettledInv, LockInv, RendererType
  <2>4. LongUpdated <=> updated["long"]
    BY <1>7 DEF LongUpdated, Written, Ring
  <2>5. \A f \in Fragments, s \in 1 .. Len(g) :
          ring'["long"]["transforms"][f][s] = IF f = h THEN g[s] ELSE ring["long"]["transforms"][f][s]
    <3> SUFFICES ASSUME NEW f \in Fragments, NEW s \in 1 .. Len(g)
                 PROVE  ring'["long"]["transforms"][f][s] = IF f = h THEN g[s] ELSE ring["long"]["transforms"][f][s]
      OBVIOUS
    <3>1. s \in Slots("long") /\ s <= Len(g)
      BY <1>2
    <3> QED BY <1>2, <2>1, <3>1, RingEnd DEF RingInv
  <2>6. ASSUME NEW n \in 1 .. settled', NEW s \in 1 .. Len(g)
        PROVE  ring'["long"]["transforms"][Back((h + 1) % 3, n)][s] = g[s]
    <3>1. CASE n = 1
      BY <1>2, <2>5, <3>1, Turning
    <3>2. CASE n # 1
      <4>1. PICK m \in 1 .. 2 : n = m + 1 /\ m \in 1 .. settled
        <5>1. n - 1 \in 1 .. 2 /\ n - 1 \in 1 .. settled
          BY <1>1, <1>3, <3>2
        <5> QED BY <5>1
      <4>2. ~updated["long"]
        BY <1>1, <2>4, <3>2
      <4>3. ring["long"]["transforms"][Back(h, m)][s] = g[s]
        BY <4>1, <4>2 DEF RingInv, SettledInv
      <4>4. m \in 1 .. 3
        BY <4>1
      <4>5. Back((h + 1) % 3, n) = Back(h, m) /\ Back(h, m) # h /\ Back(h, m) \in Fragments
        BY <1>2, <4>1, <4>4, Turning
      <4> QED BY <2>5, <4>3, <4>5
    <3> QED BY <3>1, <3>2
  <2> QED BY <1>1, <1>4, <2>2, <2>3, <2>6 DEF SettledInv
<1> QED BY <1>6, <1>7

LEMMA ShownEnd ==
    ASSUME RingInv, End
    PROVE  ShownInv'
<1> DEFINE g == glyphs["long"]
           h == head["long"]["commands"]
<1>1. /\ head' = [p \in Paths |-> [b \in Buffers |-> Moved(p, b)]]
      /\ sizes' = IF LongUpdated THEN Append(Tail(sizes), Len(g)) ELSE sizes
      /\ glyphs' = glyphs
  BY DEF End
<1>2. "long" \in Paths /\ "commands" \in Buffers /\ h \in Fragments
      /\ Len(g) \in Nat /\ \A s \in 1 .. Len(g) : s \in Slots("long") /\ g[s] \in Nat \ {0}
  BY LongSlots
<1>3. /\ sizes \in Seq(Nat) /\ Len(sizes) = 3
      /\ sizes[1] <= sizes[2] /\ sizes[2] <= sizes[3] /\ sizes[3] <= Len(g)
      /\ sizes[1] \in Nat /\ sizes[2] \in Nat /\ sizes[3] \in Nat
  BY SizesKnown DEF RingInv, ShownInv
<1>4. \A f \in Fragments, s \in 1 .. Len(g) :
        ring'["long"]["commands"][f][s] =
          IF "commands" \in Written("long") /\ f = h THEN g[s] ELSE ring["long"]["commands"][f][s]
  <2> SUFFICES ASSUME NEW f \in Fragments, NEW s \in 1 .. Len(g)
               PROVE  ring'["long"]["commands"][f][s] =
                        IF "commands" \in Written("long") /\ f = h THEN g[s] ELSE ring["long"]["commands"][f][s]
    OBVIOUS
  <2>1. s \in Slots("long") /\ s <= Len(g)
    BY <1>2
  <2> QED BY <1>2, <2>1, RingEnd DEF RingInv
<1>5. \A i \in 1 .. 3 : \A s \in 1 .. sizes[i] :
        s \in 1 .. Len(g) /\ ring["long"]["commands"][Back(h, 4 - i)][s] # Nothing
  <2> TAKE i \in 1 .. 3
  <2>1. sizes[i] <= Len(g) /\ sizes[i] \in Nat
    <3>1. i = 1 \/ i = 2 \/ i = 3
      OBVIOUS
    <3> QED BY <1>2, <1>3, <3>1
  <2>2. \A s \in 1 .. sizes[i] : ring["long"]["commands"][Back(h, 4 - i)][s] # Nothing
    BY DEF RingInv, ShownInv
  <2> QED BY <1>2, <2>1, <2>2
<1>6. CASE ~LongUpdated
  <2>1. head'["long"]["commands"] = h /\ "commands" \notin Written("long")
    BY <1>1, <1>2, <1>6 DEF Moved, LongUpdated
  <2>2. \A i \in 1 .. 3 : \A s \in 1 .. sizes[i] : ring'["long"]["commands"][Back(h, 4 - i)][s] # Nothing
    <3> TAKE i \in 1 .. 3
    <3> TAKE s \in 1 .. sizes[i]
    <3>1. 4 - i \in 1 .. 3
      OBVIOUS
    <3>2. Back(h, 4 - i) \in Fragments
      BY <1>2, <3>1, Turning
    <3> QED BY <1>4, <1>5, <2>1, <3>2
  <2> QED BY <1>1, <1>3, <1>6, <2>1, <2>2 DEF ShownInv
<1>7. CASE LongUpdated
  <2>1. "commands" \in Written("long") /\ head'["long"]["commands"] = (h + 1) % 3
    BY <1>1, <1>2, <1>7 DEF Moved, LongUpdated
  <2>2. /\ sizes' \in Seq(Nat) /\ Len(sizes') = 3
        /\ sizes'[1] = sizes[2] /\ sizes'[2] = sizes[3] /\ sizes'[3] = Len(g)
    BY <1>1, <1>2, <1>3, <1>7, NextSizes
  <2>3. \A s \in 1 .. sizes'[3] : ring'["long"]["commands"][Back((h + 1) % 3, 1)][s] # Nothing
    BY <1>2, <1>4, <2>1, <2>2, Turning DEF Nothing
  <2>4. ASSUME NEW i \in 2 .. 3, NEW s \in 1 .. sizes[i]
        PROVE  ring'["long"]["commands"][Back((h + 1) % 3, 4 - i + 1)][s] # Nothing
    <3>1. 4 - i \in 1 .. 2 /\ 4 - i \in 1 .. 3 /\ i \in 1 .. 3
      OBVIOUS
    <3>2. Back((h + 1) % 3, 4 - i + 1) = Back(h, 4 - i) /\ Back(h, 4 - i) # h /\ Back(h, 4 - i) \in Fragments
      BY <1>2, <3>1, Turning
    <3> QED BY <1>4, <1>5, <3>1, <3>2
  <2>5. \A i \in 1 .. 3 : \A s \in 1 .. sizes'[i] :
          ring'["long"]["commands"][Back((h + 1) % 3, 4 - i)][s] # Nothing
    <3> TAKE i \in 1 .. 3
    <3>1. CASE i = 3
      BY <2>3, <3>1
    <3>2. CASE i # 3
      <4>1. PICK j \in 2 .. 3 : j = i + 1
        <5>1. i + 1 \in 2 .. 3
          BY <3>2
        <5> QED BY <5>1
      <4>2. sizes'[i] = sizes[j] /\ 4 - i = 4 - j + 1
        BY <2>2, <4>1
      <4> QED BY <2>4, <4>2
    <3> QED BY <3>1, <3>2
  <2>6. sizes'[1] <= sizes'[2] /\ sizes'[2] <= sizes'[3] /\ sizes'[3] <= Len(glyphs'["long"])
    <3>1. Len(glyphs'["long"]) = Len(g)
      BY <1>1
    <3> QED BY <1>2, <1>3, <2>2, <3>1
  <2> QED BY <2>1, <2>2, <2>5, <2>6 DEF ShownInv
<1> QED BY <1>6, <1>7

\* What else moves does not matter to the rings.
LEMMA RingsKeep ==
    ASSUME RingInv, UNCHANGED <<mix, head, ring, settled, sizes>>,
           UNCHANGED <<glyphs["long"], updated["long"], batch["long"]>>
    PROVE  FastInv' /\ SettledInv' /\ ShownInv'
<1>1. FastInv'
  BY DEF RingInv, FastInv, FastSlotsTogether, Slots
<1>2. SettledInv'
  BY DEF RingInv, SettledInv
<1>3. ShownInv'
  BY DEF RingInv, ShownInv
<1> QED BY <1>1, <1>2, <1>3

LEMMA RingsStep ==
    ASSUME RingInv, [RendererNext]_rendererVars
    PROVE  RingInv'
<1>1. LockInv'
  BY LocksStep DEF RingInv
<1>2. CASE End
  BY <1>1, <1>2, FastEnd, SettledEnd, ShownEnd DEF RingInv
<1>3. CASE UNCHANGED <<mix, head, ring, settled, sizes, glyphs, updated, batch>>
  BY <1>1, <1>3, RingsKeep DEF RingInv
<1>4. ASSUME NEW p \in Paths, NEW last \in BOOLEAN, AddGlyph(p, last) PROVE RingInv'
  <2>1. UNCHANGED <<mix, batch, head, ring, settled, sizes>>
    BY <1>4 DEF AddGlyph
  <2>2. FastInv'
    BY <2>1 DEF RingInv, FastInv, FastSlotsTogether, Slots
  <2>3. CASE p # "long"
    <3>1. glyphs'["long"] = glyphs["long"] /\ updated'["long"] = updated["long"]
      BY <1>4, <2>3 DEF AddGlyph, RingInv, LockInv, RendererType, Paths
    <3> QED BY <1>1, <2>1, <2>2, <3>1 DEF RingInv, SettledInv, ShownInv
  <2>4. CASE p = "long"
    <3> DEFINE n == Len(glyphs["long"]) + 1
    <3>1. updated'["long"] /\ glyphs'["long"] \in {Append(glyphs["long"], n), <<n>> \o glyphs["long"]}
      BY <1>4, <2>4 DEF AddGlyph, RingInv, LockInv, RendererType, Paths
    <3>2. glyphs["long"] \in Seq(Nat \ {0}) /\ n \in Nat \ {0}
      BY LongSlots DEF RingInv, LockInv, RendererType
    <3>3. Len(glyphs'["long"]) = n
      BY <3>1, <3>2, LongerSequence
    <3>4. sizes[3] <= Len(glyphs["long"]) /\ sizes[3] \in Nat /\ Len(glyphs["long"]) \in Nat
      BY LongSlots, SizesKnown DEF RingInv
    <3>5. sizes[3] <= Len(glyphs'["long"])
      BY <3>3, <3>4
    <3> QED BY <1>1, <2>1, <2>2, <3>1, <3>5 DEF RingInv, SettledInv, ShownInv
  <2> QED BY <2>3, <2>4
<1>5. CASE Begin
  <2>1. UNCHANGED <<mix, batch, head, ring, settled, sizes, glyphs>> /\ updated'["long"] = updated["long"]
    BY <1>5 DEF Begin, RingInv, LockInv, RendererType, Paths
  <2>2. batch'["long"] = batch["long"] /\ glyphs'["long"] = glyphs["long"]
    BY <2>1
  <2> QED BY <1>1, <2>1, <2>2, RingsKeep DEF RingInv
<1>6. CASE Render
  <2>1. UNCHANGED <<mix, head, ring, settled, sizes, updated>>
    BY <1>6 DEF Render
  <2>2. glyphs'["long"] = glyphs["long"] /\ batch'["long"] = batch["long"]
    BY <1>6 DEF Render, Kept, RingInv, LockInv, RendererType, Paths
  <2>3. updated'["long"] = updated["long"]
    BY <2>1
  <2> QED BY <1>1, <2>1, <2>2, <2>3, RingsKeep DEF RingInv
<1> QED BY <1>2, <1>3, <1>4, <1>5, <1>6 DEF RendererNext, CardFinishes, rendererVars

LEMMA RingsInit == RendererInit => RingInv
<1> SUFFICES ASSUME RendererInit PROVE RingInv
  OBVIOUS
<1>1. "fast" \in Paths /\ "long" \in Paths /\ "transforms" \in Buffers /\ "commands" \in Buffers
  BY DEF Paths, Buffers
<1>2. FastInv
  BY <1>1 DEF RendererInit, FastInv, FastSlotsTogether
<1>3. SettledInv
  BY <1>1 DEF RendererInit, SettledInv
<1>4. ShownInv
  BY <1>1 DEF RendererInit, ShownInv
<1> QED BY <1>2, <1>3, <1>4, LocksInit DEF RingInv

\* The buffers agree with the glyphs of the paths: the fast path's slots are of one
\* glyph each, the long path settles within three preparations and shows what it
\* had two updates ago, for any number of glyphs.
THEOREM RingsFollowGlyphs == Spec => []RingsAgree
<1>1. Init => RingInv
  BY RingsInit DEF Init
<1>2. RingInv /\ [Next]_vars => RingInv'
  BY PartSteps, RingsStep
<1>3. RingInv => RingsAgree
  <2> SUFFICES ASSUME RingInv PROVE RingsAgree
    OBVIOUS
  <2>1. FastSlotsTogether
    BY DEF RingInv, FastInv
  <2>2. LongSettles
    <3> SUFFICES ASSUME settled = 3, ~updated["long"], NEW s \in 1 .. batch["long"]
                 PROVE  ring["long"]["transforms"][0][s] = glyphs["long"][s]
      BY DEF LongSettles
    <3>1. PICK n \in 1 .. 3 : Back(head["long"]["transforms"], n) = 0
      BY LongSlots, Turning
    <3> QED BY <3>1 DEF RingInv, SettledInv
  <2>3. LongShown
    <3>1. PICK n \in 1 .. 3 : Back(head["long"]["commands"], n) = 0
      BY LongSlots, Turning
    <3>2. PICK i \in 1 .. 3 : 4 - i = n
      <4>1. 4 - n \in 1 .. 3 /\ 4 - (4 - n) = n
        OBVIOUS
      <4> QED BY <4>1
    <3>3. sizes[i] \in Nat /\ sizes[1] \in Nat /\ sizes[1] <= sizes[i] /\ sizes[i] <= mix["long"]
      <4>1. /\ sizes[1] \in Nat /\ sizes[2] \in Nat /\ sizes[3] \in Nat
            /\ sizes[1] <= sizes[2] /\ sizes[2] <= sizes[3] /\ sizes[3] <= Len(glyphs["long"])
        BY SizesKnown DEF RingInv
      <4>2. i = 1 \/ i = 2 \/ i = 3
        OBVIOUS
      <4> QED BY <4>1, <4>2, LongSlots
    <3> DEFINE shown == {s \in Slots("long") : ring["long"]["commands"][0][s] # Nothing}
    <3>4. 1 .. sizes[1] \subseteq shown
      <4> SUFFICES ASSUME NEW s \in 1 .. sizes[1] PROVE s \in shown
        OBVIOUS
      <4>1. s \in 1 .. sizes[i] /\ s \in 1 .. mix["long"]
        BY <3>3, LongSlots
      <4>2. ring["long"]["commands"][0][s] # Nothing
        BY <3>1, <3>2, <4>1 DEF RingInv, ShownInv
      <4> QED BY <4>1, <4>2 DEF Slots
    <3>5. shown \in SUBSET (1 .. mix["long"]) /\ mix["long"] \in Nat
      BY LongSlots DEF Slots
    <3> HIDE DEF shown
    <3>6. Cardinality(shown) >= sizes[1]
      BY <3>3, <3>4, <3>5, AtLeast
    <3> QED BY <3>6 DEF LongShown, shown
  <2> QED BY <2>1, <2>2, <2>3 DEF RingsAgree
<1> QED BY <1>1, <1>2, <1>3, PTL DEF Spec

-----------------------------------------------------------------------------
(* The commands of a draw path *)

Command == [vertexCount : {BaseIndexCount}, instanceCount : Nat, firstVertex : Nat, baseInstance : Nat]

Base(c) == commands[c].baseInstance
Count(c) == commands[c].instanceCount

BatchType ==
    /\ pending \in Seq(Path) /\ done \in Seq(Path) /\ commands \in Seq(Command)
    /\ vertices \in Seq(Shapes) /\ Len(vertices) = Len(done)
    /\ addresses \in Seq(Textures) /\ Len(addresses) = Len(done)
    /\ \A i \in 1 .. Len(done) : vertices[i] = done[i].shape /\ addresses[i] = done[i].texture

\* The commands share out the glyphs, in their order.
PartsInv ==
    /\ Len(commands) <= Len(done)
    /\ Len(commands) = 0 => Len(done) = 0
    /\ Len(commands) # 0 => Base(Len(commands)) + Count(Len(commands)) = Len(done)
    /\ \A c \in 1 .. Len(commands) : Count(c) >= 1
    /\ \A c, d \in 1 .. Len(commands) : c < d => Base(c) + Count(c) <= Base(d)
    /\ \A i \in 0 .. Len(done) - 1 : \E c \in 1 .. Len(commands) : Base(c) <= i /\ i < Base(c) + Count(c)

\* A command's glyphs are of one shape; until two are merged each glyph has a
\* command, which counts its vertices as the glyph does.
ShapesInv ==
    /\ inc = Len(commands)
    /\ \A c \in 1 .. Len(commands) : commands[c].firstVertex = (c - 1) * BaseIndexCount
    /\ \A c \in 1 .. Len(commands) : \A i \in 0 .. Len(done) - 1 :
         Base(c) <= i /\ i < Base(c) + Count(c) => done[i + 1].shape = done[Base(c) + 1].shape
    /\ \A c \in 1 .. Len(commands) : (\A d \in 1 .. c - 1 : Count(d) = 1) => Base(c) = c - 1

BatchInv == BatchType /\ PartsInv /\ ShapesInv

LEMMA BoundedAreSequences ==
    ASSUME NEW S, NEW n \in Nat
    PROVE  BoundedSeq(S, n) \subseteq Seq(S)
<1>1. BoundedSeq(S, n) = UNION {[1 .. m -> S] : m \in 0 .. n}
  BY DEF BoundedSeq, SeqOf
<1>2. 0 .. n \subseteq Nat
  OBVIOUS
<1> QED BY <1>1, <1>2, SeqDef

Unbatched ==
    pending \in Seq(Path) /\ inc = 0 /\ done = <<>> /\ commands = <<>> /\ vertices = <<>> /\ addresses = <<>>

LEMMA NothingBatched == Unbatched => BatchInv
<1> SUFFICES ASSUME Unbatched PROVE BatchInv
  OBVIOUS
<1>1. pending \in Seq(Path) /\ inc = 0
  BY DEF Unbatched
<1>2. /\ done \in Seq(Path) /\ commands \in Seq(Command) /\ vertices \in Seq(Shapes) /\ addresses \in Seq(Textures)
      /\ Len(done) = 0 /\ Len(commands) = 0 /\ Len(vertices) = 0 /\ Len(addresses) = 0
  BY EmptySeq DEF Unbatched
<1>3. 1 .. 0 = {} /\ 0 .. 0 - 1 = {}
  OBVIOUS
<1>4. BatchType
  BY <1>1, <1>2, <1>3 DEF BatchType
<1>5. PartsInv
  BY <1>2, <1>3 DEF PartsInv
<1>6. ShapesInv
  BY <1>1, <1>2, <1>3 DEF ShapesInv
<1> QED BY <1>4, <1>5, <1>6 DEF BatchInv

\* What the two cases of a turn have in common.
LEMMA BatchTurn ==
    ASSUME BatchInv, Batch, NEW t \in Textures, t = Head(pending).texture, addresses' = Append(addresses, t)
    PROVE  /\ pending' \in Seq(Path) /\ done' \in Seq(Path) /\ vertices' \in Seq(Shapes) /\ addresses' \in Seq(Textures)
           /\ Len(done) \in Nat /\ Len(done') = Len(done) + 1
           /\ Len(vertices') = Len(done') /\ Len(addresses') = Len(done')
           /\ \A i \in 1 .. Len(done) : done'[i] = done[i]
           /\ done'[Len(done) + 1] = Head(pending)
           /\ \A i \in 1 .. Len(done') : vertices'[i] = done'[i].shape /\ addresses'[i] = done'[i].texture
<1> DEFINE g == Head(pending)
<1>1. g \in Path /\ pending' \in Seq(Path)
  BY HeadTailProperties DEF BatchInv, BatchType, Batch
<1>2. done' = Append(done, g) /\ vertices' = Append(vertices, g.shape)
  BY DEF Batch
<1>3. g.shape \in Shapes
  BY <1>1 DEF Path
<1>4. done \in Seq(Path) /\ vertices \in Seq(Shapes) /\ addresses \in Seq(Textures)
      /\ Len(vertices) = Len(done) /\ Len(addresses) = Len(done)
      /\ \A i \in 1 .. Len(done) : vertices[i] = done[i].shape /\ addresses[i] = done[i].texture
  BY DEF BatchInv, BatchType
<1> HIDE DEF g
<1>5. /\ done' \in Seq(Path) /\ Len(done) \in Nat /\ Len(done') = Len(done) + 1
      /\ \A i \in 1 .. Len(done) : done'[i] = done[i]
      /\ done'[Len(done) + 1] = g
  BY <1>1, <1>2, <1>4, Appended
<1>6. /\ vertices' \in Seq(Shapes) /\ Len(vertices') = Len(vertices) + 1
      /\ \A i \in 1 .. Len(vertices) : vertices'[i] = vertices[i]
      /\ vertices'[Len(vertices) + 1] = g.shape
  BY <1>2, <1>3, <1>4, Appended
<1>7. /\ addresses' \in Seq(Textures) /\ Len(addresses') = Len(addresses) + 1
      /\ \A i \in 1 .. Len(addresses) : addresses'[i] = addresses[i]
      /\ addresses'[Len(addresses) + 1] = t
  BY <1>4, Appended
<1>8. \A i \in 1 .. Len(done') : vertices'[i] = done'[i].shape /\ addresses'[i] = done'[i].texture
  <2> TAKE i \in 1 .. Len(done')
  <2>1. CASE i = Len(done) + 1
    <3>1. vertices'[i] = g.shape /\ addresses'[i] = t /\ done'[i] = g
      BY <1>4, <1>5, <1>6, <1>7, <2>1
    <3> QED BY <3>1 DEF g
  <2>2. CASE i # Len(done) + 1
    <3>1. i \in 1 .. Len(done)
      BY <1>5, <2>2
    <3> QED BY <1>4, <1>5, <1>6, <1>7, <3>1
  <2> QED BY <2>1, <2>2
<1> QED BY <1>1, <1>4, <1>5, <1>6, <1>7, <1>8 DEF g

LEMMA OneMoreInstance ==
    ASSUME NEW c \in Command
    PROVE  /\ [c EXCEPT !.instanceCount = @ + 1] \in Command
           /\ [c EXCEPT !.instanceCount = @ + 1].instanceCount = c.instanceCount + 1
           /\ [c EXCEPT !.instanceCount = @ + 1].baseInstance = c.baseInstance
           /\ [c EXCEPT !.instanceCount = @ + 1].firstVertex = c.firstVertex
<1>1. c.instanceCount + 1 \in Nat
  BY DEF Command
<1> QED BY <1>1 DEF Command

\* The glyph is one more instance of the last command.
LEMMA BatchMerges ==
    ASSUME BatchInv, Batch, SameAsLast(Head(pending))
    PROVE  BatchInv'
<1> DEFINE g == Head(pending)
           n == Len(commands)
           k == Len(done)
           b(c) == commands'[c].baseInstance
           m(c) == commands'[c].instanceCount
<1>1. /\ commands' = [commands EXCEPT ![n].instanceCount = @ + 1]
      /\ addresses' = Append(addresses, Last(addresses)) /\ inc' = inc
  BY DEF Batch
<1>2. /\ k \in Nat \ {0} /\ n \in Nat \ {0} /\ n <= k
      /\ commands \in Seq(Command) /\ g \in Path
  BY EmptySeq, LenProperties, HeadTailProperties DEF BatchInv, BatchType, PartsInv, SameAsLast, Batch
<1>3. g.shape = done[k].shape /\ g.texture = done[k].texture /\ done[k].texture = addresses[k] /\ Len(addresses) = k
  BY <1>2 DEF BatchInv, BatchType, SameAsLast, Last
<1>4. Last(addresses) = g.texture /\ g.texture \in Textures
  BY <1>2, <1>3 DEF Last, Path
<1>5. /\ pending' \in Seq(Path) /\ done' \in Seq(Path) /\ vertices' \in Seq(Shapes) /\ addresses' \in Seq(Textures)
      /\ Len(done') = k + 1
      /\ Len(vertices') = Len(done') /\ Len(addresses') = Len(done')
      /\ \A i \in 1 .. k : done'[i] = done[i]
      /\ done'[k + 1] = g
      /\ \A i \in 1 .. Len(done') : vertices'[i] = done'[i].shape /\ addresses'[i] = done'[i].texture
  BY <1>1, <1>4, BatchTurn
<1>6. \A c \in 1 .. n : commands[c] \in Command
  BY <1>2, ElementOfSeq
<1>7. [commands[n] EXCEPT !.instanceCount = @ + 1] \in Command
  BY <1>2, <1>6, OneMoreInstance
<1>8. commands' = [commands EXCEPT ![n] = [commands[n] EXCEPT !.instanceCount = @ + 1]]
  BY <1>1
<1>9. /\ commands' \in Seq(Command) /\ Len(commands') = n
      /\ \A c \in 1 .. n : commands'[c] = IF c = n THEN [commands[n] EXCEPT !.instanceCount = @ + 1] ELSE commands[c]
  BY <1>2, <1>7, <1>8, ExceptSeq
<1>10. \A c \in 1 .. n :
         /\ b(c) = Base(c) /\ m(c) = IF c = n THEN Count(c) + 1 ELSE Count(c)
         /\ commands'[c].firstVertex = commands[c].firstVertex
  <2> TAKE c \in 1 .. n
  <2>1. commands[c] \in Command
    BY <1>6
  <2> QED BY <1>9, <2>1, OneMoreInstance DEF Base, Count, b, m
<1>11. \A c \in 1 .. n : Base(c) \in Nat /\ Count(c) \in Nat
  BY <1>6 DEF Base, Count, Command
<1> HIDE DEF g, n, k, b, m
<1>12. BatchType'
  BY <1>5, <1>9 DEF BatchType
<1>13. PartsInv'
  <2>1. n <= k /\ Base(n) + Count(n) = k
    BY <1>2 DEF BatchInv, PartsInv, n, k
  <2>2. b(n) + m(n) = k + 1
    <3>1. n \in 1 .. n
      BY <1>2
    <3>2. b(n) = Base(n) /\ m(n) = Count(n) + 1 /\ Base(n) \in Nat /\ Count(n) \in Nat
      BY <1>10, <1>11, <3>1
    <3> QED BY <1>2, <2>1, <3>2
  <2>3. \A c \in 1 .. n : m(c) >= 1
    BY <1>10, <1>11 DEF BatchInv, PartsInv, n
  <2>4. \A c, d \in 1 .. n : c < d => b(c) + m(c) <= b(d)
    <3> SUFFICES ASSUME NEW c \in 1 .. n, NEW d \in 1 .. n, c < d PROVE b(c) + m(c) <= b(d)
      OBVIOUS
    <3>1. c # n
      BY <1>2
    <3>2. Base(c) + Count(c) <= Base(d)
      BY DEF BatchInv, PartsInv, n
    <3> QED BY <1>10, <3>1, <3>2
  <2>5. \A i \in 0 .. k : \E c \in 1 .. n : b(c) <= i /\ i < b(c) + m(c)
    <3> TAKE i \in 0 .. k
    <3>1. CASE i = k
      <4>1. n \in 1 .. n
        BY <1>2
      <4>2. b(n) = Base(n) /\ m(n) = Count(n) + 1 /\ Base(n) \in Nat /\ Count(n) \in Nat
        BY <1>10, <1>11, <4>1
      <4>3. b(n) <= i /\ i < b(n) + m(n)
        BY <1>2, <2>1, <3>1, <4>2
      <4> QED BY <4>1, <4>3
    <3>2. CASE i # k
      <4>1. PICK c \in 1 .. n : Base(c) <= i /\ i < Base(c) + Count(c)
        <5>1. i \in 0 .. k - 1
          BY <1>2, <3>2
        <5> QED BY <5>1 DEF BatchInv, PartsInv, n, k
      <4>2. b(c) <= i /\ i < b(c) + m(c)
        BY <1>10, <1>11, <4>1
      <4> QED BY <4>1, <4>2
    <3> QED BY <3>1, <3>2
  <2>6. Len(commands') = n /\ Len(done') = k + 1 /\ Len(done') - 1 = k /\ n # 0
    BY <1>2, <1>5, <1>9
  <2>7. Len(commands') <= Len(done')
    BY <1>2, <2>6
  <2> QED BY <2>2, <2>3, <2>4, <2>5, <2>6, <2>7 DEF PartsInv, Base, Count, b, m
<1>14. ShapesInv'
  <2>1. inc' = n /\ \A c \in 1 .. n : commands'[c].firstVertex = (c - 1) * BaseIndexCount
    BY <1>1, <1>10 DEF BatchInv, ShapesInv, n
  <2>2. ASSUME NEW c \in 1 .. n, NEW i \in 0 .. k, b(c) <= i, i < b(c) + m(c)
        PROVE  done'[i + 1].shape = done'[b(c) + 1].shape
    <3>1. Base(c) <= k - 1 /\ Base(c) + 1 \in 1 .. k /\ (c # n => Base(c) + Count(c) <= k) /\ Base(n) + Count(n) = k
      <4>1. Base(n) + Count(n) = k /\ Count(n) >= 1
        BY <1>2 DEF BatchInv, PartsInv, n, k
      <4>2. c # n => Base(c) + Count(c) <= Base(n) /\ Count(c) >= 1
        BY <1>2 DEF BatchInv, PartsInv, n
      <4> QED BY <1>2, <1>11, <4>1, <4>2
    <3>2. b(c) = Base(c)
      BY <1>10
    <3>3. CASE i = k
      <4>1. c = n
        <5>1. c # n => b(c) + m(c) <= k
          BY <1>10, <3>1
        <5>2. b(c) \in Nat /\ m(c) \in Nat
          BY <1>10, <1>11
        <5> QED BY <1>2, <2>2, <3>3, <5>1, <5>2
      <4>2. k - 1 \in 0 .. k - 1 /\ Base(n) <= k - 1 /\ k - 1 < Base(n) + Count(n) /\ k - 1 + 1 = k
        BY <1>2, <1>11, <3>1, <4>1
      <4>3. done[k].shape = done[Base(n) + 1].shape
        <5>1. done[k - 1 + 1].shape = done[Base(n) + 1].shape
          BY <4>1, <4>2 DEF BatchInv, ShapesInv, n, k
        <5> QED BY <4>2, <5>1
      <4> QED BY <1>3, <1>5, <3>1, <3>2, <3>3, <4>1, <4>3 DEF k, g
    <3>4. CASE i # k
      <4>1. i \in 0 .. k - 1 /\ i + 1 \in 1 .. k
        BY <1>2, <3>4
      <4>2. Base(c) <= i /\ i < Base(c) + Count(c)
        BY <1>2, <1>10, <1>11, <2>2, <3>1, <4>1
      <4>3. done[i + 1].shape = done[Base(c) + 1].shape
        BY <4>1, <4>2 DEF BatchInv, ShapesInv, n, k
      <4> QED BY <1>5, <3>1, <3>2, <4>1, <4>3
    <3> QED BY <3>3, <3>4
  <2>3. ASSUME NEW c \in 1 .. n, \A d \in 1 .. c - 1 : m(d) = 1 PROVE b(c) = c - 1
    <3>1. \A d \in 1 .. c - 1 : d \in 1 .. n /\ d # n
      BY <1>2
    <3>2. \A d \in 1 .. c - 1 : Count(d) = 1
      BY <1>10, <2>3, <3>1
    <3> QED BY <1>10, <3>2 DEF BatchInv, ShapesInv, n
  <2>4. Len(commands') = n /\ Len(done') - 1 = k
    BY <1>2, <1>5, <1>9
  <2> QED BY <2>1, <2>2, <2>3, <2>4 DEF ShapesInv, Base, Count, b, m
<1> QED BY <1>12, <1>13, <1>14 DEF BatchInv

\* The glyph has a command of its own.
LEMMA BatchAppends ==
    ASSUME BatchInv, Batch, ~SameAsLast(Head(pending))
    PROVE  BatchInv'
<1> DEFINE g == Head(pending)
           n == Len(commands)
           k == Len(done)
           b(c) == commands'[c].baseInstance
           m(c) == commands'[c].instanceCount
<1>1. /\ commands' = Append(commands, NewCommand(k))
      /\ addresses' = Append(addresses, g.texture) /\ inc' = inc + 1
  BY DEF Batch
<1>2. /\ k \in Nat /\ n \in Nat /\ n <= k /\ (n = 0 => k = 0)
      /\ commands \in Seq(Command) /\ g \in Path
  BY LenProperties, HeadTailProperties DEF BatchInv, BatchType, PartsInv, Batch
<1>3. g.texture \in Textures
  BY <1>2 DEF Path
<1>4. /\ pending' \in Seq(Path) /\ done' \in Seq(Path) /\ vertices' \in Seq(Shapes) /\ addresses' \in Seq(Textures)
      /\ Len(done') = k + 1
      /\ Len(vertices') = Len(done') /\ Len(addresses') = Len(done')
      /\ \A i \in 1 .. k : done'[i] = done[i]
      /\ \A i \in 1 .. Len(done') : vertices'[i] = done'[i].shape /\ addresses'[i] = done'[i].texture
  BY <1>1, <1>3, BatchTurn
<1>5. inc = n
  BY DEF BatchInv, ShapesInv
<1>6. NewCommand(k) = [vertexCount |-> BaseIndexCount, instanceCount |-> 1, firstVertex |-> n * BaseIndexCount, baseInstance |-> k]
      /\ NewCommand(k) \in Command
  BY <1>2, <1>5 DEF NewCommand, Command, BaseIndexCount
<1>7. /\ commands' \in Seq(Command) /\ Len(commands') = n + 1
      /\ \A c \in 1 .. n : commands'[c] = commands[c]
      /\ commands'[n + 1] = NewCommand(k)
  BY <1>1, <1>2, <1>6, Appended
<1>8. \A c \in 1 .. n : b(c) = Base(c) /\ m(c) = Count(c) /\ commands'[c].firstVertex = commands[c].firstVertex
  BY <1>7 DEF Base, Count
<1>9. b(n + 1) = k /\ m(n + 1) = 1 /\ commands'[n + 1].firstVertex = n * BaseIndexCount
  BY <1>6, <1>7
<1>10. \A c \in 1 .. n : Base(c) \in Nat /\ Count(c) \in Nat
  <2> TAKE c \in 1 .. n
  <2>1. commands[c] \in Command
    BY <1>2, ElementOfSeq
  <2> QED BY <2>1 DEF Base, Count, Command
<1>11. \A c \in 1 .. n : Base(c) + Count(c) <= k /\ Count(c) >= 1
  <2> TAKE c \in 1 .. n
  <2>1. Base(n) + Count(n) = k /\ n \in 1 .. n /\ Base(n) \in Nat /\ Count(n) \in Nat /\ Count(c) >= 1
    BY <1>2, <1>10 DEF BatchInv, PartsInv
  <2>2. c # n => Base(c) + Count(c) <= Base(n)
    BY <1>2, <2>1 DEF BatchInv, PartsInv
  <2> QED BY <1>2, <1>10, <2>1, <2>2
<1>12. \A c \in 1 .. n + 1 : c \in 1 .. n \/ c = n + 1
  BY <1>2
<1> HIDE DEF g, n, k, b, m
<1>13. BatchType'
  BY <1>4, <1>7 DEF BatchType
<1>14. PartsInv'
  <2>1. b(n + 1) + m(n + 1) = k + 1 /\ n + 1 # 0 /\ n + 1 <= k + 1
    BY <1>2, <1>9
  <2>2. \A c \in 1 .. n + 1 : m(c) >= 1
    BY <1>8, <1>9, <1>11, <1>12
  <2>3. \A c, d \in 1 .. n + 1 : c < d => b(c) + m(c) <= b(d)
    <3> SUFFICES ASSUME NEW c \in 1 .. n + 1, NEW d \in 1 .. n + 1, c < d PROVE b(c) + m(c) <= b(d)
      OBVIOUS
    <3>1. c \in 1 .. n
      BY <1>2
    <3>2. b(c) = Base(c) /\ m(c) = Count(c)
      BY <1>8, <3>1
    <3>3. CASE d = n + 1
      <4>1. b(d) = k
        BY <1>9, <3>3
      <4>2. Base(c) + Count(c) <= k
        BY <1>11, <3>1
      <4> QED BY <3>2, <4>1, <4>2
    <3>4. CASE d # n + 1
      <4>1. d \in 1 .. n
        BY <1>12, <3>4
      <4>2. Base(c) + Count(c) <= Base(d)
        BY <3>1, <4>1 DEF BatchInv, PartsInv, n
      <4> QED BY <1>8, <3>2, <4>1, <4>2
    <3> QED BY <3>3, <3>4
  <2>4. \A i \in 0 .. k : \E c \in 1 .. n + 1 : b(c) <= i /\ i < b(c) + m(c)
    <3> TAKE i \in 0 .. k
    <3>1. CASE i = k
      <4>1. n + 1 \in 1 .. n + 1 /\ b(n + 1) <= i /\ i < b(n + 1) + m(n + 1)
        BY <1>2, <1>9, <3>1
      <4> QED BY <4>1
    <3>2. CASE i # k
      <4>1. PICK c \in 1 .. n : Base(c) <= i /\ i < Base(c) + Count(c)
        <5>1. i \in 0 .. k - 1
          BY <1>2, <3>2
        <5> QED BY <5>1 DEF BatchInv, PartsInv, n, k
      <4>2. b(c) <= i /\ i < b(c) + m(c) /\ c \in 1 .. n + 1
        BY <1>2, <1>8, <4>1
      <4> QED BY <4>2
    <3> QED BY <3>1, <3>2
  <2>5. Len(commands') = n + 1 /\ Len(done') = k + 1 /\ Len(done') - 1 = k
    BY <1>2, <1>4, <1>7
  <2> QED BY <2>1, <2>2, <2>3, <2>4, <2>5 DEF PartsInv, Base, Count, b, m
<1>15. ShapesInv'
  <2>1. inc' = n + 1
    BY <1>1, <1>5
  <2>2. \A c \in 1 .. n + 1 : commands'[c].firstVertex = (c - 1) * BaseIndexCount
    <3> TAKE c \in 1 .. n + 1
    <3>1. CASE c = n + 1
      <4>1. c - 1 = n
        BY <1>2, <3>1
      <4> QED BY <1>9, <3>1, <4>1
    <3>2. CASE c # n + 1
      <4>1. c \in 1 .. n
        BY <1>12, <3>2
      <4> QED BY <1>8, <4>1 DEF BatchInv, ShapesInv, n
    <3> QED BY <3>1, <3>2
  <2>3. ASSUME NEW c \in 1 .. n + 1, NEW i \in 0 .. k, b(c) <= i, i < b(c) + m(c)
        PROVE  done'[i + 1].shape = done'[b(c) + 1].shape
    <3>1. CASE c = n + 1
      <4>1. i = b(c)
        BY <1>2, <1>9, <2>3, <3>1
      <4> QED BY <4>1
    <3>2. CASE c # n + 1
      <4>1. c \in 1 .. n
        BY <1>12, <3>2
      <4>2. b(c) = Base(c) /\ m(c) = Count(c) /\ Base(c) \in Nat /\ Count(c) \in Nat /\ Base(c) + Count(c) <= k /\ Count(c) >= 1
        BY <1>8, <1>10, <1>11, <4>1
      <4>3. i \in 0 .. k - 1 /\ i + 1 \in 1 .. k /\ Base(c) + 1 \in 1 .. k /\ Base(c) <= i /\ i < Base(c) + Count(c)
        BY <1>2, <2>3, <4>2
      <4>4. done[i + 1].shape = done[Base(c) + 1].shape
        BY <4>1, <4>3 DEF BatchInv, ShapesInv, n, k
      <4> QED BY <1>4, <4>2, <4>3, <4>4
    <3> QED BY <3>1, <3>2
  <2>4. ASSUME NEW c \in 1 .. n + 1, \A d \in 1 .. c - 1 : m(d) = 1 PROVE b(c) = c - 1
    <3>1. \A d \in 1 .. c - 1 : d \in 1 .. n
      BY <1>2
    <3>2. \A d \in 1 .. c - 1 : Count(d) = 1
      BY <1>8, <2>4, <3>1
    <3>3. CASE c # n + 1
      <4>1. c \in 1 .. n
        BY <1>12, <3>3
      <4> QED BY <1>8, <3>2, <4>1 DEF BatchInv, ShapesInv, n
    <3>4. CASE c = n + 1
      <4>1. CASE n = 0
        BY <1>2, <1>9, <3>4, <4>1
      <4>2. CASE n # 0
        <5>1. n \in 1 .. n /\ n \in 1 .. c - 1
          BY <1>2, <3>4, <4>2
        <5>2. \A d \in 1 .. n - 1 : Count(d) = 1
          <6>1. \A d \in 1 .. n - 1 : d \in 1 .. c - 1
            BY <1>2, <3>4
          <6> QED BY <3>2, <6>1
        <5>3. Base(n) = n - 1
          BY <5>1, <5>2 DEF BatchInv, ShapesInv, n
        <5>4. Count(n) = 1 /\ Base(n) + Count(n) = k
          BY <3>2, <4>2, <5>1 DEF BatchInv, PartsInv, n, k
        <5> QED BY <1>2, <1>9, <3>4, <5>3, <5>4
      <4> QED BY <4>1, <4>2
    <3> QED BY <3>3, <3>4
  <2>5. Len(commands') = n + 1 /\ Len(done') - 1 = k
    BY <1>2, <1>4, <1>7
  <2> QED BY <2>1, <2>2, <2>3, <2>4, <2>5 DEF ShapesInv, Base, Count, b, m
<1> QED BY <1>13, <1>14, <1>15 DEF BatchInv

LEMMA BatchingStep ==
    ASSUME BatchInv, [BatchingNext]_batchingVars
    PROVE  BatchInv'
<1>1. CASE Batch
  BY <1>1, BatchMerges, BatchAppends
<1>2. CASE BatchAgain
  <2>1. PICK q \in BoundedSeq(Path, MostGlyphs) : pending' = q
    BY <1>2 DEF BatchAgain
  <2>2. done' = <<>> /\ commands' = <<>> /\ vertices' = <<>> /\ addresses' = <<>> /\ inc' = 0
    BY <1>2 DEF BatchAgain
  <2>3. pending' \in Seq(Path)
    BY <2>1, BoundedAreSequences, BatchingAssumption
  <2>4. Unbatched'
    BY <2>2, <2>3 DEF Unbatched
  <2> QED BY <2>4, NothingBatched, PTL
<1>3. CASE UNCHANGED batchingVars
  <2>1. UNCHANGED <<pending, done, commands, vertices, addresses, inc>>
    BY <1>3 DEF batchingVars
  <2>2. BatchType' /\ PartsInv'
    BY <2>1 DEF BatchInv, BatchType, PartsInv, Base, Count
  <2>3. ShapesInv'
    BY <2>1 DEF BatchInv, ShapesInv, Base, Count
  <2> QED BY <2>2, <2>3 DEF BatchInv
<1> QED BY <1>1, <1>2, <1>3 DEF BatchingNext

LEMMA BatchingShown == BatchInv => CommandsDrawGlyphs
<1> SUFFICES ASSUME BatchInv PROVE CommandsDrawGlyphs
  OBVIOUS
<1> DEFINE n == Len(commands)
           k == Len(done)
<1>1. k \in Nat /\ n \in Nat /\ n <= k /\ commands \in Seq(Command)
      /\ DOMAIN commands = 1 .. n /\ DOMAIN done = 1 .. k /\ Len(vertices) = k
  BY LenProperties DEF BatchInv, BatchType, PartsInv
<1>2. \A c \in 1 .. n : commands[c] \in Command /\ Base(c) \in Nat /\ Count(c) \in Nat
  <2> TAKE c \in 1 .. n
  <2>1. commands[c] \in Command
    BY <1>1, ElementOfSeq
  <2> QED BY <2>1 DEF Base, Count, Command
<1>3. ASSUME NEW c \in 1 .. n, NEW i \in Int
      PROVE  i \in InstancesOf(commands[c]) <=> Base(c) <= i /\ i < Base(c) + Count(c)
  BY <1>2 DEF InstancesOf, Base, Count
<1> HIDE DEF n, k
<1>4. DrawnOnce
  <2> SUFFICES ASSUME NEW i \in 0 .. k - 1
               PROVE  Cardinality({c \in 1 .. n : i \in InstancesOf(commands[c])}) = 1
    BY <1>1 DEF DrawnOnce, k
  <2>1. PICK d \in 1 .. n : Base(d) <= i /\ i < Base(d) + Count(d)
    BY DEF BatchInv, PartsInv, n, k
  <2>2. ASSUME NEW c \in 1 .. n, Base(c) <= i, i < Base(c) + Count(c) PROVE c = d
    <3>1. c < d => Base(c) + Count(c) <= Base(d)
      BY DEF BatchInv, PartsInv, n
    <3>2. d < c => Base(d) + Count(d) <= Base(c)
      BY DEF BatchInv, PartsInv, n
    <3>3. Base(c) \in Nat /\ Count(c) \in Nat /\ Base(d) \in Nat /\ Count(d) \in Nat
      BY <1>2
    <3> QED BY <1>1, <2>1, <2>2, <3>1, <3>2, <3>3
  <2>3. i \in Int
    OBVIOUS
  <2>4. {c \in 1 .. n : i \in InstancesOf(commands[c])} = {d}
    BY <1>3, <2>1, <2>2, <2>3
  <2> QED BY <2>4, FS_Singleton
<1>5. OwnTexture
  BY <1>1 DEF BatchInv, BatchType, OwnTexture, k
<1>6. OwnShapeUntilMerged
  <2> SUFFICES ASSUME NEW c \in 1 .. n, \A d \in 1 .. c - 1 : commands[d].instanceCount = 1,
                      NEW i \in InstancesOf(commands[c])
               PROVE  ShapeOf(commands[c]) = done[i + 1].shape
    BY <1>1 DEF OwnShapeUntilMerged
  <2>1. i \in Int /\ Base(c) <= i /\ i < Base(c) + Count(c)
    <3>1. i \in Int
      BY <1>2 DEF InstancesOf, Command
    <3> QED BY <1>3, <3>1
  <2>2. Base(c) = c - 1 /\ commands[c].firstVertex = (c - 1) * BaseIndexCount
    BY DEF BatchInv, ShapesInv, Count, n
  <2>3. Base(c) + Count(c) <= k
    <3>1. Base(n) + Count(n) = k /\ n \in 1 .. n
      BY <1>1 DEF BatchInv, PartsInv, n, k
    <3>2. c # n => Base(c) + Count(c) <= Base(n)
      <4>1. c # n => c < n
        BY <1>1
      <4> QED BY <3>1, <4>1 DEF BatchInv, PartsInv, n
    <3>3. Base(n) \in Nat /\ Count(n) \in Nat /\ Count(n) >= 1
      BY <1>2, <3>1 DEF BatchInv, PartsInv, n
    <3> QED BY <1>1, <1>2, <3>1, <3>2, <3>3
  <2>4. i \in 0 .. k - 1 /\ c \in 1 .. k
    BY <1>1, <1>2, <2>1, <2>2, <2>3
  <2>5. done[i + 1].shape = done[c].shape
    <3>1. done[i + 1].shape = done[Base(c) + 1].shape
      BY <2>1, <2>4 DEF BatchInv, ShapesInv, n, k
    <3>2. Base(c) + 1 = c
      BY <1>1, <2>2
    <3> QED BY <3>1, <3>2
  <2>6. (commands[c].firstVertex \div BaseIndexCount) + 1 = c
    BY <1>1, <2>2 DEF BaseIndexCount
  <2>7. vertices[c] = done[c].shape
    BY <2>4 DEF BatchInv, BatchType, k
  <2> QED BY <2>5, <2>6, <2>7 DEF ShapeOf
<1>7. DrawsStoredVertices
  <2> SUFFICES ASSUME NEW c \in 1 .. n
               PROVE  commands[c].firstVertex + commands[c].vertexCount <= Len(vertices) * BaseIndexCount
    BY <1>1 DEF DrawsStoredVertices
  <2>1. commands[c].firstVertex = (c - 1) * BaseIndexCount /\ commands[c].vertexCount = BaseIndexCount
    BY <1>2 DEF BatchInv, ShapesInv, n, Command
  <2> QED BY <1>1, <2>1 DEF BaseIndexCount
<1> QED BY <1>4, <1>5, <1>6, <1>7 DEF CommandsDrawGlyphs

\* Each glyph is drawn once, with its texture and, until two are merged, its
\* shape, whatever the glyphs, textures and shapes.
THEOREM GlyphsAreDrawn == Spec => []CommandsDrawGlyphs
<1>1. Init => BatchInv
  <2> SUFFICES ASSUME Init PROVE BatchInv
    OBVIOUS
  <2>1. pending \in BoundedSeq(Path, MostGlyphs)
    BY DEF Init, BatchingInit
  <2>2. pending \in Seq(Path)
    BY <2>1, BoundedAreSequences, BatchingAssumption
  <2>3. Unbatched
    BY <2>2 DEF Init, BatchingInit, Unbatched
  <2> QED BY <2>3, NothingBatched
<1>2. BatchInv /\ [Next]_vars => BatchInv'
  BY PartSteps, BatchingStep
<1> QED BY <1>1, <1>2, BatchingShown, PTL DEF Spec

-----------------------------------------------------------------------------
(* The glyphs of the interface *)

Spots == Places \cup {Gone.place}
ThingType == [exists : BOOLEAN, visible : BOOLEAN, textured : BOOLEAN, place : Spots, glyph : Nat]

DrawingType ==
    /\ running \in BOOLEAN
    /\ element \in [Elements -> ThingType]
    /\ sub \in [Subs -> ThingType]
    /\ drawPath \in Seq([owner : Things, place : Spots])
    /\ ~running => drawPath = <<>>

DrawingInv == DrawingType /\ GlyphsMatchElements

LEMMA GoneIsThing ==
    /\ Gone \in ThingType /\ Gone.glyph = NoGlyph
    /\ \A t \in BOOLEAN : /\ [Gone EXCEPT !.exists = TRUE, !.visible = TRUE, !.textured = t] \in ThingType
                          /\ [Gone EXCEPT !.exists = TRUE, !.visible = TRUE, !.textured = t].glyph = NoGlyph
<1>1. Gone.place \in Spots
  BY DEF Spots
<1> DEFINE spot == CHOOSE p \in Places : TRUE
<1>2. Gone = [exists |-> FALSE, visible |-> FALSE, textured |-> FALSE, place |-> spot, glyph |-> NoGlyph]
  BY DEF Gone
<1>3. spot \in Spots
  BY <1>1, <1>2
<1> HIDE DEF spot
<1>4. Gone \in ThingType /\ Gone.glyph = NoGlyph
  BY <1>2, <1>3 DEF ThingType, NoGlyph
<1>5. ASSUME NEW t \in BOOLEAN
      PROVE  /\ [Gone EXCEPT !.exists = TRUE, !.visible = TRUE, !.textured = t] \in ThingType
             /\ [Gone EXCEPT !.exists = TRUE, !.visible = TRUE, !.textured = t].glyph = NoGlyph
  BY <1>4 DEF ThingType
<1> QED BY <1>4, <1>5

LEMMA ElementsAreMade ==
    ASSUME NEW f \in [Elements -> {[Gone EXCEPT !.exists = TRUE, !.visible = TRUE, !.textured = t] : t \in BOOLEAN}]
    PROVE  f \in [Elements -> ThingType] /\ \A e \in Elements : f[e].glyph = NoGlyph
<1>1. ASSUME NEW e \in Elements PROVE f[e] \in ThingType /\ f[e].glyph = NoGlyph
  <2>1. PICK t \in BOOLEAN : f[e] = [Gone EXCEPT !.exists = TRUE, !.visible = TRUE, !.textured = t]
    OBVIOUS
  <2> QED BY <2>1, GoneIsThing
<1> QED BY <1>1

LEMMA NothingInEmpty == \A S : <<>> \in Seq(S) /\ DOMAIN <<>> = {}
<1> TAKE S
<1>1. <<>> \in Seq(S) /\ Len(<<>>) = 0
  BY EmptySeq
<1>2. DOMAIN <<>> = 1 .. Len(<<>>)
  BY <1>1, LenProperties
<1> QED BY <1>1, <1>2

LEMMA ThingsAreThings ==
    ASSUME DrawingType, NEW x \in Things
    PROVE  /\ Thing(x) \in ThingType
           /\ x \in Elements => Thing(x) = element[x]
           /\ x \notin Elements => x \in Subs /\ Thing(x) = sub[x]
<1>1. x \in Elements \/ x \in Subs
  BY DEF Things
<1>2. element \in [Elements -> ThingType] /\ sub \in [Subs -> ThingType]
  BY DEF DrawingType
<1> QED BY <1>1, <1>2 DEF Thing

\* A step that leaves the draw path alone, and takes glyphs from sub-elements only.
LEMMA GlyphsKept ==
    ASSUME DrawingInv, DrawingType', drawPath' = drawPath, moved' = TRUE,
           \A e \in Elements : element'[e].glyph = element[e].glyph,
           \A s \in Subs : sub'[s].glyph \in {sub[s].glyph, NoGlyph}
    PROVE  DrawingInv'
<1>1. GlyphsAreAlive'
  <2> SUFFICES ASSUME NEW x \in Things, Thing(x)'.glyph # NoGlyph
               PROVE  Thing(x)'.glyph \in DOMAIN drawPath /\ drawPath[Thing(x)'.glyph].owner = x
    BY DEF GlyphsAreAlive
  <2>1. Thing(x)'.glyph = Thing(x).glyph
    BY ThingsAreThings DEF Thing, DrawingInv, NoGlyph
  <2> QED BY <2>1 DEF DrawingInv, GlyphsMatchElements, GlyphsAreAlive
<1>2. DrawnWhereItIs'
  BY DEF DrawnWhereItIs
<1>3. GhostsWereParts'
  <2> SUFFICES ASSUME NEW i \in DOMAIN drawPath, NEW x, x = drawPath[i].owner
               PROVE  \/ Thing(x)'.glyph = i
                      \/ x \in Subs /\ (Thing(x)'.glyph = NoGlyph \/ i < Thing(x)'.glyph)
    BY DEF GhostsWereParts
  <2>1. x \in Things
    <3>1. drawPath \in Seq([owner : Things, place : Spots])
      BY DEF DrawingInv, DrawingType
    <3>2. i \in 1 .. Len(drawPath)
      BY <3>1, LenProperties
    <3>3. drawPath[i] \in [owner : Things, place : Spots]
      BY <3>1, <3>2, ElementOfSeq, Zenon
    <3> QED BY <3>3
  <2>2. \/ Thing(x).glyph = i
        \/ x \in Subs /\ (Thing(x).glyph = NoGlyph \/ i < Thing(x).glyph)
    BY DEF DrawingInv, GlyphsMatchElements, GhostsWereParts
  <2>3. CASE x \in Elements
    <3>1. Thing(x)'.glyph = Thing(x).glyph
      BY <2>3 DEF Thing
    <3> QED BY <2>2, <3>1
  <2>4. CASE x \notin Elements
    <3>1. x \in Subs /\ Thing(x)'.glyph \in {Thing(x).glyph, NoGlyph}
      BY <2>1, <2>4 DEF Thing, Things
    <3> QED BY <2>2, <3>1
  <2> QED BY <2>3, <2>4
<1> QED BY <1>1, <1>2, <1>3 DEF DrawingInv, GlyphsMatchElements

LEMMA ElementChanges ==
    ASSUME DrawingInv, NEW e \in Elements, NEW t \in ThingType, t.glyph = element[e].glyph,
           element' = [element EXCEPT ![e] = t], moved' = TRUE, UNCHANGED <<running, sub, drawPath>>
    PROVE  DrawingInv'
<1>1. element \in [Elements -> ThingType]
  BY DEF DrawingInv, DrawingType
<1>2. element' \in [Elements -> ThingType] /\ \A f \in Elements : element'[f].glyph = element[f].glyph
  BY <1>1
<1>3. DrawingType'
  BY <1>2 DEF DrawingInv, DrawingType
<1> QED BY <1>2, <1>3, GlyphsKept

\* A drawing: what has no glyph gets one, in any order.
LEMMA GlyphsDrawn ==
    ASSUME DrawingInv, RenderGUI
    PROVE  DrawingInv'
<1> DEFINE new == {x \in Things : NeedsGlyph(x)}
           k == Cardinality(new)
           n == Len(drawPath)
<1>1. PICK order \in [1 .. k -> new] :
        /\ \A i, j \in DOMAIN order : order[i] = order[j] => i = j
        /\ drawPath' = Redrawn(order)
        /\ element' = [e \in Elements |-> [element[e] EXCEPT !.glyph = Given(order, e)]]
        /\ sub' = [s \in Subs |-> [sub[s] EXCEPT !.glyph = Given(order, s)]]
  BY DEF RenderGUI
<1>2. running /\ running' /\ moved' = FALSE
  BY DEF RenderGUI, DrawingInv, DrawingType
<1>3. new \subseteq Things /\ \A x \in Things : x \in new <=> NeedsGlyph(x)
  OBVIOUS
<1>4. IsFiniteSet(new) /\ k \in Nat
  <2>1. IsFiniteSet(Things)
    BY GuiDrawingAssumption, FS_Union DEF Things, Subs
  <2> QED BY <1>3, <2>1, FS_Subset, FS_CardinalityType
<1>5. drawPath \in Seq([owner : Things, place : Spots]) /\ n \in Nat /\ DOMAIN drawPath = 1 .. n
  BY LenProperties DEF DrawingInv, DrawingType
<1>6. \A x \in Things : /\ Thing(x) \in ThingType
                        /\ x \in Elements => Thing(x) = element[x]
                        /\ x \notin Elements => x \in Subs /\ Thing(x) = sub[x]
  BY ThingsAreThings DEF DrawingInv
<1>7. \A x \in Things : Thing(x).glyph # NoGlyph => Thing(x).glyph \in 1 .. n /\ drawPath[Thing(x).glyph].owner = x
  BY <1>5 DEF DrawingInv, GlyphsMatchElements, GlyphsAreAlive
<1>8. DOMAIN order = 1 .. k /\ \A i \in 1 .. k : order[i] \in new
  OBVIOUS
\* Everything new has its turn.
<1>9. \A x \in new : \E i \in 1 .. k : order[i] = x
  <2>1. order \in Injection(1 .. k, new)
    BY <1>1, <1>8 DEF Injection, IsInjective
  <2>2. IsFiniteSet(1 .. k) /\ Cardinality(1 .. k) = k
    BY <1>4, FS_Interval
  <2>3. order \in Surjection(1 .. k, new)
    BY <1>4, <2>1, <2>2, FS_Injection
  <2> QED BY <2>3 DEF Surjection
<1> DEFINE turn(x) == CHOOSE i \in 1 .. k : order[i] = x
<1>10. ASSUME NEW x \in new PROVE turn(x) \in 1 .. k /\ order[turn(x)] = x
  BY <1>9
<1> HIDE DEF new, k, n
<1>11. \A i \in 1 .. k : turn(order[i]) = i
  <2> TAKE i \in 1 .. k
  <2>1. turn(order[i]) \in 1 .. k /\ order[turn(order[i])] = order[i]
    BY <1>8, <1>10
  <2> QED BY <1>1, <1>8, <2>1
<1>12. ASSUME NEW x \in Things
       PROVE  Given(order, x) = IF x \in new THEN n + turn(x) ELSE Thing(x).glyph
  BY <1>8, <1>9 DEF Given, n
<1> HIDE DEF turn
<1>13. ASSUME NEW x \in Things
       PROVE  /\ Thing(x)' = [Thing(x) EXCEPT !.glyph = Given(order, x)]
              /\ Given(order, x) \in Nat
  <2>1. Thing(x)' = [Thing(x) EXCEPT !.glyph = Given(order, x)]
    BY <1>1, <1>6 DEF Thing
  <2>2. Given(order, x) \in Nat
    <3>1. CASE x \in new
      BY <1>4, <1>5, <1>10, <1>12, <3>1
    <3>2. CASE x \notin new
      BY <1>6, <1>12, <3>2 DEF ThingType
    <3> QED BY <3>1, <3>2
  <2> QED BY <2>1, <2>2
<1>14. ASSUME NEW x \in Things
       PROVE  /\ Thing(x)' \in ThingType /\ Thing(x)'.glyph = Given(order, x)
              /\ Thing(x)'.exists = Thing(x).exists /\ Thing(x)'.visible = Thing(x).visible
              /\ Thing(x)'.textured = Thing(x).textured /\ Thing(x)'.place = Thing(x).place
  BY <1>6, <1>13 DEF ThingType
\* The draw path that comes of it.
<1> DEFINE old == [i \in 1 .. n |->
                     IF \E x \in Things : Thing(x).glyph = i
                     THEN [drawPath[i] EXCEPT !.place = Followed(CHOOSE x \in Things : Thing(x).glyph = i, i)]
                     ELSE drawPath[i]]
           Glyph == [owner : Things, place : Spots]
<1>15. drawPath' = old \o Made(order)
  BY <1>1, <1>5 DEF Redrawn
<1>16. \A i \in 1 .. n : drawPath[i] \in Glyph
  BY <1>5, ElementOfSeq DEF n
<1>17. ASSUME NEW i \in 1 .. n
       PROVE  /\ old[i] \in Glyph /\ old[i].owner = drawPath[i].owner
              /\ \A x \in Things : Thing(x).glyph = i => old[i].place = Followed(x, i)
  <2>1. CASE \E x \in Things : Thing(x).glyph = i
    <3> DEFINE y == CHOOSE x \in Things : Thing(x).glyph = i
    <3>1. y \in Things /\ Thing(y).glyph = i
      BY <2>1
    <3>2. old[i] = [drawPath[i] EXCEPT !.place = Followed(y, i)]
      BY <2>1
    <3> HIDE DEF y, old
    <3>3. i # NoGlyph
      BY DEF NoGlyph
    <3>4. \A x \in Things : Thing(x).glyph = i => x = y
      BY <1>7, <3>1, <3>3
    <3>5. Followed(y, i) \in Spots
      BY <1>6, <1>16, <3>1 DEF Followed, ThingType
    <3> QED BY <1>16, <3>2, <3>4, <3>5
  <2>2. CASE ~\E x \in Things : Thing(x).glyph = i
    BY <1>16, <2>2
  <2> QED BY <2>1, <2>2
<1>18. /\ Made(order) \in Seq(Glyph) /\ Len(Made(order)) = k
       /\ \A i \in 1 .. k : Made(order)[i] = [owner |-> order[i], place |-> Thing(order[i]).place]
  <2>1. \A i \in 1 .. k : [owner |-> order[i], place |-> Thing(order[i]).place] \in Glyph
    <3> TAKE i \in 1 .. k
    <3>1. order[i] \in Things
      BY <1>3, <1>8 DEF new
    <3> QED BY <1>6, <3>1 DEF ThingType
  <2>2. Made(order) = [i \in 1 .. k |-> [owner |-> order[i], place |-> Thing(order[i]).place]]
    BY <1>8 DEF Made
  <2> HIDE DEF Glyph
  <2>3. Made(order) \in [1 .. k -> Glyph]
    BY <2>1, <2>2
  <2>4. Made(order) \in Seq(Glyph)
    BY <1>4, <2>3, SeqDef
  <2>5. Len(Made(order)) = k
    BY <1>4, <2>3, <2>4, LenProperties
  <2> QED BY <2>2, <2>4, <2>5
<1>19. old \in Seq(Glyph) /\ Len(old) = n
  <2> HIDE DEF Glyph
  <2>1. old \in [1 .. n -> Glyph]
    BY <1>17
  <2> HIDE DEF old
  <2>2. old \in Seq(Glyph)
    BY <1>5, <2>1, SeqDef
  <2> QED BY <1>5, <2>1, <2>2, LenProperties
<1> HIDE DEF old, Glyph
<1>20. /\ drawPath' \in Seq(Glyph) /\ DOMAIN drawPath' = 1 .. n + k
       /\ \A i \in 1 .. n : drawPath'[i] = old[i]
       /\ \A i \in 1 .. k : drawPath'[n + i] = [owner |-> order[i], place |-> Thing(order[i]).place]
  <2>1. /\ drawPath' \in Seq(Glyph) /\ Len(drawPath') = n + k
        /\ \A i \in 1 .. n + k : drawPath'[i] = IF i <= n THEN old[i] ELSE Made(order)[i - n]
    BY <1>15, <1>18, <1>19, ConcatProperties
  <2>2. DOMAIN drawPath' = 1 .. n + k
    BY <2>1, LenProperties
  <2>3. \A i \in 1 .. n : i \in 1 .. n + k /\ i <= n
    BY <1>4, <1>5
  <2>4. ASSUME NEW i \in 1 .. k PROVE drawPath'[n + i] = Made(order)[i]
    <3>1. n + i \in 1 .. n + k /\ ~(n + i <= n) /\ (n + i) - n = i
      BY <1>4, <1>5
    <3> QED BY <2>1, <3>1
  <2> QED BY <1>18, <2>1, <2>2, <2>3, <2>4
<1>21. DrawingType'
  <2>1. element' \in [Elements -> ThingType]
    <3>1. ASSUME NEW e \in Elements PROVE [element[e] EXCEPT !.glyph = Given(order, e)] \in ThingType
      BY <1>6, <1>13 DEF Things, ThingType
    <3> QED BY <1>1, <3>1
  <2>2. sub' \in [Subs -> ThingType]
    <3>1. ASSUME NEW s \in Subs PROVE [sub[s] EXCEPT !.glyph = Given(order, s)] \in ThingType
      <4>1. s \in Things /\ s \notin Elements
        BY GuiDrawingAssumption DEF Things, Subs
      <4> QED BY <1>6, <1>13, <4>1 DEF ThingType
    <3> QED BY <1>1, <3>1
  <2> QED BY <1>2, <1>20, <2>1, <2>2 DEF DrawingType, Glyph
<1>22. GlyphsAreAlive'
  <2> SUFFICES ASSUME NEW x \in Things, Given(order, x) # NoGlyph
               PROVE  Given(order, x) \in DOMAIN drawPath' /\ drawPath'[Given(order, x)].owner = x
    BY <1>14 DEF GlyphsAreAlive
  <2>1. CASE x \in new
    <3>1. Given(order, x) = n + turn(x) /\ turn(x) \in 1 .. k /\ order[turn(x)] = x
      BY <1>10, <1>12, <2>1
    <3>2. n + turn(x) \in 1 .. n + k
      BY <1>4, <1>5, <3>1
    <3>3. drawPath'[n + turn(x)] = [owner |-> order[turn(x)], place |-> Thing(order[turn(x)]).place]
      BY <1>20, <3>1
    <3>4. drawPath'[n + turn(x)].owner = x
      BY <3>1, <3>3
    <3> QED BY <1>20, <3>1, <3>2, <3>4
  <2>2. CASE x \notin new
    <3>1. Given(order, x) \in 1 .. n /\ drawPath[Given(order, x)].owner = x
      BY <1>7, <1>12, <2>2
    <3>2. Given(order, x) \in 1 .. n + k
      BY <1>4, <1>5, <3>1
    <3> QED BY <1>17, <1>20, <3>1, <3>2
  <2> QED BY <2>1, <2>2
<1>23. DrawnWhereItIs'
  <2> SUFFICES ASSUME NEW x \in Things, Thing(x).exists, Thing(x).visible, Thing(x).textured
               PROVE  Given(order, x) # NoGlyph /\ drawPath'[Given(order, x)].place = Thing(x).place
    BY <1>14 DEF DrawnWhereItIs
  <2>1. CASE x \in new
    <3>1. Given(order, x) = n + turn(x) /\ turn(x) \in 1 .. k /\ order[turn(x)] = x
      BY <1>10, <1>12, <2>1
    <3>2. n + turn(x) # NoGlyph
      BY <1>4, <1>5, <3>1 DEF NoGlyph
    <3>3. drawPath'[n + turn(x)] = [owner |-> order[turn(x)], place |-> Thing(order[turn(x)]).place]
      BY <1>20, <3>1
    <3>4. drawPath'[n + turn(x)].place = Thing(x).place
      BY <3>1, <3>3
    <3> QED BY <3>1, <3>2, <3>4
  <2>2. CASE x \notin new
    <3>1. Given(order, x) = Thing(x).glyph /\ Thing(x).glyph # NoGlyph
      BY <1>3, <1>12, <2>2 DEF NeedsGlyph
    <3>2. Thing(x).glyph \in 1 .. n
      BY <1>7, <3>1
    <3>3. old[Thing(x).glyph].place = Followed(x, Thing(x).glyph)
      BY <1>17, <3>2
    <3> QED BY <1>20, <3>1, <3>2, <3>3 DEF Followed
  <2> QED BY <2>1, <2>2
<1>24. GhostsWereParts'
  <2> SUFFICES ASSUME NEW i \in 1 .. n + k, NEW x, x = drawPath'[i].owner
               PROVE  \/ Thing(x)'.glyph = i
                      \/ x \in Subs /\ (Thing(x)'.glyph = NoGlyph \/ i < Thing(x)'.glyph)
    BY <1>20 DEF GhostsWereParts
  <2>1. CASE i \in 1 .. n
    <3>1. x = drawPath[i].owner /\ x \in Things /\ i # NoGlyph
      <4>1. x = drawPath[i].owner
        BY <1>17, <1>20, <2>1
      <4>2. drawPath[i] \in Glyph
        BY <1>16, <2>1
      <4> QED BY <4>1, <4>2, <2>1 DEF NoGlyph, Glyph
    <3>2. Thing(x)'.glyph = Given(order, x)
      BY <1>14, <3>1
    <3>3. \/ Thing(x).glyph = i
          \/ x \in Subs /\ (Thing(x).glyph = NoGlyph \/ i < Thing(x).glyph)
      BY <1>5, <2>1, <3>1 DEF DrawingInv, GlyphsMatchElements, GhostsWereParts
    <3>4. CASE x \in new
      <4>1. Thing(x).glyph = NoGlyph
        BY <1>3, <3>1, <3>4 DEF NeedsGlyph
      <4>2. x \in Subs
        BY <3>1, <3>3, <4>1
      <4>3. Given(order, x) = n + turn(x) /\ turn(x) \in 1 .. k
        BY <1>10, <1>12, <3>1, <3>4
      <4>4. i < n + turn(x)
        BY <1>4, <1>5, <2>1, <4>3
      <4> QED BY <3>2, <4>2, <4>3, <4>4
    <3>5. CASE x \notin new
      <4>1. Given(order, x) = Thing(x).glyph
        BY <1>12, <3>1, <3>5
      <4> QED BY <3>2, <3>3, <4>1
    <3> QED BY <3>4, <3>5
  <2>2. CASE i \notin 1 .. n
    <3>1. PICK j \in 1 .. k : i = n + j
      <4>1. i - n \in 1 .. k /\ i = n + (i - n)
        BY <1>4, <1>5, <2>2
      <4> QED BY <4>1
    <3>2. x = order[j]
      <4>1. drawPath'[n + j] = [owner |-> order[j], place |-> Thing(order[j]).place]
        BY <1>20
      <4> QED BY <3>1, <4>1
    <3>3. x \in new /\ x \in Things
      BY <1>3, <1>8, <3>2
    <3>4. turn(x) = j
      BY <1>11, <3>2
    <3>5. Given(order, x) = i
      BY <1>12, <3>1, <3>3, <3>4
    <3> QED BY <1>14, <3>3, <3>5
  <2> QED BY <2>1, <2>2
<1> QED BY <1>21, <1>22, <1>23, <1>24 DEF DrawingInv, GlyphsMatchElements

LEMMA DrawingStep ==
    ASSUME DrawingInv, [DrawingNext]_drawingVars
    PROVE  DrawingInv'
<1>1. element \in [Elements -> ThingType] /\ sub \in [Subs -> ThingType]
  BY DEF DrawingInv, DrawingType
<1>2. ASSUME NEW e \in Elements, NEW p \in Places, MoveElement(e, p) PROVE DrawingInv'
  <2> DEFINE t == [element[e] EXCEPT !.place = p]
  <2>1. t \in ThingType /\ t.glyph = element[e].glyph
    BY <1>1 DEF ThingType, Spots
  <2>2. element' = [element EXCEPT ![e] = t] /\ moved' = TRUE /\ UNCHANGED <<running, sub, drawPath>>
    BY <1>2 DEF MoveElement
  <2> HIDE DEF t
  <2> QED BY <2>1, <2>2, ElementChanges
<1>3. ASSUME NEW e \in Elements, NEW val \in BOOLEAN, SetVisible(e, val) PROVE DrawingInv'
  <2>1. /\ element' = [element EXCEPT ![e].visible = val] /\ moved' = TRUE /\ UNCHANGED <<running, drawPath>>
        /\ sub' = [s \in Subs |-> IF s \in PartsOf(e) /\ sub[s].exists THEN [sub[s] EXCEPT !.visible = val] ELSE sub[s]]
    BY <1>3 DEF SetVisible
  <2>2. element' \in [Elements -> ThingType] /\ \A f \in Elements : element'[f].glyph = element[f].glyph
    BY <1>1, <2>1 DEF ThingType
  <2>3. ASSUME NEW s \in Subs
        PROVE  /\ (IF s \in PartsOf(e) /\ sub[s].exists THEN [sub[s] EXCEPT !.visible = val] ELSE sub[s]) \in ThingType
               /\ (IF s \in PartsOf(e) /\ sub[s].exists THEN [sub[s] EXCEPT !.visible = val] ELSE sub[s]).glyph = sub[s].glyph
    BY <1>1 DEF ThingType
  <2>4. sub' \in [Subs -> ThingType] /\ \A s \in Subs : sub'[s].glyph = sub[s].glyph
    BY <2>1, <2>3
  <2>5. DrawingType'
    BY <2>1, <2>2, <2>4 DEF DrawingInv, DrawingType
  <2> QED BY <2>1, <2>2, <2>4, <2>5, GlyphsKept
<1>4. ASSUME NEW e \in Elements, NEW p \in Places, NEW textured \in BOOLEAN, UpdateParts(e, p, textured)
      PROVE  DrawingInv'
  <2> DEFINE part(s) == IF s \notin PartsOf(e) THEN sub[s]
                        ELSE IF sub[s].exists THEN [sub[s] EXCEPT !.place = p, !.textured = @ \/ textured]
                        ELSE [exists |-> TRUE, visible |-> element[e].visible, textured |-> textured, place |-> p, glyph |-> NoGlyph]
  <2>1. sub' = [s \in Subs |-> part(s)] /\ moved' = TRUE /\ UNCHANGED <<running, element, drawPath>>
    BY <1>4 DEF UpdateParts
  <2>2. ASSUME NEW s \in Subs PROVE part(s) \in ThingType /\ part(s).glyph \in {sub[s].glyph, NoGlyph}
    <3>1. sub[s] \in ThingType /\ p \in Spots
      BY <1>1 DEF Spots
    <3>2. CASE s \notin PartsOf(e)
      BY <3>1, <3>2
    <3>3. CASE s \in PartsOf(e) /\ sub[s].exists
      <4>1. part(s) = [sub[s] EXCEPT !.place = p, !.textured = sub[s].textured \/ textured]
        BY <3>3
      <4>2. (sub[s].textured \/ textured) \in BOOLEAN
        OBVIOUS
      <4> HIDE DEF part
      <4> QED BY <3>1, <4>1, <4>2 DEF ThingType
    <3>4. CASE s \in PartsOf(e) /\ ~sub[s].exists
      <4>1. part(s) = [exists |-> TRUE, visible |-> element[e].visible, textured |-> textured, place |-> p, glyph |-> NoGlyph]
        BY <3>4
      <4>2. element[e].visible \in BOOLEAN
        BY <1>1 DEF ThingType
      <4> HIDE DEF part
      <4> QED BY <3>1, <4>1, <4>2 DEF ThingType, NoGlyph
    <3> QED BY <3>2, <3>3, <3>4
  <2> HIDE DEF part
  <2>3. sub' \in [Subs -> ThingType] /\ \A s \in Subs : sub'[s].glyph \in {sub[s].glyph, NoGlyph}
    BY <2>1, <2>2
  <2>4. DrawingType'
    BY <2>1, <2>3 DEF DrawingInv, DrawingType
  <2> QED BY <2>1, <2>3, <2>4, GlyphsKept
<1>5. ASSUME NEW S \in SUBSET Subs, sub' = [s \in Subs |-> IF s \in S THEN Gone ELSE sub[s]],
             moved' = TRUE, UNCHANGED <<running, element, drawPath>>
      PROVE  DrawingInv'
  <2>1. sub' \in [Subs -> ThingType] /\ \A s \in Subs : sub'[s].glyph \in {sub[s].glyph, NoGlyph}
    BY <1>1, <1>5, GoneIsThing
  <2>2. DrawingType'
    BY <1>5, <2>1 DEF DrawingInv, DrawingType
  <2> QED BY <1>5, <2>1, <2>2, GlyphsKept
<1>9. ASSUME NEW e \in Elements, DestroyParts(e) PROVE DrawingInv'
  <2>1. PartsOf(e) \in SUBSET Subs
    BY DEF PartsOf, Subs
  <2> QED BY <1>5, <1>9, <2>1 DEF DestroyParts
<1>10. ASSUME NEW p \in Places, OpenRows(p) PROVE DrawingInv'
  <2> DEFINE opened == [exists |-> TRUE, visible |-> TRUE, textured |-> TRUE, place |-> p, glyph |-> NoGlyph]
  <2>1. /\ sub' = [s \in Subs |-> IF s \in Rows THEN opened ELSE sub[s]]
        /\ moved' = TRUE /\ UNCHANGED <<running, element, drawPath>>
    BY <1>10 DEF OpenRows
  <2>2. opened \in ThingType /\ opened.glyph = NoGlyph
    BY DEF ThingType, Spots, NoGlyph
  <2> HIDE DEF opened
  <2>3. sub' \in [Subs -> ThingType] /\ \A s \in Subs : sub'[s].glyph \in {sub[s].glyph, NoGlyph}
    BY <1>1, <2>1, <2>2
  <2>4. DrawingType'
    BY <2>1, <2>3 DEF DrawingInv, DrawingType
  <2> QED BY <2>1, <2>3, <2>4, GlyphsKept
<1>11. CASE CloseRows
  <2>1. Rows \in SUBSET Subs
    BY DEF Subs
  <2> QED BY <1>5, <1>11, <2>1 DEF CloseRows
<1>6. CASE DisposeDrawing
  <2>1. /\ running' = FALSE /\ drawPath' = <<>> /\ moved' = TRUE
        /\ element' = [e \in Elements |-> Gone] /\ sub' = [s \in Subs |-> Gone]
    BY <1>6 DEF DisposeDrawing
  <2>2. element' \in [Elements -> ThingType] /\ sub' \in [Subs -> ThingType]
    BY <2>1, GoneIsThing
  <2>3. drawPath' \in Seq([owner : Things, place : Spots]) /\ Len(drawPath') = 0 /\ DOMAIN drawPath' = {}
    BY <2>1, EmptySeq, NothingInEmpty
  <2>4. DrawingType'
    BY <2>1, <2>2, <2>3 DEF DrawingType
  <2>5. \A x \in Things : Thing(x)'.glyph = NoGlyph
    BY <2>1, GoneIsThing DEF Thing, Things
  <2>6. GlyphsAreAlive' /\ DrawnWhereItIs' /\ GhostsWereParts'
    BY <2>1, <2>3, <2>5 DEF GlyphsAreAlive, DrawnWhereItIs, GhostsWereParts
  <2> QED BY <2>4, <2>6 DEF DrawingInv, GlyphsMatchElements
<1>7. CASE StartDrawing
  <2>1. /\ ~running /\ running' = TRUE /\ moved' = TRUE /\ UNCHANGED <<sub, drawPath>>
        /\ element' \in [Elements -> {[Gone EXCEPT !.exists = TRUE, !.visible = TRUE, !.textured = t] : t \in BOOLEAN}]
    BY <1>7 DEF StartDrawing
  <2>2. element' \in [Elements -> ThingType] /\ \A e \in Elements : element'[e].glyph = NoGlyph
    BY <2>1, ElementsAreMade
  <2>3. DOMAIN drawPath = {}
    BY <2>1, NothingInEmpty DEF DrawingInv, DrawingType
  <2>4. \A e \in Elements : element[e].glyph = NoGlyph
    BY <2>3 DEF DrawingInv, GlyphsMatchElements, GlyphsAreAlive, Thing, Things
  <2>5. DrawingType'
    BY <2>1, <2>2 DEF DrawingInv, DrawingType
  <2> QED BY <2>1, <2>2, <2>4, <2>5, GlyphsKept
<1>8. CASE UNCHANGED drawingVars
  <2>1. UNCHANGED <<running, element, sub, drawPath, moved>>
    BY <1>8 DEF drawingVars
  <2>2. DrawingType'
    BY <2>1 DEF DrawingInv, DrawingType
  <2>3. GlyphsAreAlive' /\ DrawnWhereItIs' /\ GhostsWereParts'
    BY <2>1 DEF DrawingInv, GlyphsMatchElements, GlyphsAreAlive, DrawnWhereItIs, GhostsWereParts, Thing
  <2> QED BY <2>2, <2>3 DEF DrawingInv, GlyphsMatchElements
<1> QED BY <1>2, <1>3, <1>4, <1>6, <1>7, <1>8, <1>9, <1>10, <1>11, GlyphsDrawn DEF DrawingNext

LEMMA DrawingBegins == DrawingInit => DrawingInv
<1> SUFFICES ASSUME DrawingInit PROVE DrawingInv
  OBVIOUS
<1>1. /\ running = TRUE /\ drawPath = <<>> /\ moved = TRUE /\ sub = [s \in Subs |-> Gone]
      /\ element \in [Elements -> {[Gone EXCEPT !.exists = TRUE, !.visible = TRUE, !.textured = t] : t \in BOOLEAN}]
  BY DEF DrawingInit
<1>2. element \in [Elements -> ThingType] /\ \A e \in Elements : element[e].glyph = NoGlyph
  BY <1>1, ElementsAreMade
<1>3. sub \in [Subs -> ThingType] /\ \A s \in Subs : sub[s].glyph = NoGlyph
  BY <1>1, GoneIsThing
<1>4. drawPath \in Seq([owner : Things, place : Spots]) /\ DOMAIN drawPath = {}
  BY <1>1, NothingInEmpty
<1>5. \A x \in Things : Thing(x).glyph = NoGlyph
  BY <1>2, <1>3 DEF Thing, Things
<1>6. GlyphsAreAlive /\ DrawnWhereItIs /\ GhostsWereParts
  BY <1>1, <1>4, <1>5 DEF GlyphsAreAlive, DrawnWhereItIs, GhostsWereParts
<1> QED BY <1>1, <1>2, <1>3, <1>4, <1>6 DEF DrawingInv, DrawingType, GlyphsMatchElements

\* The draw path of the GUI is that of its elements, for any elements, rows and parts: no
\* pointer to a deleted glyph, each drawn where it is, and twice only what was made anew.
THEOREM GuiGlyphsAreTrue == Spec => []GlyphsMatchElements
<1>1. Init => DrawingInv
  BY DrawingBegins DEF Init
<1>2. DrawingInv /\ [Next]_vars => DrawingInv'
  BY PartSteps, DrawingStep
<1>3. DrawingInv => GlyphsMatchElements
  BY DEF DrawingInv
<1> QED BY <1>1, <1>2, <1>3, PTL DEF Spec

-----------------------------------------------------------------------------
(* The programs of the driver *)

ProgramType ==
    /\ id \in [Programs -> Names \cup {0}]
    /\ attributes \in [Programs -> Nat]
    /\ inUse \in [Programs -> BOOLEAN]
    /\ maker \in [Programs -> Programs]
    /\ bound \in Arrays \cup {NoArray}
    /\ enabled \subseteq Arrays \X Nat

\* An enabled attribute that an unuse() answers for is one of the bound array, and of
\* an object that says it is in use.
EnabledAreUsed ==
    \A x \in enabled : x \in left \/ (x[1] = bound /\ \E p \in Programs : inUse[p] /\ x[2] < attributes[p])

\* Until the first robbery what an object has is alive, and only copies share it.
OwnIsOwn ==
    robbed = {} =>
      /\ \A p \in Programs : Has(p) => id[p] \in living
      /\ \A p, q \in Programs : Has(p) /\ Has(q) /\ id[p] = id[q] => maker[p] = maker[q]

ProgramInv == ProgramType /\ EnabledAreUsed /\ OwnIsOwn

Excused == robbed = {} => \A r \in robbed' : maker[r[1]] = maker[r[2]] \/ r[1] \in disposed \cap disposed'

LEMMA ProgramCompiles ==
    ASSUME ProgramInv, NEW p \in Programs, Compile(p)
    PROVE  ProgramInv' /\ robbed' = robbed
<1> DEFINE m == Min(Free)
<1>1. /\ id' = [id EXCEPT ![p] = m] /\ living' = living \cup {m} /\ disposed' = disposed \ {p}
      /\ maker' = [maker EXCEPT ![p] = p]
      /\ UNCHANGED <<attributes, inUse, current, bound, enabled, left, robbed>>
  BY DEF Compile
<1>2. m \in Free
  <2>1. Free \subseteq Nat /\ Free # {}
    BY ProgramAssumption DEF Free, Compile
  <2> QED BY <2>1, LeastIsIn
<1>3. m \in Names /\ m \notin living
  BY <1>2 DEF Free
<1> HIDE DEF m
<1>4. id \in [Programs -> Names \cup {0}] /\ maker \in [Programs -> Programs]
  BY DEF ProgramInv, ProgramType
<1>5. ProgramType'
  BY <1>1, <1>3 DEF ProgramInv, ProgramType
<1>6. EnabledAreUsed'
  BY <1>1 DEF ProgramInv, EnabledAreUsed
<1>7. ASSUME NEW q \in Programs, q # p
      PROVE  id'[q] = id[q] /\ maker'[q] = maker[q] /\ (Has(q)' <=> Has(q))
  BY <1>1, <1>4, <1>7 DEF Has
<1>8. id'[p] = m
  BY <1>1, <1>4
<1>9. OwnIsOwn'
  <2> SUFFICES ASSUME robbed = {}
               PROVE  /\ \A q \in Programs : Has(q)' => id'[q] \in living'
                      /\ \A q, r \in Programs : Has(q)' /\ Has(r)' /\ id'[q] = id'[r] => maker'[q] = maker'[r]
    BY <1>1 DEF OwnIsOwn
  <2>1. ASSUME NEW q \in Programs, q # p, Has(q)' PROVE id'[q] \in living /\ id'[q] # m
    BY <1>3, <1>7, <2>1 DEF ProgramInv, OwnIsOwn
  <2>2. \A q \in Programs : Has(q)' => id'[q] \in living'
    BY <1>1, <1>8, <2>1
  <2>3. ASSUME NEW q \in Programs, NEW r \in Programs, Has(q)', Has(r)', id'[q] = id'[r] PROVE maker'[q] = maker'[r]
    <3>1. CASE q # p /\ r # p
      BY <1>7, <2>3, <3>1 DEF ProgramInv, OwnIsOwn
    <3>2. CASE ~(q # p /\ r # p)
      BY <1>8, <2>1, <2>3, <3>2
    <3> QED BY <3>1, <3>2
  <2> QED BY <2>2, <2>3
<1> QED BY <1>1, <1>5, <1>6, <1>9 DEF ProgramInv

LEMMA ProgramDisposed ==
    ASSUME ProgramInv, NEW p \in Programs, DisposeProgram(p)
    PROVE  ProgramInv' /\ Excused
<1>1. /\ living' = living \ {id[p]}
      /\ robbed' = robbed \cup {<<p, q>> : q \in {q \in Programs \ {p} : Has(q) /\ id[q] = id[p]}}
      /\ disposed' = disposed \cup {p}
      /\ UNCHANGED <<id, attributes, inUse, maker, current, bound, enabled, left>>
  BY DEF DisposeProgram, Deleted
<1>2. ProgramType'
  BY <1>1 DEF ProgramInv, ProgramType
<1>3. EnabledAreUsed'
  BY <1>1 DEF ProgramInv, EnabledAreUsed
<1>4. OwnIsOwn'
  <2> SUFFICES ASSUME robbed' = {}
               PROVE  /\ \A q \in Programs : Has(q)' => id[q] \in living'
                      /\ \A q, r \in Programs : Has(q)' /\ Has(r)' /\ id[q] = id[r] => maker[q] = maker[r]
    BY <1>1 DEF OwnIsOwn
  <2>1. robbed = {}
    BY <1>1
  <2>2. ASSUME NEW q \in Programs, Has(q)' PROVE q # p /\ Has(q)
    BY <1>1, <2>2 DEF Has
  <2>3. ASSUME NEW q \in Programs, Has(q)' PROVE id[q] \in living'
    <3>1. id[q] # id[p]
      <4> SUFFICES ASSUME id[q] = id[p] PROVE FALSE
        OBVIOUS
      <4>1. <<p, q>> \in robbed'
        BY <1>1, <2>2, <2>3
      <4> QED BY <4>1
    <3>2. id[q] \in living
      BY <2>1, <2>2, <2>3 DEF ProgramInv, OwnIsOwn
    <3> QED BY <1>1, <3>1, <3>2
  <2>4. ASSUME NEW q \in Programs, NEW r \in Programs, Has(q)', Has(r)', id[q] = id[r] PROVE maker[q] = maker[r]
    BY <2>1, <2>2, <2>4 DEF ProgramInv, OwnIsOwn
  <2> QED BY <2>3, <2>4
<1>5. ASSUME robbed = {}, NEW r \in robbed' PROVE maker[r[1]] = maker[r[2]] \/ r[1] \in disposed \cap disposed'
  <2>1. PICK q \in Programs \ {p} : r = <<p, q>> /\ Has(q) /\ id[q] = id[p]
    BY <1>1, <1>5
  <2>2. CASE p \in disposed
    BY <1>1, <2>1, <2>2
  <2>3. CASE p \notin disposed
    <3>1. Has(p)
      BY <2>1, <2>3 DEF Has
    <3>2. maker[p] = maker[q]
      BY <1>5, <2>1, <3>1 DEF ProgramInv, OwnIsOwn
    <3> QED BY <2>1, <3>2
  <2> QED BY <2>2, <2>3
<1> QED BY <1>2, <1>3, <1>4, <1>5 DEF ProgramInv, Excused

LEMMA ProgramCopied ==
    ASSUME ProgramInv, NEW p \in Programs, NEW q \in Programs, CopyProgram(p, q)
    PROVE  ProgramInv' /\ robbed' = robbed
<1>1. /\ p # q /\ id' = [id EXCEPT ![q] = id[p]] /\ attributes' = [attributes EXCEPT ![q] = attributes[p]]
      /\ inUse' = [inUse EXCEPT ![q] = inUse[p]] /\ maker' = [maker EXCEPT ![q] = maker[p]]
      /\ disposed' = IF p \in disposed THEN disposed \cup {q} ELSE disposed \ {q}
      /\ left' = IF inUse[q] THEN left \cup EnabledBy(q) ELSE left
      /\ UNCHANGED <<living, current, bound, enabled, robbed>>
  BY DEF CopyProgram
<1>2. /\ id \in [Programs -> Names \cup {0}] /\ maker \in [Programs -> Programs]
      /\ attributes \in [Programs -> Nat] /\ inUse \in [Programs -> BOOLEAN]
  BY DEF ProgramInv, ProgramType
<1>3. ProgramType'
  BY <1>1, <1>2 DEF ProgramInv, ProgramType
<1>4. ASSUME NEW r \in Programs, r # q
      PROVE  /\ id'[r] = id[r] /\ maker'[r] = maker[r] /\ (Has(r)' <=> Has(r))
             /\ attributes'[r] = attributes[r] /\ inUse'[r] = inUse[r]
  BY <1>1, <1>2, <1>4 DEF Has
<1>5. id'[q] = id[p] /\ maker'[q] = maker[p] /\ (Has(q)' <=> Has(p))
  BY <1>1, <1>2 DEF Has
<1>6. EnabledAreUsed'
  <2> SUFFICES ASSUME NEW x \in enabled, x \notin left'
               PROVE  x[1] = bound /\ \E r \in Programs : inUse'[r] /\ x[2] < attributes'[r]
    BY <1>1 DEF EnabledAreUsed
  <2>1. x \notin left
    BY <1>1
  <2>2. x[1] = bound
    BY <2>1 DEF ProgramInv, EnabledAreUsed
  <2>3. PICK r \in Programs : inUse[r] /\ x[2] < attributes[r]
    BY <2>1 DEF ProgramInv, EnabledAreUsed
  <2>4. r # q
    BY <1>1, <2>3 DEF EnabledBy
  <2> QED BY <1>4, <2>2, <2>3, <2>4
<1>7. OwnIsOwn'
  <2> SUFFICES ASSUME robbed = {}
               PROVE  /\ \A r \in Programs : Has(r)' => id'[r] \in living
                      /\ \A r, t \in Programs : Has(r)' /\ Has(t)' /\ id'[r] = id'[t] => maker'[r] = maker'[t]
    BY <1>1 DEF OwnIsOwn
  \* Each object stands for one of before: the copy for what it copies.
  <2>1. \A r \in Programs : \E t \in Programs : id'[r] = id[t] /\ maker'[r] = maker[t] /\ (Has(r)' <=> Has(t))
    BY <1>4, <1>5
  <2>2. /\ \A r \in Programs : Has(r) => id[r] \in living
        /\ \A r, t \in Programs : Has(r) /\ Has(t) /\ id[r] = id[t] => maker[r] = maker[t]
    BY DEF ProgramInv, OwnIsOwn
  <2> QED BY <2>1, <2>2
<1> QED BY <1>1, <1>3, <1>6, <1>7 DEF ProgramInv

LEMMA ProgramUsed ==
    ASSUME ProgramInv, NEW p \in Programs, Use(p) \/ Unuse(p)
    PROVE  ProgramInv' /\ robbed' = robbed
<1> DEFINE own == OfBound(0, attributes[p] - 1)
<1>1. attributes[p] \in Nat /\ inUse \in [Programs -> BOOLEAN] /\ enabled \subseteq Arrays \X Nat
  BY DEF ProgramInv, ProgramType
<1>2. UNCHANGED <<id, attributes, maker, disposed, living, bound, robbed>>
  BY DEF Use, Unuse
<1>3. \A x \in enabled : x \notin own /\ x[1] = bound => ~(x[2] < attributes[p])
  <2> SUFFICES ASSUME NEW x \in enabled, x[1] = bound, x[2] < attributes[p] PROVE x \in own
    OBVIOUS
  <2>1. PICK v \in Arrays, i \in Nat : x = <<v, i>>
    BY <1>1
  <2>2. bound = v /\ i \in 0 .. attributes[p] - 1 /\ bound # NoArray
    BY <1>1, <2>1, ProgramAssumption
  <2> QED BY <2>1, <2>2 DEF OfBound
<1>4. OwnIsOwn'
  BY <1>2 DEF ProgramInv, OwnIsOwn, Has
<1>5. CASE Use(p)
  <2>1. /\ enabled' = enabled \cup own /\ inUse' = [inUse EXCEPT ![p] = TRUE] /\ left' = left
    BY <1>5 DEF Use
  <2>2. \A x \in own : x[1] = bound /\ x[2] < attributes[p]
    <3> SUFFICES ASSUME NEW x \in own PROVE x[1] = bound /\ x[2] < attributes[p]
      OBVIOUS
    <3>1. bound # NoArray /\ x \in {bound} \X (0 .. attributes[p] - 1)
      BY DEF OfBound
    <3>2. PICK i \in 0 .. attributes[p] - 1 : x = <<bound, i>>
      BY <3>1
    <3> QED BY <1>1, <3>2
  <2>3. inUse'[p] /\ (\A q \in Programs : inUse[q] => inUse'[q]) /\ inUse' \in [Programs -> BOOLEAN]
    BY <1>1, <2>1
  <2>4. enabled' \subseteq Arrays \X Nat
    <3>1. bound \in Arrays \/ bound = NoArray
      BY DEF ProgramInv, ProgramType
    <3>2. own \subseteq Arrays \X Nat
      BY <1>1, <3>1 DEF OfBound
    <3> QED BY <1>1, <2>1, <3>2
  <2>5. ProgramType'
    BY <1>2, <2>3, <2>4 DEF ProgramInv, ProgramType
  <2> HIDE DEF own
  <2>6. EnabledAreUsed'
    BY <1>2, <2>1, <2>2, <2>3 DEF ProgramInv, EnabledAreUsed
  <2> QED BY <1>2, <1>4, <2>5, <2>6 DEF ProgramInv
<1>6. CASE Unuse(p)
  <2>1. /\ enabled' = enabled \ own /\ left' = left \ own /\ inUse' = [inUse EXCEPT ![p] = FALSE]
    BY <1>6 DEF Unuse
  <2> HIDE DEF own
  <2>2. inUse' \in [Programs -> BOOLEAN] /\ \A q \in Programs \ {p} : inUse[q] => inUse'[q]
    BY <1>1, <2>1
  <2>3. ProgramType'
    BY <1>1, <1>2, <2>1, <2>2 DEF ProgramInv, ProgramType
  <2>4. EnabledAreUsed'
    <3> SUFFICES ASSUME NEW x \in enabled, x \notin own, x \notin left
                 PROVE  x[1] = bound /\ \E q \in Programs : inUse'[q] /\ x[2] < attributes[q]
      BY <1>2, <2>1 DEF EnabledAreUsed
    <3>1. x[1] = bound /\ \E q \in Programs : inUse[q] /\ x[2] < attributes[q]
      BY DEF ProgramInv, EnabledAreUsed
    <3>2. PICK q \in Programs : inUse[q] /\ x[2] < attributes[q]
      BY <3>1
    <3>3. q # p
      BY <1>3, <3>1, <3>2
    <3> QED BY <2>2, <3>1, <3>2, <3>3
  <2> QED BY <1>2, <1>4, <2>3, <2>4 DEF ProgramInv
<1> QED BY <1>5, <1>6

LEMMA ArrayChanges ==
    ASSUME ProgramInv, NEW new, new \subseteq Arrays \X Nat,
           enabled' = enabled \cup new, left' = left \cup LeaveArray \cup new,
           bound' \in Arrays \cup {NoArray},
           UNCHANGED <<id, attributes, inUse, maker, disposed, living, current, robbed>>
    PROVE  ProgramInv'
<1>1. ProgramType'
  BY DEF ProgramInv, ProgramType
<1>2. EnabledAreUsed'
  <2> SUFFICES ASSUME NEW x \in enabled, x \notin left PROVE x \in LeaveArray
    BY DEF EnabledAreUsed
  <2> QED BY DEF ProgramInv, EnabledAreUsed, LeaveArray
<1>3. OwnIsOwn'
  BY DEF ProgramInv, OwnIsOwn, Has
<1> QED BY <1>1, <1>2, <1>3 DEF ProgramInv

LEMMA ProgramStep ==
    ASSUME ProgramInv, [ProgramNext]_programVars
    PROVE  ProgramInv' /\ Excused
<1>1. ASSUME NEW p \in Programs, FirstCompile(p) \/ Recompile(p) PROVE ProgramInv' /\ robbed' = robbed
  BY <1>1, ProgramCompiles DEF FirstCompile, Recompile
<1>2. ASSUME NEW p \in Programs, AddAttribute(p) PROVE ProgramInv' /\ robbed' = robbed
  <2>1. /\ attributes' = [attributes EXCEPT ![p] = @ + 1]
        /\ UNCHANGED <<id, inUse, maker, disposed, living, current, bound, enabled, left, robbed>>
    BY <1>2 DEF AddAttribute
  <2>2. attributes' \in [Programs -> Nat] /\ \A q \in Programs : attributes[q] \in Nat /\ attributes'[q] >= attributes[q]
    BY <2>1 DEF ProgramInv, ProgramType
  <2>3. ProgramType'
    BY <2>1, <2>2 DEF ProgramInv, ProgramType
  <2>4. EnabledAreUsed'
    <3> SUFFICES ASSUME NEW x \in enabled, x \notin left
                 PROVE  x[1] = bound /\ \E q \in Programs : inUse[q] /\ x[2] < attributes'[q]
      BY <2>1 DEF EnabledAreUsed
    <3>1. x[1] = bound /\ \E q \in Programs : inUse[q] /\ x[2] < attributes[q]
      BY DEF ProgramInv, EnabledAreUsed
    <3>2. PICK q \in Programs : inUse[q] /\ x[2] < attributes[q]
      BY <3>1
    <3>3. x[2] \in Nat
      BY DEF ProgramInv, ProgramType
    <3>4. x[2] < attributes'[q]
      BY <2>2, <3>2, <3>3
    <3> QED BY <3>1, <3>2, <3>4
  <2>5. OwnIsOwn'
    BY <2>1 DEF ProgramInv, OwnIsOwn, Has
  <2> QED BY <2>1, <2>3, <2>4, <2>5 DEF ProgramInv
<1>3. ASSUME NEW v \in Arrays \cup {NoArray}, BindArray(v) PROVE ProgramInv' /\ robbed' = robbed
  <2>1. /\ bound' = v /\ left' = left \cup LeaveArray \cup {} /\ enabled' = enabled \cup {}
        /\ UNCHANGED <<id, attributes, inUse, maker, disposed, living, current, robbed>>
    BY <1>3 DEF BindArray
  <2> QED BY <1>3, <2>1, ArrayChanges
<1>4. ASSUME NEW v \in Arrays, SetUpArray(v) PROVE ProgramInv' /\ robbed' = robbed
  <2>1. /\ bound' = NoArray /\ left' = left \cup LeaveArray \cup {<<v, 0>>, <<v, 1>>}
        /\ enabled' = enabled \cup {<<v, 0>>, <<v, 1>>}
        /\ UNCHANGED <<id, attributes, inUse, maker, disposed, living, current, robbed>>
    BY <1>4 DEF SetUpArray
  <2>2. {<<v, 0>>, <<v, 1>>} \subseteq Arrays \X Nat /\ NoArray \in Arrays \cup {NoArray}
    OBVIOUS
  <2> QED BY <2>1, <2>2, ArrayChanges
<1>5. CASE NamesRunOut \/ UNCHANGED programVars
  <2>1. UNCHANGED <<id, attributes, inUse, maker, disposed, living, bound, enabled, left, robbed>>
    BY <1>5 DEF NamesRunOut, programVars
  <2> QED BY <2>1 DEF ProgramInv, ProgramType, EnabledAreUsed, OwnIsOwn, Has, Excused
<1>6. robbed' = robbed => Excused
  BY DEF Excused
<1> QED BY <1>1, <1>2, <1>3, <1>4, <1>5, <1>6, ProgramDisposed, ProgramCopied, ProgramUsed DEF ProgramNext

LEMMA ProgramBegins == ProgramInit => ProgramInv
<1> SUFFICES ASSUME ProgramInit PROVE ProgramInv
  OBVIOUS
<1>1. ProgramType /\ EnabledAreUsed /\ \A p \in Programs : id[p] = 0
  BY DEF ProgramInit, ProgramType, EnabledAreUsed
<1> QED BY <1>1 DEF ProgramInv, OwnIsOwn, Has

LEMMA AllReturned == ProgramInv => AttributesReturned
BY DEF ProgramInv, EnabledAreUsed, AttributesReturned

\* The first program that is deleted though another object has it is deleted by a copy,
\* or by an object disposed of before; attributes are returned but for the named ones.
\* For any objects, copied in any order, any names and any vertex arrays.
THEOREM ProgramsHaveOwners == Spec => ProgramsOwned
<1>1. Init => ProgramInv
  BY ProgramBegins DEF Init
<1>2. ProgramInv /\ [Next]_vars => ProgramInv' /\ [Excused]_programVars
  BY PartSteps, ProgramStep
<1> QED BY <1>1, <1>2, AllReturned, PTL DEF Spec, ProgramsOwned, FirstRobberyHasCause, Excused

-----------------------------------------------------------------------------
(* The levels of a texture *)

LEMMA HalvesAre ==
    ASSUME NEW x \in Nat
    PROVE  Half(x, 0) = x /\ \A n \in Nat : Half(x, n) \in Nat /\ Half(x, n + 1) = Half(x, n) \div 2
<1> DEFINE g == [i \in Nat |-> [y \in Nat |-> y \div 2]]
           o == CHOOSE h : h = [i \in Nat |-> IF i = 0 THEN x ELSE h[i - 1] \div 2]
<1>1. \A y \in Nat : y \div 2 \in Nat
  OBVIOUS
<1>2. g \in [Nat -> [Nat -> Nat]] /\ \A i, y \in Nat : g[i][y] = y \div 2
  BY <1>1
<1> HIDE DEF g
<1>3. PICK f : Recurs(Nat, x, g, f)
  <2>1. g \in [Nat -> [Nat -> Nat]] /\ x \in Nat
    BY <1>2
  <2> QED BY <2>1, RecursionExists
<1>4. \A n \in Nat : n # 0 => n - 1 \in Nat
  OBVIOUS
<1>5. f = [i \in Nat |-> IF i = 0 THEN x ELSE f[i - 1] \div 2]
  <2>1. \A n \in Nat : f[n] = IF n = 0 THEN x ELSE f[n - 1] \div 2
    <3> TAKE n \in Nat
    <3>1. CASE n = 0
      BY <1>3, <3>1 DEF Recurs
    <3>2. CASE n # 0
      <4>1. n \in Nat \ {0} /\ n - 1 \in Nat
        BY <3>2
      <4>2. f[n] = g[n - 1][f[n - 1]] /\ f[n - 1] \in Nat
        BY <1>3, <4>1 DEF Recurs
      <4> QED BY <1>2, <3>2, <4>1, <4>2
    <3> QED BY <3>1, <3>2
  <2> QED BY <1>3, <2>1 DEF Recurs
<1>6. o = [i \in Nat |-> IF i = 0 THEN x ELSE o[i - 1] \div 2]
  BY <1>5, Zenon
<1>7. \A n \in Nat : Half(x, n) = o[n]
  BY DEF Half
<1> HIDE DEF o
<1>8. \A n \in Nat : o[n] = IF n = 0 THEN x ELSE o[n - 1] \div 2
  BY <1>6
<1> DEFINE S == {n \in Nat : o[n] \in Nat}
<1>9. \A n \in Nat : o[n + 1] = o[n] \div 2
  <2> TAKE n \in Nat
  <2>1. n + 1 \in Nat /\ n + 1 # 0 /\ n + 1 - 1 = n
    OBVIOUS
  <2> QED BY <1>8, <2>1
<1>10. \A n \in Nat : o[n] \in Nat
  <2>1. S \subseteq Nat /\ 0 \in S
    BY <1>8
  <2>2. \A n \in Nat : n \in S => n + 1 \in S
    BY <1>9
  <2> HIDE DEF S
  <2>3. \A n \in Nat : n \in S
    BY <2>1, <2>2, ByInduction
  <2> QED BY <2>3 DEF S
<1>11. Half(x, 0) = x
  <2>1. 0 \in Nat
    OBVIOUS
  <2> QED BY <1>7, <1>8, <2>1
<1>12. \A n \in Nat : Half(x, n + 1) = Half(x, n) \div 2
  <2> TAKE n \in Nat
  <2>1. n + 1 \in Nat
    OBVIOUS
  <2>2. Half(x, n + 1) = o[n + 1] /\ Half(x, n) = o[n]
    BY <1>7, <2>1
  <2> QED BY <1>9, <2>2
<1>13. \A n \in Nat : Half(x, n) \in Nat
  BY <1>7, <1>10
<1> QED BY <1>11, <1>12, <1>13

LEMMA DimensionsAre ==
    ASSUME NEW x \in Nat
    PROVE  /\ LevelDimension(x, 0) = x
           /\ \A n \in Nat : /\ LevelDimension(x, n) \in Nat
                             /\ LevelDimension(x, n + 1) = Greatest(1, LevelDimension(x, n) \div 2)
<1> DEFINE g == [i \in Nat |-> [y \in Nat |-> Greatest(1, y \div 2)]]
           o == CHOOSE h : h = [i \in Nat |-> IF i = 0 THEN x ELSE Greatest(1, h[i - 1] \div 2)]
<1>1. \A y \in Nat : Greatest(1, y \div 2) \in Nat
  BY DEF Greatest
<1>2. g \in [Nat -> [Nat -> Nat]] /\ \A i, y \in Nat : g[i][y] = Greatest(1, y \div 2)
  BY <1>1
<1> HIDE DEF g
<1>3. PICK f : Recurs(Nat, x, g, f)
  <2>1. g \in [Nat -> [Nat -> Nat]] /\ x \in Nat
    BY <1>2
  <2> QED BY <2>1, RecursionExists
<1>4. \A n \in Nat : n # 0 => n - 1 \in Nat
  OBVIOUS
<1>5. f = [i \in Nat |-> IF i = 0 THEN x ELSE Greatest(1, f[i - 1] \div 2)]
  <2>1. \A n \in Nat : f[n] = IF n = 0 THEN x ELSE Greatest(1, f[n - 1] \div 2)
    <3> TAKE n \in Nat
    <3>1. CASE n = 0
      BY <1>3, <3>1 DEF Recurs
    <3>2. CASE n # 0
      <4>1. n \in Nat \ {0} /\ n - 1 \in Nat
        BY <3>2
      <4>2. f[n] = g[n - 1][f[n - 1]] /\ f[n - 1] \in Nat
        BY <1>3, <4>1 DEF Recurs
      <4> QED BY <1>2, <3>2, <4>1, <4>2
    <3> QED BY <3>1, <3>2
  <2> QED BY <1>3, <2>1 DEF Recurs
<1>6. o = [i \in Nat |-> IF i = 0 THEN x ELSE Greatest(1, o[i - 1] \div 2)]
  BY <1>5, Zenon
<1>7. \A n \in Nat : LevelDimension(x, n) = o[n]
  BY DEF LevelDimension
<1> HIDE DEF o
<1>8. \A n \in Nat : o[n] = IF n = 0 THEN x ELSE Greatest(1, o[n - 1] \div 2)
  BY <1>6
<1> DEFINE S == {n \in Nat : o[n] \in Nat}
<1>9. \A n \in Nat : o[n + 1] = Greatest(1, o[n] \div 2)
  <2> TAKE n \in Nat
  <2>1. n + 1 \in Nat /\ n + 1 # 0 /\ n + 1 - 1 = n
    OBVIOUS
  <2> QED BY <1>8, <2>1
<1>10. \A n \in Nat : o[n] \in Nat
  <2>1. S \subseteq Nat /\ 0 \in S
    BY <1>8
  <2>2. \A n \in Nat : n \in S => n + 1 \in S
    BY <1>1, <1>9
  <2> HIDE DEF S
  <2>3. \A n \in Nat : n \in S
    BY <2>1, <2>2, ByInduction
  <2> QED BY <2>3 DEF S
<1>11. LevelDimension(x, 0) = x
  <2>1. 0 \in Nat
    OBVIOUS
  <2> QED BY <1>7, <1>8, <2>1
<1>12. \A n \in Nat : LevelDimension(x, n + 1) = Greatest(1, LevelDimension(x, n) \div 2)
  <2> TAKE n \in Nat
  <2>1. n + 1 \in Nat
    OBVIOUS
  <2>2. LevelDimension(x, n + 1) = o[n + 1] /\ LevelDimension(x, n) = o[n]
    BY <1>7, <2>1
  <2> QED BY <1>9, <2>2
<1>13. \A n \in Nat : LevelDimension(x, n) \in Nat
  BY <1>7, <1>10
<1> QED BY <1>11, <1>12, <1>13

\* Halved one by one and never 0, or halved all at once and then not 0.
LEMMA HalvedEitherWay ==
    ASSUME NEW x \in Nat \ {0}, NEW n \in Nat
    PROVE  LevelDimension(x, n) = Greatest(1, Half(x, n))
<1> DEFINE S == {m \in Nat : LevelDimension(x, m) = Greatest(1, Half(x, m))}
<1>1. S \subseteq Nat /\ 0 \in S
  BY HalvesAre, DimensionsAre DEF Greatest
<1>2. ASSUME NEW m \in Nat, m \in S PROVE m + 1 \in S
  <2> DEFINE h == Half(x, m)
  <2>1. h \in Nat /\ LevelDimension(x, m) = Greatest(1, h)
    BY <1>2, HalvesAre
  <2>2. Half(x, m + 1) = h \div 2 /\ LevelDimension(x, m + 1) = Greatest(1, Greatest(1, h) \div 2)
    BY <2>1, HalvesAre, DimensionsAre
  <2> HIDE DEF h
  <2>3. Greatest(1, Greatest(1, h) \div 2) = Greatest(1, h \div 2)
    BY <2>1 DEF Greatest
  <2> QED BY <2>2, <2>3
<1> HIDE DEF S
<1>3. n \in S
  BY <1>1, <1>2, ByInduction
<1> QED BY <1>3 DEF S

LEMMA SizesAre ==
    ASSUME NEW header \in Headers
    PROVE  /\ SizeBefore(header, 0) = 0
           /\ \A n \in Nat : /\ LevelSize(header, n) \in Nat /\ SizeBefore(header, n) \in Nat
                             /\ SizeBefore(header, n + 1) = SizeBefore(header, n) + LevelSize(header, n)
<1> DEFINE g == [i \in Nat |-> [y \in Nat |-> y + LevelSize(header, i)]]
           o == CHOOSE h : h = [i \in Nat |-> IF i = 0 THEN 0 ELSE h[i - 1] + LevelSize(header, i - 1)]
<1>1. \A n \in Nat : LevelSize(header, n) \in Nat
  <2> TAKE n \in Nat
  <2>1. LevelDimension(header.width, n) \in Nat /\ LevelDimension(header.height, n) \in Nat
    BY DimensionsAre, TexturesAssumption
  <2>2. \A y \in Nat : Blocks(y) \in Nat
    BY DEF Blocks
  <2>3. \A y, z \in Nat : 8 * y * z \in Nat
    OBVIOUS
  <2> QED BY <2>1, <2>2, <2>3 DEF LevelSize
<1>2. g \in [Nat -> [Nat -> Nat]] /\ \A i, y \in Nat : g[i][y] = y + LevelSize(header, i)
  BY <1>1
<1> HIDE DEF g
<1>3. PICK f : Recurs(Nat, 0, g, f)
  <2>1. g \in [Nat -> [Nat -> Nat]] /\ 0 \in Nat
    BY <1>2
  <2> QED BY <2>1, RecursionExists
<1>4. \A n \in Nat : n # 0 => n - 1 \in Nat
  OBVIOUS
<1>5. f = [i \in Nat |-> IF i = 0 THEN 0 ELSE f[i - 1] + LevelSize(header, i - 1)]
  <2>1. \A n \in Nat : f[n] = IF n = 0 THEN 0 ELSE f[n - 1] + LevelSize(header, n - 1)
    <3> TAKE n \in Nat
    <3>1. CASE n = 0
      BY <1>3, <3>1 DEF Recurs
    <3>2. CASE n # 0
      <4>1. n \in Nat \ {0} /\ n - 1 \in Nat
        BY <3>2
      <4>2. f[n] = g[n - 1][f[n - 1]] /\ f[n - 1] \in Nat
        BY <1>3, <4>1 DEF Recurs
      <4> QED BY <1>2, <3>2, <4>1, <4>2
    <3> QED BY <3>1, <3>2
  <2> QED BY <1>3, <2>1 DEF Recurs
<1>6. o = [i \in Nat |-> IF i = 0 THEN 0 ELSE o[i - 1] + LevelSize(header, i - 1)]
  BY <1>5, Zenon
<1>7. \A n \in Nat : SizeBefore(header, n) = o[n]
  BY DEF SizeBefore
<1> HIDE DEF o
<1>8. \A n \in Nat : o[n] = IF n = 0 THEN 0 ELSE o[n - 1] + LevelSize(header, n - 1)
  BY <1>6
<1> DEFINE S == {n \in Nat : o[n] \in Nat}
<1>9. \A n \in Nat : o[n + 1] = o[n] + LevelSize(header, n)
  <2> TAKE n \in Nat
  <2>1. n + 1 \in Nat /\ n + 1 # 0 /\ n + 1 - 1 = n
    OBVIOUS
  <2> QED BY <1>8, <2>1
<1>10. \A n \in Nat : o[n] \in Nat
  <2>1. S \subseteq Nat /\ 0 \in S
    BY <1>8
  <2>2. \A n \in Nat : n \in S => n + 1 \in S
    BY <1>1, <1>9
  <2> HIDE DEF S
  <2>3. \A n \in Nat : n \in S
    BY <2>1, <2>2, ByInduction
  <2> QED BY <2>3 DEF S
<1>11. SizeBefore(header, 0) = 0
  <2>1. 0 \in Nat
    OBVIOUS
  <2> QED BY <1>7, <1>8, <2>1
<1>12. \A n \in Nat : SizeBefore(header, n + 1) = SizeBefore(header, n) + LevelSize(header, n)
  <2> TAKE n \in Nat
  <2>1. n + 1 \in Nat
    OBVIOUS
  <2>2. SizeBefore(header, n + 1) = o[n + 1] /\ SizeBefore(header, n) = o[n]
    BY <1>7, <2>1
  <2> QED BY <1>9, <2>2
<1>13. \A n \in Nat : SizeBefore(header, n) \in Nat
  BY <1>7, <1>10
<1> QED BY <1>1, <1>11, <1>12, <1>13

\* LevelsFillBuffer of any levels.
Fills(u) ==
  \A i \in DOMAIN u :
    /\ u[i].offset = IF i = 1 THEN 0 ELSE u[i - 1].offset + u[i - 1].size
    /\ u[i].size = 8 * Blocks(u[i].width) * Blocks(u[i].height)

LEMMA UploadsFill == ASSUME NEW header \in Headers PROVE Fills(Uploads(header))
<1> DEFINE u == Uploads(header)
<1>0. Fills(u)
  <2> DEFINE n == LevelCount(header)
  <2>1. n \in Nat
    BY TexturesAssumption DEF LevelCount, Greatest
  <2>2. u = [i \in 1 .. n |->
           [offset |-> SizeBefore(header, i - 1), size |-> LevelSize(header, i - 1),
            width |-> Greatest(1, Half(header.width, i - 1)), height |-> Greatest(1, Half(header.height, i - 1))]]
    BY DEF Uploads
  <2> HIDE DEF n
  <2>3. DOMAIN u = 1 .. n
    BY <2>2
  <2>4. SUFFICES ASSUME NEW i \in 1 .. n
                 PROVE  /\ u[i].offset = IF i = 1 THEN 0 ELSE u[i - 1].offset + u[i - 1].size
                        /\ u[i].size = 8 * Blocks(u[i].width) * Blocks(u[i].height)
    BY <2>3 DEF Fills
  <2>5. /\ u[i].offset = SizeBefore(header, i - 1) /\ u[i].size = LevelSize(header, i - 1)
        /\ u[i].width = Greatest(1, Half(header.width, i - 1))
        /\ u[i].height = Greatest(1, Half(header.height, i - 1))
    BY <2>2
  <2>6. i - 1 \in Nat
    BY <2>1
  <2>7. LevelSize(header, i - 1) = 8 * Blocks(u[i].width) * Blocks(u[i].height)
    BY <2>5, <2>6, HalvedEitherWay, TexturesAssumption DEF LevelSize
  <2>8. CASE i = 1
    BY <2>5, <2>7, <2>8, SizesAre
  <2>9. CASE i # 1
    <3>1. i - 1 \in 1 .. n /\ i - 2 \in Nat /\ (i - 2) + 1 = i - 1 /\ i - 1 - 1 = i - 2
      BY <2>1, <2>9
    <3>2. u[i - 1].offset = SizeBefore(header, i - 2) /\ u[i - 1].size = LevelSize(header, i - 2)
      BY <2>2, <3>1
    <3>3. SizeBefore(header, i - 1) = SizeBefore(header, i - 2) + LevelSize(header, i - 2)
      <4>1. SizeBefore(header, (i - 2) + 1) = SizeBefore(header, i - 2) + LevelSize(header, i - 2)
        BY <3>1, SizesAre
      <4> QED BY <3>1, <4>1
    <3> QED BY <2>5, <2>7, <2>9, <3>2, <3>3
  <2> QED BY <2>8, <2>9
<1> HIDE DEF u
<1> QED BY <1>0 DEF u

-----------------------------------------------------------------------------
(* TextureManager: who owns slices and containers                          *)

ContainerType == [kind : Kinds, slots : Seq(Nat)]
TextureType == [path : Images, container : Nat, slice : Nat, era : Nat]

InAny(as) == UNION {Range(as[k]) : k \in Kinds}

\* The containers, those of each kind and how often each was deleted.
ContainersKnown(cs, as, ds) ==
  /\ cs \in Seq(ContainerType) /\ ds \in Seq(Nat) /\ Len(ds) = Len(cs)
  /\ as \in [Kinds -> Seq(Nat)]
  /\ \A k \in Kinds : \A a \in 1 .. Len(as[k]) : as[k][a] \in 1 .. Len(cs) /\ cs[as[k][a]].kind = k
  /\ \A c \in 1 .. Len(cs) : \A a, b \in 1 .. Len(cs[c].slots) : cs[c].slots[a] = cs[c].slots[b] => a = b

\* Every texture has a slice of its own and is the cached one of its path.
TexturesKnown(cs, ts, ca, er) ==
  /\ ts \in Seq(TextureType) /\ ca \in [Images -> Nat] /\ er \in Nat
  /\ \A i \in 1 .. Len(ts) :
       /\ ts[i].container \in 1 .. Len(cs) /\ cs[ts[i].container].kind = KindOf[ts[i].path]
       /\ ca[ts[i].path] = i /\ ts[i].era <= er
       /\ \A a \in 1 .. Len(cs[ts[i].container].slots) : cs[ts[i].container].slots[a] # ts[i].slice
  /\ \A i, j \in 1 .. Len(ts) : ts[i].container = ts[j].container /\ ts[i].slice = ts[j].slice => i = j

\* A container is deleted, once, when it leaves the vectors, and the textures of
\* this era are those in a container of the vectors.
ErasKnown(as, ds, ts, er) ==
  /\ \A c \in 1 .. Len(ds) : ds[c] = IF c \in InAny(as) THEN 0 ELSE 1
  /\ \A i \in 1 .. Len(ts) : ts[i].era = er <=> ts[i].container \in InAny(as)

TexturesInv ==
  /\ manager \in {"none", "ready", "disposed", "exited"}
  /\ ContainersKnown(containers, arrays, deletions)
  /\ TexturesKnown(containers, textures, cache, era)
  /\ manager # "exited" => ErasKnown(arrays, deletions, textures, era)
  /\ DeletedTwiceIsFonts /\ LevelsFillBuffer

LEMMA InAnyIs ==
    ASSUME NEW as \in [Kinds -> Seq(Nat)], NEW c
    PROVE  c \in InAny(as) <=> \E k \in Kinds : \E a \in 1 .. Len(as[k]) : as[k][a] = c
<1>1. \A k \in Kinds : DOMAIN as[k] = 1 .. Len(as[k])
  BY LenProperties
<1>2. c \in InAny(as) <=> \E k \in Kinds : c \in Range(as[k])
  BY DEF InAny
<1>3. \A k \in Kinds : c \in Range(as[k]) <=> \E a \in DOMAIN as[k] : as[k][a] = c
  BY DEF Range
<1> QED BY <1>1, <1>2, <1>3

\* allocateTextureContainer() gives a container of the kind with a slice left:
\* one of the vector, or a new one at its end.
HasFound(k, n, number, all) ==
  \/ /\ number \in 1 .. Len(containers) /\ containers[number].kind = k /\ containers[number].slots # <<>>
     /\ number \in InAny(arrays)
     /\ all = containers /\ Enlisted(k, number) = arrays /\ Counted(number) = deletions
  \/ /\ number = Len(containers) + 1
     /\ all = Append(containers, [kind |-> k, slots |-> [i \in 1 .. n |-> i - 1]])
     /\ Enlisted(k, number) = [arrays EXCEPT ![k] = Append(@, number)]
     /\ Counted(number) = Append(deletions, 0)

LEMMA ContainerFound ==
    ASSUME NEW k \in Kinds, NEW n \in Nat \ {0}, ContainersKnown(containers, arrays, deletions)
    PROVE  HasFound(k, n, Container(k, n).number, Container(k, n).all)
<1> DEFINE number == Container(k, n).number
           all == Container(k, n).all
<1> DEFINE roomy == {i \in DOMAIN arrays[k] : HasRoom(arrays[k][i])}
<1>1. arrays[k] \in Seq(Nat) /\ DOMAIN arrays[k] = 1 .. Len(arrays[k]) /\ Len(containers) \in Nat
  BY LenProperties DEF ContainersKnown
<1>2. HasFound(k, n, number, all)
  <2>1. CASE roomy # {}
    <3>1. number = arrays[k][Min(roomy)] /\ all = containers
      BY <2>1 DEF Container
    <3>2. Min(roomy) \in roomy
      <4>1. roomy \subseteq Nat
        BY <1>1
      <4> HIDE DEF roomy
      <4> QED BY <2>1, <4>1, LeastIsIn
    <3>3. Min(roomy) \in 1 .. Len(arrays[k]) /\ HasRoom(number)
      BY <1>1, <3>1, <3>2
    <3> HIDE DEF roomy
    <3>4. number \in 1 .. Len(containers) /\ containers[number].kind = k
      BY <3>1, <3>3 DEF ContainersKnown
    <3>5. number \in InAny(arrays)
      BY <3>1, <3>3, InAnyIs DEF ContainersKnown
    <3>6. ~ (number > Len(containers))
      BY <1>1, <3>4
    <3> HIDE DEF number, all
    <3> QED BY <3>1, <3>3, <3>4, <3>5, <3>6 DEF HasRoom, Enlisted, Counted, HasFound
  <2>2. CASE roomy = {}
    <3>1. number = Len(containers) + 1 /\ all = Append(containers, [kind |-> k, slots |-> [i \in 1 .. n |-> i - 1]])
      BY <2>2 DEF Container
    <3>2. number > Len(containers)
      BY <1>1, <3>1
    <3> HIDE DEF number, all
    <3> QED BY <3>1, <3>2 DEF Enlisted, Counted, HasFound
  <2> QED BY <2>1, <2>2
<1> HIDE DEF number, all
<1> QED BY <1>2 DEF number, all

\* A container that is found or made disturbs nothing, and it is in a vector.
LEMMA ContainerAdded ==
    ASSUME NEW k \in Kinds, NEW n \in Nat \ {0}, ContainersKnown(containers, arrays, deletions),
           TexturesKnown(containers, textures, cache, era), ErasKnown(arrays, deletions, textures, era),
           NEW number, NEW all, HasFound(k, n, number, all)
    PROVE  /\ ContainersKnown(all, Enlisted(k, number), Counted(number))
           /\ TexturesKnown(all, textures, cache, era)
           /\ ErasKnown(Enlisted(k, number), Counted(number), textures, era)
           /\ number \in 1 .. Len(all) /\ all[number].kind = k /\ all[number].slots # <<>>
           /\ number \in InAny(Enlisted(k, number))
<1>1. CASE /\ number \in 1 .. Len(containers) /\ containers[number].kind = k /\ containers[number].slots # <<>>
           /\ number \in InAny(arrays)
           /\ all = containers /\ Enlisted(k, number) = arrays /\ Counted(number) = deletions
  BY <1>1
<1>2. CASE /\ number = Len(containers) + 1
           /\ all = Append(containers, [kind |-> k, slots |-> [i \in 1 .. n |-> i - 1]])
           /\ Enlisted(k, number) = [arrays EXCEPT ![k] = Append(@, number)]
           /\ Counted(number) = Append(deletions, 0)
  <2> DEFINE fresh == [i \in 1 .. n |-> i - 1]
             new == [kind |-> k, slots |-> fresh]
             as == [arrays EXCEPT ![k] = Append(@, number)]
             ds == Append(deletions, 0)
  <2>1. fresh \in Seq(Nat) /\ Len(fresh) = n /\ fresh # <<>> /\ \A a, b \in 1 .. Len(fresh) : fresh[a] = fresh[b] => a = b
    <3>1. \A i \in 1 .. n : i - 1 \in Nat
      OBVIOUS
    <3>2. fresh \in Seq(Nat) /\ DOMAIN fresh = 1 .. n
      BY <3>1
    <3>3. Len(fresh) = n
      BY <3>2, LenProperties
    <3>4. 1 \in DOMAIN fresh
      BY <3>2
    <3>5. \A a, b \in 1 .. n : fresh[a] = fresh[b] => a = b
      OBVIOUS
    <3> QED BY <3>2, <3>3, <3>4, <3>5
  <2> HIDE DEF fresh
  <2>2. new \in ContainerType /\ new.kind = k /\ new.slots = fresh
    BY <2>1 DEF ContainerType
  <2> HIDE DEF new
  <2>3. /\ containers \in Seq(ContainerType) /\ deletions \in Seq(Nat) /\ Len(deletions) = Len(containers)
        /\ arrays \in [Kinds -> Seq(Nat)] /\ Len(containers) \in Nat
    BY LenProperties DEF ContainersKnown
  <2>4. /\ all = Append(containers, new) /\ all \in Seq(ContainerType) /\ Len(all) = Len(containers) + 1
        /\ all[number] = new /\ \A c \in 1 .. Len(containers) : all[c] = containers[c]
    <3>1. all = Append(containers, new)
      BY <1>2 DEF new, fresh
    <3> QED BY <1>2, <2>2, <2>3, <3>1, AppendProperties
  <2>5. /\ ds \in Seq(Nat) /\ Len(ds) = Len(deletions) + 1
        /\ ds[number] = 0 /\ \A c \in 1 .. Len(containers) : ds[c] = deletions[c]
    BY <1>2, <2>3, AppendProperties
  <2>6. /\ as \in [Kinds -> Seq(Nat)]
        /\ Len(as[k]) = Len(arrays[k]) + 1 /\ as[k][Len(arrays[k]) + 1] = number
        /\ \A a \in 1 .. Len(arrays[k]) : as[k][a] = arrays[k][a]
        /\ \A j \in Kinds : j # k => as[j] = arrays[j]
    <3>1. arrays[k] \in Seq(Nat) /\ number \in Nat /\ as[k] = Append(arrays[k], number)
      BY <1>2, <2>3
    <3> QED BY <2>3, <3>1, AppendProperties
  <2> HIDE DEF as, ds
  <2>7. \A c \in 1 .. Len(all) : c \in 1 .. Len(containers) \/ c = number
    BY <1>2, <2>3, <2>4
  <2>8. \A j \in Kinds : Len(arrays[j]) \in Nat
    BY <2>3, LenProperties
  <2>9. \A a \in 1 .. Len(as[k]) : a \in 1 .. Len(arrays[k]) \/ a = Len(arrays[k]) + 1
    BY <2>6, <2>8
  <2>10. \A c \in 1 .. Len(containers) : c \in 1 .. Len(all)
    BY <2>3, <2>4
  <2>11. number \in 1 .. Len(all)
    BY <1>2, <2>3, <2>4
  <2>12. ContainersKnown(all, as, ds)
    <3>1. \A j \in Kinds : \A a \in 1 .. Len(as[j]) : as[j][a] \in 1 .. Len(all) /\ all[as[j][a]].kind = j
      <4> TAKE j \in Kinds
      <4>1. \A a \in 1 .. Len(arrays[j]) : arrays[j][a] \in 1 .. Len(all) /\ all[arrays[j][a]].kind = j
        BY <2>4, <2>10 DEF ContainersKnown
      <4>2. CASE j # k
        BY <2>6, <4>1, <4>2
      <4>3. CASE j = k
        <5>1. \A a \in 1 .. Len(arrays[k]) : as[k][a] \in 1 .. Len(all) /\ all[as[k][a]].kind = k
          BY <2>6, <4>1, <4>3
        <5>2. as[k][Len(arrays[k]) + 1] \in 1 .. Len(all) /\ all[as[k][Len(arrays[k]) + 1]].kind = k
          BY <2>2, <2>4, <2>6, <2>11
        <5> QED BY <2>9, <4>3, <5>1, <5>2
      <4> QED BY <4>2, <4>3
    <3>2. \A c \in 1 .. Len(all) : \A a, b \in 1 .. Len(all[c].slots) : all[c].slots[a] = all[c].slots[b] => a = b
      BY <2>1, <2>2, <2>4, <2>7 DEF ContainersKnown
    <3> QED BY <2>3, <2>4, <2>5, <2>6, <3>1, <3>2 DEF ContainersKnown
  <2>13. TexturesKnown(all, textures, cache, era)
    BY <2>4, <2>10 DEF TexturesKnown
  <2>14. \A c : c \in InAny(as) <=> c = number \/ c \in InAny(arrays)
    <3> TAKE c
    <3>a. c \in InAny(arrays) <=> \E j \in Kinds : \E a \in 1 .. Len(arrays[j]) : arrays[j][a] = c
      BY <2>3, InAnyIs
    <3>b. c \in InAny(as) <=> \E j \in Kinds : \E a \in 1 .. Len(as[j]) : as[j][a] = c
      BY <2>6, InAnyIs
    <3>1. c \in InAny(arrays) => c \in InAny(as)
      <4> SUFFICES ASSUME NEW j \in Kinds, NEW a \in 1 .. Len(arrays[j]), arrays[j][a] = c PROVE c \in InAny(as)
        BY <3>a
      <4>1. CASE j = k
        <5>1. a \in 1 .. Len(as[k]) /\ as[k][a] = c
          <6>1. a \in 1 .. Len(arrays[k]) /\ arrays[k][a] = c
            BY <4>1
          <6>2. a \in 1 .. Len(as[k])
            BY <2>6, <2>8, <6>1
          <6> QED BY <2>6, <6>1, <6>2
        <5> QED BY <3>b, <5>1
      <4>2. CASE j # k
        BY <2>6, <3>b, <4>2
      <4> QED BY <4>1, <4>2
    <3>2. number \in InAny(as)
      <4>1. Len(arrays[k]) + 1 \in 1 .. Len(as[k])
        BY <2>6, <2>8
      <4> QED BY <2>6, <4>1, InAnyIs
    <3>3. c \in InAny(as) => c = number \/ c \in InAny(arrays)
      <4> SUFFICES ASSUME NEW j \in Kinds, NEW a \in 1 .. Len(as[j]), as[j][a] = c, c # number PROVE c \in InAny(arrays)
        BY <3>b
      <4>1. CASE j = k
        BY <2>6, <2>9, <3>a, <4>1
      <4>2. CASE j # k
        BY <2>6, <3>a, <4>2
      <4> QED BY <4>1, <4>2
    <3> QED BY <3>1, <3>2, <3>3
  <2>15. \A c \in 1 .. Len(containers) : c # number
    BY <1>2, <2>3
  <2>16. ErasKnown(as, ds, textures, era)
    <3>1. \A c \in 1 .. Len(ds) : c \in 1 .. Len(containers) \/ c = number
      BY <2>3, <2>4, <2>5, <2>7
    <3>2. \A c \in 1 .. Len(ds) : ds[c] = IF c \in InAny(as) THEN 0 ELSE 1
      BY <2>3, <2>5, <2>14, <2>15, <3>1 DEF ErasKnown
    <3>3. \A i \in 1 .. Len(textures) : textures[i].container \in 1 .. Len(containers)
      BY DEF TexturesKnown
    <3>4. \A i \in 1 .. Len(textures) : textures[i].era = era <=> textures[i].container \in InAny(as)
      <4> TAKE i \in 1 .. Len(textures)
      <4>1. textures[i].container # number
        BY <2>15, <3>3
      <4>2. textures[i].container \in InAny(as) <=> textures[i].container \in InAny(arrays)
        BY <2>14, <4>1, Zenon
      <4>3. textures[i].era = era <=> textures[i].container \in InAny(arrays)
        BY DEF ErasKnown
      <4> QED BY <4>2, <4>3, Zenon
    <3> QED BY <3>2, <3>4 DEF ErasKnown
  <2>17. Enlisted(k, number) = as /\ Counted(number) = ds
    BY <1>2 DEF as, ds
  <2> QED BY <2>1, <2>2, <2>4, <2>11, <2>12, <2>13, <2>14, <2>16, <2>17
<1> QED BY <1>1, <1>2 DEF HasFound

\* A texture that takes the first slice left of a container of its kind.
LEMMA TextureAdded ==
    ASSUME NEW p \in Images, NEW cs, NEW as, NEW ds, NEW c,
           ContainersKnown(cs, as, ds), TexturesKnown(cs, textures, cache, era), ErasKnown(as, ds, textures, era),
           c \in 1 .. Len(cs), cs[c].kind = KindOf[p], cs[c].slots # <<>>, c \in InAny(as),
           cache[p] = 0, NEW got, got = VirtualAllocate(c, cs),
           NEW ts, ts = Append(textures, [path |-> p, container |-> c, slice |-> got.slice, era |-> era])
    PROVE  /\ ContainersKnown(got.all, as, ds)
           /\ TexturesKnown(got.all, ts, Cached(p, Len(textures) + 1), era)
           /\ ErasKnown(as, ds, ts, era)
<1> DEFINE s == cs[c].slots
           slice == got.slice
           all == got.all
           new == [path |-> p, container |-> c, slice |-> slice, era |-> era]
           ca == Cached(p, Len(textures) + 1)
           n == Len(textures) + 1
<1>1. got = [slice |-> Head(cs[c].slots), all |-> [cs EXCEPT ![c].slots = Tail(@)]]
  BY DEF VirtualAllocate
<1>2. slice = Head(s) /\ all = [cs EXCEPT ![c].slots = Tail(@)]
  BY <1>1
<1>3. /\ cs \in Seq(ContainerType) /\ textures \in Seq(TextureType) /\ cache \in [Images -> Nat]
      /\ era \in Nat /\ Len(cs) \in Nat /\ Len(textures) \in Nat
      /\ DOMAIN cs = 1 .. Len(cs)
  BY LenProperties DEF ContainersKnown, TexturesKnown
<1>4. \A d \in 1 .. Len(cs) : cs[d] \in ContainerType /\ cs[d].kind \in Kinds /\ cs[d].slots \in Seq(Nat)
  <2>1. \A d \in 1 .. Len(cs) : cs[d] \in ContainerType
    BY <1>3, ElementOfSeq
  <2> QED BY <2>1 DEF ContainerType
<1>5. /\ s \in Seq(Nat) /\ Len(s) \in Nat /\ Len(s) # 0 /\ slice = s[1] /\ slice \in Nat
      /\ Tail(s) \in Seq(Nat) /\ Len(Tail(s)) = Len(s) - 1
      /\ \A a \in 1 .. Len(s) - 1 : Tail(s)[a] = s[a + 1]
  <2>1. s \in Seq(Nat) /\ s # <<>>
    BY <1>4
  <2> HIDE DEF s, slice
  <2>2. Len(s) \in Nat /\ Len(s) # 0
    BY <2>1, LenProperties, EmptySeq
  <2>3. /\ Head(s) \in Nat /\ Tail(s) \in Seq(Nat) /\ Len(Tail(s)) = Len(s) - 1
        /\ \A a \in 1 .. Len(Tail(s)) : Tail(s)[a] = s[a + 1]
    BY <2>1, HeadTailProperties
  <2>4. Head(s) = s[1]
    BY <2>1
  <2> QED BY <1>2, <2>1, <2>2, <2>3, <2>4
<1>6. /\ all \in Seq(ContainerType) /\ Len(all) = Len(cs)
      /\ all[c].kind = cs[c].kind /\ all[c].slots = Tail(s)
      /\ \A d \in 1 .. Len(cs) : d # c => all[d] = cs[d]
  <2> DEFINE x == [cs[c] EXCEPT !.slots = Tail(@)]
  <2>1. x \in ContainerType /\ x.kind = cs[c].kind /\ x.slots = Tail(s)
    <3>1. x = [kind |-> cs[c].kind, slots |-> Tail(s)]
      <4>1. cs[c] \in [kind : Kinds, slots : Seq(Nat)]
        BY <1>4 DEF ContainerType
      <4> DEFINE r == cs[c]
      <4>2. r \in [kind : Kinds, slots : Seq(Nat)] /\ x = [r EXCEPT !.slots = Tail(@)] /\ s = r.slots
        BY <4>1
      <4> HIDE DEF r, x, s
      <4>3. x = [kind |-> r.kind, slots |-> Tail(s)]
        BY <4>2
      <4> QED BY <4>3 DEF r
    <3> HIDE DEF x, s
    <3> QED BY <1>4, <1>5, <3>1 DEF ContainerType
  <2>2. all = [cs EXCEPT ![c] = x]
    BY <1>2
  <2> HIDE DEF x, all, s
  <2>3. all \in Seq(ContainerType) /\ Len(all) = Len(cs)
    BY <1>3, <2>1, <2>2, ExceptSeq
  <2>4. all[c] = x /\ \A d \in 1 .. Len(cs) : d # c => all[d] = cs[d]
    BY <1>3, <2>2
  <2> QED BY <2>1, <2>3, <2>4
<1>7. \A d \in 1 .. Len(cs) : all[d].kind = cs[d].kind
  BY <1>6
<1> HIDE DEF all, slice, s
<1>8. /\ Len(all) = Len(cs)
      /\ \A a, b \in 1 .. Len(cs[c].slots) : cs[c].slots[a] = cs[c].slots[b] => a = b
  BY <1>6 DEF ContainersKnown
<1>9. s = cs[c].slots
  BY DEF s
<1>10. \A a \in 1 .. Len(Tail(s)) : a + 1 \in 1 .. Len(s) /\ a + 1 # 1 /\ 1 \in 1 .. Len(s) /\ Tail(s)[a] = s[a + 1]
  BY <1>5
<1>11. \A a \in 1 .. Len(Tail(s)) : Tail(s)[a] # slice
  BY <1>5, <1>8, <1>9, <1>10
<1>12. \A d \in 1 .. Len(cs) : \A a, b \in 1 .. Len(all[d].slots) : all[d].slots[a] = all[d].slots[b] => a = b
  <2> TAKE d \in 1 .. Len(cs)
  <2>1. CASE d = c
    <3>1. SUFFICES ASSUME NEW a \in 1 .. Len(Tail(s)), NEW b \in 1 .. Len(Tail(s)), Tail(s)[a] = Tail(s)[b] PROVE a = b
      <4>1. all[d].slots = Tail(s)
        BY <1>6, <2>1
      <4> QED BY <4>1, Zenon
    <3>2. s[a + 1] = s[b + 1]
      BY <1>10, <3>1
    <3>3. a + 1 = b + 1
      BY <1>8, <1>9, <1>10, <3>2
    <3> QED BY <1>5, <3>3
  <2>2. CASE d # c
    BY <1>6, <2>2 DEF ContainersKnown
  <2> QED BY <2>1, <2>2
<1>13. ContainersKnown(all, as, ds)
  <2>1. ds \in Seq(Nat) /\ Len(ds) = Len(all) /\ as \in [Kinds -> Seq(Nat)]
    BY <1>6 DEF ContainersKnown
  <2>2. \A k \in Kinds : \A a \in 1 .. Len(as[k]) : as[k][a] \in 1 .. Len(cs) /\ cs[as[k][a]].kind = k
    BY DEF ContainersKnown
  <2>3. \A k \in Kinds : \A a \in 1 .. Len(as[k]) : as[k][a] \in 1 .. Len(all) /\ all[as[k][a]].kind = k
    BY <1>7, <1>8, <2>2
  <2> QED BY <1>6, <1>8, <1>12, <2>1, <2>3 DEF ContainersKnown
<1>14. new \in TextureType /\ new.path = p /\ new.container = c /\ new.slice = slice /\ new.era = era
  BY <1>3, <1>5 DEF TextureType
<1>15. ts = Append(textures, new)
  BY DEF slice
<1> HIDE DEF new
<1>16. /\ ts \in Seq(TextureType) /\ Len(ts) = n
       /\ ts[n] = new /\ \A i \in 1 .. Len(textures) : ts[i] = textures[i]
  BY <1>3, <1>14, <1>15, AppendProperties
<1>17. /\ \A i \in 1 .. Len(ts) : i \in 1 .. Len(textures) \/ i = n
       /\ n \in Nat /\ n # 0 /\ \A i \in 1 .. Len(textures) : i # n /\ i # 0 /\ i \in Nat
  BY <1>3, <1>16
<1>18. \A i \in 1 .. Len(textures) : textures[i] \in TextureType /\ textures[i].path \in Images /\ textures[i].path # p
  <2>1. \A i \in 1 .. Len(textures) : textures[i] \in TextureType
    BY <1>3, ElementOfSeq
  <2>2. \A i \in 1 .. Len(textures) : cache[textures[i].path] = i
    BY DEF TexturesKnown
  <2> QED BY <1>17, <2>1, <2>2 DEF TextureType
<1>19. ca \in [Images -> Nat] /\ ca[p] = n /\ \A q \in Images : q # p => ca[q] = cache[q]
  BY <1>3, <1>17 DEF Cached
<1> HIDE DEF n, ca
<1>20. \A i \in 1 .. Len(textures) :
         /\ textures[i].container \in 1 .. Len(cs) /\ cs[textures[i].container].kind = KindOf[textures[i].path]
         /\ cache[textures[i].path] = i /\ textures[i].era <= era
         /\ \A a \in 1 .. Len(cs[textures[i].container].slots) : cs[textures[i].container].slots[a] # textures[i].slice
  BY DEF TexturesKnown
<1>21. \A i \in 1 .. Len(textures) : \A a \in 1 .. Len(all[textures[i].container].slots) :
          all[textures[i].container].slots[a] # textures[i].slice
  <2> TAKE i \in 1 .. Len(textures)
  <2>1. CASE textures[i].container = c
    <3>1. all[textures[i].container].slots = Tail(s)
      BY <1>6, <2>1
    <3>2. \A a \in 1 .. Len(s) : s[a] # textures[i].slice
      BY <1>9, <1>20, <2>1
    <3>3. \A a \in 1 .. Len(Tail(s)) : Tail(s)[a] # textures[i].slice
      BY <1>10, <3>2
    <3> QED BY <3>1, <3>3, Zenon
  <2>2. CASE textures[i].container # c
    <3>1. textures[i].container \in 1 .. Len(cs)
      BY <1>20
    <3>2. all[textures[i].container] = cs[textures[i].container]
      BY <1>6, <2>2, <3>1
    <3> QED BY <1>20, <3>2
  <2> QED BY <2>1, <2>2
<1>22. \A i \in 1 .. Len(ts) :
       /\ ts[i].container \in 1 .. Len(all) /\ all[ts[i].container].kind = KindOf[ts[i].path]
       /\ ca[ts[i].path] = i /\ ts[i].era <= era
       /\ \A a \in 1 .. Len(all[ts[i].container].slots) : all[ts[i].container].slots[a] # ts[i].slice
  <2> TAKE i \in 1 .. Len(ts)
  <2>1. CASE i \in 1 .. Len(textures)
    <3>1. ts[i] = textures[i] /\ ca[textures[i].path] = cache[textures[i].path]
      BY <1>16, <1>18, <1>19, <2>1
    <3>2. /\ ts[i].container \in 1 .. Len(all) /\ all[ts[i].container].kind = KindOf[ts[i].path]
          /\ ca[ts[i].path] = i /\ ts[i].era <= era
      <4>1. /\ textures[i].container \in 1 .. Len(all) /\ all[textures[i].container].kind = KindOf[textures[i].path]
            /\ ca[textures[i].path] = i /\ textures[i].era <= era
        BY <1>7, <1>8, <1>20, <2>1, <3>1
      <4> QED BY <3>1, <4>1, Zenon
    <3> QED BY <1>21, <2>1, <3>1, <3>2, Zenon
  <2>2. CASE i = n
    <3>1. ts[i] = new /\ era <= era
      BY <1>3, <1>16, <2>2
    <3>2. /\ ts[i].container \in 1 .. Len(all) /\ all[ts[i].container].kind = KindOf[ts[i].path]
          /\ ca[ts[i].path] = i /\ ts[i].era <= era
      BY <1>6, <1>8, <1>14, <1>19, <2>2, <3>1
    <3>3. all[ts[i].container].slots = Tail(s) /\ ts[i].slice = slice
      BY <1>6, <1>14, <3>1
    <3> QED BY <1>11, <3>2, <3>3, Zenon
  <2> QED BY <1>17, <2>1, <2>2
<1>23. \A i \in 1 .. Len(textures) : ~ (textures[i].container = c /\ textures[i].slice = slice)
  BY <1>5, <1>9, <1>20
<1>24. \A i, j \in 1 .. Len(ts) : ts[i].container = ts[j].container /\ ts[i].slice = ts[j].slice => i = j
  <2> TAKE i, j \in 1 .. Len(ts)
  <2>1. CASE i \in 1 .. Len(textures) /\ j \in 1 .. Len(textures)
    BY <1>16, <2>1 DEF TexturesKnown
  <2>2. CASE i \in 1 .. Len(textures) /\ j = n
    BY <1>14, <1>16, <1>23, <2>2
  <2>3. CASE i = n /\ j \in 1 .. Len(textures)
    BY <1>14, <1>16, <1>23, <2>3
  <2> QED BY <1>17, <2>1, <2>2, <2>3
<1>25. TexturesKnown(all, ts, ca, era)
  BY <1>3, <1>16, <1>19, <1>22, <1>24 DEF TexturesKnown
<1>26. ErasKnown(as, ds, ts, era)
  <2>1. \A i \in 1 .. Len(ts) : ts[i].era = era <=> ts[i].container \in InAny(as)
    <3> TAKE i \in 1 .. Len(ts)
    <3>1. CASE i \in 1 .. Len(textures)
      BY <1>16, <3>1 DEF ErasKnown
    <3>2. CASE i = n
      BY <1>14, <1>16, <3>2
    <3> QED BY <1>17, <3>1, <3>2
  <2> QED BY <2>1 DEF ErasKnown
<1> QED BY <1>13, <1>25, <1>26 DEF all, ca, n

LEMMA TextureLoaded ==
    ASSUME TexturesInv, manager = "ready", NEW p \in Images, cache[p] = 0, NewTexture2D(p), era' = era
    PROVE  /\ ContainersKnown(containers, arrays, deletions)'
           /\ TexturesKnown(containers, textures, cache, era)'
           /\ ErasKnown(arrays, deletions, textures, era)'
<1> DEFINE number == Container(KindOf[p], Levels).number
           all == Container(KindOf[p], Levels).all
           got == VirtualAllocate(number, all)
<1>1. /\ containers' = got.all /\ arrays' = Enlisted(KindOf[p], number) /\ deletions' = Counted(number)
      /\ textures' = Append(textures, [path |-> p, container |-> number, slice |-> got.slice, era |-> era])
      /\ cache' = Cached(p, Len(textures) + 1)
  BY DEF NewTexture2D
<1>2. KindOf[p] \in Kinds /\ Levels \in Nat \ {0}
  BY TexturesAssumption
<1>3. /\ ContainersKnown(containers, arrays, deletions)
      /\ TexturesKnown(containers, textures, cache, era)
      /\ ErasKnown(arrays, deletions, textures, era)
  BY DEF TexturesInv
<1>4. /\ ContainersKnown(all, Enlisted(KindOf[p], number), Counted(number))
      /\ TexturesKnown(all, textures, cache, era)
      /\ ErasKnown(Enlisted(KindOf[p], number), Counted(number), textures, era)
      /\ number \in 1 .. Len(all) /\ all[number].kind = KindOf[p] /\ all[number].slots # <<>>
      /\ number \in InAny(Enlisted(KindOf[p], number))
  <2>1. HasFound(KindOf[p], Levels, number, all)
    BY <1>2, <1>3, ContainerFound
  <2> QED BY <1>2, <1>3, <2>1, ContainerAdded, Zenon
<1> HIDE DEF number, all
<1>5. /\ ContainersKnown(got.all, arrays', deletions')
      /\ TexturesKnown(got.all, textures', Cached(p, Len(textures) + 1), era)
      /\ ErasKnown(arrays', deletions', textures', era)
  <2>1. /\ ContainersKnown(all, arrays', deletions') /\ TexturesKnown(all, textures, cache, era)
        /\ ErasKnown(arrays', deletions', textures, era) /\ number \in InAny(arrays')
    BY <1>1, <1>4
  <2>2. got = VirtualAllocate(number, all)
    OBVIOUS
  <2> HIDE DEF got
  <2> QED BY <1>1, <1>4, <2>1, <2>2, TextureAdded, Zenon
<1> HIDE DEF got
<1>6. /\ ContainersKnown(containers', arrays', deletions') /\ TexturesKnown(containers', textures', cache', era')
      /\ ErasKnown(arrays', deletions', textures', era')
  BY <1>1, <1>5
<1> QED BY <1>6

LEMMA TexturesInitInv == TexturesInit => TexturesInv
<1> SUFFICES ASSUME TexturesInit PROVE TexturesInv
  OBVIOUS
<1>1. /\ containers = <<>> /\ deletions = <<>> /\ textures = <<>> /\ uploaded = <<>> /\ era = 0
      /\ arrays = [k \in Kinds |-> <<>>] /\ cache = [p \in Images |-> 0] /\ manager = "none"
  BY DEF TexturesInit
<1>2. \A S : <<>> \in Seq(S) /\ Len(<<>>) = 0 /\ DOMAIN <<>> = {} /\ 1 .. Len(<<>>) = {}
  BY EmptySeq
<1>3. \A k \in Kinds : arrays[k] = <<>>
  BY <1>1
<1>4. arrays \in [Kinds -> Seq(Nat)] /\ cache \in [Images -> Nat]
  BY <1>1, <1>2
<1>5. ContainersKnown(containers, arrays, deletions)
  BY <1>1, <1>2, <1>3, <1>4 DEF ContainersKnown
<1>6. TexturesKnown(containers, textures, cache, era)
  BY <1>1, <1>2, <1>4 DEF TexturesKnown
<1>7. ErasKnown(arrays, deletions, textures, era)
  BY <1>1, <1>2 DEF ErasKnown
<1>8. DeletedTwiceIsFonts /\ LevelsFillBuffer
  BY <1>1, <1>2 DEF DeletedTwiceIsFonts, LevelsFillBuffer
<1> QED BY <1>1, <1>5, <1>6, <1>7, <1>8 DEF TexturesInv

LEMMA DisposeInv == TexturesInv /\ Dispose => TexturesInv'
<1> SUFFICES ASSUME TexturesInv, Dispose PROVE TexturesInv'
  OBVIOUS
<1>1. /\ manager \in {"ready", "disposed"} /\ manager' = "disposed" /\ era' = era + 1
      /\ deletions' = [c \in DOMAIN deletions |-> deletions[c] + IF c \in InArrays THEN 1 ELSE 0]
      /\ arrays' = [k \in Kinds |-> <<>>]
      /\ containers' = containers /\ textures' = textures /\ cache' = cache /\ fonts' = fonts /\ uploaded' = uploaded
  BY DEF Dispose
<1>2. /\ ContainersKnown(containers, arrays, deletions) /\ TexturesKnown(containers, textures, cache, era)
      /\ ErasKnown(arrays, deletions, textures, era) /\ LevelsFillBuffer
  BY <1>1 DEF TexturesInv
<1>3. deletions \in Seq(Nat) /\ DOMAIN deletions = 1 .. Len(deletions) /\ Len(deletions) \in Nat /\ InArrays = InAny(arrays)
  BY <1>2, LenProperties DEF ContainersKnown, InArrays, InAny
<1>4. \A c \in 1 .. Len(deletions) : deletions'[c] = 1
  BY <1>1, <1>2, <1>3 DEF ErasKnown
<1>5. deletions' \in Seq(Nat) /\ Len(deletions') = Len(deletions)
  <2>1. deletions' \in [1 .. Len(deletions) -> Nat]
    BY <1>1, <1>3, <1>4
  <2> QED BY <1>3, <2>1, LenProperties, SeqDef
<1>6. arrays' \in [Kinds -> Seq(Nat)] /\ \A k \in Kinds : arrays'[k] = <<>> /\ 1 .. Len(arrays'[k]) = {}
  <2>1. <<>> \in Seq(Nat) /\ 1 .. Len(<<>>) = {}
    BY EmptySeq
  <2> QED BY <1>1, <2>1
<1>7. \A c : c \notin InAny(arrays')
  BY <1>6, InAnyIs
<1>8. ContainersKnown(containers, arrays', deletions')
  BY <1>2, <1>5, <1>6 DEF ContainersKnown
<1>9. TexturesKnown(containers, textures, cache, era + 1)
  <2>1. textures \in Seq(TextureType) /\ era \in Nat
    BY <1>2 DEF TexturesKnown
  <2>2. \A i \in 1 .. Len(textures) : textures[i].era <= era + 1
    <3>1. \A i \in 1 .. Len(textures) : textures[i].era \in Nat
      <4>1. \A i \in 1 .. Len(textures) : textures[i] \in TextureType
        BY <2>1, ElementOfSeq
      <4> QED BY <4>1 DEF TextureType
    <3> QED BY <1>2, <2>1, <3>1 DEF TexturesKnown
  <2> QED BY <1>2, <2>1, <2>2 DEF TexturesKnown
<1>10. ErasKnown(arrays', deletions', textures, era + 1)
  <2>1. \A i \in 1 .. Len(textures) : textures[i].era # era + 1
    <3>1. textures \in Seq(TextureType) /\ era \in Nat
      BY <1>2 DEF TexturesKnown
    <3>2. \A i \in 1 .. Len(textures) : textures[i].era \in Nat /\ textures[i].era <= era
      <4>1. \A i \in 1 .. Len(textures) : textures[i] \in TextureType
        BY <3>1, ElementOfSeq
      <4> QED BY <1>2, <4>1 DEF TextureType, TexturesKnown
    <3> QED BY <3>1, <3>2
  <2> QED BY <1>4, <1>5, <1>7, <2>1 DEF ErasKnown
<1>11. DeletedTwiceIsFonts' /\ LevelsFillBuffer'
  <2>1. DOMAIN deletions' = 1 .. Len(deletions)
    BY <1>1, <1>3
  <2>2. \A c \in DOMAIN deletions' : ~ (deletions'[c] > 1)
    BY <1>4, <2>1
  <2> QED BY <1>1, <1>2, <2>2 DEF DeletedTwiceIsFonts, LevelsFillBuffer
<1>12. ContainersKnown(containers, arrays, deletions)' /\ TexturesKnown(containers, textures, cache, era)'
      /\ ErasKnown(arrays, deletions, textures, era)' /\ manager' = "disposed"
  BY <1>1, <1>8, <1>9, <1>10
<1> QED BY <1>11, <1>12 DEF TexturesInv

LEMMA DestroyManagersInv == TexturesInv /\ DestroyManagers => TexturesInv'
<1> SUFFICES ASSUME TexturesInv, DestroyManagers PROVE TexturesInv'
  OBVIOUS
<1>1. /\ manager \in {"ready", "disposed"} /\ manager' = "exited" /\ era' = era
      /\ deletions' = [c \in DOMAIN deletions |->
                        deletions[c] + (IF c \in InArrays THEN 1 ELSE 0) + (IF c = fonts THEN 1 ELSE 0)]
      /\ arrays' = arrays /\ containers' = containers /\ textures' = textures /\ cache' = cache /\ fonts' = fonts
      /\ uploaded' = uploaded
  BY DEF DestroyManagers
<1>2. /\ ContainersKnown(containers, arrays, deletions) /\ TexturesKnown(containers, textures, cache, era)
      /\ ErasKnown(arrays, deletions, textures, era) /\ LevelsFillBuffer
  BY <1>1 DEF TexturesInv
<1>3. deletions \in Seq(Nat) /\ DOMAIN deletions = 1 .. Len(deletions) /\ Len(deletions) \in Nat /\ InArrays = InAny(arrays)
  BY <1>2, LenProperties DEF ContainersKnown, InArrays, InAny
<1>4. \A c \in 1 .. Len(deletions) : deletions'[c] = 1 + IF c = fonts THEN 1 ELSE 0
  BY <1>1, <1>2, <1>3 DEF ErasKnown
<1>5. deletions' \in Seq(Nat) /\ Len(deletions') = Len(deletions)
  <2>1. deletions' \in [1 .. Len(deletions) -> Nat]
    BY <1>1, <1>3, <1>4
  <2> QED BY <1>3, <2>1, LenProperties, SeqDef
<1>6. DeletedTwiceIsFonts' /\ LevelsFillBuffer'
  <2>1. DOMAIN deletions' = 1 .. Len(deletions)
    BY <1>1, <1>3
  <2>2. \A c \in DOMAIN deletions' : deletions'[c] > 1 => c = fonts
    BY <1>4, <2>1
  <2> QED BY <1>1, <1>2, <2>2 DEF DeletedTwiceIsFonts, LevelsFillBuffer
<1>7. ContainersKnown(containers, arrays, deletions)'
  BY <1>1, <1>2, <1>5 DEF ContainersKnown
<1>8. TexturesKnown(containers, textures, cache, era)'
  BY <1>1, <1>2
<1> QED BY <1>1, <1>6, <1>7, <1>8 DEF TexturesInv

LEMMA NewTextureContainerInv ==
    ASSUME TexturesInv, NEW n \in Nat \ {0}, NewTextureContainer(n) PROVE TexturesInv'
<1> DEFINE number == Container(FontKind, n).number
           all == Container(FontKind, n).all
<1>1. /\ manager = "ready" /\ manager' = manager /\ containers' = all
      /\ arrays' = Enlisted(FontKind, number) /\ deletions' = Counted(number)
      /\ textures' = textures /\ cache' = cache /\ uploaded' = uploaded /\ era' = era
  BY DEF NewTextureContainer
<1>2. /\ ContainersKnown(containers, arrays, deletions) /\ TexturesKnown(containers, textures, cache, era)
      /\ ErasKnown(arrays, deletions, textures, era) /\ LevelsFillBuffer
  BY <1>1 DEF TexturesInv
<1>3. HasFound(FontKind, n, number, all)
  BY <1>2, ContainerFound, TexturesAssumption
<1> HIDE DEF number, all
<1>4. /\ ContainersKnown(all, Enlisted(FontKind, number), Counted(number))
      /\ TexturesKnown(all, textures, cache, era)
      /\ ErasKnown(Enlisted(FontKind, number), Counted(number), textures, era)
  <2>1. FontKind \in Kinds
    BY TexturesAssumption
  <2> QED BY <1>2, <1>3, <2>1, ContainerAdded, Zenon
<1>5. /\ ContainersKnown(containers, arrays, deletions)' /\ TexturesKnown(containers, textures, cache, era)'
      /\ ErasKnown(arrays, deletions, textures, era)'
  BY <1>1, <1>4
<1>6. DeletedTwiceIsFonts'
  <2>1. deletions' \in Seq(Nat)
    BY <1>5 DEF ContainersKnown
  <2>2. DOMAIN deletions' = 1 .. Len(deletions')
    BY <2>1, LenProperties
  <2>3. \A c \in 1 .. Len(deletions') : ~ (deletions'[c] > 1)
    BY <1>5 DEF ErasKnown
  <2> QED BY <2>2, <2>3 DEF DeletedTwiceIsFonts
<1>7. LevelsFillBuffer'
  BY <1>1, <1>2 DEF LevelsFillBuffer
<1> QED BY <1>1, <1>5, <1>6, <1>7 DEF TexturesInv

LEMMA GetTextureInv == ASSUME TexturesInv, NEW p \in Images, GetTexture(p) PROVE TexturesInv'
<1>1. manager \in {"ready", "disposed"} /\ era' = era /\ fonts' = fonts
  BY DEF GetTexture
<1>2. ASSUME NothingLoaded PROVE TexturesInv'
  BY <1>1, <1>2 DEF NothingLoaded, TexturesInv, DeletedTwiceIsFonts, LevelsFillBuffer
<1>3. ASSUME Exit PROVE TexturesInv'
  BY <1>1, <1>3 DEF Exit, TexturesInv, DeletedTwiceIsFonts, LevelsFillBuffer
<1>4. ASSUME manager = "ready", manager' = manager, cache[p] = 0, NewTexture2D(p), LevelsFillBuffer' PROVE TexturesInv'
  <2>1. /\ ContainersKnown(containers, arrays, deletions)' /\ TexturesKnown(containers, textures, cache, era)'
        /\ ErasKnown(arrays, deletions, textures, era)'
    BY <1>1, <1>4, TextureLoaded
  <2>2. DeletedTwiceIsFonts'
    <3>1. deletions' \in Seq(Nat)
      BY <2>1 DEF ContainersKnown
    <3>2. DOMAIN deletions' = 1 .. Len(deletions')
      BY <3>1, LenProperties
    <3>3. \A c \in 1 .. Len(deletions') : ~ (deletions'[c] > 1)
      BY <2>1 DEF ErasKnown
    <3> QED BY <3>2, <3>3 DEF DeletedTwiceIsFonts
  <2> QED BY <1>4, <2>1, <2>2 DEF TexturesInv
<1>5. CASE cache[p] # 0 \/ TypeOf[p] = "other"
  BY <1>2, <1>5 DEF GetTexture
<1>6. CASE cache[p] = 0 /\ TypeOf[p] = "png"
  <2>1. PICK readable \in BOOLEAN : LoadPNG(p, readable)
    BY <1>6 DEF GetTexture
  <2>2. CASE readable /\ manager = "ready"
    <3>1. NewTexture2D(p) /\ manager' = manager /\ uploaded' = uploaded
      BY <2>1, <2>2 DEF LoadPNG
    <3>2. LevelsFillBuffer'
      BY <3>1 DEF TexturesInv, LevelsFillBuffer
    <3> QED BY <1>4, <1>6, <2>2, <3>1, <3>2
  <2>3. CASE ~ (readable /\ manager = "ready")
    BY <1>3, <2>1, <2>3 DEF LoadPNG
  <2> QED BY <2>2, <2>3
<1>7. CASE cache[p] = 0 /\ TypeOf[p] # "other" /\ TypeOf[p] # "png"
  <2>1. PICK exists \in BOOLEAN, readable \in BOOLEAN, header \in Headers : LoadDDS(p, exists, readable, header)
    BY <1>7 DEF GetTexture
  <2>2. NothingLoaded \/ Exit \/ (manager = "ready" /\ NewTexture2D(p) /\ uploaded' = Uploads(header) /\ manager' = manager)
    BY <2>1 DEF LoadDDS
  <2>3. ASSUME uploaded' = Uploads(header) PROVE LevelsFillBuffer'
    <3>1. Fills(uploaded')
      BY <2>3, UploadsFill
    <3> QED BY <3>1 DEF Fills, LevelsFillBuffer
  <2> QED BY <1>2, <1>3, <1>4, <1>7, <2>2, <2>3
<1> QED BY <1>5, <1>6, <1>7

LEMMA TexturesStep == TexturesInv /\ [TexturesNext]_textureVars => TexturesInv'
<1> SUFFICES ASSUME TexturesInv, [TexturesNext]_textureVars PROVE TexturesInv'
  OBVIOUS
<1>1. CASE InitManager
  BY <1>1 DEF InitManager, TexturesInv, DeletedTwiceIsFonts, LevelsFillBuffer
<1>2. CASE UNCHANGED textureVars
  BY <1>2 DEF textureVars, TexturesInv, DeletedTwiceIsFonts, LevelsFillBuffer
<1>3. ASSUME NEW p \in Images, GetTexture(p) PROVE TexturesInv'
  BY <1>3, GetTextureInv
<1>4. CASE NewTextureContainer(2 * Levels)
  <2>1. 2 * Levels \in Nat \ {0}
    BY TexturesAssumption
  <2> QED BY <1>4, <2>1, NewTextureContainerInv
<1> QED BY <1>1, <1>2, <1>3, <1>4, DisposeInv, DestroyManagersInv DEF TexturesNext, TexturesGone

LEMMA TexturesInvIsSound == TexturesInv => TexturesSound
<1> SUFFICES ASSUME TexturesInv PROVE TexturesSound
  OBVIOUS
<1>1. /\ ContainersKnown(containers, arrays, deletions) /\ TexturesKnown(containers, textures, cache, era)
      /\ DeletedTwiceIsFonts /\ LevelsFillBuffer
  BY DEF TexturesInv
<1>2. /\ DOMAIN textures = 1 .. Len(textures) /\ DOMAIN containers = 1 .. Len(containers)
      /\ DOMAIN deletions = 1 .. Len(deletions) /\ Len(deletions) = Len(containers) /\ Len(textures) \in Nat
      /\ \A i \in 1 .. Len(textures) : textures[i] \in TextureType
  BY <1>1, LenProperties, ElementOfSeq DEF ContainersKnown, TexturesKnown
<1>3. SlicesAccounted
  <2> SUFFICES ASSUME NEW c \in 1 .. Len(containers)
               PROVE  LET taken == {i \in DOMAIN textures : textures[i].container = c}
                      IN  /\ Cardinality(taken) = Cardinality({textures[i].slice : i \in taken})
                          /\ {textures[i].slice : i \in taken} \cap Range(containers[c].slots) = {}
                          /\ \A i \in taken : textures[i].slice >= 0
    BY <1>2 DEF SlicesAccounted
  <2> DEFINE taken == {i \in DOMAIN textures : textures[i].container = c}
             slices == {textures[i].slice : i \in taken}
             f == [i \in taken |-> textures[i].slice]
  <2>1. \A i \in taken : i \in 1 .. Len(textures) /\ textures[i].container = c /\ textures[i].slice \in Nat
    BY <1>2 DEF TextureType
  <2>2. Cardinality(taken) = Cardinality(slices)
    <3>1. \A i, j \in taken : f[i] = f[j] => i = j
      BY <1>1, <2>1 DEF TexturesKnown
    <3>2. f \in [taken -> slices] /\ \A t \in slices : \E i \in taken : f[i] = t
      OBVIOUS
    <3> HIDE DEF f, slices
    <3>3. f \in Surjection(taken, slices) /\ f \in Injection(taken, slices)
      <4>1. DOMAIN f = taken
        BY <3>2
      <4>2. IsInjective(f)
        BY <3>1, <4>1 DEF IsInjective
      <4> QED BY <3>2, <4>2 DEF Injection, Surjection
    <3>4. IsFiniteSet(taken)
      <4>1. IsFiniteSet(1 .. Len(textures)) /\ taken \subseteq 1 .. Len(textures)
        BY <1>2, FS_Interval
      <4> HIDE DEF taken
      <4> QED BY <4>1, FS_Subset
    <3> HIDE DEF taken
    <3> QED BY <3>3, <3>4, FS_Surjection
  <2>3. slices \cap Range(containers[c].slots) = {}
    <3>1. DOMAIN containers[c].slots = 1 .. Len(containers[c].slots)
      <4>1. containers[c].slots \in Seq(Nat)
        <5>1. containers[c] \in ContainerType
          BY <1>1, ElementOfSeq DEF ContainersKnown
        <5> QED BY <5>1 DEF ContainerType
      <4> QED BY <4>1, LenProperties
    <3>2. \A i \in taken : \A a \in 1 .. Len(containers[c].slots) : containers[c].slots[a] # textures[i].slice
      BY <1>1, <2>1 DEF TexturesKnown
    <3>3. ASSUME NEW t \in slices, t \in Range(containers[c].slots) PROVE FALSE
      <4>1. PICK i \in taken : t = textures[i].slice
        OBVIOUS
      <4>2. PICK a \in DOMAIN containers[c].slots : containers[c].slots[a] = t
        BY <3>3, Zenon DEF Range
      <4> HIDE DEF taken
      <4> QED BY <3>1, <3>2, <4>1, <4>2
    <3> QED BY <3>3
  <2>4. \A i \in taken : textures[i].slice >= 0
    BY <2>1
  <2> QED BY <2>2, <2>3, <2>4
<1>4. LoadedOnce
  <2>1. \A i, j \in 1 .. Len(textures) : textures[i].path = textures[j].path => i = j
    BY <1>1 DEF TexturesKnown
  <2> QED BY <1>1, <1>2, <2>1 DEF LoadedOnce, TexturesKnown
<1>5. StaleIsOld
  <2> SUFFICES ASSUME manager # "exited", NEW i \in 1 .. Len(textures)
               PROVE  deletions[textures[i].container] = 0 <=> textures[i].era = era
    BY <1>2 DEF StaleIsOld
  <2>1. ErasKnown(arrays, deletions, textures, era)
    BY DEF TexturesInv
  <2>2. textures[i].container \in 1 .. Len(deletions)
    BY <1>1, <1>2 DEF TexturesKnown
  <2>3. deletions[textures[i].container] = IF textures[i].container \in InAny(arrays) THEN 0 ELSE 1
    BY <2>1, <2>2 DEF ErasKnown
  <2>4. textures[i].era = era <=> textures[i].container \in InAny(arrays)
    BY <2>1 DEF ErasKnown
  <2> QED BY <2>3, <2>4
<1> QED BY <1>1, <1>3, <1>4, <1>5 DEF TexturesSound

\* Textures: a slice of a container is taken at most once and never from an empty
\* queue, a path is loaded once into a container of its file's kind, the cache
\* hands out a texture of a deleted container exactly when it is from before
\* the last dispose(), only the container of FontManager is deleted twice, and
\* the levels of a DDS file fill the buffer they are uploaded from.
THEOREM TexturesAreSound == Spec => []TexturesSound
<1>1. Init => TexturesInv
  BY TexturesInitInv DEF Init
<1>2. TexturesInv /\ [Next]_vars => TexturesInv'
  BY PartSteps, TexturesStep
<1> QED BY <1>1, <1>2, TexturesInvIsSound, PTL DEF Spec

-----------------------------------------------------------------------------
(* The camera and the pace of the frames                                   *)

CameraType ==
  camera \in [screen : Screens, place : Positions, height : Int, scale : Int, range : ScaleRanges,
              changed : BOOLEAN, matrix : {<<>>} \cup (Screens \X Positions \X Int), resized : BOOLEAN, zoomed : BOOLEAN]

CameraInv == CameraType /\ MatrixIsCurrent /\ ZoomEndsInRange

LEMMA CameraInitInv == CameraInit => CameraInv
<1> SUFFICES ASSUME CameraInit PROVE CameraInv
  OBVIOUS
<1>1. PICK s \in Screens, r \in ScaleRanges, p \in Positions :
        camera = [screen |-> s, place |-> p, height |-> 0, scale |-> r.least, range |-> r,
                  changed |-> TRUE, matrix |-> <<>>, resized |-> FALSE, zoomed |-> FALSE]
  BY DEF CameraInit
<1>2. r.least \in Int /\ 0 \in Int
  BY CameraAssumption
<1>3. CameraType
  BY <1>1, <1>2 DEF CameraType
<1>4. camera.changed /\ ~camera.zoomed
  BY <1>1
<1> QED BY <1>3, <1>4 DEF CameraInv, MatrixIsCurrent, ZoomEndsInRange

LEMMA CameraStep == CameraInv /\ [CameraNext]_camera => CameraInv'
<1> SUFFICES ASSUME CameraInv, [CameraNext]_camera PROVE CameraInv'
  OBVIOUS
<1> USE DEF CameraType
<1>1. CameraType
  BY DEF CameraInv
<1>2. /\ camera.screen \in Screens /\ camera.place \in Positions /\ camera.height \in Int /\ camera.range \in ScaleRanges
      /\ camera.range.least \in Int /\ camera.range.most \in Int /\ camera.range.least <= camera.range.most
  BY <1>1, CameraAssumption
<1>3. CASE UNCHANGED camera
  BY <1>3 DEF CameraInv, MatrixIsCurrent, ZoomEndsInRange, Projection
<1>4. CASE UpdateCamera
  <2>1. CASE camera.changed
    <3> DEFINE m == Projection(camera)
    <3>1. m \in Screens \X Positions \X Int
      BY <1>2 DEF Projection
    <3>2. camera' = [camera EXCEPT !.changed = FALSE, !.matrix = m, !.resized = FALSE, !.zoomed = FALSE]
      BY <1>4, <2>1 DEF UpdateCamera
    <3>3. m = <<camera.screen, camera.place, camera.height>>
      BY DEF Projection
    <3> HIDE DEF m
    <3>4. CameraType'
      BY <1>1, <3>1, <3>2
    <3>5. /\ camera'.screen = camera.screen /\ camera'.place = camera.place /\ camera'.height = camera.height
          /\ camera'.matrix = m /\ camera'.zoomed = FALSE
      BY <1>1, <3>2
    <3>6. Projection(camera') = m
      BY <3>3, <3>5 DEF Projection
    <3> QED BY <3>4, <3>5, <3>6 DEF CameraInv, MatrixIsCurrent, ZoomEndsInRange
  <2>2. CASE ~camera.changed
    BY <1>3, <1>4, <2>2 DEF UpdateCamera
  <2> QED BY <2>1, <2>2
<1>5. ASSUME NEW s \in Screens, InitCamera(s) PROVE CameraInv'
  <2>1. camera' = [camera EXCEPT !.screen = s, !.resized = TRUE, !.zoomed = FALSE]
    BY <1>5 DEF InitCamera
  <2>2. CameraType' /\ camera'.resized = TRUE /\ camera'.zoomed = FALSE
    BY <1>1, <2>1
  <2> QED BY <2>2 DEF CameraInv, MatrixIsCurrent, ZoomEndsInRange
<1>6. ASSUME NEW p \in Positions, NEW z \in Heights, SetPosition(p, z) PROVE CameraInv'
  <2>1. camera' = [camera EXCEPT !.place = p, !.height = z, !.changed = TRUE, !.zoomed = FALSE] /\ z \in Int
    BY <1>6, CameraAssumption DEF SetPosition
  <2>2. CameraType' /\ camera'.changed = TRUE /\ camera'.zoomed = FALSE
    BY <1>1, <2>1
  <2> QED BY <2>2 DEF CameraInv, MatrixIsCurrent, ZoomEndsInRange
<1>7. ASSUME NEW z \in Heights, SetScale(z) PROVE CameraInv'
  <2>1. camera' = [camera EXCEPT !.scale = z, !.height = z, !.changed = TRUE, !.zoomed = FALSE] /\ z \in Int
    BY <1>7, CameraAssumption DEF SetScale
  <2>2. CameraType' /\ camera'.changed = TRUE /\ camera'.zoomed = FALSE
    BY <1>1, <2>1
  <2> QED BY <2>2 DEF CameraInv, MatrixIsCurrent, ZoomEndsInRange
<1>8. ASSUME NEW r \in ScaleRanges, SetRange(r) PROVE CameraInv'
  <2>1. camera' = [camera EXCEPT !.range = r, !.zoomed = FALSE]
    BY <1>8 DEF SetRange
  <2>2. CameraType' /\ camera'.zoomed = FALSE
    BY <1>1, <2>1
  <2>3. /\ camera'.screen = camera.screen /\ camera'.place = camera.place /\ camera'.height = camera.height
        /\ camera'.matrix = camera.matrix /\ camera'.changed = camera.changed /\ camera'.resized = camera.resized
    BY <1>1, <2>1
  <2>4. MatrixIsCurrent'
    BY <2>3 DEF CameraInv, MatrixIsCurrent, Projection
  <2> QED BY <2>2, <2>4 DEF CameraInv, ZoomEndsInRange
<1>9. ASSUME NEW v \in Int, TryZoom(v) PROVE CameraInv'
  <2> DEFINE z == Clamped(camera.height + v, camera.range)
  <2>1. z \in Int /\ z \in camera.range.least .. camera.range.most
    BY <1>2 DEF Clamped
  <2>2. camera' = [camera EXCEPT !.height = z, !.changed = TRUE, !.zoomed = TRUE]
    BY <1>9 DEF TryZoom
  <2> HIDE DEF z
  <2>3. CameraType' /\ camera'.changed = TRUE /\ camera'.height = z /\ camera'.range = camera.range
    BY <1>1, <2>1, <2>2
  <2> QED BY <2>1, <2>3 DEF CameraInv, MatrixIsCurrent, ZoomEndsInRange
<1>10. \A v \in Zooms : v \in Int /\ -v \in Int
  BY CameraAssumption
<1> QED BY <1>3, <1>4, <1>5, <1>6, <1>7, <1>8, <1>9, <1>10 DEF CameraNext

\* The place in the ring of the time k frames ago, if the next one goes to q.
Ago(q, k) == IF q >= k THEN q - k ELSE q - k + Samples

Taken(c) == IF c < Samples THEN c ELSE Samples

FrameType ==
  /\ now \in Nat /\ frame \in [start : Nat, prev : Nat, time : Nat, open : BOOLEAN]
  /\ frameTimes \in [0 .. Samples - 1 -> Nat] /\ count \in Nat
  /\ times \in Seq(Nat) /\ Len(times) = count

PaceInv ==
  /\ frame.start = frame.prev /\ frame.prev <= now
  /\ frame.open => frame.start = now
  /\ count > 0 => IF frame.open THEN frame.time >= Desired ELSE now - frame.prev >= Desired
  /\ FramesAreLimited

RingOfTimes ==
  /\ \A k \in 1 .. Samples : k <= count => frameTimes[Ago(count % Samples, k)] = times[count + 1 - k]
  /\ SumOf(frameTimes, 0 .. Taken(count) - 1) = SumOf(times, count - Taken(count) + 1 .. count)
  /\ average = <<SumOf(times, count - Taken(count) + 1 .. count), Taken(count)>>

FrameInv == FrameType /\ PaceInv /\ RingOfTimes

LEMMA FrameInitInv == FrameInit => FrameInv
<1> SUFFICES ASSUME FrameInit PROVE FrameInv
  OBVIOUS
<1>1. /\ now = 0 /\ frame = [start |-> 0, prev |-> 0, time |-> 0, open |-> FALSE]
      /\ frameTimes = [i \in 0 .. Samples - 1 |-> 0] /\ count = 0
      /\ average = <<0, 0>> /\ times = <<>>
  BY DEF FrameInit
<1>2. times \in Seq(Nat) /\ Len(times) = 0
  BY <1>1, EmptySeq
<1>3. FrameType
  BY <1>1, <1>2 DEF FrameType
<1>4. PaceInv
  BY <1>1, <1>2 DEF PaceInv, FramesAreLimited
<1>5. RingOfTimes
  <2>1. Taken(0) = 0 /\ 0 .. 0 - 1 = {} /\ 0 - 0 + 1 .. 0 = {}
    BY FrameAssumption DEF Taken
  <2>2. \A a : SumOf(a, {}) = 0
    BY SumOfNone
  <2>3. /\ SumOf(frameTimes, 0 .. Taken(count) - 1) = 0
        /\ SumOf(times, count - Taken(count) + 1 .. count) = 0
    BY <1>1, <2>1, <2>2
  <2>4. \A k \in 1 .. Samples : ~ (k <= count)
    BY <1>1
  <2> QED BY <1>1, <2>1, <2>3, <2>4 DEF RingOfTimes
<1> QED BY <1>3, <1>4, <1>5 DEF FrameInv

LEMMA BeginFrameInv == ASSUME FrameInv, NEW wait \in Waits, BeginFrame(wait) PROVE FrameInv'
<1> DEFINE later == now + wait
<1>1. /\ ~frame.open
      /\ frame' = [start |-> later, prev |-> later, time |-> later - frame.prev, open |-> TRUE]
      /\ now' = later /\ frameTimes' = frameTimes /\ count' = count /\ average' = average /\ times' = times
  BY DEF BeginFrame
<1>2. /\ now \in Nat /\ frame.prev \in Nat /\ frame.prev <= now /\ count \in Nat
      /\ count > 0 => now - frame.prev >= Desired
  BY <1>1 DEF FrameInv, FrameType, PaceInv
<1>3. /\ later \in Nat /\ later - frame.prev \in Nat
      /\ count > 0 => later - frame.prev >= Desired
  BY <1>2, FrameAssumption
<1> HIDE DEF later
<1>4. FrameType'
  BY <1>1, <1>2, <1>3 DEF FrameInv, FrameType
<1>5. PaceInv'
  <2>1. /\ frame'.start = later /\ frame'.prev = later /\ frame'.time = later - frame.prev /\ frame'.open = TRUE
    BY <1>1
  <2> QED BY <1>1, <1>3, <2>1 DEF FrameInv, PaceInv, FramesAreLimited
<1>6. RingOfTimes'
  BY <1>1 DEF FrameInv, RingOfTimes
<1> QED BY <1>4, <1>5, <1>6 DEF FrameInv

LEMMA EndFramePace ==
  ASSUME FrameInv, NEW w \in Works, NEW over \in Waits, EndFrame(w, over) PROVE FrameType' /\ PaceInv'
<1> DEFINE t == frame.time
           q == count % Samples
<1>1. /\ frame.open
      /\ frameTimes' = [frameTimes EXCEPT ![q] = t] /\ count' = count + 1
      /\ times' = Append(times, t) /\ now' = now + w + Slept(w, over) /\ frame' = [frame EXCEPT !.open = FALSE]
  BY DEF EndFrame, StoredTime
<1>2. /\ now \in Nat /\ frame \in [start : Nat, prev : Nat, time : Nat, open : BOOLEAN]
      /\ frameTimes \in [0 .. Samples - 1 -> Nat] /\ count \in Nat
      /\ times \in Seq(Nat) /\ Len(times) = count
  BY DEF FrameInv, FrameType
<1>3. /\ t \in Nat /\ w \in Nat /\ Desired \in Nat /\ Samples \in Nat \ {0}
  BY <1>2, FrameAssumption
<1>4. q \in 0 .. Samples - 1
  BY <1>2, <1>3, RemainderSteps
<1> HIDE DEF t, q
<1>5. /\ times' \in Seq(Nat) /\ Len(times') = count + 1 /\ times'[count + 1] = t
      /\ \A i \in 1 .. count : times'[i] = times[i]
  BY <1>1, <1>2, <1>3, AppendProperties
<1>6. Slept(w, over) \in Nat /\ w + Slept(w, over) >= Desired /\ now' = now + (w + Slept(w, over))
  <2>1. Slept(w, over) \in Nat /\ w + Slept(w, over) >= Desired
    BY <1>3, FrameAssumption DEF Slept, Delay
  <2>2. now' = now + (w + Slept(w, over))
    BY <1>1, <1>2, <1>3, <2>1
  <2> QED BY <2>1, <2>2
<1>7. /\ frame' \in [start : Nat, prev : Nat, time : Nat, open : BOOLEAN]
      /\ frame'.open = FALSE /\ frame'.start = frame.start /\ frame'.prev = frame.prev
  BY <1>1, <1>2
<1>8. FrameType'
  <2>1. frameTimes' \in [0 .. Samples - 1 -> Nat] /\ now' \in Nat /\ count' \in Nat
    <3>1. frameTimes' \in [0 .. Samples - 1 -> Nat]
      BY <1>1, <1>2, <1>3, <1>4
    <3>2. now' \in Nat /\ count' \in Nat
      BY <1>1, <1>2, <1>3, <1>6
    <3> QED BY <3>1, <3>2
  <2> QED BY <1>1, <1>5, <1>7, <2>1 DEF FrameType
<1>9. frame.start = frame.prev /\ frame.start = now /\ (count > 0 => t >= Desired) /\ FramesAreLimited
  BY <1>1 DEF FrameInv, PaceInv, t
<1>10. FramesAreLimited'
  <2> SUFFICES ASSUME NEW i \in 2 .. count + 1
               PROVE  times'[i] >= Desired
    BY <1>5 DEF FramesAreLimited
  <2>1. CASE i = count + 1
    <3>1. count > 0
      BY <1>2, <2>1
    <3> QED BY <1>5, <1>9, <2>1, <3>1
  <2>2. CASE i # count + 1
    <3>1. i \in 1 .. count /\ i \in 2 .. Len(times)
      BY <1>2, <2>2
    <3> QED BY <1>5, <1>9, <3>1 DEF FramesAreLimited
  <2> QED BY <2>1, <2>2
<1>11. now' - frame'.prev = w + Slept(w, over) /\ frame'.prev <= now'
  <2> DEFINE d == w + Slept(w, over)
  <2>1. d \in Nat
    BY <1>3, <1>6
  <2> HIDE DEF d
  <2>2. now' = now + d /\ frame'.prev = now
    BY <1>6, <1>7, <1>9 DEF d
  <2>3. now' - frame'.prev = d /\ frame'.prev <= now'
    BY <1>2, <2>1, <2>2
  <2> QED BY <2>3 DEF d
<1>12. PaceInv'
  BY <1>6, <1>7, <1>9, <1>10, <1>11 DEF PaceInv
<1> QED BY <1>8, <1>12

LEMMA EndFrameRing ==
  ASSUME FrameInv, NEW w \in Works, NEW over \in Waits, EndFrame(w, over) PROVE RingOfTimes'
<1> DEFINE t == frame.time
           q == count % Samples
           r == [frameTimes EXCEPT ![q] = t]
           ts == Append(times, t)
           n == count + 1
<1>1. /\ frameTimes' = r /\ count' = n /\ times' = ts
      /\ average' = Averaged(r, n)
  BY DEF EndFrame, StoredTime
<1>2. /\ frameTimes \in [0 .. Samples - 1 -> Nat] /\ count \in Nat /\ times \in Seq(Nat) /\ Len(times) = count /\ t \in Nat
  BY DEF FrameInv, FrameType
<1>3. Samples \in Nat \ {0}
  BY FrameAssumption
<1>4. /\ q \in 0 .. Samples - 1 /\ (count < Samples => q = count)
      /\ n % Samples = IF q = Samples - 1 THEN 0 ELSE q + 1
  BY <1>2, <1>3, RemainderSteps
<1>5. ts \in Seq(Nat) /\ Len(ts) = n /\ ts[n] = t /\ \A i \in 1 .. count : ts[i] = times[i]
  BY <1>2, AppendProperties
<1>6. r \in [0 .. Samples - 1 -> Nat] /\ r[q] = t /\ \A i \in 0 .. Samples - 1 : i # q => r[i] = frameTimes[i]
  BY <1>2, <1>4
<1>7. \A k \in 1 .. Samples : k <= count => frameTimes[Ago(q, k)] = times[count + 1 - k]
  BY DEF FrameInv, RingOfTimes
<1>8. SumOf(frameTimes, 0 .. Taken(count) - 1) = SumOf(times, count - Taken(count) + 1 .. count)
  BY DEF FrameInv, RingOfTimes
<1>9. n \in Nat /\ n # 0
  BY <1>2
<1> HIDE DEF t, q, r, ts
<1>10. \A k \in 1 .. Samples : k <= n => r[Ago(n % Samples, k)] = ts[n + 1 - k]
  <2> SUFFICES ASSUME NEW k \in 1 .. Samples, k <= n PROVE r[Ago(n % Samples, k)] = ts[n + 1 - k]
    OBVIOUS
  <2>1. CASE k = 1
    <3>1. Ago(n % Samples, k) = q
      BY <1>3, <1>4, <2>1 DEF Ago
    <3>2. n + 1 - k = n
      BY <1>9, <2>1
    <3> QED BY <1>5, <1>6, <3>1, <3>2
  <2>2. CASE k # 1
    <3>1. k - 1 \in 1 .. Samples /\ k - 1 <= count
      BY <1>2, <1>3, <2>2
    <3>2. Ago(n % Samples, k) = Ago(q, k - 1) /\ Ago(q, k - 1) \in 0 .. Samples - 1 /\ Ago(q, k - 1) # q
      BY <1>3, <1>4, <2>2 DEF Ago
    <3>3. count + 1 - (k - 1) = n + 1 - k /\ n + 1 - k \in 1 .. count
      BY <1>2, <1>3, <2>2
    <3>4. frameTimes[Ago(q, k - 1)] = times[n + 1 - k]
      BY <1>7, <3>1, <3>3
    <3> QED BY <1>5, <1>6, <3>2, <3>3, <3>4
  <2> QED BY <2>1, <2>2
<1>11. /\ \A S : S \subseteq 0 .. Samples - 1 => IsFiniteSet(S) /\ \A i \in S : frameTimes[i] \in Nat /\ r[i] \in Nat
       /\ \A S : S \subseteq 1 .. n => IsFiniteSet(S) /\ \A i \in S : ts[i] \in Nat
       /\ \A i \in 1 .. count : times[i] \in Nat
  <2>1. IsFiniteSet(0 .. Samples - 1) /\ IsFiniteSet(1 .. n)
    BY <1>3, <1>9, FS_Interval
  <2>2. \A S : S \subseteq 0 .. Samples - 1 => IsFiniteSet(S)
    BY <2>1, FS_Subset
  <2>3. \A S : S \subseteq 1 .. n => IsFiniteSet(S)
    BY <2>1, FS_Subset
  <2>4. \A i \in 1 .. n : ts[i] \in Nat
    BY <1>5, ElementOfSeq
  <2>5. \A i \in 1 .. count : times[i] \in Nat
    BY <1>2, ElementOfSeq
  <2> QED BY <1>2, <1>6, <2>2, <2>3, <2>4, <2>5
<1>12. SumOf(r, 0 .. Taken(n) - 1) = SumOf(ts, n - Taken(n) + 1 .. n)
  <2>1. CASE count < Samples
    <3>1. Taken(n) = n /\ Taken(count) = count /\ q = count
      BY <1>2, <1>3, <1>4, <2>1 DEF Taken
    <3> DEFINE D == 0 .. n - 1
               C == 0 .. count - 1
               E == 1 .. n
               F == 1 .. count
    <3>2. /\ D \subseteq 0 .. Samples - 1 /\ C \subseteq 0 .. Samples - 1 /\ q \in D /\ D \ {q} = C
          /\ n \in E /\ E \ {n} = F /\ F \subseteq 1 .. n
      BY <1>2, <1>3, <2>1, <3>1
    <3>3. 0 .. Taken(n) - 1 = D /\ n - Taken(n) + 1 .. n = E /\ 0 .. Taken(count) - 1 = C /\ count - Taken(count) + 1 .. count = F
      BY <1>2, <1>9, <3>1
    <3>4. \A i \in C : i # q /\ frameTimes[i] = r[i]
      BY <1>6, <3>2
    <3>5. \A i \in F : times[i] = ts[i]
      BY <1>5
    <3>6. SumOf(frameTimes, C) = SumOf(times, F)
      BY <1>8, <3>3
    <3> HIDE DEF C, D, E, F, n
    <3>7. SumOf(r, D) = t + SumOf(r, C)
      BY <1>6, <1>11, <3>2, SumOfSplit
    <3>8. SumOf(frameTimes, C) = SumOf(r, C)
      BY <1>11, <3>2, <3>4, SumOfSame
    <3>9. SumOf(ts, E) = t + SumOf(ts, F)
      <4>1. SumOf(ts, E) = ts[n] + SumOf(ts, E \ {n})
        <5>1. E \subseteq 1 .. n
          BY DEF E
        <5> QED BY <1>11, <3>2, <5>1, SumOfSplit
      <4> QED BY <1>5, <3>2, <4>1
    <3>10. SumOf(ts, F) = SumOf(times, F)
      BY <1>11, <3>2, <3>5, SumOfSame
    <3> QED BY <3>3, <3>6, <3>7, <3>8, <3>9, <3>10
  <2>2. CASE ~ (count < Samples)
    <3>1. Taken(n) = Samples /\ Taken(count) = Samples
      BY <1>2, <1>3, <2>2 DEF Taken
    <3> DEFINE D == 0 .. Samples - 1
               o == count - Samples + 1
               E == n - Samples + 1 .. n
               F == o .. count
               G == n - Samples + 1 .. count
    <3>2. /\ D \subseteq 0 .. Samples - 1 /\ q \in D /\ D \ {q} \subseteq 0 .. Samples - 1
          /\ n \in E /\ E \ {n} = G /\ o \in F /\ F \ {o} = G
          /\ E \subseteq 1 .. n /\ F \subseteq 1 .. n /\ G \subseteq 1 .. n /\ F \subseteq 1 .. count /\ G \subseteq 1 .. count
      <4>1. q \in D /\ D \ {q} \subseteq 0 .. Samples - 1
        BY <1>4
      <4>2. n \in E /\ E \subseteq 1 .. n /\ G \subseteq 1 .. n /\ G \subseteq 1 .. count
        BY <1>2, <1>3, <2>2
      <4>5. E \ {n} = G
        <5> DEFINE a == n - Samples + 1
        <5>1. a \in Int /\ a <= n
          BY <1>2, <1>3
        <5>2. E = a .. n /\ G = a .. count
          OBVIOUS
        <5> HIDE DEF a, E, G
        <5>3. (a .. n) \ {n} = a .. count
          BY <1>2, <5>1
        <5> QED BY <5>2, <5>3
      <4>3. o \in F /\ F \subseteq 1 .. n /\ F \subseteq 1 .. count
        BY <1>2, <1>3, <2>2
      <4>4. F \ {o} = G
        <5>1. n - Samples + 1 = o + 1 /\ o \in Int
          BY <1>2, <1>3
        <5> HIDE DEF o, n
        <5> QED BY <1>2, <5>1
      <4> QED BY <4>1, <4>2, <4>3, <4>4, <4>5
    <3>3. 0 .. Taken(n) - 1 = D /\ n - Taken(n) + 1 .. n = E /\ 0 .. Taken(count) - 1 = D /\ count - Taken(count) + 1 .. count = F
      BY <3>1
    <3>4. \A i \in D \ {q} : frameTimes[i] = r[i]
      BY <1>6
    <3>5. \A i \in G : times[i] = ts[i]
      BY <1>5, <3>2
    <3>6. SumOf(frameTimes, D) = SumOf(times, F)
      BY <1>8, <3>3
    <3>7. frameTimes[q] = times[o]
      <4>1. Samples \in 1 .. Samples /\ Samples <= count /\ Ago(q, Samples) = q /\ count + 1 - Samples = o
        BY <1>2, <1>3, <1>4, <2>2 DEF Ago
      <4> QED BY <1>7, <4>1
    <3>8. \A i \in F : times[i] \in Nat
      BY <1>11, <3>2
    <3>9. times[o] \in Nat
      BY <3>2, <3>8
    <3> HIDE DEF D, E, F, G, n, o
    <3>10. SumOf(r, D) = t + SumOf(r, D \ {q})
      BY <1>6, <1>11, <3>2, SumOfSplit
    <3>11. SumOf(frameTimes, D) = frameTimes[q] + SumOf(frameTimes, D \ {q})
      BY <1>11, <3>2, SumOfSplit
    <3>12. SumOf(frameTimes, D \ {q}) = SumOf(r, D \ {q})
      BY <1>11, <3>2, <3>4, SumOfSame
    <3>13. SumOf(ts, E) = t + SumOf(ts, G)
      <4>1. SumOf(ts, E) = ts[n] + SumOf(ts, E \ {n})
        BY <1>11, <3>2, SumOfSplit
      <4> QED BY <1>5, <3>2, <4>1
    <3>14. SumOf(times, F) = times[o] + SumOf(times, G)
      <4>1. IsFiniteSet(F)
        BY <1>11, <3>2
      <4>2. SumOf(times, F) = times[o] + SumOf(times, F \ {o})
        BY <3>2, <3>8, <4>1, SumOfSplit
      <4> QED BY <3>2, <4>2
    <3>15. SumOf(times, G) = SumOf(ts, G)
      <4>1. IsFiniteSet(G) /\ \A i \in G : times[i] \in Nat
        BY <1>11, <3>2
      <4> QED BY <3>5, <4>1, SumOfSame
    <3>16. SumOf(r, D \ {q}) \in Nat /\ SumOf(ts, G) \in Nat
      BY <1>11, <3>2, SumOfSplit
    <3>17. SumOf(frameTimes, D \ {q}) = SumOf(times, G)
      <4>1. times[o] + SumOf(r, D \ {q}) = times[o] + SumOf(ts, G)
        BY <3>6, <3>7, <3>11, <3>12, <3>14, <3>15
      <4>2. SumOf(r, D \ {q}) = SumOf(ts, G)
        BY <3>9, <3>16, <4>1
      <4> QED BY <3>12, <3>15, <4>2
    <3> QED BY <3>3, <3>10, <3>12, <3>13, <3>15, <3>17
  <2> QED BY <2>1, <2>2
<1>13. average' = <<SumOf(r, 0 .. Taken(n) - 1), Taken(n)>>
  BY <1>1 DEF Averaged, SumOf, Taken
<1>14. /\ \A k \in 1 .. Samples : k <= count' => frameTimes'[Ago(count' % Samples, k)] = times'[count' + 1 - k]
       /\ SumOf(frameTimes', 0 .. Taken(count') - 1) = SumOf(times', count' - Taken(count') + 1 .. count')
       /\ average' = <<SumOf(times', count' - Taken(count') + 1 .. count'), Taken(count')>>
  <2> HIDE DEF n
  <2> QED BY <1>1, <1>10, <1>12, <1>13
<1> QED BY <1>14 DEF RingOfTimes

LEMMA FrameStep == FrameInv /\ [FrameNext]_frameVars => FrameInv'
<1> SUFFICES ASSUME FrameInv, [FrameNext]_frameVars PROVE FrameInv'
  OBVIOUS
<1>1. CASE UNCHANGED frameVars
  BY <1>1 DEF frameVars, FrameInv, FrameType, PaceInv, FramesAreLimited, RingOfTimes
<1>2. ASSUME NEW w \in Works, NEW over \in Waits, EndFrame(w, over) PROVE FrameInv'
  BY <1>2, EndFramePace, EndFrameRing DEF FrameInv
<1> QED BY <1>1, <1>2, BeginFrameInv DEF FrameNext, LastFrame

LEMMA RingIsAverage == FrameInv => AverageOfLast
<1> SUFFICES ASSUME FrameInv PROVE AverageOfLast
  OBVIOUS
<1>1. /\ count \in Nat /\ Len(times) = count
      /\ average = <<SumOf(times, count - Taken(count) + 1 .. count), Taken(count)>>
  BY DEF FrameInv, FrameType, RingOfTimes
<1>2. average[2] = Taken(count) /\ average[1] = SumOf(times, count - Taken(count) + 1 .. count)
  BY <1>1
<1>3. Taken(count) = Min({Samples, Len(times)})
  <2> DEFINE I == {Samples, count}
  <2>1. I \subseteq Nat /\ I # {}
    BY <1>1, FrameAssumption
  <2>2. Min(I) \in I /\ \A j \in I : Min(I) <= j
    <3> HIDE DEF I
    <3> QED BY <2>1, LeastIsIn
  <2>3. Min(I) \in {Samples, count} /\ Min(I) <= Samples /\ Min(I) <= count
    BY <2>2
  <2> HIDE DEF I
  <2>4. Min(I) = Taken(count)
    BY <1>1, <2>3, FrameAssumption DEF Taken
  <2> QED BY <1>1, <2>4 DEF I
<1>4. average[1] = MapThenSumSet(LAMBDA i : times[i], Len(times) - average[2] + 1 .. Len(times))
  BY <1>1, <1>2 DEF SumOf
<1> QED BY <1>2, <1>3, <1>4 DEF AverageOfLast

\* Camera and frame rate: once update() has run, the matrix is that of the camera
\* that is on the screen it was made for; a zoom ends in the range whatever was
\* set before; the frame rate is the average of just the last frames, however
\* often the ring has gone round; and no frame but the first is shorter than it
\* should be, however long work, swaps and delays take.
THEOREM ViewAndPaceHold == Spec => []ViewAndPace
<1>1. Init => CameraInv /\ FrameInv
  BY CameraInitInv, FrameInitInv DEF Init
<1>2. CameraInv /\ FrameInv /\ [Next]_vars => CameraInv' /\ FrameInv'
  BY PartSteps, CameraStep, FrameStep
<1>3. CameraInv /\ FrameInv => ViewAndPace
  BY RingIsAverage DEF CameraInv, FrameInv, PaceInv, ViewAndPace
<1> QED BY <1>1, <1>2, <1>3, PTL DEF Spec

-----------------------------------------------------------------------------
(* DebugRenderer: shapes, and the vertices and lines drawn for them        *)

VerticesOf(vs, s) == {v \in DOMAIN vs : vs[v] = s}

\* Both ends of line k of is are vertices of shape s.
Joins(vs, is, k, s) ==
  /\ is[2 * k - 1] < Len(vs) /\ is[2 * k] < Len(vs)
  /\ vs[is[2 * k - 1] + 1] = s /\ vs[is[2 * k] + 1] = s

\* The vertices vs and the indices is are those of shapes 1 .. N, each with as
\* many points and lines as points and lines tell.
Tallies(vs, is, points, lines, N) ==
  /\ N \in Nat /\ points \in [1 .. N -> Nat] /\ lines \in [1 .. N -> Nat]
  /\ vs \in Seq(1 .. N) /\ is \in Seq(Nat)
  /\ \E m \in Nat : Len(is) = 2 * m
  /\ \A k \in LineNumbers(is) : \E s \in 1 .. N : Joins(vs, is, k, s)
  /\ \A s \in 1 .. N : /\ Cardinality(VerticesOf(vs, s)) = points[s]
                       /\ Cardinality(LinesOf(vs, is, s)) = lines[s]

With(f, N, n) == [s \in 1 .. N + 1 |-> IF s = N + 1 THEN n ELSE f[s]]

LEMMA LineNumbersAre ==
    ASSUME NEW is, NEW m \in Nat, Len(is) = 2 * m
    PROVE  LineNumbers(is) = 1 .. m
BY DEF LineNumbers

\* New vertices of a new shape leave every line where it is.
LEMMA VerticesAdded ==
    ASSUME NEW vs, NEW is, NEW points, NEW lines, NEW N, Tallies(vs, is, points, lines, N), NEW n \in Nat
    PROVE  Tallies(vs \o Vertices(N + 1, n), is, With(points, N, n), With(lines, N, 0), N + 1)
<1> DEFINE w == Vertices(N + 1, n)
           us == vs \o w
<1>1. /\ N \in Nat /\ N + 1 \in Nat /\ vs \in Seq(1 .. N) /\ vs \in Seq(1 .. N + 1) /\ is \in Seq(Nat)
      /\ points \in [1 .. N -> Nat] /\ lines \in [1 .. N -> Nat]
  BY DEF Tallies
<1>2. w \in Seq(1 .. N + 1) /\ Len(w) = n /\ \A j \in 1 .. n : w[j] = N + 1
  BY <1>1 DEF Vertices
<1> HIDE DEF w
<1>3. /\ us \in Seq(1 .. N + 1) /\ Len(us) = Len(vs) + n
      /\ \A j \in 1 .. Len(vs) : us[j] = vs[j]
      /\ \A j \in Len(vs) + 1 .. Len(vs) + n : us[j] = N + 1
      /\ DOMAIN us = 1 .. Len(vs) + n /\ DOMAIN vs = 1 .. Len(vs) /\ Len(vs) \in Nat
      /\ \A j \in 1 .. Len(vs) : vs[j] \in 1 .. N
  <2> DEFINE S == 1 .. N + 1
  <2>0. vs \in Seq(S) /\ w \in Seq(S)
    BY <1>1, <1>2
  <2> HIDE DEF S
  <2>1. /\ us \in Seq(S) /\ Len(us) = Len(vs) + Len(w) /\ Len(vs) \in Nat /\ Len(w) \in Nat
        /\ DOMAIN us = 1 .. Len(vs) + Len(w)
        /\ DOMAIN vs = 1 .. Len(vs)
        /\ \A j \in 1 .. Len(vs) : us[j] = vs[j] /\ vs[j] \in S
        /\ \A j \in Len(vs) + 1 .. Len(vs) + Len(w) : us[j] = w[j - Len(vs)] /\ j - Len(vs) \in 1 .. Len(w)
    BY <2>0, Concats
  <2>2. \A j \in 1 .. Len(vs) : vs[j] \in 1 .. N
    BY <1>1, ElementOfSeq
  <2> HIDE DEF us
  <2> QED BY <1>2, <2>1, <2>2 DEF S
<1> HIDE DEF us
<1>4. PICK m \in Nat : Len(is) = 2 * m
  BY DEF Tallies
<1>5. LineNumbers(is) = 1 .. m
  BY <1>4, LineNumbersAre
<1>6. \A k \in 1 .. m : is[2 * k - 1] \in Nat /\ is[2 * k] \in Nat
  BY <1>1, <1>4
<1>7. ASSUME NEW k \in 1 .. m
      PROVE  \E s \in 1 .. N : /\ Joins(vs, is, k, s) /\ Joins(us, is, k, s)
                               /\ vs[is[2 * k - 1] + 1] = s /\ us[is[2 * k - 1] + 1] = s
  <2>1. PICK s \in 1 .. N : Joins(vs, is, k, s)
    BY <1>5 DEF Tallies
  <2>2. /\ is[2 * k - 1] < Len(vs) /\ is[2 * k] < Len(vs)
        /\ vs[is[2 * k - 1] + 1] = s /\ vs[is[2 * k] + 1] = s
    BY <2>1 DEF Joins
  <2>3. is[2 * k - 1] + 1 \in 1 .. Len(vs) /\ is[2 * k] + 1 \in 1 .. Len(vs)
    BY <1>6, <1>3, <2>2
  <2>4. us[is[2 * k - 1] + 1] = s /\ us[is[2 * k] + 1] = s
    BY <1>3, <2>2, <2>3
  <2>5. is[2 * k - 1] < Len(us) /\ is[2 * k] < Len(us)
    BY <1>3, <1>6, <2>2
  <2> QED BY <2>1, <2>2, <2>4, <2>5 DEF Joins
<1>8. \A s : LinesOf(vs, is, s) = {k \in 1 .. m : vs[is[2 * k - 1] + 1] = s}
  BY <1>5 DEF LinesOf, Line
<1>9. \A s : LinesOf(us, is, s) = {k \in 1 .. m : us[is[2 * k - 1] + 1] = s}
  BY <1>5 DEF LinesOf, Line
<1>10. ASSUME NEW s \in 1 .. N + 1
       PROVE  /\ Cardinality(VerticesOf(us, s)) = With(points, N, n)[s]
              /\ Cardinality(LinesOf(us, is, s)) = With(lines, N, 0)[s]
  <2>1. CASE s = N + 1
    <3>1. VerticesOf(us, s) = Len(vs) + 1 .. Len(vs) + n
      <4>1. VerticesOf(us, s) = {v \in 1 .. Len(vs) + n : us[v] = N + 1}
        BY <1>3, <2>1 DEF VerticesOf
      <4>2. \A v \in 1 .. Len(vs) + n : us[v] = N + 1 <=> v \in Len(vs) + 1 .. Len(vs) + n
        <5> SUFFICES ASSUME NEW v \in 1 .. Len(vs) + n
                     PROVE  us[v] = N + 1 <=> v \in Len(vs) + 1 .. Len(vs) + n
          OBVIOUS
        <5>1. CASE v \in 1 .. Len(vs)
          <6>1. us[v] \in 1 .. N
            BY <1>3, <5>1
          <6>2. us[v] # N + 1 /\ v \notin Len(vs) + 1 .. Len(vs) + n
            <7>1. N \in Nat /\ Len(vs) \in Nat
              BY <1>1, <1>3
            <7> QED BY <5>1, <6>1, <7>1
          <6> QED BY <6>2
        <5>2. CASE v \in Len(vs) + 1 .. Len(vs) + n
          BY <1>3, <5>2
        <5> QED BY <1>3, <5>1, <5>2
      <4>3. Len(vs) + 1 .. Len(vs) + n \subseteq 1 .. Len(vs) + n
        BY <1>3
      <4> QED BY <4>1, <4>2, <4>3
    <3>2. Cardinality(Len(vs) + 1 .. Len(vs) + n) = n
      BY <1>3, FS_Interval
    <3>3. LinesOf(us, is, s) = {}
      <4>1. \A k \in 1 .. m : us[is[2 * k - 1] + 1] \in 1 .. N
        BY <1>7
      <4>2. s \notin 1 .. N
        BY <1>1, <2>1
      <4> QED BY <1>9, <4>1, <4>2
    <3> QED BY <1>1, <2>1, <3>1, <3>2, <3>3, FS_EmptySet DEF With
  <2>2. CASE s # N + 1
    <3>1. s \in 1 .. N
      BY <1>1, <2>2
    <3>2. VerticesOf(us, s) = VerticesOf(vs, s)
      <4>1. \A v \in Len(vs) + 1 .. Len(vs) + n : us[v] # s
        BY <1>3, <2>2
      <4>2. \A v : v \in 1 .. Len(vs) + n <=> v \in 1 .. Len(vs) \/ v \in Len(vs) + 1 .. Len(vs) + n
        BY <1>3
      <4> QED BY <1>3, <4>1, <4>2 DEF VerticesOf
    <3>3. LinesOf(us, is, s) = LinesOf(vs, is, s)
      BY <1>7, <1>8, <1>9
    <3>4. Cardinality(VerticesOf(vs, s)) = points[s] /\ Cardinality(LinesOf(vs, is, s)) = lines[s]
      BY <3>1 DEF Tallies
    <3> QED BY <2>2, <3>2, <3>3, <3>4 DEF With
  <2> QED BY <2>1, <2>2
<1>11. With(points, N, n) \in [1 .. N + 1 -> Nat] /\ With(lines, N, 0) \in [1 .. N + 1 -> Nat]
  BY <1>1 DEF With
<1>12. \A k \in LineNumbers(is) : \E s \in 1 .. N + 1 : Joins(us, is, k, s)
  BY <1>1, <1>5, <1>7
<1> HIDE DEF With
<1>13. Tallies(us, is, With(points, N, n), With(lines, N, 0), N + 1)
  BY <1>1, <1>3, <1>4, <1>10, <1>11, <1>12 DEF Tallies
<1> QED BY <1>13 DEF us, w

\* e has n lines, all of shape c.
LinesOfShape(vs, e, n, c) == e \in Seq(Nat) /\ Len(e) = 2 * n /\ \A k \in 1 .. n : Joins(vs, e, k, c)

\* New lines of a shape leave those before as they are.
LEMMA LinesAdded ==
    ASSUME NEW vs, NEW is, NEW points, NEW lines, NEW N, Tallies(vs, is, points, lines, N),
           NEW c \in 1 .. N, NEW n \in Nat, NEW e, LinesOfShape(vs, e, n, c)
    PROVE  Tallies(vs, is \o e, points, [lines EXCEPT ![c] = @ + n], N)
<1> DEFINE es == is \o e
           more == [lines EXCEPT ![c] = @ + n]
<1>1. /\ N \in Nat /\ vs \in Seq(1 .. N) /\ is \in Seq(Nat) /\ e \in Seq(Nat) /\ Len(e) = 2 * n
      /\ points \in [1 .. N -> Nat] /\ lines \in [1 .. N -> Nat]
  BY DEF Tallies, LinesOfShape
<1>2. PICK m \in Nat : Len(is) = 2 * m
  BY DEF Tallies
<1>3. es \in Seq(Nat) /\ Len(es) = 2 * (m + n) /\ m + n \in Nat
  <2>1. es \in Seq(Nat) /\ Len(es) = Len(is) + Len(e)
    BY <1>1, ConcatProperties
  <2> HIDE DEF es
  <2> QED BY <1>1, <1>2, <2>1
<1>4. \A k \in 1 .. m : es[2 * k - 1] = is[2 * k - 1] /\ es[2 * k] = is[2 * k]
  <2>1. \A j \in 1 .. 2 * m : es[j] = is[j]
    BY <1>1, <1>2, Concats
  <2>2. \A k \in 1 .. m : 2 * k - 1 \in 1 .. 2 * m /\ 2 * k \in 1 .. 2 * m
    OBVIOUS
  <2> HIDE DEF es
  <2> QED BY <2>1, <2>2
<1>5. \A k \in 1 .. n : es[2 * (m + k) - 1] = e[2 * k - 1] /\ es[2 * (m + k)] = e[2 * k]
  <2> SUFFICES ASSUME NEW k \in 1 .. n
               PROVE  es[2 * (m + k) - 1] = e[2 * k - 1] /\ es[2 * (m + k)] = e[2 * k]
    OBVIOUS
  <2>1. 2 * (m + k) - 1 \in 2 * m + 1 .. 2 * m + 2 * n /\ 2 * (m + k) \in 2 * m + 1 .. 2 * m + 2 * n
    OBVIOUS
  <2>2. \A j \in 2 * m + 1 .. 2 * m + 2 * n : es[j] = e[j - 2 * m]
    <3>1. \A j \in Len(is) + 1 .. Len(is) + Len(e) : es[j] = e[j - Len(is)]
      BY <1>1, Concats
    <3> HIDE DEF es
    <3> QED BY <1>1, <1>2, <3>1
  <2>3. 2 * (m + k) - 1 - 2 * m = 2 * k - 1 /\ 2 * (m + k) - 2 * m = 2 * k
    OBVIOUS
  <2> HIDE DEF es
  <2> QED BY <2>1, <2>2, <2>3
<1> HIDE DEF es
<1>6. LineNumbers(is) = 1 .. m /\ LineNumbers(es) = 1 .. m + n
  BY <1>2, <1>3, LineNumbersAre
<1>7. \A k \in 1 .. m : \A s : Joins(vs, es, k, s) <=> Joins(vs, is, k, s)
  BY <1>4 DEF Joins
<1>8. \A k \in m + 1 .. m + n : Joins(vs, es, k, c)
  <2> SUFFICES ASSUME NEW k \in m + 1 .. m + n PROVE Joins(vs, es, k, c)
    OBVIOUS
  <2>1. k - m \in 1 .. n /\ m + (k - m) = k
    OBVIOUS
  <2>2. Joins(vs, e, k - m, c)
    BY <2>1 DEF LinesOfShape
  <2>3. es[2 * k - 1] = e[2 * (k - m) - 1] /\ es[2 * k] = e[2 * (k - m)]
    BY <1>5, <2>1
  <2> QED BY <2>2, <2>3 DEF Joins
<1>9. \A k \in LineNumbers(es) : \E s \in 1 .. N : Joins(vs, es, k, s)
  <2>1. \A k \in 1 .. m : \E s \in 1 .. N : Joins(vs, is, k, s)
    BY <1>6 DEF Tallies
  <2>2. \A k \in 1 .. m + n : k \in 1 .. m \/ k \in m + 1 .. m + n
    OBVIOUS
  <2> QED BY <1>6, <1>7, <1>8, <2>1, <2>2
<1>10. ASSUME NEW s \in 1 .. N
       PROVE  Cardinality(LinesOf(vs, es, s)) = more[s]
  <2>1. LinesOf(vs, is, s) = {k \in 1 .. m : vs[is[2 * k - 1] + 1] = s}
    BY <1>6 DEF LinesOf, Line
  <2>2. LinesOf(vs, es, s) = {k \in 1 .. m + n : vs[es[2 * k - 1] + 1] = s}
    BY <1>6 DEF LinesOf, Line
  <2>3. Cardinality(LinesOf(vs, is, s)) = lines[s]
    BY DEF Tallies
  <2>4. \A k \in m + 1 .. m + n : vs[es[2 * k - 1] + 1] = c
    BY <1>8 DEF Joins
  <2>5. CASE s = c
    <3>1. LinesOf(vs, es, s) = LinesOf(vs, is, s) \cup (m + 1 .. m + n)
      BY <1>4, <2>1, <2>2, <2>4, <2>5
    <3>2. LinesOf(vs, is, s) \cap (m + 1 .. m + n) = {}
      BY <2>1
    <3>3. IsFiniteSet(m + 1 .. m + n) /\ Cardinality(m + 1 .. m + n) = n
      <4>1. m + 1 \in Int /\ m + n \in Int
        OBVIOUS
      <4>2. IsFiniteSet(m + 1 .. m + n) /\ Cardinality(m + 1 .. m + n) = IF m + 1 > m + n THEN 0 ELSE m + n - (m + 1) + 1
        BY <4>1, FS_Interval
      <4> QED BY <4>2
    <3>4. IsFiniteSet(LinesOf(vs, is, s))
      <4>1. IsFiniteSet(1 .. m) /\ LinesOf(vs, is, s) \in SUBSET (1 .. m)
        BY <2>1, FS_Interval
      <4> QED BY <4>1, FS_Subset
    <3>5. Cardinality(LinesOf(vs, es, s)) = lines[s] + n
      <4> DEFINE A == LinesOf(vs, is, s)
                 B == m + 1 .. m + n
      <4>1. IsFiniteSet(A) /\ IsFiniteSet(B) /\ A \cap B = {} /\ Cardinality(A) = lines[s] /\ Cardinality(B) = n
        BY <2>3, <3>2, <3>3, <3>4
      <4>2. LinesOf(vs, es, s) = A \cup B
        BY <3>1
      <4> HIDE DEF A, B
      <4>3. Cardinality(A \cup B) = Cardinality(A) + Cardinality(B) - Cardinality(A \cap B)
        BY <4>1, FS_Union
      <4>4. Cardinality(A \cap B) = 0
        BY <4>1, FS_EmptySet
      <4>5. lines[s] \in Nat
        BY <1>1
      <4> QED BY <4>1, <4>2, <4>3, <4>4, <4>5
    <3> QED BY <1>1, <2>5, <3>5
  <2>6. CASE s # c
    <3>1. LinesOf(vs, es, s) = LinesOf(vs, is, s)
      BY <1>4, <2>1, <2>2, <2>4, <2>6
    <3> QED BY <1>1, <2>3, <2>6, <3>1
  <2> QED BY <2>5, <2>6
<1>11. more \in [1 .. N -> Nat]
  BY <1>1
<1>12. \A s \in 1 .. N : Cardinality(VerticesOf(vs, s)) = points[s]
  BY DEF Tallies
<1> HIDE DEF more
<1>13. Tallies(vs, es, points, more, N)
  BY <1>1, <1>3, <1>9, <1>10, <1>11, <1>12 DEF Tallies
<1> QED BY <1>13 DEF es, more

ShapeType == [kind : {"loop", "chain"}, points : Nat]

\* The lines of a shape, as AllBuffered has them.
LinesOfOne(sh) == IF sh.kind = "loop" THEN sh.points ELSE Max({0, sh.points - 1})

PointsFor(ss) == [s \in 1 .. Len(ss) |-> ss[s].points]
LinesFor(ss) == [s \in 1 .. Len(ss) |-> LinesOfOne(ss[s])]

ShapesTally(vs, is, ss) == ss \in Seq(ShapeType) /\ Tallies(vs, is, PointsFor(ss), LinesFor(ss), Len(ss))

LEMMA MaxOfTwo == ASSUME NEW n \in Nat PROVE Max({0, n - 1}) = IF n = 0 THEN 0 ELSE n - 1
<1> DEFINE m == IF n = 0 THEN 0 ELSE n - 1
<1>1. m \in {0, n - 1} /\ \A y \in {0, n - 1} : m >= y
  OBVIOUS
<1>2. \A x \in {0, n - 1} : (\A y \in {0, n - 1} : x >= y) => x = m
  OBVIOUS
<1> HIDE DEF m
<1>3. Max({0, n - 1}) = m
  BY <1>1, <1>2 DEF Max
<1> QED BY <1>3 DEF m

LEMMA LinesOfOneType == ASSUME NEW sh \in ShapeType PROVE LinesOfOne(sh) \in Nat
<1>1. sh.points \in Nat
  BY DEF ShapeType
<1>2. Max({0, sh.points - 1}) \in Nat
  BY <1>1, MaxOfTwo
<1> QED BY <1>1, <1>2 DEF LinesOfOne

\* A chain and a loop of n vertices, all of shape c, have as many lines as their
\* kind of shape.
LEMMA ChainIsOfShape ==
    ASSUME NEW S, NEW us \in Seq(S), NEW c, NEW i \in Nat, NEW n \in Nat, i + n <= Len(us),
           \A v \in i + 1 .. i + n : us[v] = c
    PROVE  LinesOfShape(us, Chain(i, n), Max({0, n - 1}), c)
<1> DEFINE e == Chain(i, n)
<1>1. CASE n = 0
  <2>1. e \in Seq(Nat) /\ Len(e) = 0
    <3> DEFINE f(D) == [j \in D |-> i + (j \div 2)]
    <3>1. e = f(1 .. 2 * (n - 1))
      BY DEF Chain
    <3>2. 1 .. 2 * (n - 1) = 1 .. 0
      BY <1>1
    <3>3. f(1 .. 0) \in Seq(Nat) /\ Len(f(1 .. 0)) = 0
      OBVIOUS
    <3> HIDE DEF e, f
    <3> QED BY <3>1, <3>2, <3>3
  <2>2. Max({0, n - 1}) = 0
    BY <1>1, MaxOfTwo
  <2> HIDE DEF e
  <2>3. LinesOfShape(us, e, 0, c)
    BY <2>1 DEF LinesOfShape
  <2> QED BY <2>2, <2>3 DEF e
<1>2. CASE n # 0
  <2>1. Max({0, n - 1}) = n - 1 /\ n - 1 \in Nat
    BY <1>2, MaxOfTwo
  <2>2. e \in Seq(Nat) /\ Len(e) = 2 * (n - 1) /\ \A j \in 1 .. 2 * (n - 1) : e[j] = i + (j \div 2)
    <3>1. \A j \in 1 .. 2 * (n - 1) : i + (j \div 2) \in Nat
      OBVIOUS
    <3>2. 2 * (n - 1) \in Nat
      BY <2>1
    <3> DEFINE M == 2 * (n - 1)
               g(j) == i + (j \div 2)
    <3>3. e = [j \in 1 .. M |-> g(j)]
      BY DEF Chain
    <3>4. M \in Nat /\ \A j \in 1 .. M : g(j) \in Nat
      BY <3>1, <3>2
    <3> HIDE DEF e, M, g
    <3>5. e \in Seq(Nat) /\ Len(e) = M /\ \A j \in 1 .. M : e[j] = g(j)
      BY <3>3, <3>4
    <3> QED BY <3>5 DEF M, g
  <2> HIDE DEF e
  <2>3. ASSUME NEW k \in 1 .. n - 1 PROVE Joins(us, e, k, c)
    <3>1. 2 * k - 1 \in 1 .. 2 * (n - 1) /\ 2 * k \in 1 .. 2 * (n - 1)
      BY <1>2
    <3>2. (2 * k - 1) \div 2 = k - 1 /\ (2 * k) \div 2 = k
      OBVIOUS
    <3>3. e[2 * k - 1] = i + (k - 1) /\ e[2 * k] = i + k
      BY <2>2, <3>1, <3>2
    <3>4. i + (k - 1) + 1 \in i + 1 .. i + n /\ i + k + 1 \in i + 1 .. i + n
      OBVIOUS
    <3>5. i + (k - 1) < Len(us) /\ i + k < Len(us)
      <4>1. Len(us) \in Nat
        OBVIOUS
      <4> QED BY <4>1
    <3> QED BY <3>3, <3>4, <3>5 DEF Joins
  <2>4. LinesOfShape(us, e, n - 1, c)
    BY <2>2, <2>3 DEF LinesOfShape
  <2> QED BY <2>1, <2>4 DEF e
<1> QED BY <1>1, <1>2

LEMMA LoopIsOfShape ==
    ASSUME NEW S, NEW us \in Seq(S), NEW c, NEW i \in Nat, NEW n \in Nat \ {0}, i + n <= Len(us),
           \A v \in i + 1 .. i + n : us[v] = c
    PROVE  LinesOfShape(us, Loop(i, n), n, c)
<1> DEFINE e == Chain(i, n)
           l == <<i + n - 1, i>>
           all == Loop(i, n)
<1>1. LinesOfShape(us, e, n - 1, c)
  <2>1. Max({0, n - 1}) = n - 1
    BY MaxOfTwo
  <2>2. LinesOfShape(us, e, Max({0, n - 1}), c)
    BY ChainIsOfShape
  <2> QED BY <2>1, <2>2
<1>2. e \in Seq(Nat) /\ Len(e) = 2 * (n - 1) /\ \A k \in 1 .. n - 1 : Joins(us, e, k, c)
  BY <1>1 DEF LinesOfShape
<1>3. l \in Seq(Nat) /\ Len(l) = 2 /\ l[1] = i + n - 1 /\ l[2] = i
  OBVIOUS
<1>4. all = e \o l
  BY DEF Loop
<1> HIDE DEF e, l, all
<1>5. /\ all \in Seq(Nat) /\ Len(all) = 2 * n
      /\ \A j \in 1 .. 2 * (n - 1) : all[j] = e[j]
      /\ \A j \in 2 * (n - 1) + 1 .. 2 * (n - 1) + 2 : all[j] = l[j - 2 * (n - 1)]
  <2>1. /\ e \o l \in Seq(Nat) /\ Len(e \o l) = Len(e) + Len(l) /\ Len(e) \in Nat /\ Len(l) \in Nat
        /\ DOMAIN (e \o l) = 1 .. Len(e) + Len(l)
        /\ DOMAIN e = 1 .. Len(e)
        /\ \A j \in 1 .. Len(e) : (e \o l)[j] = e[j] /\ e[j] \in Nat
        /\ \A j \in Len(e) + 1 .. Len(e) + Len(l) : (e \o l)[j] = l[j - Len(e)] /\ j - Len(e) \in 1 .. Len(l)
    BY <1>2, <1>3, Concats
  <2>2. Len(e) = 2 * (n - 1) /\ Len(l) = 2 /\ 2 * (n - 1) + 2 = 2 * n
    BY <1>2, <1>3
  <2> QED BY <1>4, <2>1, <2>2
<1>6. all[2 * n - 1] = i + n - 1 /\ all[2 * n] = i
  <2>1. 2 * n - 1 \in 2 * (n - 1) + 1 .. 2 * (n - 1) + 2 /\ 2 * n \in 2 * (n - 1) + 1 .. 2 * (n - 1) + 2
    OBVIOUS
  <2>2. 2 * n - 1 - 2 * (n - 1) = 1 /\ 2 * n - 2 * (n - 1) = 2
    OBVIOUS
  <2> QED BY <1>3, <1>5, <2>1, <2>2
<1>7. ASSUME NEW k \in 1 .. n PROVE Joins(us, all, k, c)
  <2>1. CASE k < n
    <3>1. k \in 1 .. n - 1 /\ 2 * k - 1 \in 1 .. 2 * (n - 1) /\ 2 * k \in 1 .. 2 * (n - 1)
      BY <2>1
    <3>2. all[2 * k - 1] = e[2 * k - 1] /\ all[2 * k] = e[2 * k]
      BY <1>5, <3>1
    <3> QED BY <1>2, <3>1, <3>2 DEF Joins
  <2>2. CASE k = n
    <3>1. i + n - 1 + 1 \in i + 1 .. i + n /\ i + 1 \in i + 1 .. i + n
      OBVIOUS
    <3>2. i + n - 1 < Len(us) /\ i < Len(us)
      <4>1. Len(us) \in Nat
        OBVIOUS
      <4> QED BY <4>1
    <3> QED BY <1>6, <2>2, <3>1, <3>2 DEF Joins
  <2> QED BY <2>1, <2>2
<1>8. LinesOfShape(us, all, n, c)
  BY <1>5, <1>7 DEF LinesOfShape
<1> QED BY <1>8 DEF all

\* The new vertices of shape c at the end of vs.
LEMMA NewVertices ==
    ASSUME NEW N \in Nat, NEW vs \in Seq(1 .. N), NEW n \in Nat
    PROVE  /\ vs \o Vertices(N + 1, n) \in Seq(1 .. N + 1)
           /\ Len(vs \o Vertices(N + 1, n)) = Len(vs) + n
           /\ Len(vs) \in Nat
           /\ \A v \in Len(vs) + 1 .. Len(vs) + n : (vs \o Vertices(N + 1, n))[v] = N + 1
<1> DEFINE S == 1 .. N + 1
           w == Vertices(N + 1, n)
<1>1. vs \in Seq(S) /\ w \in Seq(S) /\ Len(w) = n /\ \A j \in 1 .. n : w[j] = N + 1
  BY DEF Vertices
<1> HIDE DEF S, w
<1>2. /\ vs \o w \in Seq(S) /\ Len(vs \o w) = Len(vs) + Len(w) /\ Len(vs) \in Nat
      /\ \A j \in Len(vs) + 1 .. Len(vs) + Len(w) : (vs \o w)[j] = w[j - Len(vs)] /\ j - Len(vs) \in 1 .. Len(w)
  BY <1>1, Concats
<1> QED BY <1>1, <1>2 DEF S, w

\* One more shape.
LEMMA ShapeAdded ==
    ASSUME NEW vs, NEW is, NEW ss, ShapesTally(vs, is, ss), NEW sh \in ShapeType, NEW e,
           LinesOfShape(vs \o Vertices(Len(ss) + 1, sh.points), e, LinesOfOne(sh), Len(ss) + 1)
    PROVE  ShapesTally(vs \o Vertices(Len(ss) + 1, sh.points), is \o e, ss \o <<sh>>)
<1> DEFINE N == Len(ss)
           n == sh.points
           m == LinesOfOne(sh)
           P == PointsFor(ss)
           L == LinesFor(ss)
           us == vs \o Vertices(N + 1, n)
           tt == ss \o <<sh>>
<1>1. ss \in Seq(ShapeType) /\ Tallies(vs, is, P, L, N) /\ N \in Nat /\ n \in Nat /\ m \in Nat
  BY LinesOfOneType DEF ShapesTally, ShapeType
<1>2. tt \in Seq(ShapeType) /\ Len(tt) = N + 1 /\ (\A s \in 1 .. N : tt[s] = ss[s]) /\ tt[N + 1] = sh
  BY <1>1
<1>3. /\ P \in [1 .. N -> Nat] /\ L \in [1 .. N -> Nat]
      /\ \A s \in 1 .. N : P[s] = ss[s].points /\ L[s] = LinesOfOne(ss[s])
  BY <1>1 DEF Tallies, PointsFor, LinesFor
<1>4. LinesOfShape(us, e, m, N + 1)
  OBVIOUS
<1> HIDE DEF N, n, m, P, L, us, tt
<1>5. Tallies(us, is, With(P, N, n), With(L, N, 0), N + 1)
  BY <1>1, VerticesAdded DEF us
<1>6. Tallies(us, is \o e, With(P, N, n), [With(L, N, 0) EXCEPT ![N + 1] = @ + m], N + 1)
  <2>1. N + 1 \in 1 .. N + 1
    BY <1>1
  <2> QED BY <1>1, <1>4, <1>5, <2>1, LinesAdded
<1>7. With(P, N, n) = PointsFor(tt)
  <2>1. \A s \in 1 .. N + 1 : (IF s = N + 1 THEN n ELSE P[s]) = tt[s].points
    <3>1. \A s \in 1 .. N + 1 : s # N + 1 => s \in 1 .. N
      BY <1>1
    <3> QED BY <1>2, <1>3, <3>1 DEF n
  <2> QED BY <1>2, <2>1 DEF With, PointsFor
<1>8. [With(L, N, 0) EXCEPT ![N + 1] = @ + m] = LinesFor(tt)
  <2>1. \A s \in 1 .. N + 1 : (IF s = N + 1 THEN m ELSE L[s]) = LinesOfOne(tt[s])
    <3>1. \A s \in 1 .. N + 1 : s # N + 1 => s \in 1 .. N
      BY <1>1
    <3> QED BY <1>2, <1>3, <3>1 DEF m
  <2>2. [With(L, N, 0) EXCEPT ![N + 1] = @ + m] = [s \in 1 .. N + 1 |-> IF s = N + 1 THEN m ELSE L[s]]
    <3>1. 0 + m = m /\ N + 1 \in 1 .. N + 1
      BY <1>1
    <3> QED BY <3>1, Zenon DEF With
  <2> QED BY <1>2, <2>1, <2>2 DEF LinesFor
<1>9. ShapesTally(us, is \o e, tt)
  BY <1>2, <1>6, <1>7, <1>8 DEF ShapesTally
<1> QED BY <1>9 DEF us, tt, n, N

\* f tells of shapes 1 .. M, and each of the k after them has n.
Rounds(f, M, k, n) == [s \in 1 .. M + k |-> IF s <= M THEN f[s] ELSE n]

\* A circle around each point of a path.
LEMMA CirclesAdded ==
    ASSUME NEW us, NEW is, NEW points, NEW lines, NEW M, Tallies(us, is, points, lines, M), NEW n \in Nat,
           NEW f, Flattens(Nat, [k \in 1 .. n |-> Vertices(M + k, CircleVerts)], f),
           NEW h, Flattens(Nat, [k \in 1 .. n |-> Loop(Len(us) + (k - 1) * CircleVerts, CircleVerts)], h)
    PROVE  Tallies(us \o f[n], is \o h[n], Rounds(points, M, n, CircleVerts), Rounds(lines, M, n, CircleVerts), M + n)
<1> DEFINE C == CircleVerts
           u == Len(us)
           V(k) == us \o f[k]
           I(k) == is \o h[k]
           P(k) == Rounds(points, M, k, C)
           L(k) == Rounds(lines, M, k, C)
           E == {k \in Nat : k <= n => Tallies(V(k), I(k), P(k), L(k), M + k) /\ Len(V(k)) = u + k * C}
<1>1. /\ M \in Nat /\ us \in Seq(1 .. M) /\ us \in Seq(Nat) /\ is \in Seq(Nat) /\ u \in Nat
      /\ points \in [1 .. M -> Nat] /\ lines \in [1 .. M -> Nat]
  BY DEF Tallies
<1>2. C \in Nat /\ C > 0
  BY DebugAssumption
<1>3. /\ f \in [0 .. n -> Seq(Nat)] /\ f[0] = <<>>
      /\ \A k \in 1 .. n : f[k] = f[k - 1] \o Vertices(M + k, C)
  <2> DEFINE w(k) == Vertices(M + k, C)
             s == [k \in 1 .. n |-> w(k)]
  <2>1. Flattens(Nat, s, f)
    OBVIOUS
  <2> HIDE DEF w
  <2>2. Len(s) = n /\ \A k \in 1 .. n : s[k] = w(k)
    OBVIOUS
  <2> HIDE DEF s
  <2>3. f \in [0 .. n -> Seq(Nat)] /\ f[0] = <<>> /\ \A k \in 1 .. n : f[k] = f[k - 1] \o w(k)
    BY <2>1, <2>2 DEF Flattens
  <2> QED BY <2>3 DEF w
<1>4. /\ h \in [0 .. n -> Seq(Nat)] /\ h[0] = <<>>
      /\ \A k \in 1 .. n : h[k] = h[k - 1] \o Loop(u + (k - 1) * C, C)
  <2> DEFINE w(k) == Loop(u + (k - 1) * C, C)
             s == [k \in 1 .. n |-> w(k)]
  <2>1. Flattens(Nat, s, h)
    OBVIOUS
  <2> HIDE DEF w
  <2>2. Len(s) = n /\ \A k \in 1 .. n : s[k] = w(k)
    OBVIOUS
  <2> HIDE DEF s
  <2>3. h \in [0 .. n -> Seq(Nat)] /\ h[0] = <<>> /\ \A k \in 1 .. n : h[k] = h[k - 1] \o w(k)
    BY <2>1, <2>2 DEF Flattens
  <2> QED BY <2>3 DEF w
<1> HIDE DEF C, u
<1>5. 0 \in E
  <2>1. us \o <<>> = us /\ is \o <<>> = is
    BY <1>1, ConcatEmptySeq
  <2>2. V(0) = us /\ I(0) = is
    BY <1>3, <1>4, <2>1
  <2>3. M + 0 = M /\ u + 0 * C = u
    BY <1>1, <1>2
  <2>4. P(0) = points /\ L(0) = lines
    <3>1. \A s \in 1 .. M : s <= M
      BY <1>1
    <3> QED BY <1>1, <2>3, <3>1 DEF Rounds
  <2> HIDE DEF V, I, P, L
  <2> QED BY <2>2, <2>3, <2>4 DEF u
<1>6. ASSUME NEW k \in Nat, k \in E PROVE k + 1 \in E
  <2> SUFFICES ASSUME k + 1 <= n
               PROVE  Tallies(V(k + 1), I(k + 1), P(k + 1), L(k + 1), M + (k + 1)) /\ Len(V(k + 1)) = u + (k + 1) * C
    OBVIOUS
  <2>1. Tallies(V(k), I(k), P(k), L(k), M + k) /\ Len(V(k)) = u + k * C
    BY <1>6
  <2>2. k + 1 \in 1 .. n /\ k + 1 - 1 = k /\ k \in 0 .. n
    OBVIOUS
  <2> DEFINE N == M + k
             w == Vertices(N + 1, C)
             e == Loop(u + k * C, C)
  <2>3. N \in Nat /\ M + (k + 1) = N + 1 /\ N + 1 \in Nat /\ N + 1 > M
    BY <1>1
  <2>4. w \in Seq(Nat) /\ Len(w) = C
    <3>1. \A j \in 1 .. C : N + 1 \in Nat
      BY <2>3
    <3> HIDE DEF N
    <3> QED BY <1>2, <3>1 DEF Vertices
  <2>5. V(k + 1) = V(k) \o w
    <3>1. f[k + 1] = f[k] \o w
      <4> DEFINE m == k + 1
      <4>1. m \in 1 .. n /\ m - 1 = k
        BY <2>2
      <4>2. M + m = N + 1
        BY <2>3
      <4> HIDE DEF m
      <4>3. f[m] = f[m - 1] \o Vertices(M + m, C)
        BY <1>3, <4>1
      <4>4. f[m] = f[k] \o w
        BY <4>1, <4>2, <4>3
      <4> QED BY <4>4 DEF m
    <3>2. f[k] \in Seq(Nat)
      BY <1>3, <2>2
    <3> HIDE DEF w
    <3>3. (us \o f[k]) \o w = us \o (f[k] \o w)
      <4>1. us \in Seq(Nat) /\ w \in Seq(Nat)
        BY <1>1, <2>4
      <4> DEFINE a == f[k]
      <4>2. a \in Seq(Nat)
        BY <3>2
      <4> HIDE DEF a
      <4>3. (us \o a) \o w = us \o (a \o w)
        BY <4>1, <4>2, NatsAssociate
      <4> QED BY <4>3 DEF a
    <3> QED BY <3>1, <3>3
  <2>6. V(k) \in Seq(1 .. N) /\ u + k * C \in Nat
    <3>1. V(k) \in Seq(1 .. N)
      BY <2>1 DEF Tallies
    <3>2. Len(V(k)) \in Nat
      BY <3>1, LenProperties
    <3> QED BY <2>1, <3>1, <3>2
  <2> HIDE DEF V
  <2>7. /\ V(k) \o w \in Seq(1 .. N + 1) /\ Len(V(k) \o w) = u + k * C + C
        /\ \A v \in u + k * C + 1 .. u + k * C + C : (V(k) \o w)[v] = N + 1
    <3>1. /\ V(k) \o w \in Seq(1 .. N + 1) /\ Len(V(k) \o w) = Len(V(k)) + C /\ Len(V(k)) \in Nat
          /\ \A v \in Len(V(k)) + 1 .. Len(V(k)) + C : (V(k) \o w)[v] = N + 1
      <4> HIDE DEF N
      <4> QED BY <1>2, <2>3, <2>6, NewVertices
    <3> HIDE DEF w
    <3> QED BY <2>1, <3>1
  <2>8. LinesOfShape(V(k) \o w, e, C, N + 1)
    <3> DEFINE i == u + k * C
               z == V(k) \o w
    <3>1. i \in Nat /\ i + C <= Len(z) /\ z \in Seq(1 .. N + 1) /\ C \in Nat \ {0} /\ \A v \in i + 1 .. i + C : z[v] = N + 1
      BY <1>2, <2>6, <2>7
    <3> HIDE DEF i, z, N, w
    <3>2. LinesOfShape(z, Loop(i, C), C, N + 1)
      BY <3>1, LoopIsOfShape
    <3> QED BY <3>2 DEF i, z
  <2>9. I(k + 1) = I(k) \o e
    <3>1. h[k + 1] = h[k] \o e
      <4> DEFINE m == k + 1
      <4>1. m \in 1 .. n /\ m - 1 = k
        BY <2>2
      <4> HIDE DEF m
      <4>3. h[m] = h[m - 1] \o Loop(u + (m - 1) * C, C)
        BY <1>4, <4>1
      <4>4. h[m] = h[k] \o e
        BY <4>1, <4>3
      <4> QED BY <4>4 DEF m
    <3>2. h[k] \in Seq(Nat) /\ e \in Seq(Nat)
      BY <1>4, <2>2, <2>8 DEF LinesOfShape
    <3> HIDE DEF e
    <3>3. (is \o h[k]) \o e = is \o (h[k] \o e)
      <4>1. is \in Seq(Nat)
        BY <1>1
      <4> DEFINE a == h[k]
      <4>2. a \in Seq(Nat) /\ e \in Seq(Nat)
        BY <3>2
      <4> HIDE DEF a
      <4>3. (is \o a) \o e = is \o (a \o e)
        BY <4>1, <4>2, NatsAssociate
      <4> QED BY <4>3 DEF a
    <3> QED BY <3>1, <3>3
  <2> HIDE DEF I
  <2>10. Tallies(V(k) \o w, I(k), With(P(k), N, C), With(L(k), N, 0), N + 1)
    <3> HIDE DEF P, L, N
    <3> QED BY <1>2, <2>1, <2>3, VerticesAdded DEF N
  <2>11. Tallies(V(k) \o w, I(k) \o e, With(P(k), N, C), [With(L(k), N, 0) EXCEPT ![N + 1] = @ + C], N + 1)
    <3> DEFINE z == V(k) \o w
               p == With(P(k), N, C)
               q == With(L(k), N, 0)
    <3>1. N + 1 \in 1 .. N + 1
      BY <2>3
    <3>2. Tallies(z, I(k), p, q, N + 1) /\ LinesOfShape(z, e, C, N + 1)
      BY <2>8, <2>10
    <3> HIDE DEF z, p, q, e, N, w
    <3>3. Tallies(z, I(k) \o e, p, [q EXCEPT ![N + 1] = @ + C], N + 1)
      BY <1>2, <2>3, <3>1, <3>2, LinesAdded
    <3> QED BY <3>3 DEF z, p, q
  <2>12. With(P(k), N, C) = P(k + 1)
    <3>1. \A s \in 1 .. N + 1 : (IF s = N + 1 THEN C ELSE P(k)[s]) = IF s <= M THEN points[s] ELSE C
      <4>1. \A s \in 1 .. N + 1 : s # N + 1 => s \in 1 .. N
        BY <2>3
      <4>2. \A s \in 1 .. N : P(k)[s] = IF s <= M THEN points[s] ELSE C
        BY DEF Rounds
      <4>3. ~ (N + 1 <= M)
        BY <1>1, <2>3
      <4> HIDE DEF P, N
      <4> QED BY <4>1, <4>2, <4>3
    <3>2. With(P(k), N, C) = [s \in 1 .. N + 1 |-> IF s = N + 1 THEN C ELSE P(k)[s]]
      BY DEF With
    <3>3. P(k + 1) = [s \in 1 .. N + 1 |-> IF s <= M THEN points[s] ELSE C]
      BY <2>3 DEF Rounds
    <3> HIDE DEF P, N
    <3> QED BY <3>1, <3>2, <3>3
  <2>13. [With(L(k), N, 0) EXCEPT ![N + 1] = @ + C] = L(k + 1)
    <3>1. \A s \in 1 .. N + 1 : (IF s = N + 1 THEN C ELSE L(k)[s]) = IF s <= M THEN lines[s] ELSE C
      <4>1. \A s \in 1 .. N + 1 : s # N + 1 => s \in 1 .. N
        BY <2>3
      <4>2. \A s \in 1 .. N : L(k)[s] = IF s <= M THEN lines[s] ELSE C
        BY DEF Rounds
      <4>3. ~ (N + 1 <= M)
        BY <1>1, <2>3
      <4> HIDE DEF L, N
      <4> QED BY <4>1, <4>2, <4>3
    <3>2. [With(L(k), N, 0) EXCEPT ![N + 1] = @ + C] = [s \in 1 .. N + 1 |-> IF s = N + 1 THEN C ELSE L(k)[s]]
      <4>1. 0 + C = C /\ N + 1 \in 1 .. N + 1
        BY <1>2, <2>3
      <4> HIDE DEF L, N
      <4> QED BY <4>1, Zenon DEF With
    <3>3. L(k + 1) = [s \in 1 .. N + 1 |-> IF s <= M THEN lines[s] ELSE C]
      BY <2>3 DEF Rounds
    <3> HIDE DEF L, N
    <3> QED BY <3>1, <3>2, <3>3
  <2>14. u + (k + 1) * C = u + k * C + C
    BY <1>1, <1>2
  <2> HIDE DEF w, e, P, L, N
  <2> QED BY <2>3, <2>5, <2>7, <2>9, <2>11, <2>12, <2>13, <2>14
<1> HIDE DEF E
<1>7. E \subseteq Nat
  BY DEF E
<1>8. n \in E
  BY <1>5, <1>6, <1>7, ByInduction
<1>9. Tallies(V(n), I(n), P(n), L(n), M + n)
  BY <1>8 DEF E
<1> QED BY <1>9 DEF C

\* drawPath(): its vertices come first, its lines last.
LEMMA PathAdded ==
    ASSUME NEW vs, NEW is, NEW ss, ShapesTally(vs, is, ss), NEW n \in Nat,
           NEW f, Flattens(Nat, [k \in 1 .. n |-> Vertices(Len(ss) + 1 + k, CircleVerts)], f),
           NEW h, Flattens(Nat, [k \in 1 .. n |-> Loop(Len(vs) + n + (k - 1) * CircleVerts, CircleVerts)], h)
    PROVE  ShapesTally(vs \o (Vertices(Len(ss) + 1, n) \o f[n]), is \o (h[n] \o Chain(Len(vs), n)),
                       ss \o (<<Shape("chain", n)>> \o [k \in 1 .. n |-> Shape("loop", CircleVerts)]))
<1> DEFINE C == CircleVerts
           N == Len(ss)
           M == N + 1
           w == Vertices(N + 1, n)
           us == vs \o w
           P == With(PointsFor(ss), N, n)
           L == With(LinesFor(ss), N, 0)
           e == Chain(Len(vs), n)
           m == Max({0, n - 1})
           added == <<Shape("chain", n)>> \o [k \in 1 .. n |-> Shape("loop", CircleVerts)]
           tt == ss \o added
<1>1. /\ ss \in Seq(ShapeType) /\ N \in Nat /\ M \in Nat /\ vs \in Seq(1 .. N) /\ is \in Seq(Nat)
      /\ Tallies(vs, is, PointsFor(ss), LinesFor(ss), N) /\ Len(vs) \in Nat
  <2>1. ss \in Seq(ShapeType) /\ Tallies(vs, is, PointsFor(ss), LinesFor(ss), N)
    BY DEF ShapesTally
  <2>2. N \in Nat /\ vs \in Seq(1 .. N) /\ is \in Seq(Nat)
    BY <2>1 DEF Tallies
  <2>3. Len(vs) \in Nat
    BY <2>2, LenProperties
  <2> QED BY <2>1, <2>2, <2>3
<1>2. C \in Nat /\ C > 0
  BY DebugAssumption
<1>0. Max({0, n - 1}) \in Nat
  <2>1. Max({0, n - 1}) = IF n = 0 THEN 0 ELSE n - 1
    BY MaxOfTwo
  <2> QED BY <2>1
<1>3. Tallies(us, is, P, L, M)
  BY <1>1, VerticesAdded
<1>4. /\ us \in Seq(1 .. M) /\ Len(us) = Len(vs) + n
      /\ \A v \in Len(vs) + 1 .. Len(vs) + n : us[v] = M
  BY <1>1, NewVertices
<1>5. Tallies(us \o f[n], is \o h[n], Rounds(P, M, n, C), Rounds(L, M, n, C), M + n)
  <2>1. Flattens(Nat, [k \in 1 .. n |-> Vertices(M + k, CircleVerts)], f)
    OBVIOUS
  <2>2. Flattens(Nat, [k \in 1 .. n |-> Loop(Len(us) + (k - 1) * CircleVerts, CircleVerts)], h)
    BY <1>4
  <2> HIDE DEF us, P, L, M
  <2> QED BY <1>3, <2>1, <2>2, CirclesAdded
<1>6. f[n] \in Seq(Nat) /\ h[n] \in Seq(Nat)
  <2>1. n \in 0 .. n
    OBVIOUS
  <2>2. f \in [0 .. n -> Seq(Nat)] /\ h \in [0 .. n -> Seq(Nat)]
    <3> DEFINE p == [k \in 1 .. n |-> Vertices(Len(ss) + 1 + k, CircleVerts)]
               q == [k \in 1 .. n |-> Loop(Len(vs) + n + (k - 1) * CircleVerts, CircleVerts)]
    <3>1. Len(p) = n /\ Len(q) = n /\ Flattens(Nat, p, f) /\ Flattens(Nat, q, h)
      OBVIOUS
    <3> HIDE DEF p, q
    <3> QED BY <3>1 DEF Flattens
  <2> QED BY <2>1, <2>2
<1>7. LinesOfShape(us \o f[n], e, m, M)
  <2> DEFINE z == us \o f[n]
  <2>1. us \in Seq(Nat)
    <3>1. M \in Nat /\ us \in Seq(1 .. M)
      BY <1>1, <1>4
    <3> HIDE DEF us, M
    <3> QED BY <3>1
  <2>2. /\ z \in Seq(Nat) /\ Len(z) = Len(us) + Len(f[n]) /\ Len(us) \in Nat /\ Len(f[n]) \in Nat
        /\ DOMAIN z = 1 .. Len(us) + Len(f[n])
        /\ DOMAIN us = 1 .. Len(us)
        /\ \A j \in 1 .. Len(us) : z[j] = us[j] /\ us[j] \in Nat
        /\ \A j \in Len(us) + 1 .. Len(us) + Len(f[n]) : z[j] = f[n][j - Len(us)] /\ j - Len(us) \in 1 .. Len(f[n])
    <3> HIDE DEF us
    <3> QED BY <1>6, <2>1, Concats
  <2> DEFINE i == Len(vs)
  <2>3. i \in Nat
    BY <1>1
  <2> HIDE DEF z, us, M, i
  <2>4. i + n <= Len(z) /\ \A v \in i + 1 .. i + n : z[v] = M
    <3>1. Len(us) = i + n
      BY <1>4 DEF i
    <3>2. \A v \in i + 1 .. i + n : v \in 1 .. Len(us) /\ us[v] = M
      BY <1>4, <2>3, <3>1 DEF i
    <3>3. \A v \in i + 1 .. i + n : z[v] = M
      BY <2>2, <3>2
    <3>4. i + n <= Len(z)
      <4> DEFINE a == Len(f[n])
      <4>1. Len(z) = Len(us) + a /\ a \in Nat
        BY <2>2
      <4> HIDE DEF a
      <4> QED BY <2>3, <3>1, <4>1
    <3> QED BY <3>3, <3>4
  <2>5. LinesOfShape(z, Chain(i, n), Max({0, n - 1}), M)
    BY <2>2, <2>3, <2>4, ChainIsOfShape
  <2> QED BY <2>5 DEF z, i
<1>8. Tallies(us \o f[n], (is \o h[n]) \o e, Rounds(P, M, n, C), [Rounds(L, M, n, C) EXCEPT ![M] = @ + m], M + n)
  <2> DEFINE z == us \o f[n]
             j == is \o h[n]
             p == Rounds(P, M, n, C)
             q == Rounds(L, M, n, C)
  <2>1. M \in 1 .. M + n /\ m \in Nat
    BY <1>1, <1>0
  <2>2. Tallies(z, j, p, q, M + n) /\ LinesOfShape(z, e, m, M)
    BY <1>5, <1>7
  <2> HIDE DEF z, j, p, q, e, m, M
  <2>3. Tallies(z, j \o e, p, [q EXCEPT ![M] = @ + m], M + n)
    BY <2>1, <2>2, LinesAdded
  <2> QED BY <2>3 DEF z, j, p, q
<1>9. us \o f[n] = vs \o (w \o f[n]) /\ (is \o h[n]) \o e = is \o (h[n] \o e)
  <2>1. vs \in Seq(Nat) /\ w \in Seq(Nat)
    <3>1. vs \in Seq(Nat)
      BY <1>1
    <3>2. w \in Seq(Nat)
      BY <1>1 DEF Vertices
    <3> QED BY <3>1, <3>2
  <2>2. e \in Seq(Nat) /\ is \in Seq(Nat)
    BY <1>1, <1>7 DEF LinesOfShape
  <2> HIDE DEF w, e
  <2>3. (vs \o w) \o f[n] = vs \o (w \o f[n])
    <3> DEFINE a == f[n]
    <3>1. a \in Seq(Nat)
      BY <1>6
    <3> HIDE DEF a
    <3>2. (vs \o w) \o a = vs \o (w \o a)
      BY <2>1, <3>1, NatsAssociate
    <3> QED BY <3>2 DEF a
  <2>4. (is \o h[n]) \o e = is \o (h[n] \o e)
    <3> DEFINE a == h[n]
    <3>1. a \in Seq(Nat)
      BY <1>6
    <3> HIDE DEF a
    <3>2. (is \o a) \o e = is \o (a \o e)
      BY <2>2, <3>1, NatsAssociate
    <3> QED BY <3>2 DEF a
  <2> QED BY <2>3, <2>4
<1>10. /\ tt \in Seq(ShapeType) /\ Len(tt) = M + n
       /\ \A s \in 1 .. N : tt[s] = ss[s]
       /\ tt[M] = Shape("chain", n)
       /\ \A s \in M + 1 .. M + n : tt[s] = Shape("loop", C)
  <2> DEFINE one == <<Shape("chain", n)>>
             all == [k \in 1 .. n |-> Shape("loop", CircleVerts)]
  <2>1. one \in Seq(ShapeType) /\ Len(one) = 1 /\ one[1] = Shape("chain", n)
    BY DEF Shape, ShapeType
  <2>2. all \in Seq(ShapeType) /\ Len(all) = n /\ \A k \in 1 .. n : all[k] = Shape("loop", C)
    <3>1. Shape("loop", CircleVerts) \in ShapeType
      BY <1>2 DEF Shape, ShapeType
    <3> QED BY <3>1
  <2>3. added = one \o all
    OBVIOUS
  <2> HIDE DEF one, all, added, C
  <2>4. /\ one \o all \in Seq(ShapeType) /\ Len(one \o all) = 1 + n
        /\ (one \o all)[1] = Shape("chain", n)
        /\ \A k \in 2 .. n + 1 : (one \o all)[k] = Shape("loop", C)
    <3>1. /\ one \o all \in Seq(ShapeType) /\ Len(one \o all) = Len(one) + Len(all)
          /\ \A j \in 1 .. Len(one) + Len(all) : (one \o all)[j] = IF j <= Len(one) THEN one[j] ELSE all[j - Len(one)]
      BY <2>1, <2>2, ConcatProperties
    <3>2. \A j \in 1 .. 1 + n : (one \o all)[j] = IF j <= 1 THEN one[j] ELSE all[j - 1]
      BY <2>1, <2>2, <3>1
    <3>3. \A k \in 2 .. n + 1 : k \in 1 .. 1 + n /\ ~ (k <= 1) /\ k - 1 \in 1 .. n
      OBVIOUS
    <3>4. 1 \in 1 .. 1 + n
      OBVIOUS
    <3> QED BY <2>1, <2>2, <3>1, <3>2, <3>3, <3>4
  <2>5. /\ added \in Seq(ShapeType) /\ Len(added) = 1 + n /\ added[1] = Shape("chain", n)
        /\ \A k \in 2 .. n + 1 : added[k] = Shape("loop", C)
    BY <2>3, <2>4
  <2>6. /\ tt \in Seq(ShapeType) /\ Len(tt) = Len(ss) + Len(added)
        /\ \A j \in 1 .. Len(ss) + Len(added) : tt[j] = IF j <= Len(ss) THEN ss[j] ELSE added[j - Len(ss)]
    BY <1>1, <2>5, ConcatProperties
  <2> HIDE DEF tt
  <2>7. Len(tt) = M + n /\ \A j \in 1 .. M + n : tt[j] = IF j <= N THEN ss[j] ELSE added[j - N]
    <3>1. Len(ss) + Len(added) = M + n
      BY <1>1, <2>5
    <3> QED BY <2>6, <3>1
  <2>8. \A s \in 1 .. N : s \in 1 .. M + n /\ s <= N
    BY <1>1
  <2>9. M \in 1 .. M + n /\ ~ (M <= N) /\ M - N = 1
    BY <1>1
  <2>10. \A s \in M + 1 .. M + n : s \in 1 .. M + n /\ ~ (s <= N) /\ s - N \in 2 .. n + 1
    BY <1>1
  <2> HIDE DEF N, M
  <2> QED BY <2>5, <2>6, <2>7, <2>8, <2>9, <2>10
<1>11. Rounds(P, M, n, C) = PointsFor(tt)
  <2>1. ASSUME NEW s \in 1 .. M + n PROVE (IF s <= M THEN P[s] ELSE C) = tt[s].points
    <3>1. CASE s \in 1 .. N
      <4>1. s <= M /\ s # N + 1 /\ s \in 1 .. N + 1
        BY <1>1, <3>1
      <4>2. P[s] = ss[s].points
        BY <3>1, <4>1 DEF With, PointsFor
      <4> QED BY <1>10, <3>1, <4>1, <4>2
    <3>2. CASE s = M
      <4>1. P[s] = n
        BY <1>1, <3>2 DEF With
      <4>2. tt[s].points = n /\ s <= M
        BY <1>1, <1>10, <3>2 DEF Shape
      <4> QED BY <4>1, <4>2
    <3>3. CASE s \in M + 1 .. M + n
      <4>1. ~ (s <= M)
        BY <1>1, <3>3
      <4> HIDE DEF tt, M, C
      <4>2. tt[s].points = C
        BY <1>10, <3>3 DEF Shape
      <4> QED BY <4>1, <4>2
    <3> QED BY <1>1, <3>1, <3>2, <3>3
  <2> HIDE DEF tt, P, M, C
  <2> QED BY <1>10, <2>1 DEF Rounds, PointsFor
<1>12. [Rounds(L, M, n, C) EXCEPT ![M] = @ + m] = LinesFor(tt)
  <2>1. ASSUME NEW s \in 1 .. M + n PROVE (IF s = M THEN m ELSE IF s <= M THEN L[s] ELSE C) = LinesOfOne(tt[s])
    <3>1. CASE s \in 1 .. N
      <4>1. s <= M /\ s # N + 1 /\ s \in 1 .. N + 1
        BY <1>1, <3>1
      <4>2. L[s] = LinesOfOne(ss[s])
        BY <3>1, <4>1 DEF With, LinesFor
      <4> HIDE DEF tt, L, m
      <4> QED BY <1>10, <3>1, <4>1, <4>2
    <3>2. CASE s = M
      <4>1. LinesOfOne(Shape("chain", n)) = m
        BY DEF LinesOfOne, Shape
      <4> HIDE DEF tt, m, M
      <4> QED BY <1>10, <3>2, <4>1
    <3>3. CASE s \in M + 1 .. M + n
      <4>1. ~ (s <= M) /\ s # M
        BY <1>1, <3>3
      <4>2. LinesOfOne(Shape("loop", C)) = C
        BY DEF LinesOfOne, Shape
      <4> HIDE DEF tt, M, C, m
      <4> QED BY <1>10, <3>3, <4>1, <4>2
    <3> QED BY <1>1, <3>1, <3>2, <3>3
  <2>2. L[M] = 0 /\ M \in 1 .. M + n /\ M <= M
    BY <1>1 DEF With
  <2> HIDE DEF tt, L, M, C, m
  <2>3. [Rounds(L, M, n, C) EXCEPT ![M] = @ + m] = [s \in 1 .. M + n |-> IF s = M THEN m ELSE IF s <= M THEN L[s] ELSE C]
    <3>1. Rounds(L, M, n, C) = [s \in 1 .. M + n |-> IF s <= M THEN L[s] ELSE C]
      BY DEF Rounds
    <3>2. 0 + m = m
      BY <1>0 DEF m
    <3> QED BY <2>2, <3>1, <3>2
  <2> QED BY <1>10, <2>1, <2>3 DEF LinesFor
<1>13. ShapesTally(us \o f[n], (is \o h[n]) \o e, tt)
  <2> DEFINE p == Rounds(P, M, n, C)
             q == [Rounds(L, M, n, C) EXCEPT ![M] = @ + m]
  <2>1. Tallies(us \o f[n], (is \o h[n]) \o e, p, q, M + n) /\ p = PointsFor(tt) /\ q = LinesFor(tt)
    BY <1>8, <1>11, <1>12
  <2> HIDE DEF p, q, us, e, tt
  <2> QED BY <1>10, <2>1 DEF ShapesTally
<1> QED BY <1>9, <1>13

DebugInv ==
  /\ ShapesTally(verts, indices, shapes)
  /\ ShapesTally(buffered.verts, buffered.indices, buffered.shapes)
  /\ elements \in Nat /\ early \in BOOLEAN
  /\ elements > Len(buffered.indices) => early
  /\ ~initialized /\ elements > 0 => early
  /\ OnlyEarlyOverreads

LEMMA NothingTallies == ShapesTally(<<>>, <<>>, <<>>)
<1>1. /\ <<>> \in Seq(ShapeType) /\ <<>> \in Seq(Nat) /\ <<>> \in Seq(1 .. 0) /\ Len(<<>>) = 0
      /\ PointsFor(<<>>) \in [1 .. 0 -> Nat] /\ LinesFor(<<>>) \in [1 .. 0 -> Nat]
      /\ 1 .. 0 = {}
  BY DEF PointsFor, LinesFor
<1>2. LineNumbers(<<>>) = 1 .. 0 /\ Len(<<>>) = 2 * 0
  BY <1>1, LineNumbersAre
<1> DEFINE p == PointsFor(<<>>)
           l == LinesFor(<<>>)
<1> HIDE DEF p, l
<1>3. Tallies(<<>>, <<>>, p, l, 0)
  BY <1>1, <1>2 DEF Tallies, p, l
<1> QED BY <1>1, <1>3 DEF ShapesTally, p, l

LEMMA DebugInvInit == DebugInit => DebugInv
<1> SUFFICES ASSUME DebugInit PROVE DebugInv
  OBVIOUS
<1>1. /\ verts = <<>> /\ indices = <<>> /\ shapes = <<>> /\ elements = 0 /\ early = FALSE /\ beyond = FALSE
      /\ buffered.verts = <<>> /\ buffered.indices = <<>> /\ buffered.shapes = <<>>
  BY DEF DebugInit, NoBuffers
<1>2. ~ (elements > 0) /\ Len(buffered.indices) = 0 /\ elements \in Nat
  BY <1>1
<1> QED BY <1>1, <1>2, NothingTallies DEF DebugInv, OnlyEarlyOverreads

\* What a call adds is one shape.
LEMMA OneShapeDrawn ==
    ASSUME DebugInv, NEW kind \in {"loop", "chain"}, NEW n \in Nat, kind = "loop" => n # 0,
           Draw(<<Shape(kind, n)>>, Vertices(Fresh, n),
                IF kind = "loop" THEN Loop(Len(verts), n) ELSE Chain(Len(verts), n))
    PROVE  DebugInv'
<1> DEFINE N == Len(shapes)
           sh == Shape(kind, n)
           i == Len(verts)
           us == verts \o Vertices(N + 1, n)
           e == IF kind = "loop" THEN Loop(i, n) ELSE Chain(i, n)
<1>1. ShapesTally(verts, indices, shapes) /\ N \in Nat /\ verts \in Seq(1 .. N)
  BY DEF DebugInv, ShapesTally, Tallies
<1>2. sh \in ShapeType /\ sh.points = n /\ LinesOfOne(sh) = IF kind = "loop" THEN n ELSE Max({0, n - 1})
  BY DEF Shape, ShapeType, LinesOfOne
<1>3. us \in Seq(1 .. N + 1) /\ Len(us) = i + n /\ i \in Nat /\ \A v \in i + 1 .. i + n : us[v] = N + 1
  BY <1>1, NewVertices
<1>4. i + n <= Len(us)
  BY <1>3
<1> HIDE DEF us, i, N, sh
<1>5. LinesOfShape(us, e, LinesOfOne(sh), N + 1)
  <2>1. CASE kind = "loop"
    <3>1. LinesOfShape(us, Loop(i, n), n, N + 1)
      BY <1>3, <1>4, <2>1, LoopIsOfShape
    <3> QED BY <1>2, <2>1, <3>1
  <2>2. CASE kind # "loop"
    <3>1. LinesOfShape(us, Chain(i, n), Max({0, n - 1}), N + 1)
      BY <1>3, <1>4, ChainIsOfShape
    <3> QED BY <1>2, <2>2, <3>1
  <2> QED BY <2>1, <2>2
<1> HIDE DEF e
<1>6. ShapesTally(verts \o Vertices(N + 1, n), indices \o e, shapes \o <<sh>>)
  BY <1>1, <1>2, <1>5, ShapeAdded DEF us, N
<1>7. /\ shapes' = shapes \o <<sh>> /\ verts' = verts \o Vertices(N + 1, n) /\ indices' = indices \o e
      /\ UNCHANGED <<initialized, buffered, elements, early, beyond>>
  BY DEF Draw, Fresh, sh, N, e, i
<1>8. ShapesTally(verts', indices', shapes')
  BY <1>6, <1>7
<1> QED BY <1>7, <1>8 DEF DebugInv, OnlyEarlyOverreads

LEMMA PathDrawn ==
    ASSUME DebugInv, NEW n \in Nat, DrawPathLines(n)
    PROVE  DebugInv'
<1> DEFINE N == Len(shapes)
           V == [k \in 1 .. n |-> Vertices(N + 1 + k, CircleVerts)]
           I == [k \in 1 .. n |-> Loop(Len(verts) + n + (k - 1) * CircleVerts, CircleVerts)]
           added == <<Shape("chain", n)>> \o [k \in 1 .. n |-> Shape("loop", CircleVerts)]
<1>1. ShapesTally(verts, indices, shapes) /\ N \in Nat /\ verts \in Seq(1 .. N)
  BY DEF DebugInv, ShapesTally, Tallies
<1>2. CircleVerts \in Nat \ {0}
  BY DebugAssumption
<1>3. V \in Seq(Seq(Nat)) /\ Len(V) = n
  <2>1. ASSUME NEW k \in 1 .. n PROVE Vertices(N + 1 + k, CircleVerts) \in Seq(Nat)
    <3>1. N + 1 + k \in Nat
      BY <1>1
    <3> QED BY <1>2, <3>1 DEF Vertices
  <2> QED BY <2>1
<1>4. I \in Seq(Seq(Nat)) /\ Len(I) = n
  <2>1. ASSUME NEW i \in Nat PROVE Loop(i, CircleVerts) \in Seq(Nat)
    <3> DEFINE us == [v \in 1 .. i + CircleVerts |-> 1]
    <3>1. us \in Seq(Nat) /\ Len(us) = i + CircleVerts /\ \A v \in i + 1 .. i + CircleVerts : us[v] = 1
      BY <1>2
    <3>2. i + CircleVerts <= Len(us)
      BY <1>2, <3>1
    <3> HIDE DEF us
    <3>3. LinesOfShape(us, Loop(i, CircleVerts), CircleVerts, 1)
      BY <1>2, <3>1, <3>2, LoopIsOfShape
    <3> QED BY <3>3 DEF LinesOfShape
  <2>2. Len(verts) \in Nat
    BY <1>1, LenProperties
  <2>3. ASSUME NEW k \in 1 .. n PROVE Len(verts) + n + (k - 1) * CircleVerts \in Nat
    <3>1. (k - 1) * CircleVerts \in Nat
      <4>1. k - 1 \in Nat
        OBVIOUS
      <4> QED BY <1>2, <4>1
    <3> QED BY <2>2, <3>1
  <2>4. ASSUME NEW k \in 1 .. n PROVE Loop(Len(verts) + n + (k - 1) * CircleVerts, CircleVerts) \in Seq(Nat)
    BY <2>1, <2>3
  <2> QED BY <2>4
<1> HIDE DEF V, I, N
<1>5. PICK f : Flattens(Nat, V, f) /\ FlattenSeq(V) = f[n]
  <2>1. \E f : Flattens(Nat, V, f) /\ FlattenSeq(V) = f[Len(V)]
    BY <1>3, FlattenIs
  <2> QED BY <1>3, <2>1
<1>6. PICK h : Flattens(Nat, I, h) /\ FlattenSeq(I) = h[n]
  <2>1. \E g : Flattens(Nat, I, g) /\ FlattenSeq(I) = g[Len(I)]
    BY <1>4, FlattenIs
  <2> QED BY <1>4, <2>1
<1> HIDE DEF added
<1>7. ShapesTally(verts \o (Vertices(N + 1, n) \o f[n]), indices \o (h[n] \o Chain(Len(verts), n)), shapes \o added)
  BY <1>1, <1>5, <1>6, PathAdded DEF V, I, N, added
<1>8. /\ shapes' = shapes \o added
      /\ verts' = verts \o (Vertices(N + 1, n) \o FlattenSeq(V))
      /\ indices' = indices \o (FlattenSeq(I) \o Chain(Len(verts), n))
      /\ UNCHANGED <<initialized, buffered, elements, early, beyond>>
  BY DEF DrawPathLines, Draw, Fresh, added, N, V, I
<1>9. ShapesTally(verts', indices', shapes')
  BY <1>5, <1>6, <1>7, <1>8
<1> QED BY <1>8, <1>9 DEF DebugInv, OnlyEarlyOverreads

LEMMA DebugInvStep == DebugInv /\ [DebugNext]_debugVars => DebugInv'
<1> SUFFICES ASSUME DebugInv, [DebugNext]_debugVars PROVE DebugInv'
  OBVIOUS
<1>1. CircleVerts \in Nat \ {0}
  BY DebugAssumption
<1>2. CASE drawCircle
  <2>1. Draw(<<Shape("loop", CircleVerts)>>, Vertices(Fresh, CircleVerts),
             IF "loop" = "loop" THEN Loop(Len(verts), CircleVerts) ELSE Chain(Len(verts), CircleVerts))
    BY <1>2 DEF drawCircle
  <2> QED BY <1>1, <2>1, OneShapeDrawn
<1>3. CASE drawBox
  <2>1. Draw(<<Shape("loop", 4)>>, Vertices(Fresh, 4),
             IF "loop" = "loop" THEN Loop(Len(verts), 4) ELSE Chain(Len(verts), 4))
    BY <1>3 DEF drawBox
  <2> QED BY <2>1, OneShapeDrawn
<1>4. CASE drawLine
  <2>1. Draw(<<Shape("chain", 2)>>, Vertices(Fresh, 2),
             IF "chain" = "loop" THEN Loop(Len(verts), 2) ELSE Chain(Len(verts), 2))
    BY <1>4 DEF drawLine
  <2> QED BY <2>1, OneShapeDrawn
<1>5. ASSUME NEW n \in 1 .. MostPoints, drawCoordinates(n) PROVE DebugInv'
  <2>1. CASE n = 2
    BY <1>2, <1>5, <2>1 DEF drawCoordinates
  <2>2. CASE n # 2
    <3>1. Draw(<<Shape("loop", n)>>, Vertices(Fresh, n),
               IF "loop" = "loop" THEN Loop(Len(verts), n) ELSE Chain(Len(verts), n))
      BY <1>5, <2>2 DEF drawCoordinates
    <3>2. n \in Nat /\ n # 0
      OBVIOUS
    <3> QED BY <3>1, <3>2, OneShapeDrawn
  <2> QED BY <2>1, <2>2
<1>6. ASSUME NEW n \in 0 .. MostPoints, DrawPathLines(n) PROVE DebugInv'
  BY <1>6, PathDrawn
<1>7. CASE InitDebug
  <2>1. CASE initialized
    BY <1>7, <2>1 DEF InitDebug, DebugInv, OnlyEarlyOverreads
  <2>2. CASE ~initialized
    <3>1. buffered' = NoBuffers /\ UNCHANGED <<verts, indices, shapes, elements, early, beyond>> /\ initialized' = TRUE
      BY <1>7, <2>2 DEF InitDebug
    <3>2. ShapesTally(buffered'.verts, buffered'.indices, buffered'.shapes) /\ Len(buffered'.indices) = 0
      BY <3>1, NothingTallies DEF NoBuffers
    <3>3. elements \in Nat /\ (elements > 0 => early) /\ early \in BOOLEAN /\ OnlyEarlyOverreads
      BY <2>2 DEF DebugInv
    <3>4. ShapesTally(verts', indices', shapes')
      BY <3>1 DEF DebugInv
    <3> QED BY <3>1, <3>2, <3>3, <3>4 DEF DebugInv, OnlyEarlyOverreads
  <2> QED BY <2>1, <2>2
<1>8. CASE EndShapes
  <2>1. elements' = Len(indices) /\ Len(indices) \in Nat
    BY <1>8, LenProperties DEF EndShapes, DebugInv, ShapesTally, Tallies
  <2>2. ShapesTally(verts', indices', shapes')
    BY <1>8, NothingTallies DEF EndShapes
  <2>3. CASE initialized
    <3>1. /\ buffered' = [verts |-> verts, indices |-> indices, shapes |-> shapes]
          /\ early' = early /\ UNCHANGED <<initialized, beyond>>
      BY <1>8, <2>3 DEF EndShapes, DebugInv
    <3>2. buffered'.verts = verts /\ buffered'.indices = indices /\ buffered'.shapes = shapes
      BY <3>1
    <3>3. ShapesTally(buffered'.verts, buffered'.indices, buffered'.shapes)
      BY <3>2 DEF DebugInv
    <3>4. ~ (elements' > Len(buffered'.indices))
      BY <2>1, <3>2
    <3> QED BY <2>1, <2>2, <2>3, <3>1, <3>3, <3>4 DEF DebugInv, OnlyEarlyOverreads
  <2>4. CASE ~initialized
    <3>1. buffered' = buffered /\ early' = TRUE
      BY <1>8, <2>4 DEF EndShapes
    <3> QED BY <2>1, <2>2, <3>1 DEF DebugInv, OnlyEarlyOverreads
  <2> QED BY <2>3, <2>4
<1>9. CASE RenderDebug
  BY <1>9 DEF RenderDebug, DebugInv, OnlyEarlyOverreads
<1>10. CASE DisposeDebug
  <2>1. /\ verts' = <<>> /\ indices' = <<>> /\ shapes' = <<>> /\ buffered' = NoBuffers /\ elements' = 0
        /\ UNCHANGED <<early, beyond>>
    BY <1>10 DEF DisposeDebug
  <2>2. ShapesTally(buffered'.verts, buffered'.indices, buffered'.shapes) /\ Len(buffered'.indices) = 0
    BY <2>1, NothingTallies DEF NoBuffers
  <2> QED BY <2>1, <2>2, NothingTallies DEF DebugInv, OnlyEarlyOverreads
<1>11. CASE UNCHANGED debugVars
  BY <1>11 DEF debugVars, DebugInv, OnlyEarlyOverreads
<1> QED BY <1>2, <1>3, <1>4, <1>5, <1>6, <1>7, <1>8, <1>9, <1>10, <1>11 DEF DebugNext

LEMMA TallyIsBuffered == DebugInv => ShapesBuffered
<1> SUFFICES ASSUME DebugInv PROVE ShapesBuffered
  OBVIOUS
<1>1. LinesWithinShape
  <2> SUFFICES ASSUME NEW k \in LineNumbers(indices)
               PROVE  LET l == Line(indices, k)
                      IN  l[1] < Len(verts) /\ l[2] < Len(verts) /\ verts[l[1] + 1] = verts[l[2] + 1]
    BY DEF LinesWithinShape
  <2>1. \E s : Joins(verts, indices, k, s)
    BY DEF DebugInv, ShapesTally, Tallies
  <2> QED BY <2>1 DEF Joins, Line
<1>2. AllBuffered
  <2> DEFINE ss == buffered.shapes
             vs == buffered.verts
             is == buffered.indices
  <2>1. ss \in Seq(ShapeType) /\ Tallies(vs, is, PointsFor(ss), LinesFor(ss), Len(ss))
    BY DEF DebugInv, ShapesTally
  <2> HIDE DEF ss, vs, is
  <2>2. DOMAIN ss = 1 .. Len(ss)
    BY <2>1, LenProperties
  <2>3. ASSUME NEW s \in DOMAIN ss
        PROVE  /\ Cardinality(VerticesOf(vs, s)) = ss[s].points
               /\ Cardinality(LinesOf(vs, is, s)) = LinesOfOne(ss[s])
    <3>1. PointsFor(ss)[s] = ss[s].points /\ LinesFor(ss)[s] = LinesOfOne(ss[s])
      BY <2>2 DEF PointsFor, LinesFor
    <3>2. Cardinality(VerticesOf(vs, s)) = PointsFor(ss)[s] /\ Cardinality(LinesOf(vs, is, s)) = LinesFor(ss)[s]
      BY <2>1, <2>2 DEF Tallies
    <3> QED BY <3>1, <3>2
  <2> QED BY <2>3 DEF AllBuffered, VerticesOf, LinesOfOne, ss, vs, is
<1> QED BY <1>1, <1>2 DEF ShapesBuffered, DebugInv

\* Lines join vertices of one shape, and after end() the buffers hold every point
\* and line of every shape, of any shapes in any order, boxes, circles, lines,
\* coordinates and paths of any length; render() reads beyond the indices only
\* when end() came before init().
THEOREM ShapesAreBuffered == Spec => []ShapesBuffered
<1>1. Spec => DebugInit
  BY DEF Spec, Init
<1>2. DebugInv /\ [Next]_vars => DebugInv'
  BY PartSteps, DebugInvStep
<1> QED BY <1>1, <1>2, DebugInvInit, DebugInvStep, TallyIsBuffered, PTL DEF Spec


-----------------------------------------------------------------------------
(* FontManager: what a font's texture holds                                *)

\* A power is not less than what it was to reach.
LEMMA PowerReaches == ASSUME NEW n \in Nat PROVE closestPow2(n) \in Nat /\ closestPow2(n) >= n
<1> DEFINE g == [k \in Nat |-> [x \in Nat |-> IF x >= n THEN x ELSE 2 * x]]
           c == CHOOSE h : h = [turn \in Nat |-> IF turn = 0 THEN 1
                                  ELSE IF h[turn - 1] >= n THEN h[turn - 1] ELSE 2 * h[turn - 1]]
<1>1. g \in [Nat -> [Nat -> Nat]] /\ \A k \in Nat, x \in Nat : g[k][x] = IF x >= n THEN x ELSE 2 * x
  OBVIOUS
<1> HIDE DEF g
<1>2. PICK F : Recurs(Nat, 1, g, F)
  BY <1>1, RecursionExists
<1>3. F \in [Nat -> Nat] /\ F[0] = 1 /\ \A k \in Nat \ {0} : F[k] = g[k - 1][F[k - 1]]
  BY <1>2 DEF Recurs
<1>4. F = [turn \in Nat |-> IF turn = 0 THEN 1 ELSE IF F[turn - 1] >= n THEN F[turn - 1] ELSE 2 * F[turn - 1]]
  <2>1. ASSUME NEW k \in Nat, k # 0 PROVE F[k] = IF F[k - 1] >= n THEN F[k - 1] ELSE 2 * F[k - 1]
    <3>1. k - 1 \in Nat /\ F[k - 1] \in Nat /\ F[k] = g[k - 1][F[k - 1]]
      BY <1>3, <2>1
    <3> QED BY <1>1, <3>1
  <2>2. F = [turn \in Nat |-> F[turn]]
    BY <1>3
  <2> QED BY <1>3, <2>1, <2>2
<1>5. c = [turn \in Nat |-> IF turn = 0 THEN 1 ELSE IF c[turn - 1] >= n THEN c[turn - 1] ELSE 2 * c[turn - 1]]
  BY <1>4, Zenon
<1>6. closestPow2(n) = c[n]
  BY Zenon DEF closestPow2
<1> HIDE DEF c
<1> DEFINE E == {k \in Nat : c[k] \in Nat /\ (c[k] >= n \/ c[k] >= k + 1)}
<1>7. 0 \in E
  BY <1>5
<1>8. ASSUME NEW k \in Nat, k \in E PROVE k + 1 \in E
  <2> DEFINE j == k + 1
  <2>1. j \in Nat /\ j # 0 /\ j - 1 = k
    OBVIOUS
  <2>2. c[j] = IF c[k] >= n THEN c[k] ELSE 2 * c[k]
    <3> HIDE DEF j
    <3> QED BY <1>5, <2>1
  <2>3. c[k] \in Nat /\ (c[k] >= n \/ c[k] >= k + 1)
    BY <1>8
  <2>4. c[j] \in Nat /\ (c[j] >= n \/ c[j] >= j + 1)
    BY <2>2, <2>3
  <2> QED BY <2>1, <2>4
<1> HIDE DEF E
<1>9. n \in E
  <2>1. E \subseteq Nat
    BY DEF E
  <2> QED BY <1>7, <1>8, <2>1, ByInduction
<1> QED BY <1>6, <1>9 DEF E

FontType == font \in Fonts /\ wider \in BOOLEAN

LEMMA SizeIs == ASSUME FontType PROVE font.padding \in Nat /\ font.height \in Nat \ {0} /\ font.widths \in Seq(Nat)
BY FontAssumption DEF FontType

LEMMA LengthIs ==
    ASSUME FontType
    PROVE  /\ font.widths \in Seq(Nat) /\ Len(font.widths) \in Nat /\ Length \in Nat /\ Length >= 2 /\ Length + 2 = Len(font.widths)
           /\ \A c \in 0 .. Length - 1 : c \in Nat /\ font.widths[c + 1] \in Nat /\ Rendered(c) \in Nat /\ Rendered(c) >= font.widths[c + 1]
           /\ ~wider => \A c : Rendered(c) = font.widths[c + 1] + 0
<1>1. font.widths \in Seq(Nat) /\ Len(font.widths) > 3
  BY FontAssumption DEF FontType
<1>2. Len(font.widths) \in Nat
  BY <1>1, LenProperties
<1>3. ASSUME NEW c \in 0 .. Length - 1
      PROVE  c \in Nat /\ font.widths[c + 1] \in Nat /\ Rendered(c) \in Nat /\ Rendered(c) >= font.widths[c + 1]
  <2>1. c \in Nat /\ c + 1 \in 1 .. Len(font.widths)
    BY <1>2, <1>3 DEF Length
  <2>2. font.widths[c + 1] \in Nat
    BY <1>1, <2>1, ElementOfSeq
  <2> QED BY <2>1, <2>2 DEF Rendered
<1> QED BY <1>1, <1>2, <1>3 DEF Length, Rendered

\* The first k of m characters are dealt to n rows, each once.
Dealt(p, n, k, m) ==
  /\ p \in [1 .. n -> Seq(0 .. m - 1)]
  /\ \A c \in 0 .. k - 1 : \E r \in 1 .. n : \E i \in 1 .. Len(p[r]) : p[r][i] = c
  /\ \A r \in 1 .. n : \A i \in 1 .. Len(p[r]) : p[r][i] < k
  /\ \A r \in 1 .. n, q \in 1 .. n : \A i \in 1 .. Len(p[r]), j \in 1 .. Len(p[q]) :
       p[r][i] = p[q][j] => r = q /\ i = j

LEMMA OneMoreDealt ==
    ASSUME NEW n \in Nat, NEW m \in Nat, NEW k \in 0 .. m - 1, NEW p, Dealt(p, n, k, m), NEW x \in 1 .. n
    PROVE  Dealt([p EXCEPT ![x] = Append(@, k)], n, k + 1, m)
<1> DEFINE t == [p EXCEPT ![x] = Append(@, k)]
           w == Len(p[x])
           D == 0 .. m - 1
<1>1. /\ p \in [1 .. n -> Seq(D)]
      /\ \A c \in 0 .. k - 1 : \E r \in 1 .. n : \E i \in 1 .. Len(p[r]) : p[r][i] = c
      /\ \A r \in 1 .. n : \A i \in 1 .. Len(p[r]) : p[r][i] < k
      /\ \A r \in 1 .. n, q \in 1 .. n : \A i \in 1 .. Len(p[r]), j \in 1 .. Len(p[q]) :
           p[r][i] = p[q][j] => r = q /\ i = j
  BY DEF Dealt
<1>2. k \in D /\ k \in Nat /\ m \in Nat
  OBVIOUS
<1> HIDE DEF D
<1>3. p[x] \in Seq(D) /\ w \in Nat
  BY <1>1, LenProperties
<1>4. /\ Append(p[x], k) \in Seq(D) /\ Len(Append(p[x], k)) = w + 1 /\ Append(p[x], k)[w + 1] = k
      /\ \A i \in 1 .. w : Append(p[x], k)[i] = p[x][i]
  BY <1>2, <1>3, AppendProperties
<1>5. t \in [1 .. n -> Seq(D)] /\ t[x] = Append(p[x], k) /\ \A r \in 1 .. n : r # x => t[r] = p[r]
  BY <1>1, <1>4
<1> HIDE DEF t
<1>6. \A i : i \in 1 .. w + 1 <=> i \in 1 .. w \/ i = w + 1
  BY <1>3
<1>7. \A r \in 1 .. n : \A i : i \in 1 .. Len(t[r]) => (i \in 1 .. Len(p[r]) /\ t[r][i] = p[r][i]) \/ (r = x /\ i = w + 1 /\ t[r][i] = k)
  BY <1>4, <1>5, <1>6
<1>8. \A r \in 1 .. n : \A i \in 1 .. Len(p[r]) : i \in 1 .. Len(t[r]) /\ t[r][i] = p[r][i]
  BY <1>4, <1>5, <1>6
<1>9. \A c \in 0 .. k + 1 - 1 : c = k \/ c \in 0 .. k - 1
  BY <1>2
<1>10. ASSUME NEW c \in 0 .. k + 1 - 1 PROVE \E r \in 1 .. n : \E i \in 1 .. Len(t[r]) : t[r][i] = c
  <2>1. CASE c = k
    <3>1. w + 1 \in 1 .. Len(t[x]) /\ t[x][w + 1] = k
      BY <1>4, <1>5, <1>6
    <3> QED BY <2>1, <3>1
  <2>2. CASE c \in 0 .. k - 1
    <3>0. PICK r \in 1 .. n : \E i \in 1 .. Len(p[r]) : p[r][i] = c
      BY <1>1, <2>2
    <3>1. PICK i \in 1 .. Len(p[r]) : p[r][i] = c
      BY <3>0
    <3>2. i \in 1 .. Len(t[r]) /\ t[r][i] = c
      BY <1>8, <3>1
    <3> QED BY <3>2
  <2> QED BY <1>9, <2>1, <2>2
<1>11. ASSUME NEW r \in 1 .. n, NEW i \in 1 .. Len(t[r]) PROVE t[r][i] < k + 1
  <2>1. CASE i \in 1 .. Len(p[r]) /\ t[r][i] = p[r][i]
    <3>1. p[r] \in Seq(D) /\ p[r][i] \in D /\ p[r][i] < k
      BY <1>1, <2>1, ElementOfSeq
    <3>2. p[r][i] \in Nat
      BY <3>1 DEF D
    <3> QED BY <1>2, <2>1, <3>1, <3>2
  <2>2. CASE t[r][i] = k
    BY <1>2, <2>2
  <2> QED BY <1>7, <2>1, <2>2
<1>12. ASSUME NEW r \in 1 .. n, NEW q \in 1 .. n, NEW i \in 1 .. Len(t[r]), NEW j \in 1 .. Len(t[q]), t[r][i] = t[q][j]
       PROVE  r = q /\ i = j
  <2>1. \A v \in 1 .. n : \A h \in 1 .. Len(p[v]) : p[v][h] # k
    <3> SUFFICES ASSUME NEW v \in 1 .. n, NEW h \in 1 .. Len(p[v]) PROVE p[v][h] # k
      OBVIOUS
    <3>1. p[v][h] < k
      BY <1>1
    <3> QED BY <1>2, <3>1
  <2>2. (i \in 1 .. Len(p[r]) /\ t[r][i] = p[r][i]) \/ (r = x /\ i = w + 1 /\ t[r][i] = k)
    BY <1>7
  <2>3. (j \in 1 .. Len(p[q]) /\ t[q][j] = p[q][j]) \/ (q = x /\ j = w + 1 /\ t[q][j] = k)
    BY <1>7
  <2>4. CASE i \in 1 .. Len(p[r]) /\ t[r][i] = p[r][i]
    <3>1. t[r][i] # k
      BY <2>1, <2>4
    <3>2. j \in 1 .. Len(p[q]) /\ t[q][j] = p[q][j]
      BY <1>12, <2>3, <3>1
    <3>3. p[r][i] = p[q][j]
      BY <1>12, <2>4, <3>2
    <3> QED BY <1>1, <2>4, <3>2, <3>3
  <2>5. CASE r = x /\ i = w + 1 /\ t[r][i] = k
    <3>1. q = x /\ j = w + 1
      BY <1>12, <2>1, <2>3, <2>5
    <3> QED BY <2>5, <3>1
  <2> QED BY <2>2, <2>4, <2>5
<1>13. Dealt(t, n, k + 1, m)
  BY <1>5, <1>10, <1>11, <1>12 DEF Dealt, D
<1> QED BY <1>13 DEF t

\* What the characters of a row have in width is a natural number.
LEMMA RowWidthIs ==
    ASSUME FontType, NEW chars \in Seq(0 .. Length - 1)
    PROVE  /\ RowWidth(chars) \in Nat
           /\ RowWidth(chars) = font.padding + SumOf([i \in DOMAIN chars |-> font.widths[chars[i] + 1] + font.padding], 1 .. Len(chars))
           /\ \A i \in 1 .. Len(chars) : font.widths[chars[i] + 1] + font.padding \in Nat
<1> DEFINE a == [i \in DOMAIN chars |-> font.widths[chars[i] + 1] + font.padding]
<1>1. DOMAIN chars = 1 .. Len(chars) /\ Len(chars) \in Nat
  BY LenProperties
<1>2. ASSUME NEW i \in 1 .. Len(chars) PROVE font.widths[chars[i] + 1] + font.padding \in Nat
  <2>1. chars[i] \in 0 .. Length - 1
    BY ElementOfSeq
  <2>2. font.widths[chars[i] + 1] \in Nat
    BY <2>1, LengthIs
  <2> QED BY <2>2, FontAssumption, SizeIs
<1>3. DOMAIN a = 1 .. Len(chars) /\ \A i \in 1 .. Len(chars) : a[i] \in Nat
  BY <1>1, <1>2
<1>4. IsFiniteSet(1 .. Len(chars))
  BY <1>1, FS_Interval
<1>5. RowWidth(chars) = font.padding + SumOf(a, DOMAIN a)
  BY SumFunctionIs, Zenon DEF RowWidth, SumFunction
<1> HIDE DEF a
<1>6. SumOf(a, 1 .. Len(chars)) \in Nat
  BY <1>3, <1>4, SumOfSplit
<1>7. RowWidth(chars) \in Nat
  BY <1>3, <1>5, <1>6, FontAssumption, SizeIs
<1> QED BY <1>2, <1>3, <1>5, <1>7 DEF a

LEMMA NarrowestIs ==
    ASSUME FontType, NEW n \in Nat \ {0}, NEW p \in [1 .. n -> Seq(0 .. Length - 1)]
    PROVE  Narrowest(p) \in 1 .. n
<1> DEFINE S == {RowWidth(p[r]) : r \in 1 .. n}
           T == {r \in 1 .. n : \A q \in 1 .. n : RowWidth(p[r]) <= RowWidth(p[q])}
<1>1. \A r \in 1 .. n : RowWidth(p[r]) \in Nat
  BY RowWidthIs
<1>2. 1 \in 1 .. n /\ 1 .. n \subseteq Nat
  OBVIOUS
<1>3. S \subseteq Nat /\ S # {}
  BY <1>1, <1>2
<1>4. Min(S) \in S /\ \A x \in S : Min(S) <= x
  <2> HIDE DEF S
  <2> QED BY <1>3, LeastIsIn
<1>5. PICK r \in 1 .. n : Min(S) = RowWidth(p[r])
  BY <1>4
<1>6. r \in T
  BY <1>4, <1>5
<1>7. T \subseteq Nat /\ T # {} /\ T \subseteq 1 .. n
  BY <1>2, <1>6
<1>8. Narrowest(p) = Min(T)
  <2>1. DOMAIN p = 1 .. n
    OBVIOUS
  <2> QED BY <2>1, Zenon DEF Narrowest
<1> HIDE DEF T
<1> QED BY <1>7, <1>8, LeastIsIn

LEMMA RowsDealt ==
    ASSUME FontType, NEW n \in Nat \ {0}
    PROVE  Dealt(createRows(n), n, Length, Length)
<1> DEFINE m == Length
           S == 1 .. m
           V == [1 .. n -> Seq(0 .. m - 1)]
           deal(p, k) == LET r == Narrowest(p) IN [p EXCEPT ![r] = Append(@, k)]
           g == [i \in S |-> [p \in V |-> deal(p, i - 1)]]
           c == [s \in SUBSET S |-> Max(s)]
           seq == [i \in 1 .. m |-> i - 1]
           b == [r \in 1 .. n |-> <<>>]
           h == CHOOSE h : h = [s \in SUBSET S |-> IF s = {} THEN b ELSE deal(h[s \ {Max(s)}], seq[Max(s)])]
<1>1. m \in Nat /\ m >= 2
  BY LengthIs
<1>2. b \in V
  <2>1. <<>> \in Seq(0 .. m - 1)
    BY EmptySeq
  <2> HIDE DEF m
  <2> QED BY <2>1
<1>3. ASSUME NEW p \in V, NEW k \in 0 .. m - 1 PROVE deal(p, k) \in V
  <2> DEFINE D == 0 .. m - 1
  <2>1. p \in [1 .. n -> Seq(D)] /\ k \in D
    OBVIOUS
  <2> HIDE DEF D
  <2>2. \A r \in 1 .. n : Append(p[r], k) \in Seq(D)
    BY <2>1, AppendProperties
  <2>3. \A x : [p EXCEPT ![x] = Append(@, k)] \in [1 .. n -> Seq(D)]
    BY <2>1, <2>2
  <2> QED BY <2>3 DEF D
<1> HIDE DEF deal, V
<1>4. g \in [S -> [V -> V]] /\ \A i \in S, p \in V : g[i][p] = deal(p, i - 1)
  <2>1. \A i \in S : i - 1 \in 0 .. m - 1
    BY <1>1
  <2> HIDE DEF S, m
  <2> QED BY <1>3, <2>1
<1>5. IsFiniteSet(S) /\ \A s \in SUBSET S : s # {} => c[s] \in s /\ c[s] = Max(s) /\ \A x \in s : x <= Max(s)
  <2>1. IsFiniteSet(S) /\ S \subseteq Nat
    BY <1>1, FS_Interval
  <2> HIDE DEF S
  <2>2. \A s \in SUBSET S : s # {} => Max(s) \in s /\ \A x \in s : x <= Max(s)
    BY <2>1, GreatestIs, FS_Subset
  <2> QED BY <2>1, <2>2
<1>6. PICK f : Folds(S, V, b, g, c, f)
  <2> HIDE DEF S, g, c, b
  <2> QED BY <1>2, <1>4, <1>5, FoldExists
<1>7. f \in [SUBSET S -> V] /\ f = [s \in SUBSET S |-> IF s = {} THEN b ELSE g[c[s]][f[s \ {c[s]}]]]
  BY <1>6 DEF Folds
<1>8. \A i \in S : seq[i] = i - 1
  OBVIOUS
<1> HIDE DEF g, c, S, b, seq
<1>9. ASSUME NEW s \in SUBSET S, s # {} PROVE f[s] = deal(f[s \ {Max(s)}], seq[Max(s)])
  <2>1. c[s] = Max(s) /\ c[s] \in S /\ s \ {c[s]} \in SUBSET S
    BY <1>5, <1>9
  <2>2. f[s \ {c[s]}] \in V
    BY <1>7, <2>1
  <2>3. f[s] = g[c[s]][f[s \ {c[s]}]]
    BY <1>7, <1>9
  <2>4. f[s] = deal(f[s \ {c[s]}], c[s] - 1)
    BY <1>4, <2>1, <2>2, <2>3
  <2> QED BY <1>8, <2>1, <2>4
<1>10. f = [s \in SUBSET S |-> IF s = {} THEN b ELSE deal(f[s \ {Max(s)}], seq[Max(s)])]
  <2>1. f = [s \in SUBSET S |-> f[s]]
    BY <1>7
  <2> QED BY <1>7, <1>9, <2>1
<1>11. h = [s \in SUBSET S |-> IF s = {} THEN b ELSE deal(h[s \ {Max(s)}], seq[Max(s)])]
  BY <1>10, Zenon
<1>12. createRows(n) = h[S]
  <2>1. DOMAIN seq = S
    BY DEF seq, S
  <2> QED BY <2>1, Zenon DEF createRows, FoldLeft, MapThenFoldSet, deal, b, seq
<1> HIDE DEF h
<1> DEFINE E == {k \in Nat : k <= m => Dealt(h[1 .. k], n, k, m)}
<1>13. 0 \in E
  <2>1. 1 .. 0 = {} /\ h[{}] = b
    BY <1>11
  <2>2. Dealt(b, n, 0, m)
    <3>1. b \in [1 .. n -> Seq(0 .. m - 1)]
      BY <1>2 DEF V
    <3>2. \A r \in 1 .. n : b[r] = <<>> /\ Len(b[r]) = 0 /\ 1 .. Len(b[r]) = {}
      BY EmptySeq DEF b
    <3>3. 0 .. 0 - 1 = {}
      OBVIOUS
    <3> HIDE DEF m
    <3> QED BY <3>1, <3>2, <3>3 DEF Dealt
  <2> HIDE DEF m
  <2> QED BY <2>1, <2>2
<1>14. ASSUME NEW k \in Nat, k \in E PROVE k + 1 \in E
  <2> SUFFICES ASSUME k + 1 <= m PROVE Dealt(h[1 .. k + 1], n, k + 1, m)
    BY DEF E
  <2> DEFINE j == k + 1
             s == 1 .. j
             p == h[1 .. k]
  <2>1. Dealt(p, n, k, m) /\ k \in 0 .. m - 1 /\ p \in [1 .. n -> Seq(0 .. m - 1)]
    <3>1. Dealt(p, n, k, m) /\ k \in 0 .. m - 1
      BY <1>1, <1>14
    <3> HIDE DEF p, m
    <3> QED BY <3>1 DEF Dealt
  <2>2. s \in SUBSET S /\ s # {} /\ j \in s /\ s \ {j} = 1 .. k /\ \A x \in s : x <= j
    BY <1>1 DEF S
  <2>3. Max(s) = j
    <3>1. Max(s) \in s /\ j <= Max(s) /\ Max(s) <= j
      BY <1>5, <2>2
    <3> QED BY <3>1
  <2> HIDE DEF s, m
  <2>4. h[s] = deal(p, k)
    <3>1. h[s] = deal(h[s \ {j}], seq[j])
      BY <1>11, <2>2, <2>3
    <3>2. seq[j] = j - 1 /\ j - 1 = k
      BY <1>8, <2>2
    <3> QED BY <2>2, <3>1, <3>2
  <2>5. Narrowest(p) \in 1 .. n
    BY <2>1, NarrowestIs DEF m
  <2>6. Dealt([p EXCEPT ![Narrowest(p)] = Append(@, k)], n, k + 1, m)
    <3> HIDE DEF p
    <3> QED BY <1>1, <2>1, <2>5, OneMoreDealt
  <2> QED BY <2>4, <2>6 DEF deal, s
<1> HIDE DEF E
<1>15. m \in E
  <2>1. E \subseteq Nat
    BY DEF E
  <2>2. \A k \in Nat : k \in E
    BY <1>13, <1>14, <2>1, ByInduction
  <2> QED BY <1>1, <2>2
<1> QED BY <1>1, <1>12, <1>15 DEF E, S

\* A texture that was found good enough: its rows, in the widths of f.
Laid(b, f) ==
  \E n \in Nat \ {0} :
    /\ Dealt(b.rows, n, Len(f.widths) - 2, Len(f.widths) - 2)
    /\ \A r \in 1 .. n :
         f.padding + SumOf([i \in DOMAIN b.rows[r] |-> f.widths[b.rows[r][i] + 1] + f.padding], 1 .. Len(b.rows[r])) <= b.width
    /\ n * (f.padding + f.height) + f.padding <= b.height
    /\ b.width \in Nat /\ b.height \in Nat

LEMMA CandidateLaid == ASSUME FontType, NEW n \in Nat \ {0} PROVE Laid(Candidate(n), font)
<1> DEFINE p == createRows(n)
           S == {RowWidth(p[r]) : r \in 1 .. n}
           height == n * (font.padding + font.height) + font.padding
<1>1. Dealt(p, n, Length, Length) /\ p \in [1 .. n -> Seq(0 .. Length - 1)] /\ DOMAIN p = 1 .. n
  <2>1. Dealt(p, n, Length, Length)
    BY RowsDealt
  <2> HIDE DEF p
  <2> QED BY <2>1 DEF Dealt
<1> HIDE DEF p
<1>2. \A r \in 1 .. n : RowWidth(p[r]) \in Nat
  BY <1>1, RowWidthIs
<1>3. S \subseteq Nat /\ S # {} /\ IsFiniteSet(S)
  <2>1. S \subseteq Nat /\ S # {}
    <3>1. 1 \in 1 .. n
      OBVIOUS
    <3> QED BY <1>2, <3>1
  <2>2. IsFiniteSet(1 .. n)
    BY FS_Interval
  <2> DEFINE w == [r \in 1 .. n |-> RowWidth(p[r])]
  <2>3. DOMAIN w = 1 .. n /\ w = [r \in 1 .. n |-> w[r]] /\ S = {w[r] : r \in 1 .. n}
    OBVIOUS
  <2> HIDE DEF w, S
  <2>4. IsFiniteSet({w[r] : r \in 1 .. n})
    BY <2>2, <2>3, FiniteValues
  <2> QED BY <2>1, <2>3, <2>4
<1>4. Widest(p) = Max(S)
  BY <1>1, Zenon DEF Widest
<1>5. Max(S) \in S /\ \A x \in S : x <= Max(S)
  <2> HIDE DEF S
  <2> QED BY <1>3, GreatestIs
<1>6. Widest(p) \in Nat /\ \A r \in 1 .. n : RowWidth(p[r]) <= Widest(p)
  BY <1>3, <1>4, <1>5
<1>7. closestPow2(Widest(p)) \in Nat /\ closestPow2(Widest(p)) >= Widest(p)
  BY <1>6, PowerReaches
<1>8. height \in Nat
  <2> DEFINE H == font.padding + font.height
  <2>1. H \in Nat /\ font.padding \in Nat /\ n \in Nat
    BY SizeIs
  <2> HIDE DEF H
  <2>2. n * H \in Nat
    BY <2>1
  <2>3. n * H + font.padding \in Nat
    BY <2>1, <2>2
  <2> QED BY <2>3 DEF H
<1>9. closestPow2(height) \in Nat /\ closestPow2(height) >= height
  <2> HIDE DEF height
  <2> QED BY <1>8, PowerReaches
<1>10. ASSUME NEW r \in 1 .. n
       PROVE  font.padding + SumOf([i \in DOMAIN p[r] |-> font.widths[p[r][i] + 1] + font.padding], 1 .. Len(p[r])) <= closestPow2(Widest(p))
  <2>1. RowWidth(p[r]) = font.padding + SumOf([i \in DOMAIN p[r] |-> font.widths[p[r][i] + 1] + font.padding], 1 .. Len(p[r]))
    BY <1>1, RowWidthIs
  <2>2. RowWidth(p[r]) <= closestPow2(Widest(p))
    BY <1>2, <1>6, <1>7
  <2> QED BY <2>1, <2>2
<1>11. /\ Candidate(n).rows = p /\ Candidate(n).width = closestPow2(Widest(p)) /\ Candidate(n).height = closestPow2(height)
       /\ Length = Len(font.widths) - 2
  BY DEF Candidate, Length, p
<1>12. height <= closestPow2(height)
  <2> HIDE DEF height
  <2> QED BY <1>8, <1>9
<1> HIDE DEF height
<1>13. /\ Dealt(Candidate(n).rows, n, Len(font.widths) - 2, Len(font.widths) - 2)
       /\ Candidate(n).width \in Nat /\ Candidate(n).height \in Nat
       /\ n * (font.padding + font.height) + font.padding <= Candidate(n).height
  BY <1>1, <1>7, <1>9, <1>11, <1>12 DEF height
<1>14. ASSUME NEW r \in 1 .. n
       PROVE  font.padding + SumOf([i \in DOMAIN Candidate(n).rows[r] |-> font.widths[Candidate(n).rows[r][i] + 1] + font.padding],
                              1 .. Len(Candidate(n).rows[r])) <= Candidate(n).width
  BY <1>10, <1>11, Zenon
<1> QED BY <1>13, <1>14 DEF Laid

\* The places of a row, in terms of what is rendered.
LEMMA RectIs ==
    ASSUME FontType, NEW r \in Nat \ {0}, best.rows[r] \in Seq(0 .. Length - 1), NEW i \in 1 .. Len(best.rows[r])
    PROVE  LET chars == best.rows[r]
               a   == [j \in DOMAIN chars |-> Rendered(chars[j]) + font.padding]
           IN  /\ Rect(r, i).char = chars[i] /\ Rect(r, i).y = font.padding + (r - 1) * (font.height + font.padding)
               /\ Rect(r, i).w = Rendered(chars[i]) /\ Rect(r, i).w \in Nat /\ Rect(r, i).x \in Nat
               /\ Rect(r, i).x + Rect(r, i).w = SumOf(a, 1 .. i) /\ SumOf(a, 1 .. i) \in Nat
               /\ Rect(r, i).x = font.padding + SumOf(a, 1 .. i - 1)
               /\ SumOf(a, 1 .. i) <= SumOf(a, 1 .. Len(chars))
               /\ \A k \in 1 .. Len(chars) : i <= k => SumOf(a, 1 .. i) <= SumOf(a, 1 .. k)
<1> DEFINE chars == best.rows[r]
           a == [j \in DOMAIN chars |-> Rendered(chars[j]) + font.padding]
           n == Len(chars)
<1>1. n \in Nat /\ DOMAIN chars = 1 .. n /\ i \in 1 .. n
  BY LenProperties
<1>2. ASSUME NEW j \in 1 .. n PROVE a[j] = Rendered(chars[j]) + font.padding /\ a[j] \in Nat /\ Rendered(chars[j]) \in Nat
  <2>1. chars[j] \in 0 .. Length - 1
    BY ElementOfSeq
  <2>2. Rendered(chars[j]) \in Nat
    BY <2>1, LengthIs
  <2> QED BY <1>1, <2>2, FontAssumption, SizeIs
<1>3. /\ Rect(r, i).char = chars[i] /\ Rect(r, i).y = font.padding + (r - 1) * (font.height + font.padding)
      /\ Rect(r, i).w = Rendered(chars[i])
      /\ Rect(r, i).x = font.padding + SumFunctionOnSet(a, 1 .. i - 1)
  BY DEF Rect
<1>4. SumFunctionOnSet(a, 1 .. i - 1) = SumOf(a, 1 .. i - 1)
  BY SumFunctionIs
<1> HIDE DEF a, chars, n
<1>5. \A k \in 1 .. n : IsFiniteSet(1 .. k) /\ 1 .. k \subseteq 1 .. n /\ \A x \in 1 .. k : a[x] \in Nat
  <2> TAKE k \in 1 .. n
  <2>0. 1 \in Int /\ k \in Int /\ k <= n
    BY <1>1
  <2>1. IsFiniteSet(1 .. k)
    BY <2>0, FS_Interval
  <2>2. 1 .. k \subseteq 1 .. n
    BY <1>1, <2>0
  <2> QED BY <1>2, <2>1, <2>2
<1>6. SumOf(a, 1 .. i) = a[i] + SumOf(a, 1 .. i - 1) /\ SumOf(a, 1 .. i - 1) \in Nat /\ SumOf(a, 1 .. i) \in Nat
  <2>1. i \in 1 .. i /\ (1 .. i) \ {i} = 1 .. i - 1 /\ 1 .. i - 1 \in SUBSET (1 .. i)
    BY <1>1
  <2>2. SumOf(a, 1 .. i) \in Nat /\ SumOf(a, 1 .. i) = a[i] + SumOf(a, (1 .. i) \ {i})
    BY <1>1, <1>5, <2>1, SumOfSplit
  <2>3. SumOf(a, 1 .. i - 1) \in Nat
    BY <1>1, <1>5, <2>1, SumOfMore
  <2> QED BY <2>1, <2>2, <2>3
<1>7. \A k \in 1 .. n : i <= k => SumOf(a, 1 .. i) <= SumOf(a, 1 .. k)
  <2> SUFFICES ASSUME NEW k \in 1 .. n, i <= k PROVE SumOf(a, 1 .. i) <= SumOf(a, 1 .. k)
    OBVIOUS
  <2>1. 1 .. i \in SUBSET (1 .. k)
    BY <1>1
  <2> QED BY <1>5, <2>1, SumOfMore
<1>8. n \in 1 .. n /\ i <= n
  BY <1>1
<1>9. SumOf(a, 1 .. i) <= SumOf(a, 1 .. n)
  BY <1>7, <1>8
<1>10. Rect(r, i).x + Rect(r, i).w = SumOf(a, 1 .. i) /\ Rect(r, i).x \in Nat /\ Rect(r, i).w \in Nat
  <2>1. a[i] = Rendered(chars[i]) + font.padding /\ Rendered(chars[i]) \in Nat /\ font.padding \in Nat
    BY <1>1, <1>2, FontAssumption, SizeIs
  <2> QED BY <1>3, <1>4, <1>6, <2>1
<1> QED BY <1>3, <1>4, <1>6, <1>7, <1>9, <1>10 DEF a, chars, n

\* Not wider than measured, a row ends where the texture does at the latest.
LEMMA RectInside ==
    ASSUME FontType, ~wider, NEW r \in Nat \ {0}, best.rows[r] \in Seq(0 .. Length - 1), NEW i \in 1 .. Len(best.rows[r]),
           NEW width \in Nat,
           font.padding + SumOf([j \in DOMAIN best.rows[r] |-> font.widths[best.rows[r][j] + 1] + font.padding], 1 .. Len(best.rows[r])) <= width
    PROVE  Rect(r, i).x + Rect(r, i).w <= width
<1> DEFINE chars == best.rows[r]
           a == [j \in DOMAIN chars |-> Rendered(chars[j]) + font.padding]
           b == [j \in DOMAIN chars |-> font.widths[chars[j] + 1] + font.padding]
           n == Len(chars)
<1>1. n \in Nat /\ DOMAIN chars = 1 .. n /\ IsFiniteSet(1 .. n)
  <2>1. n \in Nat /\ DOMAIN chars = 1 .. n
    BY LenProperties
  <2> HIDE DEF n
  <2> QED BY <2>1, FS_Interval
<1>2. \A j \in 1 .. n : b[j] \in Nat
  BY <1>1, RowWidthIs
<1>3. \A j \in 1 .. n : b[j] = a[j]
  <2> SUFFICES ASSUME NEW j \in 1 .. n PROVE b[j] = a[j]
    OBVIOUS
  <2>1. chars[j] \in 0 .. Length - 1
    BY ElementOfSeq
  <2>2. font.widths[chars[j] + 1] \in Nat
    BY <2>1, LengthIs
  <2>3. Rendered(chars[j]) = font.widths[chars[j] + 1]
    BY <2>2 DEF Rendered
  <2> QED BY <1>1, <2>3
<1>4. Rect(r, i).x + Rect(r, i).w = SumOf(a, 1 .. i) /\ SumOf(a, 1 .. i) \in Nat /\ SumOf(a, 1 .. i) <= SumOf(a, 1 .. n)
  BY RectIs
<1>5. font.padding + SumOf(b, 1 .. n) <= width
  OBVIOUS
<1> HIDE DEF a, b, n
<1>6. SumOf(b, 1 .. n) = SumOf(a, 1 .. n) /\ SumOf(b, 1 .. n) \in Nat
  BY <1>1, <1>2, <1>3, SumOfSame, SumOfSplit
<1> QED BY <1>4, <1>5, <1>6, FontAssumption, SizeIs

\* What the invariants say of the characters, in their values.
Once(rs, m) == \A c \in 0 .. m - 1 : Cardinality({i \in DOMAIN rs : rs[i].char = c}) = 1
Inside(rs, b, f) ==
  \A i \in DOMAIN rs :
    /\ rs[i].x + rs[i].w <= b.width
    /\ rs[i].y \in Nat /\ rs[i].y >= f.padding /\ rs[i].y + f.height + f.padding <= b.height
Apart(rs, f) ==
  \A i, j \in DOMAIN rs :
    i # j /\ rs[i].y = rs[j].y =>
      rs[i].x + rs[i].w + f.padding <= rs[j].x \/ rs[j].x + rs[j].w + f.padding <= rs[i].x
Owned(rs, a) ==
  \A i \in DOMAIN rs : rs[i].slice # a /\ \A j \in DOMAIN rs : i # j => rs[i].slice # rs[j].slice
Natural(rs) == \A i \in DOMAIN rs : rs[i].x \in Nat /\ rs[i].w \in Nat
Packed(rs, b, f, m, w, a) == Once(rs, m) /\ (~w => Inside(rs, b, f)) /\ Apart(rs, f) /\ Owned(rs, a) /\ Natural(rs)

LEMMA MoreRows ==
    ASSUME NEW n \in Nat, NEW r \in 1 .. n, NEW H \in Nat
    PROVE  (r - 1) * H + H <= n * H /\ (r - 1) * H \in Nat
<1> DEFINE d == n - r
<1>1. d \in Nat /\ n = r + d /\ r \in Nat /\ r - 1 \in Nat
  OBVIOUS
<1> HIDE DEF d
<1>2. n * H = r * H + d * H /\ (r - 1) * H + H = r * H /\ (r - 1) * H \in Nat
  BY <1>1
<1>3. d * H \in Nat /\ r * H \in Nat
  BY <1>1
<1> QED BY <1>2, <1>3

LEMMA RowsDiffer ==
    ASSUME NEW r \in Nat \ {0}, NEW q \in Nat \ {0}, NEW H \in Nat \ {0}, (r - 1) * H = (q - 1) * H
    PROVE  r = q
<1>1. CASE r < q
  <2> DEFINE d == q - r
  <2>1. d \in Nat \ {0} /\ q - 1 = (r - 1) + d
    BY <1>1
  <2> HIDE DEF d
  <2>2. (q - 1) * H = (r - 1) * H + d * H
    BY <2>1
  <2>3. d * H \in Nat \ {0} /\ (r - 1) * H \in Nat
    BY <2>1
  <2> QED BY <2>2, <2>3
<1>2. CASE q < r
  <2> DEFINE d == r - q
  <2>1. d \in Nat \ {0} /\ r - 1 = (q - 1) + d
    BY <1>2
  <2> HIDE DEF d
  <2>2. (r - 1) * H = (q - 1) * H + d * H
    BY <2>1
  <2>3. d * H \in Nat \ {0} /\ (q - 1) * H \in Nat
    BY <2>1
  <2> QED BY <2>2, <2>3
<1> QED BY <1>1, <1>2

\* No two characters have their turn at once.
LEMMA TurnsDiffer ==
    ASSUME NEW n \in Nat, DOMAIN best.rows = 1 .. n, \A r \in 1 .. n : Len(best.rows[r]) \in Nat
    PROVE  /\ \A r \in 1 .. n : \A i \in 1 .. Len(best.rows[r]) : Turn(r, i) \in Nat \ {0}
           /\ \A r \in 1 .. n, q \in 1 .. n : \A i \in 1 .. Len(best.rows[r]), j \in 1 .. Len(best.rows[q]) :
                r # q \/ i # j => Turn(r, i) # Turn(q, j)
<1> DEFINE a == [q \in DOMAIN best.rows |-> Len(best.rows[q])]
<1>1. \A r \in 1 .. n : a[r] = Len(best.rows[r]) /\ a[r] \in Nat
  OBVIOUS
<1>2. \A r, i : Turn(r, i) = SumOf(a, 1 .. r - 1) + i
  BY SumFunctionIs DEF Turn
<1> HIDE DEF a
<1>3. \A r \in 1 .. n : IsFiniteSet(1 .. r) /\ 1 .. r \subseteq 1 .. n /\ \A x \in 1 .. r : a[x] \in Nat
  <2> TAKE r \in 1 .. n
  <2>0. 1 \in Int /\ r \in Int /\ r <= n
    OBVIOUS
  <2>1. IsFiniteSet(1 .. r)
    BY <2>0, FS_Interval
  <2>2. 1 .. r \subseteq 1 .. n
    BY <2>0
  <2> QED BY <1>1, <2>1, <2>2
<1>4. \A r \in 1 .. n : SumOf(a, 1 .. r) = a[r] + SumOf(a, 1 .. r - 1) /\ SumOf(a, 1 .. r - 1) \in Nat /\ SumOf(a, 1 .. r) \in Nat
  <2> TAKE r \in 1 .. n
  <2>1. r \in 1 .. r /\ (1 .. r) \ {r} = 1 .. r - 1 /\ 1 .. r - 1 \in SUBSET (1 .. r)
    OBVIOUS
  <2>2. SumOf(a, 1 .. r) \in Nat /\ SumOf(a, 1 .. r) = a[r] + SumOf(a, (1 .. r) \ {r})
    BY <1>3, <2>1, SumOfSplit
  <2>3. SumOf(a, 1 .. r - 1) \in Nat
    BY <1>3, <2>1, SumOfMore
  <2> QED BY <2>1, <2>2, <2>3
<1>5. ASSUME NEW r \in 1 .. n, NEW i \in 1 .. Len(best.rows[r])
      PROVE  /\ Turn(r, i) \in Nat \ {0} /\ Turn(r, i) <= SumOf(a, 1 .. r)
             /\ SumOf(a, 1 .. r) \in Nat /\ SumOf(a, 1 .. r - 1) \in Nat /\ i \in Nat \ {0}
  <2> DEFINE before == SumOf(a, 1 .. r - 1)
             all == SumOf(a, 1 .. r)
             here == Len(best.rows[r])
  <2>1. Turn(r, i) = before + i
    BY <1>2
  <2>2. before \in Nat /\ all \in Nat /\ all = a[r] + before
    BY <1>4
  <2>3. a[r] = here /\ here \in Nat /\ i \in 1 .. here
    BY <1>1
  <2> HIDE DEF before, all, here
  <2>4. i \in Nat \ {0} /\ i <= here
    BY <2>3
  <2>5. Turn(r, i) \in Nat \ {0} /\ Turn(r, i) <= all
    BY <2>1, <2>2, <2>3, <2>4
  <2> QED BY <2>2, <2>4, <2>5 DEF before, all
<1>6. ASSUME NEW r \in 1 .. n, NEW q \in 1 .. n, NEW i \in 1 .. Len(best.rows[r]), NEW j \in 1 .. Len(best.rows[q]), r < q
      PROVE  Turn(r, i) < Turn(q, j)
  <2> DEFINE m == q - 1
  <2>1. m \in 1 .. n /\ 1 .. r \in SUBSET (1 .. m)
    BY <1>6
  <2>2. Turn(q, j) = SumOf(a, 1 .. m) + j
    BY <1>2
  <2> HIDE DEF m
  <2>3. SumOf(a, 1 .. r) <= SumOf(a, 1 .. m)
    BY <1>3, <2>1, SumOfMore
  <2>4. Turn(r, i) <= SumOf(a, 1 .. r) /\ SumOf(a, 1 .. r) \in Nat /\ Turn(r, i) \in Nat
    BY <1>5
  <2>5. SumOf(a, 1 .. m) \in Nat /\ j \in Nat \ {0}
    BY <1>4, <1>5, <2>1
  <2> QED BY <2>2, <2>3, <2>4, <2>5
<1>7. ASSUME NEW r \in 1 .. n, NEW i \in 1 .. Len(best.rows[r]), NEW j \in 1 .. Len(best.rows[r]), i # j
      PROVE  Turn(r, i) # Turn(r, j)
  <2>1. SumOf(a, 1 .. r - 1) \in Nat /\ i \in Nat /\ j \in Nat
    BY <1>5
  <2> QED BY <1>2, <1>7, <2>1
<1>8. ASSUME NEW r \in 1 .. n, NEW q \in 1 .. n, NEW i \in 1 .. Len(best.rows[r]), NEW j \in 1 .. Len(best.rows[q]),
             r # q \/ i # j
      PROVE  Turn(r, i) # Turn(q, j)
  <2>1. Turn(r, i) \in Nat /\ Turn(q, j) \in Nat
    BY <1>5
  <2>2. CASE r < q
    BY <1>6, <2>1, <2>2
  <2>3. CASE q < r
    BY <1>6, <2>1, <2>3
  <2>4. CASE r = q
    BY <1>7, <1>8, <2>4
  <2> QED BY <2>2, <2>3, <2>4
<1> QED BY <1>5, <1>8

LEMMA RectsPacked ==
    ASSUME FontType, Laid(best, font), Room.taken \in Nat
    PROVE  Packed(SetToSeq(UNION {{Rect(r, i) : i \in DOMAIN best.rows[r]} : r \in DOMAIN best.rows}), best, font, Length,
                  wider, Room.taken)
<1> DEFINE R == UNION {{Rect(r, i) : i \in DOMAIN best.rows[r]} : r \in DOMAIN best.rows}
           p == best.rows
           D == 0 .. Length - 1
           rs == SetToSeq(R)
           N == Cardinality(R)
<1>0. PICK n \in Nat \ {0} :
        /\ Dealt(p, n, Len(font.widths) - 2, Len(font.widths) - 2)
        /\ \A r \in 1 .. n :
             font.padding + SumOf([i \in DOMAIN p[r] |-> font.widths[p[r][i] + 1] + font.padding], 1 .. Len(p[r])) <= best.width
        /\ n * (font.padding + font.height) + font.padding <= best.height
        /\ best.width \in Nat /\ best.height \in Nat
  BY DEF Laid
<1> HIDE DEF p
<1>1. /\ p \in [1 .. n -> Seq(D)]
      /\ \A c \in D : \E r \in 1 .. n : \E i \in 1 .. Len(p[r]) : p[r][i] = c
      /\ \A r \in 1 .. n, q \in 1 .. n : \A i \in 1 .. Len(p[r]), j \in 1 .. Len(p[q]) :
           p[r][i] = p[q][j] => r = q /\ i = j
  BY <1>0 DEF Dealt, Length
<1>2. /\ DOMAIN p = 1 .. n
      /\ \A r \in 1 .. n : p[r] \in Seq(D) /\ Len(p[r]) \in Nat /\ DOMAIN p[r] = 1 .. Len(p[r])
                           /\ \A i \in 1 .. Len(p[r]) : p[r][i] \in D
  <2> HIDE DEF D
  <2> QED BY <1>1, LenProperties, ElementOfSeq
<1>3. \A x : x \in R <=> \E r \in 1 .. n : \E i \in 1 .. Len(p[r]) : x = Rect(r, i)
  BY <1>2 DEF p
<1>4. \A r \in 1 .. n : \A i \in 1 .. Len(p[r]) :
        /\ Rect(r, i).char = p[r][i] /\ Rect(r, i).char \in D
        /\ Rect(r, i).y = font.padding + (r - 1) * (font.height + font.padding)
  <2> SUFFICES ASSUME NEW r \in 1 .. n, NEW i \in 1 .. Len(p[r])
               PROVE  /\ Rect(r, i).char = p[r][i] /\ Rect(r, i).char \in D
                      /\ Rect(r, i).y = font.padding + (r - 1) * (font.height + font.padding)
    OBVIOUS
  <2>1. r \in Nat \ {0} /\ p[r] \in Seq(0 .. Length - 1)
    BY <1>2
  <2>2. Rect(r, i).char = p[r][i] /\ Rect(r, i).y = font.padding + (r - 1) * (font.height + font.padding)
    BY <2>1, RectIs DEF p
  <2> QED BY <1>2, <2>2
<1> HIDE DEF R
\* Each character has one rectangle.
<1> DEFINE of == [c \in D |-> CHOOSE x \in R : x.char = c]
<1>5. \A x \in R, y \in R : x.char = y.char => x = y
  <2> SUFFICES ASSUME NEW x \in R, NEW y \in R, x.char = y.char PROVE x = y
    OBVIOUS
  <2>1. PICK r \in 1 .. n : \E i \in 1 .. Len(p[r]) : x = Rect(r, i)
    BY <1>3
  <2>2. PICK i \in 1 .. Len(p[r]) : x = Rect(r, i)
    BY <2>1
  <2>3. PICK q \in 1 .. n : \E j \in 1 .. Len(p[q]) : y = Rect(q, j)
    BY <1>3
  <2>4. PICK j \in 1 .. Len(p[q]) : y = Rect(q, j)
    BY <2>3
  <2>5. p[r][i] = p[q][j]
    BY <1>4, <2>2, <2>4
  <2>6. r = q /\ i = j
    BY <1>1, <2>5
  <2> QED BY <2>2, <2>4, <2>6
<1>6. \A c \in D : \E x \in R : x.char = c
  <2> SUFFICES ASSUME NEW c \in D PROVE \E x \in R : x.char = c
    OBVIOUS
  <2>1. PICK r \in 1 .. n : \E i \in 1 .. Len(p[r]) : p[r][i] = c
    BY <1>1
  <2>2. PICK i \in 1 .. Len(p[r]) : p[r][i] = c
    BY <2>1
  <2>3. Rect(r, i) \in R /\ Rect(r, i).char = c
    BY <1>3, <1>4, <2>2
  <2> QED BY <2>3
<1>7. \A x \in R : x.char \in D
  BY <1>3, <1>4
<1>8. IsFiniteSet(R)
  <2>1. IsFiniteSet(D)
    <3>1. 0 \in Int /\ Length - 1 \in Int
      BY LengthIs
    <3> QED BY <3>1, FS_Interval
  <2>2. R = {of[c] : c \in D}
    <3>1. \A x \in R : of[x.char] = x /\ x.char \in D
      BY <1>5, <1>7
    <3>2. \A c \in D : of[c] \in R
      BY <1>6
    <3> HIDE DEF of, D
    <3> QED BY <3>1, <3>2
  <2>3. of = [c \in D |-> of[c]] /\ DOMAIN of = D
    OBVIOUS
  <2> HIDE DEF of, D
  <2>4. IsFiniteSet({of[c] : c \in D})
    BY <2>1, <2>3, FiniteValues
  <2> QED BY <2>2, <2>4
<1> HIDE DEF of
<1>9. /\ rs \in [1 .. N -> R] /\ DOMAIN rs = 1 .. N
      /\ \A x \in R : \E i \in 1 .. N : rs[i] = x
      /\ \A i \in 1 .. N, j \in 1 .. N : rs[i] = rs[j] => i = j
  BY <1>8, OrderIs
<1> HIDE DEF rs, N
<1>10. Once(rs, Length)
  <2> SUFFICES ASSUME NEW c \in D PROVE Cardinality({i \in DOMAIN rs : rs[i].char = c}) = 1
    BY DEF Once
  <2>1. PICK x \in R : x.char = c
    BY <1>6
  <2>2. PICK k \in 1 .. N : rs[k] = x
    BY <1>9
  <2>3. \A i \in 1 .. N : rs[i].char = c => i = k
    <3> SUFFICES ASSUME NEW i \in 1 .. N, rs[i].char = c PROVE i = k
      OBVIOUS
    <3>1. rs[i] \in R
      BY <1>9
    <3>2. rs[i] = x
      BY <1>5, <2>1, <3>1
    <3> QED BY <1>9, <2>2, <3>2
  <2>4. {i \in DOMAIN rs : rs[i].char = c} = {k}
    BY <1>9, <2>1, <2>2, <2>3
  <2> QED BY <2>4, FS_Singleton
<1>11. ASSUME ~wider PROVE Inside(rs, best, font)
  <2> SUFFICES ASSUME NEW i \in 1 .. N
               PROVE  /\ rs[i].x + rs[i].w <= best.width
                      /\ rs[i].y \in Nat /\ rs[i].y >= font.padding /\ rs[i].y + font.height + font.padding <= best.height
    BY <1>9 DEF Inside
  <2>1. rs[i] \in R
    BY <1>9
  <2>2. PICK r \in 1 .. n : \E k \in 1 .. Len(p[r]) : rs[i] = Rect(r, k)
    BY <1>3, <2>1
  <2>3. PICK k \in 1 .. Len(p[r]) : rs[i] = Rect(r, k)
    BY <2>2
  <2>4. Rect(r, k).x + Rect(r, k).w <= best.width
    <3>1. font.padding + SumOf([j \in DOMAIN p[r] |-> font.widths[p[r][j] + 1] + font.padding], 1 .. Len(p[r])) <= best.width
      BY <1>0
    <3> QED BY <1>0, <1>2, <1>11, <3>1, RectInside DEF p
  <2>5. LET y == Rect(r, k).y IN y \in Nat /\ y >= font.padding /\ y + font.height + font.padding <= best.height
    <3> DEFINE H == font.height + font.padding
    <3>1. H \in Nat /\ H = font.padding + font.height /\ font.padding \in Nat /\ font.height \in Nat
      BY FontAssumption, SizeIs
    <3>2. Rect(r, k).y = font.padding + (r - 1) * H /\ n * H + font.padding <= best.height
      <4>1. n * (font.padding + font.height) + font.padding <= best.height
        BY <1>0
      <4> QED BY <1>4, <3>1, <4>1
    <3>3. H = font.height + font.padding
      OBVIOUS
    <3> HIDE DEF H
    <3>4. (r - 1) * H + H <= n * H /\ (r - 1) * H \in Nat /\ n * H \in Nat
      BY <3>1, MoreRows
    <3> DEFINE y == Rect(r, k).y
               before == (r - 1) * H
               all == n * H
               e == font.padding
               h == font.height
               height == best.height
    <3>5. y = e + before /\ all + e <= height /\ before + H <= all /\ before \in Nat /\ all \in Nat
      BY <3>2, <3>4
    <3>6. height \in Nat /\ H = h + e /\ e \in Nat /\ h \in Nat
      BY <1>0, <3>1, <3>3
    <3> HIDE DEF y, before, all, e, h, height
    <3>7. y \in Nat /\ y >= e /\ y + h + e <= height
      BY <3>5, <3>6
    <3> QED BY <3>7 DEF y, e, h, height
  <2> QED BY <2>3, <2>4, <2>5
<1>12. \A r \in 1 .. n : \A k \in 1 .. Len(p[r]), l \in 1 .. Len(p[r]) :
         k < l => Rect(r, k).x + Rect(r, k).w + font.padding <= Rect(r, l).x
  <2> SUFFICES ASSUME NEW r \in 1 .. n, NEW k \in 1 .. Len(p[r]), NEW l \in 1 .. Len(p[r]), k < l
               PROVE  Rect(r, k).x + Rect(r, k).w + font.padding <= Rect(r, l).x
    OBVIOUS
  <2> DEFINE a == [j \in DOMAIN p[r] |-> Rendered(p[r][j]) + font.padding]
             m == l - 1
  <2>1. m \in 1 .. Len(p[r]) /\ k <= m
    BY <1>2
  <2>0. r \in Nat \ {0} /\ p[r] \in Seq(0 .. Length - 1)
    BY <1>2
  <2>2. /\ Rect(r, k).x + Rect(r, k).w = SumOf(a, 1 .. k) /\ SumOf(a, 1 .. k) \in Nat
        /\ \A j \in 1 .. Len(p[r]) : k <= j => SumOf(a, 1 .. k) <= SumOf(a, 1 .. j)
    BY <2>0, RectIs DEF p
  <2>3. Rect(r, l).x = font.padding + SumOf(a, 1 .. m)
    BY <2>0, RectIs DEF p
  <2> HIDE DEF m
  <2>4. SumOf(a, 1 .. m) \in Nat
    BY <2>0, <2>1, RectIs DEF p
  <2>5. SumOf(a, 1 .. k) <= SumOf(a, 1 .. m)
    BY <2>1, <2>2
  <2> HIDE DEF a
  <2> QED BY <2>2, <2>3, <2>4, <2>5, FontAssumption, SizeIs
<1>13. Apart(rs, font)
  <2> SUFFICES ASSUME NEW i \in 1 .. N, NEW j \in 1 .. N, i # j, rs[i].y = rs[j].y
               PROVE  rs[i].x + rs[i].w + font.padding <= rs[j].x \/ rs[j].x + rs[j].w + font.padding <= rs[i].x
    BY <1>9 DEF Apart
  <2>1. rs[i] \in R /\ rs[j] \in R /\ rs[i] # rs[j]
    BY <1>9
  <2>2. PICK r \in 1 .. n : \E k \in 1 .. Len(p[r]) : rs[i] = Rect(r, k)
    BY <1>3, <2>1
  <2>3. PICK k \in 1 .. Len(p[r]) : rs[i] = Rect(r, k)
    BY <2>2
  <2>4. PICK q \in 1 .. n : \E l \in 1 .. Len(p[q]) : rs[j] = Rect(q, l)
    BY <1>3, <2>1
  <2>5. PICK l \in 1 .. Len(p[q]) : rs[j] = Rect(q, l)
    BY <2>4
  <2>6. r = q
    <3> DEFINE H == font.height + font.padding
    <3>1. H \in Nat \ {0} /\ font.padding \in Nat
      BY FontAssumption, SizeIs
    <3>2. font.padding + (r - 1) * H = font.padding + (q - 1) * H
      BY <1>4, <2>3, <2>5
    <3> HIDE DEF H
    <3>3. (r - 1) * H \in Nat /\ (q - 1) * H \in Nat
      BY <3>1
    <3>4. (r - 1) * H = (q - 1) * H
      BY <3>1, <3>2, <3>3
    <3>5. r \in Nat \ {0} /\ q \in Nat \ {0}
      OBVIOUS
    <3> QED BY <3>1, <3>4, <3>5, RowsDiffer
  <2>7. k # l
    BY <2>1, <2>3, <2>5, <2>6
  <2>8. CASE k < l
    BY <1>12, <2>3, <2>5, <2>6, <2>8
  <2>9. CASE l < k
    BY <1>12, <2>3, <2>5, <2>6, <2>9
  <2>10. k \in Nat /\ l \in Nat
    BY <1>2
  <2> QED BY <2>7, <2>8, <2>9, <2>10
<1>14. \A r \in 1 .. n : \A k \in 1 .. Len(p[r]) :
         /\ Rect(r, k).slice = Room.taken + Turn(r, k) /\ Turn(r, k) \in Nat \ {0}
         /\ Rect(r, k).x \in Nat /\ Rect(r, k).w \in Nat
  <2> SUFFICES ASSUME NEW r \in 1 .. n, NEW k \in 1 .. Len(p[r])
               PROVE  /\ Rect(r, k).slice = Room.taken + Turn(r, k) /\ Turn(r, k) \in Nat \ {0}
                      /\ Rect(r, k).x \in Nat /\ Rect(r, k).w \in Nat
    OBVIOUS
  <2>1. Turn(r, k) \in Nat \ {0}
    BY <1>2, TurnsDiffer DEF p
  <2>2. Rect(r, k).slice = Room.taken + Turn(r, k)
    BY DEF Rect
  <2>3. r \in Nat \ {0} /\ p[r] \in Seq(0 .. Length - 1)
    BY <1>2
  <2> QED BY <2>1, <2>2, <2>3, RectIs DEF p
<1>15. Owned(rs, Room.taken)
  <2> SUFFICES ASSUME NEW i \in 1 .. N
               PROVE  rs[i].slice # Room.taken /\ \A j \in 1 .. N : i # j => rs[i].slice # rs[j].slice
    BY <1>9 DEF Owned
  <2>0. PICK r \in 1 .. n : \E k \in 1 .. Len(p[r]) : rs[i] = Rect(r, k)
    BY <1>3, <1>9
  <2>1. PICK k \in 1 .. Len(p[r]) : rs[i] = Rect(r, k)
    BY <2>0
  <2>2. rs[i].slice # Room.taken
    BY <1>14, <2>1
  <2>3. ASSUME NEW j \in 1 .. N, i # j PROVE rs[i].slice # rs[j].slice
    <3>0. PICK q \in 1 .. n : \E l \in 1 .. Len(p[q]) : rs[j] = Rect(q, l)
      BY <1>3, <1>9
    <3>1. PICK l \in 1 .. Len(p[q]) : rs[j] = Rect(q, l)
      BY <3>0
    <3>2. r # q \/ k # l
      BY <1>9, <2>1, <2>3, <3>1
    <3>3. Turn(r, k) # Turn(q, l)
      BY <1>2, <3>2, TurnsDiffer DEF p
    <3>4. Turn(r, k) \in Nat /\ Turn(q, l) \in Nat
      BY <1>14
    <3> QED BY <1>14, <2>1, <3>1, <3>3, <3>4
  <2> QED BY <2>2, <2>3
<1>16. Natural(rs)
  <2> SUFFICES ASSUME NEW i \in 1 .. N PROVE rs[i].x \in Nat /\ rs[i].w \in Nat
    BY <1>9 DEF Natural
  <2>0. PICK r \in 1 .. n : \E k \in 1 .. Len(p[r]) : rs[i] = Rect(r, k)
    BY <1>3, <1>9
  <2>1. PICK k \in 1 .. Len(p[r]) : rs[i] = Rect(r, k)
    BY <2>0
  <2> QED BY <1>14, <2>1
<1> QED BY <1>10, <1>11, <1>13, <1>15, <1>16 DEF Packed, rs, R

\* The invariants of a drawn text, in its values.
WidthIn(c, f, w) ==
  IF (IF c < 0 \/ c >= Len(f.widths) - 2 THEN Len(f.widths) - 2 ELSE c) = Len(f.widths) - 2
  THEN f.widths[0 + 1] + (IF w THEN 1 ELSE 0)
  ELSE f.widths[(IF c < 0 \/ c >= Len(f.widths) - 2 THEN Len(f.widths) - 2 ELSE c) + 1] + (IF w THEN 1 ELSE 0)
TextOwn(t, m) ==
  \A i \in DOMAIN t.places :
    /\ t.places[i].glyph \in 0 .. m
    /\ t.places[i].glyph # m => t.places[i].glyph = t.text[i]
TextMeasured(t, f, w) ==
  t.start = 0 /\ DOMAIN t.places # {} =>
    t.size.x = Max({t.places[i].x + WidthIn(t.text[i], f, w) : i \in DOMAIN t.places})

LEMMA GlyphWidthIs ==
    ASSUME FontType, NEW c \in Int
    PROVE  /\ GlyphIndex(c) \in 0 .. Length /\ (GlyphIndex(c) # Length => GlyphIndex(c) = c)
           /\ GlyphWidth(c) \in Nat /\ GlyphWidth(c) = WidthIn(c, font, wider)
<1>1. Length \in Nat /\ Length >= 2
  BY LengthIs
<1>2. GlyphIndex(c) \in 0 .. Length /\ (GlyphIndex(c) # Length => GlyphIndex(c) = c)
  BY <1>1 DEF GlyphIndex
<1>3. GlyphWidth(c) \in Nat
  <2>1. 0 \in 0 .. Length - 1
    BY <1>1
  <2>2. GlyphIndex(c) # Length => GlyphIndex(c) \in 0 .. Length - 1
    BY <1>1, <1>2
  <2>3. Rendered(0) \in Nat /\ (GlyphIndex(c) # Length => Rendered(GlyphIndex(c)) \in Nat)
    BY <2>1, <2>2, LengthIs
  <2> QED BY <2>3 DEF GlyphWidth
<1>4. GlyphWidth(c) = WidthIn(c, font, wider)
  BY Zenon DEF GlyphWidth, WidthIn, GlyphIndex, Rendered, Length
<1> QED BY <1>2, <1>3, <1>4

LEMMA TextIsMeasured ==
    ASSUME FontType, NEW s \in Seq(Int), NEW places, places = {j \in DOMAIN s : s[j] # Newline}, places # {}
    PROVE  measure(s, 0).x = Max({doDraw(s)[i].x + GlyphWidth(s[i]) : i \in places})
<1> DEFINE a == [i \in DOMAIN s |-> GlyphWidth(s[i])]
           n == Len(s)
           L(k) == OfLine(s, k)
           W == [k \in Lines(s) |-> SumOf(a, L(k))]
           A == {0} \cup {W[k] : k \in Lines(s)}
           E == [i \in places |-> SumOf(a, {j \in L(LineOf(s, i)) : j < i}) + GlyphWidth(s[i])]
           B == {E[i] : i \in places}
<1>1. n \in Nat /\ DOMAIN s = 1 .. n /\ \A i \in 1 .. n : s[i] \in Int
  BY LenProperties, ElementOfSeq
<1>2. IsFiniteSet(1 .. n)
  <2> HIDE DEF n
  <2> QED BY <1>1, FS_Interval
<1>3. \A i \in 1 .. n : a[i] \in Nat /\ a[i] = GlyphWidth(s[i])
  BY <1>1, GlyphWidthIs
<1>4. \A T \in SUBSET (1 .. n) : SumOf(a, T) \in Nat /\ IsFiniteSet(T) /\ \A x \in T : a[x] \in Nat
  <2> HIDE DEF a, n
  <2> QED BY <1>2, <1>3, FS_Subset, SumOfMore
<1>5. \A k : L(k) \in SUBSET (1 .. n)
  BY <1>1 DEF OfLine
<1>6. \A T : WidthOf(s, T) = SumOf(a, T)
  BY SumFunctionIs DEF WidthOf
<1>7. measure(s, 0).x = Max(A)
  <2>1. measure(s, 0).x = Max({0} \cup {WidthOf(s, OfLine(s, k)) : k \in Lines(s)})
    BY DEF measure
  <2>2. {WidthOf(s, OfLine(s, k)) : k \in Lines(s)} = {W[k] : k \in Lines(s)}
    BY <1>6
  <2> QED BY <2>1, <2>2
<1>8. {doDraw(s)[i].x + GlyphWidth(s[i]) : i \in places} = B
  <2>1. ASSUME NEW i \in places PROVE doDraw(s)[i].x + GlyphWidth(s[i]) = E[i]
    <3>1. doDraw(s)[i].x = WidthOf(s, {j \in OfLine(s, LineOf(s, i)) : j < i})
      BY DEF doDraw
    <3> QED BY <1>6, <3>1
  <2> QED BY <2>1
<1> DEFINE c == Cardinality({j \in DOMAIN s : s[j] = Newline})
<1>9. c \in Nat /\ Lines(s) = 0 .. c
  <2>1. {j \in DOMAIN s : s[j] = Newline} \in SUBSET (1 .. n)
    BY <1>1
  <2> QED BY <1>2, <2>1, FS_Subset, FS_CardinalityType DEF Lines
<1>10. ASSUME NEW i \in places PROVE LineOf(s, i) \in Lines(s) /\ i \in L(LineOf(s, i)) /\ i \in 1 .. n
  <2> DEFINE U == {j \in 1 .. i - 1 : s[j] = Newline}
             V == {j \in DOMAIN s : s[j] = Newline}
  <2>1. U \subseteq V /\ V \subseteq 1 .. n
    BY <1>1
  <2>2. IsFiniteSet(V)
    BY <1>2, <2>1, FS_Subset
  <2>3. Cardinality(U) <= Cardinality(V) /\ Cardinality(U) \in Nat
    <3> HIDE DEF U, V
    <3>1. IsFiniteSet(U)
      BY <2>1, <2>2, FS_Subset
    <3> QED BY <2>1, <2>2, <3>1, FS_Subset, FS_CardinalityType
  <2>4. LineOf(s, i) = Cardinality(U)
    BY DEF LineOf
  <2> QED BY <1>1, <1>9, <2>3, <2>4 DEF OfLine
<1>11. ASSUME NEW i \in places
       PROVE  /\ E[i] = SumOf(a, {j \in L(LineOf(s, i)) : j < i} \cup {i})
              /\ E[i] \in Nat /\ E[i] <= W[LineOf(s, i)]
  <2> DEFINE T == {j \in L(LineOf(s, i)) : j < i}
             U == T \cup {i}
             M == L(LineOf(s, i))
  <2>1. U \in SUBSET (1 .. n) /\ M \in SUBSET (1 .. n) /\ U \in SUBSET M /\ i \in U
    BY <1>5, <1>10
  <2>2. U \ {i} = T
    <3>1. \A j \in T : j < i /\ j \in Int
      BY <1>1, <1>5
    <3>2. i \in Int
      BY <1>1
    <3>3. i \notin T
      BY <3>1, <3>2
    <3> HIDE DEF T
    <3> QED BY <3>3
  <2>3. E[i] = SumOf(a, T) + GlyphWidth(s[i]) /\ W[LineOf(s, i)] = SumOf(a, M)
    BY <1>10
  <2> HIDE DEF U, T, M, a, n, E, W
  <2>4. SumOf(a, U) = a[i] + SumOf(a, U \ {i}) /\ SumOf(a, U) \in Nat
    BY <1>4, <2>1, SumOfSplit
  <2>5. SumOf(a, U) <= SumOf(a, M)
    BY <1>4, <2>1, SumOfMore
  <2>6. a[i] = GlyphWidth(s[i]) /\ a[i] \in Nat /\ SumOf(a, T) \in Nat
    BY <1>3, <1>4, <1>10, <2>1, <2>2
  <2>7. E[i] = SumOf(a, U)
    <3>1. SumOf(a, U) = a[i] + SumOf(a, T)
      BY <2>2, <2>4
    <3>2. E[i] = SumOf(a, T) + a[i]
      BY <2>3, <2>6
    <3>3. a[i] + SumOf(a, T) = SumOf(a, T) + a[i]
      BY <2>6
    <3> QED BY <3>1, <3>2, <3>3
  <2> QED BY <2>3, <2>4, <2>5, <2>7 DEF U, T, M
<1>12. IsFiniteSet(A) /\ A \subseteq Nat
  <2>1. \A k \in Lines(s) : W[k] \in Nat
    BY <1>4, <1>5
  <2>2. IsFiniteSet(Lines(s))
    BY <1>9, FS_Interval
  <2>3. W = [k \in Lines(s) |-> W[k]] /\ DOMAIN W = Lines(s)
    OBVIOUS
  <2> HIDE DEF W
  <2>4. IsFiniteSet({W[k] : k \in Lines(s)})
    BY <2>2, <2>3, FiniteValues
  <2>5. IsFiniteSet({0})
    BY FS_Singleton
  <2>6. A \subseteq Nat
    BY <2>1
  <2>7. IsFiniteSet(A)
    BY <2>4, <2>5, FS_Union
  <2> QED BY <2>6, <2>7
<1>13. IsFiniteSet(B) /\ B \subseteq Nat /\ B # {}
  <2>1. IsFiniteSet(places)
    <3>1. places \subseteq 1 .. n
      BY <1>1
    <3> QED BY <1>2, <3>1, FS_Subset
  <2>2. E = [i \in places |-> E[i]] /\ DOMAIN E = places
    OBVIOUS
  <2> HIDE DEF E
  <2>3. IsFiniteSet({E[i] : i \in places})
    BY <2>1, <2>2, FiniteValues
  <2> QED BY <1>11, <2>3
<1> HIDE DEF E, W, a, n
<1>14. Max(A) \in A /\ \A x \in A : x <= Max(A)
  <2>1. A # {}
    OBVIOUS
  <2> HIDE DEF A
  <2> QED BY <1>12, <2>1, GreatestIs
<1>15. Max(B) \in B /\ \A x \in B : x <= Max(B)
  <2> HIDE DEF B
  <2> QED BY <1>13, GreatestIs
<1>16. Max(B) <= Max(A)
  <2>1. PICK i \in places : Max(B) = E[i]
    BY <1>15
  <2>2. W[LineOf(s, i)] \in A
    BY <1>10
  <2>3. E[i] <= W[LineOf(s, i)] /\ W[LineOf(s, i)] <= Max(A)
    BY <1>11, <1>14, <2>2
  <2>4. E[i] \in Nat /\ W[LineOf(s, i)] \in Nat /\ Max(A) \in Nat
    BY <1>11, <1>12, <1>14, <2>2
  <2> QED BY <2>1, <2>3, <2>4
<1>17. Max(A) <= Max(B)
  <2>1. Max(B) \in Nat
    BY <1>13, <1>15
  <2>2. CASE Max(A) = 0
    BY <2>1, <2>2
  <2>3. CASE Max(A) # 0
    <3>1. PICK k \in Lines(s) : Max(A) = W[k]
      BY <1>14, <2>3
    <3>2. L(k) # {}
      <4>1. SumOf(a, {}) = 0 /\ W[k] = SumOf(a, L(k))
        BY SumOfNone DEF W
      <4> QED BY <2>3, <3>1, <4>1
    <3>3. IsFiniteSet(L(k)) /\ L(k) \subseteq Nat /\ L(k) \subseteq 1 .. n
      BY <1>1, <1>4, <1>5
    <3> DEFINE i == Max(L(k))
    <3>4. i \in L(k) /\ \A j \in L(k) : j <= i
      <4> DEFINE M == L(k)
      <4>1. M # {} /\ IsFiniteSet(M) /\ M \subseteq Nat
        BY <3>2, <3>3
      <4> HIDE DEF M
      <4>2. Max(M) \in M /\ \A j \in M : j <= Max(M)
        BY <4>1, GreatestIs
      <4> QED BY <4>2 DEF M
    <3> HIDE DEF i
    <3>5. i \in places /\ LineOf(s, i) = k
      BY <3>4 DEF OfLine
    <3>6. {j \in L(k) : j < i} \cup {i} = L(k)
      <4>1. \A j \in L(k) : j < i \/ j = i
        BY <3>3, <3>4
      <4> QED BY <3>4, <4>1
    <3>7. E[i] = W[k]
      <4>1. E[i] = SumOf(a, {j \in L(k) : j < i} \cup {i})
        BY <1>11, <3>5
      <4>2. W[k] = SumOf(a, L(k))
        BY DEF W
      <4> QED BY <3>6, <4>1, <4>2
    <3> QED BY <1>15, <3>1, <3>5, <3>7
  <2> QED BY <2>2, <2>3
<1>18. Max(A) \in Nat /\ Max(B) \in Nat
  BY <1>12, <1>13, <1>14, <1>15
<1>19. Max(A) = Max(B)
  <2> HIDE DEF A, B
  <2> QED BY <1>16, <1>17, <1>18
<1> HIDE DEF A
<1> QED BY <1>7, <1>8, <1>19

LEMMA TextIsDrawn ==
    ASSUME FontType, NEW s \in Seq(Int), NEW start, NEW t,
           t = [text |-> s, places |-> doDraw(s), size |-> measure(s, start), start |-> start]
    PROVE  TextOwn(t, Length) /\ TextMeasured(t, font, wider)
<1> DEFINE places == {j \in DOMAIN s : s[j] # Newline}
<1>1. t.text = s /\ t.places = doDraw(s) /\ t.size.x = measure(s, start).x /\ t.start = start
  OBVIOUS
<1>2. DOMAIN doDraw(s) = places /\ \A i \in places : doDraw(s)[i].glyph = GlyphIndex(s[i])
  BY DEF doDraw
<1>3. \A i \in places : s[i] \in Int
  BY LenProperties, ElementOfSeq
<1>4. TextOwn(t, Length)
  <2> HIDE DEF places
  <2> QED BY <1>1, <1>2, <1>3, GlyphWidthIs DEF TextOwn
<1>5. ASSUME start = 0, places # {}
      PROVE  measure(s, start).x = Max({doDraw(s)[i].x + WidthIn(s[i], font, wider) : i \in places})
  <2>1. measure(s, 0).x = Max({doDraw(s)[i].x + GlyphWidth(s[i]) : i \in places})
    BY <1>5, TextIsMeasured
  <2>2. {doDraw(s)[i].x + GlyphWidth(s[i]) : i \in places} = {doDraw(s)[i].x + WidthIn(s[i], font, wider) : i \in places}
    <3>1. \A i \in places : GlyphWidth(s[i]) = WidthIn(s[i], font, wider)
      BY <1>3, GlyphWidthIs
    <3> HIDE DEF places
    <3> QED BY <3>1
  <2> QED BY <1>5, <2>1, <2>2
<1>6. TextMeasured(t, font, wider)
  <2> HIDE DEF places
  <2> QED BY <1>1, <1>2, <1>5 DEF TextMeasured
<1> QED BY <1>4, <1>6

\* A font of the layout that was found, with each of its characters packed; a text
\* that was drawn as it was measured; a container of the first font's size, with
\* slices for one font at least.
FontInv ==
  /\ FontType /\ rows \in Nat \ {0}
  /\ best # None => Laid(best, font)
  /\ rects # <<>> => best # None /\ Packed(rects, best, font, Length, wider, address)
  /\ text # <<>> => TextOwn(text[1], Length) /\ TextMeasured(text[1], font, wider)
  /\ container \in [width : Nat, height : Nat, slices : Nat, taken : Nat]
  /\ made \in Nat /\ (made = 0 <=> container = NoContainer) /\ (overdrawn => made >= 2)
  /\ rects # <<>> /\ made = 1 => container.width = best.width /\ container.height = best.height
  /\ rects # <<>> => made >= 1

LEMMA FontInitInv == FontInit => FontInv
BY DEF FontInit, FontInv, FontType, NoContainer

LEMMA TryRowsInv == FontInv /\ TryRows => FontInv'
<1> SUFFICES ASSUME FontInv, TryRows PROVE FontInv'
  OBVIOUS
<1>1. UNCHANGED <<font, wider, rects, address, container, overdrawn, text, made>> /\ rects = <<>>
  BY DEF TryRows
<1>2. FontType' /\ Length' = Length /\ Length \in Nat
  BY <1>1, LengthIs DEF FontInv, FontType, Length
<1>3. (rows' = rows + 1 \/ rows' = Length + 1) /\ (best' = best \/ best' = Candidate(rows))
  BY DEF TryRows
<1>4. rows' \in Nat \ {0}
  BY <1>2, <1>3 DEF FontInv
<1>5. Laid(Candidate(rows), font)
  BY CandidateLaid DEF FontInv
<1>6. best' # None => Laid(best', font')
  BY <1>1, <1>3, <1>5 DEF FontInv
<1> QED BY <1>1, <1>2, <1>4, <1>6 DEF FontInv

LEMMA DrawFontInv == FontInv /\ DrawFont => FontInv'
<1> SUFFICES ASSUME FontInv, DrawFont PROVE FontInv'
  OBVIOUS
<1>1. /\ UNCHANGED <<font, wider, rows, best, area, text>> /\ best # None /\ made' = made + 1
      /\ rects' = SetToSeq(UNION {{Rect(r, i) : i \in DOMAIN best.rows[r]} : r \in DOMAIN best.rows})
  BY DEF DrawFont
<1>2. FontType /\ FontType' /\ Length' = Length
  BY <1>1 DEF FontInv, FontType, Length
<1>3. Laid(best, font) /\ best.width \in Nat /\ best.height \in Nat /\ Length \in Nat /\ Length >= 2
  BY <1>1, <1>2, LengthIs DEF FontInv, Laid
<1>4. /\ Room \in [width : Nat, height : Nat, slices : Nat, taken : Nat]
      /\ made = 0 => Room = [width |-> best.width, height |-> best.height, slices |-> 2 * Length, taken |-> 0]
  BY <1>3 DEF Room, Slices, FontInv
<1>5. container' = [Room EXCEPT !.taken = @ + Length + 2] /\ address' = Room.taken
      /\ overdrawn' = (overdrawn \/ Room.slices < Room.taken + Length + 2)
  BY DEF DrawFont
<1> HIDE DEF Room
<1>6. Packed(rects', best, font, Length, wider, address')
  BY <1>1, <1>2, <1>3, <1>4, <1>5, RectsPacked
<1>7. /\ container'.width = Room.width /\ container'.height = Room.height /\ container'.taken = Room.taken + Length + 2
      /\ container' \in [width : Nat, height : Nat, slices : Nat, taken : Nat]
  BY <1>3, <1>4, <1>5
<1>8. container'.taken # 0 /\ container' # NoContainer
  BY <1>3, <1>4, <1>7 DEF NoContainer
<1>9. made \in Nat /\ made' >= 1 /\ made' \in Nat /\ (made' = 1 => made = 0)
  BY <1>1 DEF FontInv
<1>10. made' = 1 => container'.width = best.width /\ container'.height = best.height
  BY <1>4, <1>7, <1>9
<1>11. overdrawn' => made' >= 2
  <2>1. CASE made = 0
    <3>1. Room.slices = 2 * Length /\ Room.taken = 0
      BY <1>4, <2>1
    <3>2. ~(Room.slices < Room.taken + Length + 2) /\ ~overdrawn
      BY <1>3, <2>1, <3>1 DEF FontInv
    <3> QED BY <1>5, <3>2
  <2>2. CASE made # 0
    BY <1>1, <1>9, <2>2
  <2> QED BY <2>1, <2>2
<1>12. /\ rows' \in Nat \ {0} /\ best' # None /\ Laid(best', font')
       /\ text' # <<>> => TextOwn(text'[1], Length') /\ TextMeasured(text'[1], font', wider')
  BY <1>1, <1>2, <1>3 DEF FontInv
<1> QED BY <1>1, <1>2, <1>6, <1>7, <1>8, <1>9, <1>10, <1>11, <1>12 DEF FontInv

LEMMA DrawTextInv == ASSUME FontInv, NEW s \in Texts, NEW start, DrawText(s, start) PROVE FontInv'
<1> DEFINE t == [text |-> s, places |-> doDraw(s), size |-> measure(s, start), start |-> start]
<1>1. UNCHANGED <<font, wider, rows, best, area, rects, address, container, overdrawn, made>> /\ text' = <<t>>
  BY DEF DrawText
<1>2. FontType /\ FontType' /\ Length' = Length /\ s \in Seq(Int)
  BY <1>1, FontAssumption, SizeIs DEF FontInv, FontType, Length
<1> HIDE DEF t
<1>3. TextOwn(t, Length) /\ TextMeasured(t, font, wider)
  BY <1>2, TextIsDrawn DEF t
<1>4. text'[1] = t
  BY <1>1
<1>5. TextOwn(text'[1], Length') /\ TextMeasured(text'[1], font', wider')
  BY <1>1, <1>2, <1>3, <1>4
<1> QED BY <1>1, <1>2, <1>5 DEF FontInv

LEMMA FontStep == FontInv /\ [FontNext]_fontVars => FontInv'
<1> SUFFICES ASSUME FontInv, [FontNext]_fontVars PROVE FontInv'
  OBVIOUS
<1>1. CASE UNCHANGED fontVars
  <2>1. Length' = Length
    BY <1>1 DEF fontVars, Length
  <2> QED BY <1>1, <2>1 DEF fontVars, FontInv, FontType
<1>2. CASE TryRows
  BY <1>2, TryRowsInv
<1>3. CASE DrawFont
  BY <1>3, DrawFontInv
<1>4. CASE Ended
  BY <1>1, <1>4 DEF Ended
<1>5. CASE AnotherFont
  BY <1>5 DEF AnotherFont, FontInv, FontType
<1>6. CASE \E s \in Texts, start \in Garbage : DrawText(s, start)
  BY <1>6, DrawTextInv
<1> QED BY <1>1, <1>2, <1>3, <1>4, <1>5, <1>6 DEF FontNext

LEMMA FontInvIsSound == FontInv => FontSound
<1> SUFFICES ASSUME FontInv PROVE FontSound
  OBVIOUS
<1>1. EveryCharacterOnce
  BY DEF FontInv, Packed, Once, EveryCharacterOnce
<1>2. OwnSlices
  <2>1. CASE rects = <<>>
    BY <2>1 DEF OwnSlices
  <2>2. CASE rects # <<>>
    BY <2>2 DEF FontInv, Packed, Owned, OwnSlices
  <2> QED BY <2>1, <2>2
<1>3. CharactersApart
  <2>1. CASE rects = <<>>
    BY <2>1 DEF CharactersApart
  <2>2. CASE rects # <<>>
    BY <2>2 DEF FontInv, Packed, Apart, CharactersApart
  <2> QED BY <2>1, <2>2
<1>7. UploadsInside
  <2> SUFFICES ASSUME rects # <<>>, ~wider, FitsContainer, NEW i \in DOMAIN rects
               PROVE  /\ rects[i].x + rects[i].w <= container.width
                      /\ LowerEdge(rects[i]) + font.height <= container.height
                      /\ LowerEdge(rects[i]) >= IF font.padding = 0 THEN -1 ELSE 0
    BY DEF UploadsInside
  <2>1. /\ rects[i].x + rects[i].w <= best.width
        /\ rects[i].y \in Nat /\ rects[i].y >= font.padding /\ rects[i].y + font.height + font.padding <= best.height
        /\ rects[i].x \in Nat /\ rects[i].w \in Nat
    BY DEF FontInv, Packed, Inside, Natural
  <2>2. best.width <= container.width /\ best.height <= container.height
    <3>1. best.width \in Nat /\ best.height \in Nat
      BY DEF FontInv, Laid
    <3> QED BY <3>1 DEF FitsContainer, FontInv
  <2>3. /\ best.width \in Nat /\ best.height \in Nat /\ container.width \in Nat /\ container.height \in Nat
        /\ font.padding \in Nat /\ font.height \in Nat
    BY SizeIs DEF FontInv, Laid
  <2> DEFINE edge == LowerEdge(rects[i])
             y == rects[i].y
             e == font.padding
             h == font.height
             height == best.height
             most == container.height
  <2>4. edge = (height - y) - (1 + h)
    BY DEF LowerEdge
  <2>5. y \in Nat /\ y >= e /\ y + h + e <= height /\ height <= most
    BY <2>1, <2>2
  <2>6. e \in Nat /\ h \in Nat /\ height \in Nat /\ most \in Nat
    BY <2>3
  <2> HIDE DEF edge, y, e, h, height, most
  <2>7. edge + h <= most /\ edge >= IF e = 0 THEN -1 ELSE 0
    BY <2>4, <2>5, <2>6
  <2>8. rects[i].x + rects[i].w <= container.width
    BY <2>1, <2>2, <2>3
  <2> QED BY <2>7, <2>8 DEF edge, e, h, most
<1>4. FirstFontHasSlices
  BY DEF FontInv, FirstFontHasSlices
<1>5. OwnGlyph
  BY DEF FontInv, TextOwn, OwnGlyph
<1>6. MeasuredAsDrawn
  <2> SUFFICES ASSUME text # <<>>, text[1].start = 0, DOMAIN text[1].places # {}
               PROVE  text[1].size.x = Max({text[1].places[i].x + GlyphWidth(text[1].text[i]) : i \in DOMAIN text[1].places})
    BY DEF MeasuredAsDrawn
  <2>1. \A c : GlyphWidth(c) = WidthIn(c, font, wider)
    BY Zenon DEF GlyphWidth, WidthIn, GlyphIndex, Rendered, Length
  <2>2. TextMeasured(text[1], font, wider)
    BY DEF FontInv
  <2>3. text[1].size.x = Max({text[1].places[i].x + WidthIn(text[1].text[i], font, wider) : i \in DOMAIN text[1].places})
    BY <2>2 DEF TextMeasured
  <2>4. {text[1].places[i].x + GlyphWidth(text[1].text[i]) : i \in DOMAIN text[1].places}
          = {text[1].places[i].x + WidthIn(text[1].text[i], font, wider) : i \in DOMAIN text[1].places}
    BY <2>1
  <2> QED BY <2>3, <2>4
<1> QED BY <1>1, <1>2, <1>3, <1>4, <1>5, <1>6, <1>7 DEF FontSound

\* Of every font, size and number of rows tried: each character is uploaded once, to
\* a slice of its own that is not the one texts are drawn from, at coordinates it
\* shares with none, and inside the slice but for the causes that UploadsInside
\* names; the first font gets its slices; a text, of any characters and lines, is
\* drawn with its own glyphs and as wide as measure() says when its vector starts
\* at 0.
THEOREM FontIsSound == Spec => []FontSound
<1>1. Spec => FontInit
  BY DEF Spec, Init
<1>2. FontInv /\ [Next]_vars => FontInv'
  BY PartSteps, FontStep
<1> QED BY <1>1, <1>2, FontInitInv, FontStep, FontInvIsSound, PTL DEF Spec
=============================================================================
