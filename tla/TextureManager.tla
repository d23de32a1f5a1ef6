--------------------------- MODULE TextureManager ---------------------------
(***************************************************************************)
(* TextureManager, TextureContainer and Texture2D (draw/TextureManager.cpp, *)
(* draw/Texture2D.cpp): textures are cached by path and are slices of       *)
(* containers of their kind (levels, format, width and height).  The levels *)
(* of a DDS file (draw/DDSHelper.h) are read into one buffer and uploaded   *)
(* one by one.  Nothing in src/ calls TextureManager::free(), and no slice  *)
(* ever returns to its container.                                           *)
(***************************************************************************)
EXTENDS Integers, Sequences, FiniteSets, FiniteSetsExt, SequencesExt

CONSTANTS
  Images,       \* paths of textures
  KindOf,      \* KindOf[p]: the kind of texture in the file
  Kinds,
  FontKind,    \* the kind of texture that the first font is drawn to
  TypeOf,      \* TypeOf[p]: "png", "dds" or "other", which the path contains
  Levels,      \* m_textureArrayLevels: slices of a container
  Extensions,  \* lists of the extensions that a driver may report
  Needed,      \* the extensions that init() asks for
  Headers,     \* [width, height, levels] that a DDS file may have
  MaxEras      \* bound of the number of calls of dispose()

ASSUME TexturesAssumption ==
  /\ KindOf \in [Images -> Kinds] /\ FontKind \in Kinds
  /\ TypeOf \in [Images -> {"png", "dds", "other"}]
  /\ Levels \in Nat \ {0} /\ MaxEras \in Nat
  /\ Extensions \subseteq Seq(SUBSET Needed) /\ <<>> \notin Extensions
  /\ \A h \in Headers : h.width \in Nat \ {0} /\ h.height \in Nat \ {0} /\ h.levels \in Nat

VARIABLES
  manager,     \* "none" before getInstance(), "ready", "disposed" or "exited" after FATAL
  listed,      \* the extensions of this driver, each as the needed names it contains
  arrays,      \* m_texture2DArrays: the containers of a kind
  containers,  \* every container ever made: its kind and slices left (m_slots)
  deletions,   \* deletions[c]: how often container c was deleted
  textures,    \* every texture ever made: its path, container, slice and era
  cache,       \* m_textureMap: the texture of a path, 0 without one
  fonts,       \* m_txContainer of FontManager, 0 without one
  uploaded,    \* the levels of the last DDS file: offset, size, width and height
  era

textureVars == <<manager, listed, arrays, containers, deletions, textures, cache, fonts, uploaded, era>>

TexturesInit ==
  /\ manager = "none" /\ listed \in Extensions
  /\ arrays = [k \in Kinds |-> <<>>]
  /\ containers = <<>> /\ deletions = <<>> /\ textures = <<>>
  /\ cache = [p \in Images |-> 0] /\ fonts = 0
  /\ uploaded = <<>> /\ era = 0

\* hasGLExtension(): only the first extension of the list is searched, and to
\* find the name there is taken for its absence.
HasGLExtension(e) == e \notin Head(listed)

InitManager ==
  /\ manager \in {"none", "disposed"}
  /\ manager' = IF \A e \in Needed : HasGLExtension(e) THEN "ready" ELSE "exited"
  /\ UNCHANGED <<listed, arrays, containers, deletions, textures, cache, fonts, uploaded, era>>

HasRoom(c) == containers[c].slots # <<>>

\* allocateTextureContainer(): the first container of the kind with room, or a
\* new one.  The container's number, and all containers then.
Container(k, n) ==
  LET roomy == {i \in DOMAIN arrays[k] : HasRoom(arrays[k][i])}
  IN  IF roomy # {}
      THEN [number |-> arrays[k][Min(roomy)], all |-> containers]
      ELSE [number |-> Len(containers) + 1,
            all |-> Append(containers, [kind |-> k, slots |-> [i \in 1 .. n |-> i - 1]])]

\* The vector of a new container's kind has it at its end.
Enlisted(k, number) ==
  IF number > Len(containers) THEN [arrays EXCEPT ![k] = Append(@, number)] ELSE arrays
Counted(number) == IF number > Len(containers) THEN Append(deletions, 0) ELSE deletions

\* Mutation of VirtualAllocate: the slice stays in the queue.
PeekingVirtualAllocate(c, all) ==
  IF all[c].slots = <<>> THEN [slice |-> -1, all |-> all]
  ELSE [slice |-> Head(all[c].slots), all |-> all]

\* virtualAllocate(): the first slice left; from an empty queue it is undefined.
VirtualAllocate(c, all) ==
  IF all[c].slots = <<>> THEN [slice |-> -1, all |-> all]
  ELSE [slice |-> Head(all[c].slots), all |-> [all EXCEPT ![c].slots = Tail(@)]]

\* Mutation of Cached: the texture is loaded but not stored.
UncachedCached(p, t) == cache

Cached(p, t) == [cache EXCEPT ![p] = t]

\* newTexture2D() of the kind and m_textureMap.insert().
NewTexture2D(p) ==
  LET found == Container(KindOf[p], Levels)
      got == VirtualAllocate(found.number, found.all)
  IN  /\ containers' = got.all
      /\ arrays' = Enlisted(KindOf[p], found.number) /\ deletions' = Counted(found.number)
      /\ textures' = Append(textures, [path |-> p, container |-> found.number, slice |-> got.slice, era |-> era])
      /\ cache' = Cached(p, Len(textures) + 1)

Exit ==
  /\ manager' = "exited"
  /\ UNCHANGED <<arrays, containers, deletions, textures, cache, uploaded>>

NothingLoaded == UNCHANGED <<manager, arrays, containers, deletions, textures, cache, uploaded>>

\* Whatever goes wrong with a PNG file is FATAL.
LoadPNG(p, readable) ==
  IF readable /\ manager = "ready"
  THEN NewTexture2D(p) /\ UNCHANGED <<manager, uploaded>>
  ELSE Exit

Greatest(a, b) == IF a > b THEN a ELSE b

\* x >> n
Half(x, n) == LET shifted[i \in Nat] == IF i = 0 THEN x ELSE shifted[i - 1] \div 2 IN shifted[n]

\* Mutation of LevelDimension: a dimension may become 0.
VanishingLevelDimension(x, m) == Half(x, m)

\* readDDSFromFile_DXT1(): the dimension of level m, half that of the level before
\* but never 0.
LevelDimension(x, m) ==
  LET halved[i \in Nat] == IF i = 0 THEN x ELSE Greatest(1, halved[i - 1] \div 2) IN halved[m]

\* Bytes of a level: 8 for each block of 4 by 4 pixels.
Blocks(x) == (x + 3) \div 4
LevelSize(header, m) == 8 * Blocks(LevelDimension(header.width, m)) * Blocks(LevelDimension(header.height, m))

SizeBefore(header, m) ==
  LET before[i \in Nat] == IF i = 0 THEN 0 ELSE before[i - 1] + LevelSize(header, i - 1) IN before[m]
LevelCount(header) == Greatest(1, header.levels)

\* loadDDS(): each level is uploaded with MipMapWidth() and MipMapHeight().
Uploads(header) ==
  [i \in 1 .. LevelCount(header) |->
     [offset |-> SizeBefore(header, i - 1), size |-> LevelSize(header, i - 1),
      width |-> Greatest(1, Half(header.width, i - 1)), height |-> Greatest(1, Half(header.height, i - 1))]]

\* A missing file is no error that ends the process, one that is no DXT1 is.
LoadDDS(p, exists, readable, header) ==
  IF ~exists THEN NothingLoaded
  ELSE IF ~readable THEN Exit
  ELSE IF manager # "ready" THEN NothingLoaded
  ELSE NewTexture2D(p) /\ uploaded' = Uploads(header) /\ UNCHANGED manager

GetTexture(p) ==
  /\ manager \in {"ready", "disposed"}
  /\ IF cache[p] # 0 \/ TypeOf[p] = "other" THEN NothingLoaded
     ELSE IF TypeOf[p] = "png" THEN \E readable \in BOOLEAN : LoadPNG(p, readable)
     ELSE \E exists, readable \in BOOLEAN, header \in Headers : LoadDDS(p, exists, readable, header)
  /\ UNCHANGED <<listed, fonts, era>>

\* initFont() asks for its container once; its slices are FontManager's.
NewTextureContainer(n) ==
  /\ manager = "ready" /\ fonts = 0
  /\ LET found == Container(FontKind, n)
     IN  /\ containers' = found.all /\ fonts' = found.number
         /\ arrays' = Enlisted(FontKind, found.number) /\ deletions' = Counted(found.number)
  /\ UNCHANGED <<manager, listed, textures, cache, uploaded, era>>

InArrays == UNION {Range(arrays[k]) : k \in Kinds}

\* Mutation of Dispose: the vectors keep the containers that were deleted.
KeepingDispose ==
  /\ manager \in {"ready", "disposed"} /\ era < MaxEras
  /\ deletions' = [c \in DOMAIN deletions |-> deletions[c] + IF c \in InArrays THEN 1 ELSE 0]
  /\ manager' = "disposed" /\ era' = era + 1
  /\ UNCHANGED <<listed, arrays, containers, textures, cache, fonts, uploaded>>

\* dispose(): the map of textures is not cleared.
Dispose ==
  /\ manager \in {"ready", "disposed"} /\ era < MaxEras
  /\ deletions' = [c \in DOMAIN deletions |-> deletions[c] + IF c \in InArrays THEN 1 ELSE 0]
  /\ arrays' = [k \in Kinds |-> <<>>]
  /\ manager' = "disposed" /\ era' = era + 1
  /\ UNCHANGED <<listed, containers, textures, cache, fonts, uploaded>>

\* The process ends with both destructors, in either order: ~FontManager()
\* deletes the container that dispose() deletes as well.
DestroyManagers ==
  /\ manager \in {"ready", "disposed"}
  /\ deletions' = [c \in DOMAIN deletions |->
                    deletions[c] + (IF c \in InArrays THEN 1 ELSE 0) + (IF c = fonts THEN 1 ELSE 0)]
  /\ manager' = "exited"
  /\ UNCHANGED <<listed, arrays, containers, textures, cache, fonts, uploaded, era>>

\* The process is gone.
TexturesGone == manager = "exited" /\ UNCHANGED textureVars

TexturesNext ==
  \/ InitManager \/ Dispose \/ DestroyManagers \/ TexturesGone
  \/ \E p \in Images : GetTexture(p)
  \/ NewTextureContainer(2 * Levels)

-----------------------------------------------------------------------------

\* A slice is left in its container's queue or belongs to one texture, and none
\* to two of them: virtualAllocate() is never asked of an empty queue.
SlicesAccounted ==
  \A c \in DOMAIN containers :
    LET taken == {i \in DOMAIN textures : textures[i].container = c}
    IN  /\ Cardinality(taken) = Cardinality({textures[i].slice : i \in taken})
        /\ {textures[i].slice : i \in taken} \cap Range(containers[c].slots) = {}
        /\ \A i \in taken : textures[i].slice >= 0

\* A path is loaded once, and its texture is of the file's kind.
LoadedOnce ==
  \A i \in DOMAIN textures :
    /\ \A j \in DOMAIN textures : textures[i].path = textures[j].path => i = j
    /\ containers[textures[i].container].kind = KindOf[textures[i].path]

\* While the manager runs, a texture's container is deleted just when the
\* texture is from before the last dispose(): the cache still hands those out.
StaleIsOld ==
  manager # "exited" => \A i \in DOMAIN textures :
    deletions[textures[i].container] = 0 <=> textures[i].era = era

\* Only the container that FontManager thinks its own is deleted twice.
DeletedTwiceIsFonts == \A c \in DOMAIN deletions : deletions[c] > 1 => c = fonts

\* The levels of a DDS file follow each other in the buffer without a gap, and
\* each has the blocks of the width and height that it is uploaded with, which
\* are halved all at once.
LevelsFillBuffer ==
  \A i \in DOMAIN uploaded :
    /\ uploaded[i].offset = IF i = 1 THEN 0 ELSE uploaded[i - 1].offset + uploaded[i - 1].size
    /\ uploaded[i].size = 8 * Blocks(uploaded[i].width) * Blocks(uploaded[i].height)

\* Who owns slices and containers, and what the map of textures still promises.
TexturesSound == SlicesAccounted /\ LoadedOnce /\ StaleIsOld /\ DeletedTwiceIsFonts /\ LevelsFillBuffer
=============================================================================
