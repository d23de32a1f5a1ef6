---------------------------- MODULE FontManager ----------------------------
(***************************************************************************)
(* FontManager (draw/FontManager.cpp) and ActiveFont::measure()             *)
(* (draw/draw_common.h): the layout of a font's characters, the slices they *)
(* are uploaded to, and the drawing of a text.  The characters are laid out *)
(* as if for one texture, but each is uploaded to a slice of its own; texts *)
(* are drawn from another one.  Pixels and colours are left out, and of the *)
(* unsupported character all but its slice.                                 *)
(***************************************************************************)
EXTENDS Integers, Sequences, FiniteSets, FiniteSetsExt, SequencesExt

CONSTANTS
  Fonts,      \* of a size: the widths of the characters from charStart to charEnd,
              \* the padding, which is a size's eighth, and the height of a line
  MaxRes,     \* MAX_TEXTURE_RES
  Texts,      \* sequences of characters, numbered from charStart, and Newline
  Garbage     \* what an uninitialized number may be

Newline == -1

ASSUME FontAssumption ==
  /\ MaxRes \in Nat
  /\ Fonts \subseteq [widths : Seq(Nat), padding : Nat, height : Nat \ {0}]
  /\ \A f \in Fonts : Len(f.widths) > 3
  /\ Texts \subseteq Seq(Int)
  /\ 0 \in Garbage

VARIABLES
  font,      \* the font that is made
  wider,     \* TTF_RenderGlyph_Blended() makes them one wider than measured
  rows,      \* the number of rows tried next
  best,      \* bestPartition with bestWidth and bestHeight, or None
  area,
  rects,     \* glyphRects: of each drawn character, or <<>> before
  address,   \* slice of its textureAddress, NoSlice before
  container, \* m_txContainer: its size, its slices and how many of them are taken
  overdrawn, \* virtualAllocate() of an empty queue
  text,      \* drawn: the text, where each character went, the measured size and the slice
  made       \* fonts made

fontVars == <<font, wider, rows, best, area, rects, address, container, overdrawn, text, made>>

None == [rows |-> <<>>, width |-> 0, height |-> 0]
NoSlice == -1
NoContainer == [width |-> 0, height |-> 0, slices |-> 0, taken |-> 0]

\* length: charEnd - charStart - 1, which is two less than the characters.
Length == Len(font.widths) - 2

\* Doubled until it reaches i, for which i turns are enough.
closestPow2(i) ==
  LET pi[turn \in Nat] ==
        IF turn = 0 THEN 1 ELSE LET last == pi[turn - 1] IN IF last >= i THEN last ELSE 2 * last
  IN  pi[i]

\* A row is the sequence of its characters, numbered from 0.
RowWidth(row) == font.padding + SumFunction([i \in DOMAIN row |-> font.widths[row[i] + 1] + font.padding])

Narrowest(partition) ==
  Min({r \in DOMAIN partition : \A q \in DOMAIN partition : RowWidth(partition[r]) <= RowWidth(partition[q])})

\* Mutation of createRows: the last character is left over.
ShortcreateRows(n) ==
  FoldLeft(LAMBDA partition, c : LET r == Narrowest(partition) IN [partition EXCEPT ![r] = Append(@, c)],
           [r \in 1 .. n |-> <<>>], [i \in 1 .. Length - 1 |-> i - 1])

\* Every character goes to the narrowest row so far, the first of several.
createRows(n) ==
  FoldLeft(LAMBDA partition, c : LET r == Narrowest(partition) IN [partition EXCEPT ![r] = Append(@, c)],
           [r \in 1 .. n |-> <<>>], [i \in 1 .. Length |-> i - 1])

Widest(partition) == Max({RowWidth(partition[r]) : r \in DOMAIN partition})

FontInit ==
  /\ font \in Fonts /\ wider \in BOOLEAN
  /\ rows = 1 /\ best = None /\ area = MaxRes * MaxRes
  /\ rects = <<>> /\ address = NoSlice /\ container = NoContainer /\ overdrawn = FALSE
  /\ text = <<>> /\ made = 0

\* Mutation of Candidate: the padding between the rows is forgotten.
TightCandidate(n) ==
  [rows |-> createRows(n), width |-> closestPow2(Widest(createRows(n))), height |-> closestPow2(n * font.height + font.padding)]

Candidate(n) ==
  [rows |-> createRows(n), width |-> closestPow2(Widest(createRows(n))),
   height |-> closestPow2(n * (font.padding + font.height) + font.padding)]

Feasible(c) == c.width <= MaxRes /\ c.height <= MaxRes

\* One turn of the search for the smallest texture; the first larger one ends it.
TryRows ==
  /\ rects = <<>> /\ rows <= Length
  /\ LET c == Candidate(rows) IN
       IF ~Feasible(c) THEN rows' = rows + 1 /\ UNCHANGED <<best, area>>
       ELSE IF area >= c.width * c.height
       THEN best' = c /\ area' = c.width * c.height /\ rows' = rows + 1
       ELSE rows' = Length + 1 /\ UNCHANGED <<best, area>>
  /\ UNCHANGED <<font, wider, rects, address, container, overdrawn, text, made>>

Rendered(c) == font.widths[c + 1] + (IF wider THEN 1 ELSE 0)

\* Mutation of Slices: a container for every character once.
FewSlices == Length

\* A container is made for twice the characters of the first font.
Slices == 2 * Length

\* The container, which is made for the first font and as large as that needs.
Room == IF container = NoContainer
        THEN [width |-> best.width, height |-> best.height, slices |-> Slices, taken |-> 0] ELSE container

\* How many characters are drawn up to place i of row r.
Turn(r, i) == SumFunctionOnSet([q \in DOMAIN best.rows |-> Len(best.rows[q])], 1 .. r - 1) + i

\* Mutation of Rect: what is rendered is as wide as what was measured.
PackedRect(r, i) ==
  LET row == best.rows[r]
  IN  [char |-> row[i],
       x |-> font.padding + SumFunctionOnSet([j \in DOMAIN row |-> font.widths[row[j] + 1] + font.padding], 1 .. i - 1),
       y |-> font.padding + (r - 1) * (font.height + font.padding),
       w |-> Rendered(row[i]),
       slice |-> Room.taken + Turn(r, i)]

\* The character at place i of row r: its rectangle, and the slice it is uploaded to.
Rect(r, i) ==
  LET row == best.rows[r]
  IN  [char |-> row[i],
       x |-> font.padding + SumFunctionOnSet([j \in DOMAIN row |-> Rendered(row[j]) + font.padding], 1 .. i - 1),
       y |-> font.padding + (r - 1) * (font.height + font.padding),
       w |-> Rendered(row[i]),
       slice |-> Room.taken + Turn(r, i)]

\* No number of rows gave a texture that is small enough, which is FATAL, or a
\* slice was taken from an empty queue, which is undefined: nothing follows.
Ended == ((rects = <<>> /\ rows > Length /\ best = None) \/ overdrawn) /\ UNCHANGED fontVars

\* The characters are drawn.  Slices are taken one after the other, none is given
\* back: one for textureAddress, one for each character and one for the
\* unsupported one.
DrawFont ==
  /\ rects = <<>> /\ rows > Length /\ best # None
  /\ rects' = SetToSeq(UNION {{Rect(r, i) : i \in DOMAIN best.rows[r]} : r \in DOMAIN best.rows})
  /\ address' = Room.taken
  /\ container' = [Room EXCEPT !.taken = @ + Length + 2]
  /\ overdrawn' = (overdrawn \/ Room.slices < Room.taken + Length + 2)
  /\ made' = made + 1
  /\ UNCHANGED <<font, wider, rows, best, area, text>>

\* initFont() of another font, while the first slices have not run out.
AnotherFont ==
  /\ rects # <<>> /\ ~overdrawn
  /\ font' \in Fonts /\ wider' \in BOOLEAN
  /\ rows' = 1 /\ best' = None /\ area' = MaxRes * MaxRes
  /\ rects' = <<>> /\ address' = NoSlice /\ text' = <<>>
  /\ UNCHANGED <<container, overdrawn, made>>

\* Mutation of GlyphIndex: the first glyph stands for what is unsupported.
OpenGlyphIndex(c) == IF c < 0 \/ c >= Length THEN 0 ELSE c

\* The index into cGlyphs; that of the unsupported character is length.
GlyphIndex(c) == IF c < 0 \/ c >= Length THEN Length ELSE c

\* dimensions.x in cGlyphs; the unsupported character has those of the first.
GlyphWidth(c) == IF GlyphIndex(c) = Length THEN Rendered(0) ELSE Rendered(GlyphIndex(c))

\* The lines of s.
LineOf(s, i) == Cardinality({j \in 1 .. i - 1 : s[j] = Newline})
OfLine(s, n) == {i \in DOMAIN s : s[i] # Newline /\ LineOf(s, i) = n}
Lines(s) == 0 .. Cardinality({j \in DOMAIN s : s[j] = Newline})
WidthOf(s, places) == SumFunctionOnSet([i \in DOMAIN s |-> GlyphWidth(s[i])], places)

\* measure(): dimensions.x starts as the vector's constructor leaves it.
measure(s, start) ==
  [x |-> Max({start} \cup {WidthOf(s, OfLine(s, n)) : n \in Lines(s)}),
   y |-> font.height * Cardinality(Lines(s))]

\* Mutation of doDraw: a new line goes on where the last one ended.
RunningdoDraw(s) ==
  [i \in {j \in DOMAIN s : s[j] # Newline} |->
     [x |-> WidthOf(s, {j \in DOMAIN s : s[j] # Newline /\ j < i}), y |-> font.height * LineOf(s, i), glyph |-> GlyphIndex(s[i])]]

\* doDraw() of a text that is justified to the left: each character's place.
doDraw(s) ==
  [i \in {j \in DOMAIN s : s[j] # Newline} |->
     [x |-> WidthOf(s, {j \in OfLine(s, LineOf(s, i)) : j < i}), y |-> font.height * LineOf(s, i), glyph |-> GlyphIndex(s[i])]]

DrawText(s, start) ==
  /\ rects # <<>> /\ ~overdrawn
  /\ text' = <<[text |-> s, places |-> doDraw(s), size |-> measure(s, start), start |-> start]>>
  /\ UNCHANGED <<font, wider, rows, best, area, rects, address, container, overdrawn, made>>

FontNext ==
  \/ TryRows \/ DrawFont \/ Ended \/ AnotherFont
  \/ \E s \in Texts, start \in Garbage : DrawText(s, start)

-----------------------------------------------------------------------------

\* Every character but the last two is drawn once.
EveryCharacterOnce ==
  rects # <<>> =>
    \A c \in 0 .. Length - 1 : Cardinality({i \in DOMAIN rects : rects[i].char = c}) = 1

\* Each is uploaded to a slice of its own, and none to the one that texts are
\* drawn from.
OwnSlices ==
  ~overdrawn => \A i \in DOMAIN rects :
    rects[i].slice # address /\ \A j \in DOMAIN rects : i # j => rects[i].slice # rects[j].slice

\* No two of them share texture coordinates: in a row they are a padding apart.
CharactersApart ==
  \A i, j \in DOMAIN rects :
    i # j /\ rects[i].y = rects[j].y =>
      rects[i].x + rects[i].w + font.padding <= rects[j].x \/ rects[j].x + rects[j].w + font.padding <= rects[i].x

\* Where the rows are counted from below, the lower edge of a character.
LowerEdge(rect) == (best.height - rect.y) - (1 + font.height)

\* The font of the container, or one that does not need a larger texture.
FitsContainer == made = 1 \/ (best.width <= container.width /\ best.height <= container.height)

\* All of a character is uploaded inside its slice, unless characters are rendered
\* wider than they were measured, or the container was made for a smaller
\* texture.  Without padding it may begin one row below the slice.
UploadsInside ==
  rects # <<>> /\ ~overdrawn /\ ~wider /\ FitsContainer => \A i \in DOMAIN rects :
    /\ rects[i].x + rects[i].w <= container.width
    /\ LowerEdge(rects[i]) + font.height <= container.height
    /\ LowerEdge(rects[i]) >= IF font.padding = 0 THEN -1 ELSE 0

\* The first font always gets its slices if it has two characters; a second one
\* need not.
FirstFontHasSlices == overdrawn => made >= 2

\* A text is drawn with glyphs that the font has, each character with its own.
OwnGlyph ==
  text # <<>> => \A i \in DOMAIN text[1].places :
    /\ text[1].places[i].glyph \in 0 .. Length
    /\ text[1].places[i].glyph # Length => text[1].places[i].glyph = text[1].text[i]

\* What measure() says of a text is what doDraw() takes, if its vector starts at 0.
MeasuredAsDrawn ==
  text # <<>> /\ text[1].start = 0 /\ DOMAIN text[1].places # {} =>
    text[1].size.x = Max({text[1].places[i].x + GlyphWidth(text[1].text[i]) : i \in DOMAIN text[1].places})

\* A font has all its characters, apart, each inside a slice of its own, and
\* measures a text as it draws it.
FontSound ==
  /\ EveryCharacterOnce /\ OwnSlices /\ CharactersApart /\ UploadsInside
  /\ FirstFontHasSlices /\ OwnGlyph /\ MeasuredAsDrawn

=============================================================================
