--------------------------- MODULE PrintoutProofs ----------------------------
(****************************************************************************)
(* Proofs about what the calls draw: memcpy, memset, DrawBox, DrawString,   *)
(* createNewLine and the loop of Print.  What a call draws that keeps to    *)
(* the lines of text leaves the input line alone, smears no glyph and shows *)
(* what it was given, whatever was on the screen.                           *)
(****************************************************************************)
EXTENDS NumeralProofs, FiniteSetTheorems

\* The first pixel row of the input line.
InputTop == Height - FontHeight

\* What a pixel may show.
Letters == Characters \cup {"none"}
Cells == [c : Letters, y : Int]
Frames == [Pixels -> Cells]

\* The pieces drawings are made of; a glyph may be anywhere.
Copies == [do : {"copy"}, to : SUBSET Int, shift : Int]
Fills  == [do : {"fill"}, to : SUBSET Int]
Glyphs == [do : {"glyph"}, c : Characters, corner : Int, to : SUBSET Int]

Scrolls(w)  == w.shift = FontHeight * Width
               /\ \A p \in w.to : p >= 0 /\ p < (Height - 2 * FontHeight) * Width
Clears(w)   == \A p \in w.to : p < InputTop * Width
IsGlyph(w)  == w = Glyph(w.corner, w.c)

Strokes == {w \in Copies : Scrolls(w)} \cup Fills \cup {w \in Glyphs : IsGlyph(w)}

\* What is printed clears nothing of the input line.
Prints == {w \in Strokes : w.do = "fill" => Clears(w)}

\* A glyph that stands in one of the lines above the input line, and what leaves the
\* input line alone.
InText(w) ==
  \E row \in 0 .. totalRows - 1, x \in 0 .. Width - FontWidth :
    w.corner = row * FontHeight * Width + x

Safe == {w \in Prints : w.do = "glyph" => InText(w)}

\* Every pixel that shows a glyph shows the row of it that belongs there.
Aligned(fb) == \A p \in Pixels : fb[p] # Black => fb[p].y = RowOf(p) % FontHeight

-----------------------------------------------------------------------------
(* Numbers.                                                                 *)

\* Max of the community modules, of a set that has its bound.
LEMMA GreatestIs ==
  ASSUME NEW n \in Nat, NEW s \in SUBSET (1 .. n), n \in s
  PROVE  Max(s) = n
<1>1. \A y \in s : y \in Nat /\ n >= y
  OBVIOUS
<1>2. \E x \in s : \A y \in s : x >= y
  BY <1>1
<1>3. Max(s) \in s /\ \A y \in s : Max(s) >= y
  BY <1>2 DEF Max
<1>4. Max(s) >= n /\ n >= Max(s) /\ Max(s) \in Nat
  BY <1>1, <1>3
<1>5. QED BY <1>4

\* Max of the community modules, of any set that has a bound.
LEMMA MaxIsIn ==
  ASSUME NEW n \in Nat, NEW s \in SUBSET (1 .. n), s # {}
  PROVE  Max(s) \in s
<1> DEFINE M == {m \in Nat : \A y \in s : y <= m}
<1>1. n \in M
  OBVIOUS
<1>2. Min(M) \in M /\ \A m \in M : Min(M) <= m
  BY <1>1, Smallest
<1> DEFINE x == Min(M)
<1>3. x \in Nat /\ \A y \in s : y <= x
  BY <1>2
<1>4. ASSUME x \notin s PROVE FALSE
  <2> PICK z \in s : TRUE
    OBVIOUS
  <2>1. \A y \in s : y \in Nat /\ y <= x - 1 /\ y >= 1
    BY <1>3, <1>4
  <2> HIDE DEF x
  <2>2. x - 1 \in Nat
    BY <1>3, <2>1
  <2>3. x - 1 \in M
    BY <2>1, <2>2
  <2>4. QED BY <1>2, <1>3, <2>3 DEF x
<1> HIDE DEF x, M
<1>5. x \in s /\ \A y \in s : x >= y
  BY <1>3, <1>4
<1>6. QED BY <1>5 DEF Max

\* What division does to a pixel row and a column.
LEMMA Division ==
  ASSUME NEW n \in Nat \ {0}, NEW r \in Int, NEW c \in 0 .. n - 1
  PROVE  (r * n + c) \div n = r /\ (r * n + c) % n = c
<1> DEFINE a == r * n + c
           q == a \div n
           m == a % n
<1>1. a \in Int /\ q \in Int /\ m \in 0 .. n - 1 /\ a = q * n + m
  OBVIOUS
<1> HIDE DEF q, m
<1>2. (r - q) * n = m - c
  BY <1>1
<1>3. CASE r < q
  <2>1. (q - r) * n >= n
    BY <1>1, <1>3
  <2>2. QED BY <1>1, <1>2, <2>1
<1>4. CASE r > q
  <2>1. (r - q) * n >= n
    BY <1>1, <1>4
  <2>2. QED BY <1>1, <1>2, <2>1
<1>5. CASE r = q
  BY <1>1, <1>2, <1>5 DEF q, m
<1>6. QED BY <1>1, <1>3, <1>4, <1>5

\* Division, with its remainder.
LEMMA Divided ==
  ASSUME NEW n \in Nat \ {0}, NEW r \in Nat
  PROVE  r \div n \in Nat /\ r % n \in 0 .. n - 1 /\ r = (r \div n) * n + (r % n)
OBVIOUS

-----------------------------------------------------------------------------
(* Pixels.                                                                  *)

\* The screen consists of whole lines of text, of which the last is the input line.
LEMMA Screen ==
  /\ {Width, Height, FontWidth, FontHeight, U16} \subseteq Nat \ {0}
  /\ Height = GetRows * FontHeight /\ GetRows \in Nat /\ GetRows >= 3
  /\ InputTop = inputRow * FontHeight /\ InputTop \in Nat /\ InputTop >= 2 * FontHeight
  /\ InputTop < Height /\ Height * Width \in Nat
<1>1. {Width, Height, FontWidth, FontHeight, U16} \subseteq Nat \ {0}
  BY CanvasAssumption
<1>2. Height % FontHeight = 0 /\ GetRows >= 3
  BY TerminalAssumption
<1>3. GetRows \in Nat /\ Height = GetRows * FontHeight
  BY <1>1, <1>2 DEF GetRows
<1>4. InputTop = inputRow * FontHeight
  BY <1>1, <1>3 DEF InputTop, inputRow
<1>5. InputTop >= 2 * FontHeight
  BY <1>1, <1>2, <1>3 DEF InputTop
<1>6. QED BY <1>1, <1>2, <1>3, <1>4, <1>5 DEF InputTop

\* A pixel is its row and its column.
LEMMA PixelIs ==
  ASSUME NEW p \in Pixels
  PROVE  /\ p \in Nat /\ RowOf(p) \in 0 .. Height - 1 /\ ColumnOf(p) \in 0 .. Width - 1
         /\ p = RowOf(p) * Width + ColumnOf(p)
<1>1. Width \in Nat \ {0} /\ Height \in Nat \ {0} /\ p \in Nat /\ p < Height * Width
  BY Screen DEF Pixels
<1>2. RowOf(p) \in Nat /\ ColumnOf(p) \in 0 .. Width - 1 /\ p = RowOf(p) * Width + ColumnOf(p)
  BY <1>1 DEF RowOf, ColumnOf
<1>3. RowOf(p) < Height
  BY <1>1, <1>2
<1>4. QED BY <1>1, <1>2, <1>3

\* The pixel in a row and a column.
LEMMA PixelAt ==
  ASSUME NEW r \in Int, NEW c \in 0 .. Width - 1
  PROVE  /\ RowOf(r * Width + c) = r /\ ColumnOf(r * Width + c) = c
         /\ r \in 0 .. Height - 1 => r * Width + c \in Pixels
<1>1. Width \in Nat \ {0} /\ Height \in Nat \ {0}
  BY Screen
<1>2. RowOf(r * Width + c) = r /\ ColumnOf(r * Width + c) = c
  BY <1>1, Division DEF RowOf, ColumnOf
<1>3. ASSUME r \in 0 .. Height - 1 PROVE r * Width + c \in Pixels
  <2>1. (r + 1) * Width <= Height * Width /\ r * Width >= 0
    BY <1>1, <1>3
  <2>2. QED BY <1>1, <1>3, <2>1 DEF Pixels
<1>4. QED BY <1>2, <1>3

\* The pixels of the rows above row r.
LEMMA RowsAbove ==
  ASSUME NEW p \in Pixels, NEW r \in Int
  PROVE  p < r * Width <=> RowOf(p) < r
<1>1. /\ p \in Nat /\ RowOf(p) \in Nat /\ ColumnOf(p) \in 0 .. Width - 1
      /\ p = RowOf(p) * Width + ColumnOf(p) /\ Width \in Nat \ {0}
  BY PixelIs, Screen
<1> DEFINE q == RowOf(p)
<1> HIDE DEF q
<1>2. q \in Nat /\ q = RowOf(p)
  BY <1>1 DEF q
<1>3. CASE q < r
  <2>1. (q + 1) * Width <= r * Width
    BY <1>1, <1>2, <1>3
  <2>2. QED BY <1>1, <1>2, <1>3, <2>1
<1>4. CASE q >= r
  <2>1. q * Width >= r * Width
    BY <1>1, <1>2, <1>4
  <2>2. QED BY <1>1, <1>2, <1>4, <2>1
<1>5. QED BY <1>2, <1>3, <1>4

\* Where a glyph whose corner is in pixel row r and column x shows, and which of its
\* rows a pixel is in.
LEMMA GlyphAt ==
  ASSUME NEW r \in Nat, NEW x \in 0 .. Width - FontWidth, NEW c, NEW corner,
         corner = r * Width + x, NEW p \in Pixels
  PROVE  /\ p \in Glyph(corner, c).to <=>
              RowOf(p) \in r .. r + FontHeight - 1 /\ ColumnOf(p) \in x .. x + FontWidth - 1
         /\ p \in Glyph(corner, c).to => (p - corner) \div Width = RowOf(p) - r
<1>1. {Width, Height, FontWidth, FontHeight} \subseteq Nat \ {0}
  BY Screen
<1>2. Glyph(corner, c).to =
        {corner + y * Width + z : z \in 0 .. FontWidth - 1, y \in 0 .. FontHeight - 1}
  BY DEF Glyph
<1>3. ASSUME NEW y \in 0 .. FontHeight - 1, NEW z \in 0 .. FontWidth - 1, p = corner + y * Width + z
      PROVE  /\ RowOf(p) = r + y /\ ColumnOf(p) = x + z
             /\ (p - corner) \div Width = y
  <2>1. p = (r + y) * Width + (x + z) /\ r + y \in Int /\ x + z \in 0 .. Width - 1
    BY <1>1, <1>3
  <2>2. RowOf((r + y) * Width + (x + z)) = r + y /\ ColumnOf((r + y) * Width + (x + z)) = x + z
    BY <2>1, PixelAt
  <2>3. p - corner = y * Width + z /\ z \in 0 .. Width - 1 /\ y \in Int
    BY <1>1, <1>3
  <2>4. (y * Width + z) \div Width = y
    BY <1>1, <2>3, Division
  <2>5. QED BY <2>1, <2>2, <2>3, <2>4
<1>4. ASSUME RowOf(p) \in r .. r + FontHeight - 1, ColumnOf(p) \in x .. x + FontWidth - 1
      PROVE  p \in Glyph(corner, c).to
  <2> DEFINE y == RowOf(p) - r
             z == ColumnOf(p) - x
  <2>1. y \in 0 .. FontHeight - 1 /\ z \in 0 .. FontWidth - 1
    BY <1>1, <1>4
  <2>2. p = RowOf(p) * Width + ColumnOf(p) /\ RowOf(p) \in Int /\ ColumnOf(p) \in Int
    BY PixelIs
  <2>3. RowOf(p) = r + y /\ ColumnOf(p) = x + z
    BY <1>1, <2>2
  <2> HIDE DEF y, z
  <2>4. p = corner + y * Width + z
    BY <1>1, <2>1, <2>2, <2>3
  <2>5. QED BY <1>2, <2>1, <2>4
<1>5. ASSUME p \in Glyph(corner, c).to
      PROVE  /\ RowOf(p) \in r .. r + FontHeight - 1 /\ ColumnOf(p) \in x .. x + FontWidth - 1
             /\ (p - corner) \div Width = RowOf(p) - r
  <2>1. PICK y \in 0 .. FontHeight - 1, z \in 0 .. FontWidth - 1 : p = corner + y * Width + z
    BY <1>2, <1>5
  <2>2. RowOf(p) = r + y /\ ColumnOf(p) = x + z /\ (p - corner) \div Width = y
    BY <1>3, <2>1
  <2>3. QED BY <1>1, <2>1, <2>2
<1>6. QED BY <1>4, <1>5

-----------------------------------------------------------------------------
(* A write.                                                                 *)

\* The cases of Written, pixel by pixel.
LEMMA WrittenIs ==
  ASSUME NEW fb, NEW w, NEW p \in Pixels
  PROVE  /\ DOMAIN Written(fb, w) = Pixels
         /\ p \notin w.to => Written(fb, w)[p] = fb[p]
         /\ p \in w.to /\ w.do = "copy" => Written(fb, w)[p] = fb[p + w.shift]
         /\ p \in w.to /\ w.do = "fill" => Written(fb, w)[p] = Black
         /\ p \in w.to /\ w.do = "glyph" => Written(fb, w)[p] = Ink(w.c, (p - w.corner) \div Width)
BY DEF Written

\* What a copy reads lies on the screen, a line of text further down.
LEMMA CopyReads ==
  ASSUME NEW w \in Strokes, w.do = "copy", NEW p \in Pixels, p \in w.to
  PROVE  /\ p + w.shift \in Pixels /\ RowOf(p + w.shift) = RowOf(p) + FontHeight
         /\ RowOf(p) < InputTop
<1>1. w.shift = FontHeight * Width /\ p < (Height - 2 * FontHeight) * Width
  BY DEF Strokes, Copies, Fills, Glyphs, Scrolls
<1>2. {Width, Height, FontHeight} \subseteq Nat \ {0} /\ Height - 2 * FontHeight \in Int
  BY Screen
<1>3. RowOf(p) < Height - 2 * FontHeight
  BY <1>1, <1>2, RowsAbove
<1>4. p = RowOf(p) * Width + ColumnOf(p) /\ RowOf(p) \in Nat /\ ColumnOf(p) \in 0 .. Width - 1
  BY PixelIs
<1> DEFINE r == RowOf(p) + FontHeight
<1>5. p + w.shift = r * Width + ColumnOf(p) /\ r \in 0 .. Height - 1
  BY <1>1, <1>2, <1>3, <1>4
<1>6. RowOf(r * Width + ColumnOf(p)) = r /\ r * Width + ColumnOf(p) \in Pixels
  BY <1>4, <1>5, PixelAt
<1>7. QED BY <1>2, <1>3, <1>4, <1>5, <1>6 DEF InputTop

\* Black and ink.
LEMMA InkIs ==
  Black \in Cells /\ \A c \in Characters, y \in Int : Ink(c, y) \in Cells
BY DEF Cells, Black, Ink, Letters

\* The screen stays a screen.
LEMMA WrittenType ==
  ASSUME NEW fb \in Frames, NEW w \in Strokes
  PROVE  Written(fb, w) \in Frames
<1>1. Written(fb, w) = [p \in Pixels |-> Written(fb, w)[p]]
  <2> DEFINE Of(p) == CASE p \notin w.to                    -> fb[p]
                        [] p \in w.to /\ w.do = "copy"      -> fb[p + w.shift]
                        [] p \in w.to /\ w.do = "fill"      -> Black
                        [] p \in w.to /\ w.do = "glyph"     -> Ink(w.c, (p - w.corner) \div Width)
  <2>1. Written(fb, w) = [p \in Pixels |-> Of(p)]
    BY DEF Written
  <2> HIDE DEF Of
  <2>2. QED BY <2>1
<1>2. ASSUME NEW p \in Pixels PROVE Written(fb, w)[p] \in Cells
  <2>1. CASE p \notin w.to
    BY <2>1, WrittenIs DEF Frames
  <2>2. CASE p \in w.to /\ w.do = "copy"
    BY <2>2, WrittenIs, CopyReads DEF Frames
  <2>3. CASE p \in w.to /\ w.do = "fill"
    BY <2>3, WrittenIs, InkIs
  <2>4. CASE p \in w.to /\ w.do = "glyph"
    <3>1. w.c \in Characters /\ w.corner \in Int
      BY <2>4 DEF Strokes, Copies, Fills, Glyphs
    <3> DEFINE y == (p - w.corner) \div Width
    <3>2. y \in Int
      BY <3>1, Screen, PixelIs
    <3>3. Written(fb, w)[p] = Ink(w.c, y)
      BY <2>4, WrittenIs
    <3> HIDE DEF y
    <3>4. QED BY <3>1, <3>2, <3>3, InkIs
  <2>5. w.do \in {"copy", "fill", "glyph"}
    BY DEF Strokes, Copies, Fills, Glyphs
  <2>6. QED BY <2>1, <2>2, <2>3, <2>4, <2>5
<1>3. QED BY <1>1, <1>2 DEF Frames

\* A glyph in a line of text.
InLine(w, row, x) ==
  /\ row \in Nat /\ x \in 0 .. Width - FontWidth
  /\ w.corner = row * FontHeight * Width + x

\* The pixels of a glyph in a line are in the row of it that is drawn there.
LEMMA GlyphInLine ==
  ASSUME NEW w, w.do = "glyph", w.to = Glyph(w.corner, w.c).to,
         NEW row, NEW x, InLine(w, row, x), NEW fb, NEW p \in Pixels
  PROVE  /\ p \in w.to <=> /\ RowOf(p) \in row * FontHeight .. row * FontHeight + FontHeight - 1
                           /\ ColumnOf(p) \in x .. x + FontWidth - 1
         /\ p \in w.to => Written(fb, w)[p] = Ink(w.c, RowOf(p) % FontHeight)
<1>1. {Width, FontHeight} \subseteq Nat \ {0} /\ row \in Nat /\ x \in 0 .. Width - FontWidth
  BY Screen DEF InLine
<1> DEFINE r == row * FontHeight
           corner == w.corner
<1>2. r \in Nat /\ corner = r * Width + x
  BY <1>1 DEF InLine
<1>3. RowOf(p) \in Int
  BY PixelIs
<1> HIDE DEF r, corner
<1>4. /\ p \in w.to <=> /\ RowOf(p) \in r .. r + FontHeight - 1
                        /\ ColumnOf(p) \in x .. x + FontWidth - 1
      /\ p \in w.to => (p - corner) \div Width = RowOf(p) - r
  BY <1>1, <1>2, GlyphAt DEF corner
<1>5. ASSUME p \in w.to PROVE RowOf(p) - r = RowOf(p) % FontHeight
  <2> DEFINE y == RowOf(p) - r
  <2>1. y \in 0 .. FontHeight - 1 /\ RowOf(p) = row * FontHeight + y
    BY <1>1, <1>2, <1>3, <1>4, <1>5 DEF r
  <2> HIDE DEF y
  <2>2. (row * FontHeight + y) % FontHeight = y
    BY <1>1, <2>1, Division
  <2>3. QED BY <2>1, <2>2 DEF y
<1>6. ASSUME p \in w.to PROVE Written(fb, w)[p] = Ink(w.c, RowOf(p) % FontHeight)
  BY <1>4, <1>5, <1>6, WrittenIs DEF corner
<1>7. QED BY <1>4, <1>6 DEF r

\* What is known of a glyph.
LEMMA GlyphStrokes ==
  ASSUME NEW w \in Strokes, w.do = "glyph"
  PROVE  w \in Glyphs /\ w.to = Glyph(w.corner, w.c).to
BY DEF Strokes, Copies, Fills, Glyphs, IsGlyph

\* A copy, a fill or a glyph in a line keeps what is on the screen aligned.
LEMMA KeepsAligned ==
  ASSUME NEW fb, Aligned(fb), NEW w \in Strokes,
         w.do = "glyph" => \E row, x : InLine(w, row, x)
  PROVE  Aligned(Written(fb, w))
<1> SUFFICES ASSUME NEW p \in Pixels, Written(fb, w)[p] # Black
             PROVE  Written(fb, w)[p].y = RowOf(p) % FontHeight
  BY DEF Aligned
<1>1. CASE p \notin w.to
  BY <1>1, WrittenIs DEF Aligned
<1>2. CASE p \in w.to /\ w.do = "copy"
  <2> DEFINE q == p + w.shift
  <2>1. q \in Pixels /\ RowOf(q) = RowOf(p) + FontHeight
    BY <1>2, CopyReads
  <2>2. Written(fb, w)[p] = fb[q]
    BY <1>2, WrittenIs
  <2> HIDE DEF q
  <2>3. fb[q].y = RowOf(q) % FontHeight
    BY <2>1, <2>2 DEF Aligned
  <2>4. RowOf(p) \in Nat /\ FontHeight \in Nat \ {0}
    BY PixelIs, Screen
  <2>5. (RowOf(p) + FontHeight) % FontHeight = RowOf(p) % FontHeight
    <3> DEFINE a == RowOf(p)
               d == a \div FontHeight
               m == a % FontHeight
    <3>1. a \in Nat
      BY <2>4
    <3> HIDE DEF a
    <3>2. d \in Int /\ m \in 0 .. FontHeight - 1 /\ a = d * FontHeight + m
      BY <2>4, <3>1
    <3> HIDE DEF d, m
    <3>3. a + FontHeight = (d + 1) * FontHeight + m /\ d + 1 \in Int
      BY <2>4, <3>1, <3>2
    <3>4. ((d + 1) * FontHeight + m) % FontHeight = m
      BY <2>4, <3>2, <3>3, Division
    <3>5. QED BY <3>3, <3>4 DEF a, m
  <2>6. QED BY <2>1, <2>2, <2>3, <2>5
<1>3. CASE p \in w.to /\ w.do = "fill"
  BY <1>3, WrittenIs
<1>4. CASE p \in w.to /\ w.do = "glyph"
  <2>1. PICK row, x : InLine(w, row, x)
    BY <1>4
  <2>2. Written(fb, w)[p] = Ink(w.c, RowOf(p) % FontHeight)
    BY <1>4, <2>1, GlyphStrokes, GlyphInLine
  <2>3. QED BY <2>2 DEF Ink
<1>5. w.do \in {"copy", "fill", "glyph"}
  BY DEF Strokes, Copies, Fills, Glyphs
<1>6. QED BY <1>1, <1>2, <1>3, <1>4, <1>5

\* What is safe may be printed, and what may be printed is a stroke.
LEMMA SafeIs ==
  Safe \subseteq Prints /\ Safe \subseteq Strokes
BY DEF Safe, Prints

\* A safe glyph stands in a line above the input line.
LEMMA SafeGlyph ==
  ASSUME NEW w \in Safe, w.do = "glyph"
  PROVE  \E row, x : InLine(w, row, x) /\ row * FontHeight + FontHeight <= InputTop
<1>1. PICK row \in 0 .. totalRows - 1, x \in 0 .. Width - FontWidth :
        w.corner = row * FontHeight * Width + x
  BY DEF Safe, InText
<1>2. row \in Nat /\ row + 1 <= inputRow /\ inputRow \in Nat /\ FontHeight \in Nat
  BY <1>1, Screen DEF totalRows, inputRow
<1>3. (row + 1) * FontHeight <= inputRow * FontHeight
  BY <1>2
<1>4. row * FontHeight + FontHeight <= InputTop
  BY <1>2, <1>3, Screen
<1>5. QED BY <1>1, <1>2, <1>4 DEF InLine

\* What tasks and Schedule write changes nothing on the input line.
LEMMA SparesInput ==
  ASSUME NEW fb, NEW w \in Safe, NEW p \in Pixels, RowOf(p) >= InputTop
  PROVE  Written(fb, w)[p] = fb[p]
<1>1. w \in Strokes
  BY SafeIs
<1>2. RowOf(p) \in Nat /\ InputTop \in Nat
  BY PixelIs, Screen
<1>3. CASE w.do = "copy"
  <2>1. p \notin w.to
    BY <1>1, <1>2, <1>3, CopyReads
  <2>2. QED BY <2>1, WrittenIs
<1>4. CASE w.do = "fill"
  <2>1. p \in w.to => p < InputTop * Width
    BY <1>4 DEF Safe, Prints, Clears
  <2>2. p \notin w.to
    BY <1>2, <2>1, RowsAbove
  <2>3. QED BY <2>2, WrittenIs
<1>5. CASE w.do = "glyph"
  <2>1. PICK row, x : InLine(w, row, x) /\ row * FontHeight + FontHeight <= InputTop
    BY <1>5, SafeGlyph
  <2>2. p \in w.to => RowOf(p) \in row * FontHeight .. row * FontHeight + FontHeight - 1
    BY <1>1, <1>5, <2>1, GlyphStrokes, GlyphInLine
  <2>3. row \in Nat /\ FontHeight \in Nat /\ row * FontHeight \in Nat
    BY <2>1, Screen DEF InLine
  <2>4. p \notin w.to
    BY <1>2, <2>1, <2>2, <2>3
  <2>5. QED BY <2>4, WrittenIs
<1>6. w.do \in {"copy", "fill", "glyph"}
  BY <1>1 DEF Strokes, Copies, Fills, Glyphs
<1>7. QED BY <1>3, <1>4, <1>5, <1>6

-----------------------------------------------------------------------------
(* Sequences of writes.  The folds are recursions over the sets of indices; *)
(* what is needed of them is that they exist, and their values at the sets  *)
(* 1 .. k.                                                                  *)

FoldOf(A, base, H, n, g) ==
  /\ g \in [SUBSET (1 .. n) -> A]
  /\ \A s \in SUBSET (1 .. n) : g[s] = IF s = {} THEN base ELSE H[Max(s)][g[s \ {Max(s)}]]

\* There is a fold of any n functions on a set.
LEMMA FoldExists ==
  ASSUME NEW A, NEW base \in A, NEW n \in Nat, NEW H \in [1 .. n -> [A -> A]]
  PROVE  \E g : FoldOf(A, base, H, n, g)
<1> DEFINE T == {m \in Nat : m <= n => \E g : FoldOf(A, base, H, m, g)}
<1>1. 0 \in T
  <2> DEFINE g == [s \in SUBSET (1 .. 0) |-> base]
  <2>1. \A s \in SUBSET (1 .. 0) : s = {}
    OBVIOUS
  <2>2. FoldOf(A, base, H, 0, g)
    BY <2>1 DEF FoldOf
  <2>3. QED BY <2>2
<1>2. ASSUME NEW m \in Nat, m \in T PROVE m + 1 \in T
  <2>1. ASSUME m + 1 <= n PROVE \E g : FoldOf(A, base, H, m + 1, g)
    <3>1. PICK g : FoldOf(A, base, H, m, g)
      BY <1>2, <2>1
    <3> DEFINE g2 == [s \in SUBSET (1 .. m + 1) |->
                        IF m + 1 \notin s THEN g[s] ELSE H[m + 1][g[s \ {m + 1}]]]
    <3>2. H[m + 1] \in [A -> A]
      <4>1. m + 1 \in 1 .. n
        BY <2>1
      <4>2. QED BY <4>1
    <3>3. ASSUME NEW s \in SUBSET (1 .. m + 1)
          PROVE  /\ g2[s] \in A
                 /\ g2[s] = IF s = {} THEN base ELSE H[Max(s)][g2[s \ {Max(s)}]]
      <4>1. CASE m + 1 \notin s
        <5>1. s \in SUBSET (1 .. m)
          BY <4>1
        <5>2. g[s] \in A /\ g[s] = IF s = {} THEN base ELSE H[Max(s)][g[s \ {Max(s)}]]
          BY <3>1, <5>1 DEF FoldOf
        <5>3. s \ {Max(s)} \in SUBSET (1 .. m + 1) /\ m + 1 \notin s \ {Max(s)}
          BY <4>1
        <5>4. g2[s] = g[s] /\ g2[s \ {Max(s)}] = g[s \ {Max(s)}]
          BY <4>1, <5>3
        <5> HIDE DEF g2
        <5>5. QED BY <5>2, <5>4
      <4>2. CASE m + 1 \in s
        <5>1. Max(s) = m + 1 /\ s # {}
          BY <4>2, GreatestIs
        <5>2. s \ {m + 1} \in SUBSET (1 .. m + 1) /\ m + 1 \notin s \ {m + 1}
          OBVIOUS
        <5>3. g2[s \ {m + 1}] = g[s \ {m + 1}]
          BY <5>2
        <5>4. g2[s] = H[m + 1][g[s \ {m + 1}]]
          BY <4>2
        <5>5. g[s \ {m + 1}] \in A
          <6>1. s \ {m + 1} \in SUBSET (1 .. m)
            OBVIOUS
          <6>2. QED BY <3>1, <6>1 DEF FoldOf
        <5> HIDE DEF g2
        <5>6. QED BY <3>2, <5>1, <5>3, <5>4, <5>5
      <4>3. QED BY <4>1, <4>2
    <3>4. g2 = [s \in SUBSET (1 .. m + 1) |-> g2[s]]
      OBVIOUS
    <3> HIDE DEF g2
    <3>5. FoldOf(A, base, H, m + 1, g2)
      BY <3>3, <3>4 DEF FoldOf
    <3>6. QED BY <3>5
  <2>2. QED BY <2>1
<1> HIDE DEF T
<1>3. Nat \subseteq T
  BY <1>1, <1>2, Induction
<1>4. QED BY <1>3 DEF T

\* The sets 1 .. k.
LEMMA Prefix ==
  ASSUME NEW n \in Nat, NEW k \in Nat, k + 1 <= n
  PROVE  /\ 1 .. k + 1 \in SUBSET (1 .. n) /\ 1 .. k + 1 # {}
         /\ Max(1 .. k + 1) = k + 1 /\ (1 .. k + 1) \ {k + 1} = 1 .. k
<1>1. \A x \in 1 .. k + 1 : x \in 1 .. n
  OBVIOUS
<1>2. k + 1 \in 1 .. k + 1
  OBVIOUS
<1>3. Max(1 .. k + 1) = k + 1
  BY <1>2, GreatestIs
<1>4. QED BY <1>1, <1>2, <1>3

\* AllWritten is one write after the other.
LEMMA WritesUnrolled ==
  ASSUME NEW fb \in Frames, NEW ws \in Seq(Strokes), NEW n \in Nat, n = Len(ws)
  PROVE  \E h : /\ h[{}] = fb /\ AllWritten(fb, ws) = h[1 .. n]
                /\ \A k \in Nat : k + 1 <= n => h[1 .. k + 1] = Written(h[1 .. k], ws[k + 1])
<1> DEFINE Is(h) == h = [s \in SUBSET (1 .. n) |->
                           IF s = {} THEN fb ELSE Written(h[s \ {Max(s)}], ws[Max(s)])]
           g == CHOOSE h : Is(h)
<1>1. DOMAIN ws = 1 .. n /\ \A i \in 1 .. n : ws[i] \in Strokes
  OBVIOUS
<1>2. AllWritten(fb, ws) = g[1 .. n]
  BY <1>1 DEF AllWritten, FoldLeft, MapThenFoldSet
<1>3. \E h : Is(h)
  <2> DEFINE H == [i \in 1 .. n |-> [a \in Frames |-> Written(a, ws[i])]]
  <2>1. H \in [1 .. n -> [Frames -> Frames]]
    BY <1>1, WrittenType
  <2>2. \A i \in 1 .. n, a \in Frames : H[i][a] = Written(a, ws[i])
    OBVIOUS
  <2> HIDE DEF H
  <2>3. PICK h : FoldOf(Frames, fb, H, n, h)
    BY <2>1, FoldExists
  <2>4. ASSUME NEW s \in SUBSET (1 .. n)
        PROVE  h[s] = IF s = {} THEN fb ELSE Written(h[s \ {Max(s)}], ws[Max(s)])
    <3>1. CASE s = {}
      BY <2>3, <3>1 DEF FoldOf
    <3>2. CASE s # {}
      <4>1. Max(s) \in s
        BY <3>2, MaxIsIn
      <4>2. h[s \ {Max(s)}] \in Frames /\ h[s] = H[Max(s)][h[s \ {Max(s)}]]
        BY <2>3, <3>2 DEF FoldOf
      <4>3. QED BY <2>2, <3>2, <4>1, <4>2
    <3>3. QED BY <3>1, <3>2
  <2>5. h = [s \in SUBSET (1 .. n) |-> h[s]]
    BY <2>3 DEF FoldOf
  <2>6. Is(h)
    BY <2>4, <2>5
  <2>7. QED BY <2>6
<1>4. Is(g)
  BY <1>3
<1> HIDE DEF g
<1>5. \A s \in SUBSET (1 .. n) :
        g[s] = IF s = {} THEN fb ELSE Written(g[s \ {Max(s)}], ws[Max(s)])
  BY <1>4
<1>6. g[{}] = fb
  BY <1>5
<1>7. ASSUME NEW k \in Nat, k + 1 <= n
      PROVE  g[1 .. k + 1] = Written(g[1 .. k], ws[k + 1])
  <2> DEFINE s == 1 .. k + 1
  <2>1. s \in SUBSET (1 .. n) /\ s # {} /\ Max(s) = k + 1 /\ s \ {k + 1} = 1 .. k
    BY <1>7, Prefix
  <2> HIDE DEF s
  <2>2. g[s] = Written(g[s \ {Max(s)}], ws[Max(s)])
    BY <1>5, <2>1
  <2>3. g[s] = Written(g[1 .. k], ws[k + 1])
    BY <2>1, <2>2
  <2>4. QED BY <2>3 DEF s
<1>8. QED BY <1>2, <1>6, <1>7

\* What is to stay when something that spares the input line is drawn on fb.
Keeps(fb, next) ==
  /\ next \in Frames /\ Aligned(next)
  /\ \A p \in Pixels : RowOf(p) >= InputTop => next[p] = fb[p]

\* A safe write keeps what is to stay ...
LEMMA SafeWrite ==
  ASSUME NEW fb, NEW next, Keeps(fb, next), NEW w \in Safe
  PROVE  Keeps(fb, Written(next, w))
<1>1. w \in Strokes
  BY SafeIs
<1>2. Written(next, w) \in Frames
  BY <1>1, WrittenType DEF Keeps
<1>3. w.do = "glyph" => \E row, x : InLine(w, row, x)
  BY SafeGlyph
<1>4. Aligned(Written(next, w))
  BY <1>1, <1>3, KeepsAligned DEF Keeps
<1>5. \A p \in Pixels : RowOf(p) >= InputTop => Written(next, w)[p] = next[p]
  BY SparesInput
<1>6. QED BY <1>2, <1>4, <1>5 DEF Keeps

\* ... and so does a sequence of them.
LEMMA SafeWrites ==
  ASSUME NEW fb \in Frames, Aligned(fb), NEW ws \in Seq(Safe)
  PROVE  Keeps(fb, AllWritten(fb, ws))
<1> DEFINE n == Len(ws)
<1>1. n \in Nat /\ ws \in Seq(Strokes) /\ \A i \in 1 .. n : ws[i] \in Safe
  BY SafeIs
<1> HIDE DEF n
<1>2. PICK h : /\ h[{}] = fb /\ AllWritten(fb, ws) = h[1 .. n]
               /\ \A k \in Nat : k + 1 <= n => h[1 .. k + 1] = Written(h[1 .. k], ws[k + 1])
  BY <1>1, WritesUnrolled DEF n
<1> DEFINE T == {k \in Nat : k <= n => Keeps(fb, h[1 .. k])}
<1>3. 0 \in T
  <2>1. 1 .. 0 = {}
    OBVIOUS
  <2>2. Keeps(fb, fb)
    BY DEF Keeps
  <2>3. Keeps(fb, h[1 .. 0])
    BY <1>2, <2>1, <2>2
  <2>4. QED BY <2>3
<1>4. ASSUME NEW k \in Nat, k \in T PROVE k + 1 \in T
  <2>1. ASSUME k + 1 <= n PROVE Keeps(fb, h[1 .. k + 1])
    <3>1. Keeps(fb, h[1 .. k])
      BY <1>1, <1>4, <2>1
    <3> DEFINE w == ws[k + 1]
    <3>2. w \in Safe
      BY <1>1, <2>1
    <3>3. h[1 .. k + 1] = Written(h[1 .. k], w)
      BY <1>2, <2>1
    <3> HIDE DEF w
    <3>4. QED BY <3>1, <3>2, <3>3, SafeWrite
  <2>2. QED BY <2>1
<1> HIDE DEF T
<1>5. n \in T
  BY <1>1, <1>3, <1>4, Induction
<1>6. QED BY <1>1, <1>2, <1>5 DEF T

\* The screens between the writes of a sequence.
Screens(f, fb, ws, n) ==
  f[0] = fb /\ \A k \in Nat : k + 1 <= n => f[k + 1] = Written(f[k], ws[k + 1])

\* They end with the screen after the sequence.
LEMMA ScreensExist ==
  ASSUME NEW fb \in Frames, NEW ws \in Seq(Strokes)
  PROVE  \E f : Screens(f, fb, ws, Len(ws)) /\ AllWritten(fb, ws) = f[Len(ws)]
<1> DEFINE n == Len(ws)
<1>1. n \in Nat
  OBVIOUS
<1> HIDE DEF n
<1>2. PICK h : /\ h[{}] = fb /\ AllWritten(fb, ws) = h[1 .. n]
               /\ \A k \in Nat : k + 1 <= n => h[1 .. k + 1] = Written(h[1 .. k], ws[k + 1])
  BY <1>1, WritesUnrolled DEF n
<1> DEFINE f == [k \in Nat |-> h[1 .. k]]
<1>3. \A k \in Nat : f[k] = h[1 .. k] /\ f[k + 1] = h[1 .. k + 1]
  OBVIOUS
<1>4. f[0] = fb
  <2>1. 1 .. 0 = {} /\ 0 \in Nat
    OBVIOUS
  <2>2. f[0] = h[1 .. 0]
    BY <1>3
  <2>3. QED BY <1>2, <2>1, <2>2
<1> HIDE DEF f
<1>5. \A k \in Nat : k + 1 <= n => f[k + 1] = Written(f[k], ws[k + 1])
  BY <1>2, <1>3
<1>6. AllWritten(fb, ws) = f[n]
  BY <1>1, <1>2, <1>3
<1>7. QED BY <1>4, <1>5, <1>6 DEF Screens, n

\* They are no others.
LEMMA ScreensAgree ==
  ASSUME NEW n \in Nat, NEW fb, NEW ws, NEW f, NEW g, Screens(f, fb, ws, n), Screens(g, fb, ws, n)
  PROVE  f[n] = g[n]
<1> DEFINE T == {k \in Nat : k <= n => f[k] = g[k]}
<1>1. 0 \in T
  BY DEF Screens
<1>2. ASSUME NEW k \in Nat, k \in T PROVE k + 1 \in T
  <2>1. ASSUME k + 1 <= n PROVE f[k + 1] = g[k + 1]
    <3>1. f[k] = g[k]
      BY <1>2, <2>1
    <3>2. f[k + 1] = Written(f[k], ws[k + 1]) /\ g[k + 1] = Written(g[k], ws[k + 1])
      BY <2>1 DEF Screens
    <3>3. QED BY <3>1, <3>2
  <2>2. QED BY <2>1
<1> HIDE DEF T
<1>3. n \in T
  BY <1>1, <1>2, Induction
<1>4. QED BY <1>3 DEF T

\* What is drawn is a screen.
LEMMA DrawnType ==
  ASSUME NEW fb \in Frames, NEW ws \in Seq(Strokes)
  PROVE  AllWritten(fb, ws) \in Frames
<1> DEFINE n == Len(ws)
<1>1. n \in Nat /\ \A i \in 1 .. n : ws[i] \in Strokes
  OBVIOUS
<1> HIDE DEF n
<1>2. PICK f : Screens(f, fb, ws, n) /\ AllWritten(fb, ws) = f[n]
  BY ScreensExist DEF n
<1> DEFINE T == {k \in Nat : k <= n => f[k] \in Frames}
<1>3. 0 \in T
  BY <1>2 DEF Screens
<1>4. ASSUME NEW k \in Nat, k \in T PROVE k + 1 \in T
  <2>1. ASSUME k + 1 <= n PROVE f[k + 1] \in Frames
    <3>1. f[k] \in Frames /\ ws[k + 1] \in Strokes
      BY <1>1, <1>4, <2>1
    <3>2. f[k + 1] = Written(f[k], ws[k + 1])
      BY <1>2, <2>1 DEF Screens
    <3>3. QED BY <3>1, <3>2, WrittenType
  <2>2. QED BY <2>1
<1> HIDE DEF T
<1>5. n \in T
  BY <1>1, <1>3, <1>4, Induction
<1>6. QED BY <1>1, <1>2, <1>5 DEF T

\* Nothing is drawn.
LEMMA NothingDrawn ==
  ASSUME NEW fb \in Frames
  PROVE  AllWritten(fb, <<>>) = fb
<1>1. <<>> \in Seq(Strokes) /\ Len(<<>>) = 0
  OBVIOUS
<1>2. PICK f : Screens(f, fb, <<>>, 0) /\ AllWritten(fb, <<>>) = f[0]
  BY <1>1, ScreensExist
<1>3. QED BY <1>2 DEF Screens

\* One drawing after another.
LEMMA DrawnAfter ==
  ASSUME NEW fb \in Frames, NEW s \in Seq(Strokes), NEW t \in Seq(Strokes)
  PROVE  AllWritten(fb, s \o t) = AllWritten(AllWritten(fb, s), t)
<1> DEFINE n == Len(s)
           m == Len(t)
           st == s \o t
           mid == AllWritten(fb, s)
<1>1. /\ n \in Nat /\ m \in Nat /\ st \in Seq(Strokes) /\ Len(st) = n + m
      /\ \A i \in 1 .. n : st[i] = s[i]
      /\ \A i \in 1 .. m : st[n + i] = t[i]
  <2>1. n \in Nat /\ m \in Nat
    OBVIOUS
  <2>2. QED BY <2>1, Joined
<1>2. PICK f : Screens(f, fb, st, n + m) /\ AllWritten(fb, st) = f[n + m]
  BY <1>1, ScreensExist
<1>3. PICK g : Screens(g, fb, s, n) /\ mid = g[n]
  BY ScreensExist
<1>4. mid \in Frames
  BY DrawnType
<1> HIDE DEF mid
<1>5. PICK h : Screens(h, mid, t, m) /\ AllWritten(mid, t) = h[m]
  BY <1>4, ScreensExist
<1> HIDE DEF n, m, st
<1>6. Screens(f, fb, s, n)
  <2>1. f[0] = fb
    BY <1>2 DEF Screens
  <2>2. ASSUME NEW k \in Nat, k + 1 <= n PROVE f[k + 1] = Written(f[k], s[k + 1])
    <3>1. k + 1 <= n + m /\ k + 1 \in 1 .. n
      BY <1>1, <2>2
    <3>2. f[k + 1] = Written(f[k], st[k + 1])
      BY <1>2, <3>1 DEF Screens
    <3>3. QED BY <1>1, <3>1, <3>2
  <2>3. QED BY <2>1, <2>2 DEF Screens
<1>7. f[n] = mid
  BY <1>1, <1>3, <1>6, ScreensAgree
<1> DEFINE e == [k \in Nat |-> f[n + k]]
<1>8. \A k \in Nat : e[k] = f[n + k] /\ e[k + 1] = f[n + (k + 1)]
  OBVIOUS
<1>9. e[0] = mid /\ e[m] = f[n + m]
  <2>1. n + 0 = n /\ 0 \in Nat
    BY <1>1
  <2>2. QED BY <1>1, <1>7, <1>8, <2>1
<1> HIDE DEF e
<1>10. Screens(e, mid, t, m)
  <2>1. ASSUME NEW k \in Nat, k + 1 <= m PROVE e[k + 1] = Written(e[k], t[k + 1])
    <3> DEFINE j == n + k
    <3>1. j \in Nat /\ j + 1 <= n + m /\ k + 1 \in 1 .. m /\ n + (k + 1) = j + 1
      BY <1>1, <2>1
    <3>2. st[j + 1] = t[k + 1]
      BY <1>1, <3>1
    <3> HIDE DEF j
    <3>3. f[j + 1] = Written(f[j], st[j + 1])
      BY <1>2, <3>1 DEF Screens
    <3>4. e[k] = f[j] /\ e[k + 1] = f[j + 1]
      BY <1>8, <3>1 DEF j
    <3>5. QED BY <3>2, <3>3, <3>4
  <2>2. QED BY <1>9, <2>1 DEF Screens
<1>11. e[m] = h[m]
  BY <1>1, <1>5, <1>10, ScreensAgree
<1>12. AllWritten(fb, st) = AllWritten(mid, t)
  BY <1>2, <1>5, <1>9, <1>11
<1>13. QED BY <1>12 DEF st, mid

\* One write is drawn.
LEMMA OneDrawn ==
  ASSUME NEW fb \in Frames, NEW w \in Strokes
  PROVE  AllWritten(fb, <<w>>) = Written(fb, w)
<1> DEFINE ws == <<w>>
<1>1. ws \in Seq(Strokes) /\ Len(ws) = 1 /\ ws[1] = w
  OBVIOUS
<1> HIDE DEF ws
<1>2. PICK f : Screens(f, fb, ws, 1) /\ AllWritten(fb, ws) = f[1]
  BY <1>1, ScreensExist
<1>3. f[0] = fb /\ f[1] = Written(f[0], ws[1])
  <2>1. \A k \in Nat : k + 1 <= 1 => f[k + 1] = Written(f[k], ws[k + 1])
    BY <1>2 DEF Screens
  <2>2. 0 \in Nat /\ 0 + 1 <= 1 /\ 0 + 1 = 1
    OBVIOUS
  <2>3. f[0 + 1] = Written(f[0], ws[0 + 1])
    BY <2>1, <2>2
  <2>4. QED BY <1>2, <2>2, <2>3 DEF Screens
<1>4. QED BY <1>1, <1>2, <1>3 DEF ws

\* The text of two screens, the lines above the input line, is the same.
SameText(fb, next) == \A p \in Pixels : RowOf(p) < InputTop => fb[p] = next[p]

\* What is drawn in the text depends on the text only.
LEMMA TextFollows ==
  ASSUME NEW fb, NEW next, SameText(fb, next), NEW w \in Safe
  PROVE  SameText(Written(fb, w), Written(next, w))
<1>1. w \in Strokes
  BY SafeIs
<1> SUFFICES ASSUME NEW p \in Pixels, RowOf(p) < InputTop
             PROVE  Written(fb, w)[p] = Written(next, w)[p]
  BY DEF SameText
<1>2. CASE p \notin w.to
  BY <1>2, WrittenIs DEF SameText
<1>3. CASE p \in w.to /\ w.do = "copy"
  <2> DEFINE q == p + w.shift
  <2>1. q \in Pixels /\ RowOf(q) = RowOf(p) + FontHeight
    BY <1>1, <1>3, CopyReads
  <2>2. RowOf(q) < InputTop
    <3>1. p < (Height - 2 * FontHeight) * Width
      BY <1>1, <1>3 DEF Strokes, Copies, Fills, Glyphs, Scrolls
    <3>2. FontHeight \in Nat /\ Height \in Nat /\ Height - 2 * FontHeight \in Int
      BY Screen
    <3>3. RowOf(p) < Height - 2 * FontHeight /\ RowOf(p) \in Nat
      BY <3>1, <3>2, RowsAbove, PixelIs
    <3> HIDE DEF q
    <3>4. QED BY <2>1, <3>2, <3>3 DEF InputTop
  <2>3. fb[q] = next[q]
    BY <2>1, <2>2 DEF SameText
  <2>4. QED BY <1>3, <2>3, WrittenIs
<1>4. CASE p \in w.to /\ w.do = "fill"
  BY <1>4, WrittenIs
<1>5. CASE p \in w.to /\ w.do = "glyph"
  BY <1>5, WrittenIs
<1>6. w.do \in {"copy", "fill", "glyph"}
  BY <1>1 DEF Strokes, Copies, Fills, Glyphs
<1>7. QED BY <1>2, <1>3, <1>4, <1>5, <1>6

-----------------------------------------------------------------------------
(* Boxes.                                                                   *)

\* A row of pixels of a box from column a up to column b.
BoxRow(row, a, b) == Fill(row * Width + a .. row * Width + b - 1)

\* The rows of a box, one after the other.
LEMMA BoxIs ==
  ASSUME NEW x, NEW y, NEW w, NEW h, NEW a, NEW b, NEW top, NEW bottom,
         a \in Int, b \in Int, top \in Int, bottom \in Int,
         a = Clipped(x, Width), b = End(x, w, Width),
         top = Clipped(y, Height), bottom = End(y, h, Height)
  PROVE  /\ DrawBox(x, y, w, h) \in Seq(Fills)
         /\ Len(DrawBox(x, y, w, h)) = IF top > bottom - 1 THEN 0 ELSE bottom - top
         /\ \A i \in 1 .. Len(DrawBox(x, y, w, h)) :
              DrawBox(x, y, w, h)[i] = BoxRow(top + i - 1, a, b)
<1> DEFINE n == IF top > bottom - 1 THEN 0 ELSE bottom - top
<1>1. n \in Nat
  OBVIOUS
<1>2. Cardinality(top .. bottom - 1) = n
  <2> DEFINE c == bottom - 1
  <2>1. c \in Int
    OBVIOUS
  <2>2. Cardinality(top .. c) = IF top > c THEN 0 ELSE c - top + 1
    <3> HIDE DEF c
    <3>1. QED BY <2>1, FS_Interval
  <2>3. c - top + 1 = bottom - top
    OBVIOUS
  <2>4. QED BY <2>2, <2>3
<1> HIDE DEF n
<1>3. DrawBox(x, y, w, h) = [i \in 1 .. n |-> BoxRow(top + i - 1, a, b)]
  BY <1>2 DEF DrawBox, BoxRow
<1>4. \A i \in 1 .. n : BoxRow(top + i - 1, a, b) \in Fills
  BY Screen DEF BoxRow, Fill, Fills
<1>5. DrawBox(x, y, w, h) \in Seq(Fills) /\ Len(DrawBox(x, y, w, h)) = n
  BY <1>1, <1>3, <1>4
<1>6. QED BY <1>3, <1>5 DEF n

\* A box that ends neither left of the screen or above it nor in the input line.
LEMMA BoxIsSafe ==
  ASSUME NEW x \in Int, NEW y \in Int, NEW w \in Int, NEW h \in Int,
         x + w >= 0, y + h >= 0, y + h <= InputTop
  PROVE  DrawBox(x, y, w, h) \in Seq(Safe)
<1> DEFINE a == Clipped(x, Width)
           b == End(x, w, Width)
           top == Clipped(y, Height)
           bottom == End(y, h, Height)
           box == DrawBox(x, y, w, h)
<1>1. {Width, Height, U16} \subseteq Nat \ {0} /\ Width < U16 /\ Height < U16
      /\ InputTop \in Nat /\ InputTop < Height
  BY Screen, CanvasAssumption
<1>2. a \in Nat /\ top \in Nat
  BY <1>1 DEF Clipped, Smaller
<1>3. b \in 0 .. Width
  <2> DEFINE v == Smaller(x + w, Width)
  <2>1. v \in 0 .. Width
    BY <1>1 DEF Smaller
  <2> HIDE DEF v
  <2>2. v % U16 = v
    BY <1>1, <2>1
  <2>3. QED BY <2>1, <2>2 DEF End, v
<1>4. bottom \in 0 .. InputTop
  <2> DEFINE v == Smaller(y + h, Height)
  <2>1. v \in 0 .. InputTop
    BY <1>1 DEF Smaller
  <2> HIDE DEF v
  <2>2. v % U16 = v
    BY <1>1, <2>1
  <2>3. QED BY <2>1, <2>2 DEF End, v
<1>5. /\ a = Clipped(x, Width) /\ b = End(x, w, Width)
      /\ top = Clipped(y, Height) /\ bottom = End(y, h, Height)
  OBVIOUS
<1>6. a \in Int /\ b \in Int /\ top \in Int /\ bottom \in Int
  BY <1>1, <1>2, <1>3, <1>4
<1> HIDE DEF a, b, top, bottom
<1>7. /\ box \in Seq(Fills)
      /\ Len(box) = IF top > bottom - 1 THEN 0 ELSE bottom - top
      /\ \A i \in 1 .. Len(box) : box[i] = BoxRow(top + i - 1, a, b)
  BY <1>5, <1>6, BoxIs
<1> HIDE DEF box
<1>8. ASSUME NEW i \in 1 .. Len(box) PROVE box[i] \in Safe
  <2> DEFINE row == top + i - 1
  <2>1. row \in Nat /\ row + 1 <= InputTop
    BY SMTT(20), <1>1, <1>2, <1>4, <1>7
  <2>2. box[i] = Fill(row * Width + a .. row * Width + b - 1) /\ box[i] \in Fills
    BY <1>7 DEF BoxRow
  <2> HIDE DEF row
  <2>3. \A p \in row * Width + a .. row * Width + b - 1 : p < InputTop * Width
    <3>1. (row + 1) * Width <= InputTop * Width
      BY <1>1, <2>1
    <3>2. row * Width + Width <= InputTop * Width
      BY <1>1, <2>1, <3>1
    <3>3. QED BY <1>1, <1>2, <1>3, <2>1, <3>2
  <2>4. Clears(box[i]) /\ box[i].do = "fill"
    BY <2>2, <2>3 DEF Clears, Fill
  <2>5. QED BY <2>2, <2>4 DEF Safe, Prints, Strokes
<1>9. box \in Seq(Safe)
  <2> DEFINE n == Len(box)
  <2>1. n \in Nat /\ box = [i \in 1 .. n |-> box[i]]
    BY <1>7
  <2> HIDE DEF n
  <2>2. \A i \in 1 .. n : box[i] \in Safe
    BY <1>8 DEF n
  <2>3. QED BY <2>1, <2>2
<1>10. QED BY <1>9 DEF box

\* The pixels of a row from column a up to column b.
LEMMA InRow ==
  ASSUME NEW p \in Pixels, NEW row \in Int, NEW a \in Nat, NEW b \in 0 .. Width
  PROVE  p \in row * Width + a .. row * Width + b - 1 <=> RowOf(p) = row /\ ColumnOf(p) \in a .. b - 1
<1> DEFINE r == RowOf(p)
           c == ColumnOf(p)
<1>1. p = r * Width + c /\ r \in Nat /\ c \in 0 .. Width - 1 /\ Width \in Nat \ {0} /\ b \in Nat
  BY PixelIs, Screen
<1> HIDE DEF r, c
<1>2. ASSUME p \in row * Width + a .. row * Width + b - 1 PROVE r = row
  <2>1. CASE r < row
    <3>1. (r + 1) * Width <= row * Width
      BY <1>1, <2>1
    <3>2. QED BY <1>1, <1>2, <3>1
  <2>2. CASE r > row
    <3>1. (row + 1) * Width <= r * Width
      BY <1>1, <2>2
    <3>2. QED BY <1>1, <1>2, <3>1
  <2>3. QED BY <1>1, <2>1, <2>2
<1>3. ASSUME r = row
      PROVE  p \in row * Width + a .. row * Width + b - 1 <=> c \in a .. b - 1
  BY <1>1, <1>3
<1>4. QED BY <1>2, <1>3 DEF r, c

\* Whether a pixel is in one of n rows from row top on, between columns a and b.
InBox(p, top, n, a, b) == RowOf(p) \in top .. top + n - 1 /\ ColumnOf(p) \in a .. b - 1

FillsBox(ws, top, n, a, b) == Len(ws) = n /\ \A i \in 1 .. n : ws[i] = BoxRow(top + i - 1, a, b)

\* Filling row after row.
LEMMA RowsFilled ==
  ASSUME NEW fb \in Frames, NEW ws \in Seq(Strokes), NEW n \in Nat, NEW top \in Nat,
         NEW a \in Nat, NEW b \in 0 .. Width, FillsBox(ws, top, n, a, b)
  PROVE  \A p \in Pixels : AllWritten(fb, ws)[p] = IF InBox(p, top, n, a, b) THEN Black ELSE fb[p]
<1>1. n = Len(ws) /\ \A i \in 1 .. n : ws[i] = BoxRow(top + i - 1, a, b)
  BY DEF FillsBox
<1>2. PICK f : Screens(f, fb, ws, n) /\ AllWritten(fb, ws) = f[n]
  BY <1>1, ScreensExist
<1> DEFINE Is(k) == \A p \in Pixels : f[k][p] = IF InBox(p, top, k, a, b) THEN Black ELSE fb[p]
           T == {k \in Nat : k <= n => Is(k)}
<1>3. 0 \in T
  <2>1. \A p \in Pixels : ~InBox(p, top, 0, a, b)
    BY DEF InBox
  <2>2. QED BY <1>2, <2>1 DEF Screens
<1>4. ASSUME NEW k \in Nat, k \in T PROVE k + 1 \in T
  <2>1. ASSUME k + 1 <= n PROVE Is(k + 1)
    <3> DEFINE row == top + k
               w == BoxRow(row, a, b)
    <3>1. row \in Nat /\ row = top + (k + 1) - 1 /\ k + 1 \in 1 .. n
      BY <2>1
    <3>2. f[k + 1] = Written(f[k], w)
      BY <1>1, <1>2, <2>1, <3>1 DEF Screens
    <3>3. Is(k)
      BY <1>4, <2>1
    <3>4. w.do = "fill" /\ w.to = row * Width + a .. row * Width + b - 1
      BY DEF BoxRow, Fill
    <3> HIDE DEF row, w
    <3>5. ASSUME NEW p \in Pixels
          PROVE  f[k + 1][p] = IF InBox(p, top, k + 1, a, b) THEN Black ELSE fb[p]
      <4>1. p \in w.to <=> RowOf(p) = row /\ ColumnOf(p) \in a .. b - 1
        BY <3>1, <3>4, InRow
      <4>2. InBox(p, top, k + 1, a, b) <=> p \in w.to \/ InBox(p, top, k, a, b)
        <5>1. RowOf(p) \in Nat
          BY PixelIs
        <5>2. RowOf(p) \in top .. top + (k + 1) - 1 <=> RowOf(p) = row \/ RowOf(p) \in top .. top + k - 1
          BY <5>1 DEF row
        <5>3. QED BY <4>1, <5>2 DEF InBox
      <4>3. f[k][p] = IF InBox(p, top, k, a, b) THEN Black ELSE fb[p]
        BY <3>3
      <4>4. f[k + 1][p] = IF p \in w.to THEN Black ELSE f[k][p]
        <5>1. CASE p \in w.to
          <6>1. w.do = "fill"
            BY <3>4
          <6>2. Written(f[k], w)[p] = Black
            BY <5>1, <6>1, WrittenIs
          <6>3. QED BY <3>2, <5>1, <6>2
        <5>2. CASE p \notin w.to
          BY <3>2, <5>2, WrittenIs
        <5>3. QED BY <5>1, <5>2
      <4>5. QED BY <4>2, <4>3, <4>4
    <3>6. QED BY <3>5
  <2>2. QED BY <2>1
<1> HIDE DEF T
<1>5. n \in T
  BY <1>3, <1>4, Induction
<1>6. QED BY <1>2, <1>5 DEF T

\* A box that ends neither left of the screen nor above it blackens its pixels and no
\* others.
LEMMA BoxShows ==
  ASSUME NEW fb \in Frames, NEW x \in Int, NEW y \in Int, NEW w \in Int, NEW h \in Int,
         x + w >= 0, y + h >= 0, NEW p \in Pixels
  PROVE  AllWritten(fb, DrawBox(x, y, w, h))[p] =
           IF /\ x <= ColumnOf(p) /\ ColumnOf(p) < x + w
              /\ y <= RowOf(p) /\ RowOf(p) < y + h
             THEN Black ELSE fb[p]
<1> DEFINE a == Clipped(x, Width)
           b == End(x, w, Width)
           top == Clipped(y, Height)
           bottom == End(y, h, Height)
           box == DrawBox(x, y, w, h)
           n == Len(box)
<1>1. {Width, Height, U16} \subseteq Nat \ {0} /\ Width < U16 /\ Height < U16
  BY Screen, CanvasAssumption
<1>2. ASSUME NEW v \in Int, NEW s \in Int, NEW bound \in Nat, v + s >= 0, bound < U16, NEW c \in 0 .. bound - 1
      PROVE  /\ Clipped(v, bound) \in Nat /\ End(v, s, bound) \in 0 .. bound
             /\ c >= Clipped(v, bound) <=> c >= v
             /\ c < End(v, s, bound) <=> c < v + s
  <2>1. Clipped(v, bound) \in Nat /\ (c >= Clipped(v, bound) <=> c >= v)
    BY <1>2 DEF Clipped, Smaller
  <2> DEFINE e == Smaller(v + s, bound)
  <2>2. e \in 0 .. bound /\ (c < e <=> c < v + s)
    BY <1>2 DEF Smaller
  <2> HIDE DEF e
  <2>3. e % U16 = e
    BY <1>1, <1>2, <2>2
  <2>4. QED BY <2>1, <2>2, <2>3 DEF End, e
<1>3. RowOf(p) \in 0 .. Height - 1 /\ ColumnOf(p) \in 0 .. Width - 1
  BY PixelIs
<1>4. /\ a \in Nat /\ b \in 0 .. Width
      /\ ColumnOf(p) >= a <=> ColumnOf(p) >= x
      /\ ColumnOf(p) < b <=> ColumnOf(p) < x + w
  BY <1>1, <1>2, <1>3
<1>5. /\ top \in Nat /\ bottom \in 0 .. Height
      /\ RowOf(p) >= top <=> RowOf(p) >= y
      /\ RowOf(p) < bottom <=> RowOf(p) < y + h
  BY <1>1, <1>2, <1>3
<1>6. /\ a = Clipped(x, Width) /\ b = End(x, w, Width)
      /\ top = Clipped(y, Height) /\ bottom = End(y, h, Height)
      /\ a \in Int /\ b \in Int /\ top \in Int /\ bottom \in Int
  BY <1>1, <1>4, <1>5
<1> HIDE DEF a, b, top, bottom
<1>7. /\ box \in Seq(Fills) /\ n = IF top > bottom - 1 THEN 0 ELSE bottom - top
      /\ \A i \in 1 .. n : box[i] = BoxRow(top + i - 1, a, b)
  BY <1>6, BoxIs
<1>8. box \in Seq(Strokes) /\ n \in Nat
  <2> HIDE DEF box
  <2>1. QED BY <1>7 DEF Strokes
<1> HIDE DEF n, box
<1>9. AllWritten(fb, box)[p] = IF InBox(p, top, n, a, b) THEN Black ELSE fb[p]
  <2>1. FillsBox(box, top, n, a, b)
    BY <1>7 DEF FillsBox, n
  <2>2. QED BY <1>4, <1>5, <1>8, <2>1, RowsFilled
<1>10. RowOf(p) \in top .. top + n - 1 <=> RowOf(p) >= top /\ RowOf(p) < bottom
  BY <1>3, <1>5, <1>7
<1>11. ColumnOf(p) \in a .. b - 1 <=> ColumnOf(p) >= a /\ ColumnOf(p) < b
  BY <1>1, <1>3, <1>4
<1>12. QED BY <1>3, <1>4, <1>5, <1>9, <1>10, <1>11 DEF InBox, box

-----------------------------------------------------------------------------
(* Line breaks.                                                             *)

\* A line break scrolls and clears, and draws no glyph.
LEMMA NewLineIsSafe ==
  createNewLine \in Seq(Safe)
<1> DEFINE n == Height - 2 * FontHeight
           up == memcpy(0, FontHeight * Width, n)
           clear == memset(n * Width, FontHeight)
<1>1. {Width, Height, FontHeight} \subseteq Nat \ {0} /\ n \in Nat /\ InputTop = n + FontHeight
  BY Screen DEF InputTop
<1> HIDE DEF n
<1>2. up \in Seq(Safe)
  <2> DEFINE At(i) == 0 + (i - 1) * Width
             From(i) == FontHeight * Width + (i - 1) * Width
  <2>1. up = [i \in 1 .. n |-> Copy(At(i), From(i), Width)]
    BY DEF memcpy
  <2>2. ASSUME NEW i \in 1 .. n PROVE Copy(At(i), From(i), Width) \in Safe
    <3> DEFINE w == Copy(At(i), From(i), Width)
    <3>1. At(i) \in Nat /\ From(i) - At(i) = FontHeight * Width
      BY <1>1
    <3>2. At(i) + Width <= n * Width
      <4>1. i * Width <= n * Width /\ At(i) + Width = i * Width
        BY <1>1
      <4>2. QED BY <4>1
    <3> HIDE DEF At, From
    <3>3. /\ w.do = "copy" /\ w.shift = FontHeight * Width
          /\ w.to = At(i) .. At(i) + Width - 1 /\ w \in Copies
      BY <1>1, <3>1 DEF Copy, Copies
    <3> HIDE DEF w
    <3>4. \A p \in w.to : p >= 0 /\ p < n * Width
      BY <1>1, <3>1, <3>2, <3>3
    <3>5. Scrolls(w)
      BY <3>3, <3>4 DEF Scrolls, n
    <3>6. w \in Safe
      BY <3>3, <3>5 DEF Safe, Prints, Strokes
    <3>7. QED BY <3>6 DEF w
  <2> HIDE DEF At, From, up
  <2>3. QED BY <1>1, <2>1, <2>2
<1>3. clear \in Seq(Safe)
  <2> DEFINE At(i) == n * Width + (i - 1) * Width
             To(i) == n * Width + i * Width - 1
  <2>1. clear = [i \in 1 .. FontHeight |-> Fill(At(i) .. To(i))]
    BY DEF memset
  <2>2. ASSUME NEW i \in 1 .. FontHeight PROVE Fill(At(i) .. To(i)) \in Safe
    <3> DEFINE w == Fill(At(i) .. To(i))
    <3>1. At(i) \in Int /\ To(i) \in Int
      BY <1>1
    <3>2. To(i) < InputTop * Width
      <4>1. i * Width <= FontHeight * Width
        BY <1>1
      <4>2. (n + FontHeight) * Width = n * Width + FontHeight * Width
        BY <1>1
      <4>3. QED BY <1>1, <4>1, <4>2
    <3> HIDE DEF At, To
    <3>3. w.do = "fill" /\ w.to = At(i) .. To(i) /\ w \in Fills
      BY <3>1 DEF Fill, Fills
    <3> HIDE DEF w
    <3>4. Clears(w)
      BY <1>1, <3>1, <3>2, <3>3 DEF Clears
    <3>5. w \in Safe
      BY <3>3, <3>4 DEF Safe, Prints, Strokes
    <3>6. QED BY <3>5 DEF w
  <2> HIDE DEF At, To, clear
  <2>3. QED BY <1>1, <2>1, <2>2
<1> HIDE DEF up, clear
<1>4. up \o clear \in Seq(Safe)
  BY <1>2, <1>3, Joined
<1>5. QED BY <1>4 DEF createNewLine, up, clear, n

\* Where memcpy has copied k rows upwards, it has read what was there before.
LEMMA RowsScrolled ==
  ASSUME NEW fb \in Frames, NEW ws \in Seq(Strokes), NEW n \in Nat, n = Len(ws),
         n <= Height - FontHeight,
         \A i \in 1 .. n : /\ ws[i].do = "copy" /\ ws[i].shift = FontHeight * Width
                           /\ ws[i].to = (i - 1) * Width .. (i - 1) * Width + Width - 1
  PROVE  \A p \in Pixels :
           AllWritten(fb, ws)[p] = IF RowOf(p) < n THEN fb[p + FontHeight * Width] ELSE fb[p]
<1>1. PICK f : Screens(f, fb, ws, n) /\ AllWritten(fb, ws) = f[n]
  BY ScreensExist
<1>2. {Width, Height, FontHeight} \subseteq Nat \ {0}
  BY Screen
<1> DEFINE Is(k) == \A p \in Pixels :
                      f[k][p] = IF RowOf(p) < k THEN fb[p + FontHeight * Width] ELSE fb[p]
           T == {k \in Nat : k <= n => Is(k)}
<1>3. 0 \in T
  <2>1. \A p \in Pixels : ~(RowOf(p) < 0)
    BY PixelIs
  <2>2. QED BY <1>1, <2>1 DEF Screens
<1>4. ASSUME NEW k \in Nat, k \in T PROVE k + 1 \in T
  <2>1. ASSUME k + 1 <= n PROVE Is(k + 1)
    <3> DEFINE w == ws[k + 1]
    <3>1. k + 1 \in 1 .. n /\ (k + 1) - 1 = k
      BY <2>1
    <3>2. f[k + 1] = Written(f[k], w)
      BY <1>1, <2>1 DEF Screens
    <3>3. Is(k)
      BY <1>4, <2>1
    <3>4. /\ w.do = "copy" /\ w.shift = FontHeight * Width
          /\ w.to = k * Width .. k * Width + Width - 1
      BY <3>1
    <3> HIDE DEF w
    <3>5. ASSUME NEW p \in Pixels
          PROVE  f[k + 1][p] = IF RowOf(p) < k + 1 THEN fb[p + FontHeight * Width] ELSE fb[p]
      <4>1. RowOf(p) \in Nat /\ ColumnOf(p) \in 0 .. Width - 1
        BY PixelIs
      <4>2. p \in w.to <=> RowOf(p) = k
        <5>1. k * Width + 0 = k * Width /\ 0 \in Nat /\ Width \in 0 .. Width /\ k \in Int
          BY <1>2
        <5>2. p \in k * Width + 0 .. k * Width + Width - 1 <=>
                RowOf(p) = k /\ ColumnOf(p) \in 0 .. Width - 1
          BY <5>1, InRow
        <5>3. QED BY <3>4, <4>1, <5>1, <5>2
      <4>3. CASE RowOf(p) = k
        <5> DEFINE q == p + FontHeight * Width
                   r == k + FontHeight
        <5>1. p = k * Width + ColumnOf(p)
          BY <4>3, PixelIs
        <5>2. q = r * Width + ColumnOf(p) /\ r \in 0 .. Height - 1 /\ r > k
          <6>1. r \in 0 .. Height - 1 /\ r > k
            BY <1>2, <2>1
          <6>2. (k + FontHeight) * Width = k * Width + FontHeight * Width
            BY <1>2
          <6>3. FontHeight * Width \in Nat /\ k * Width \in Nat
            BY <1>2
          <6>4. QED BY <4>1, <5>1, <6>1, <6>2, <6>3
        <5> HIDE DEF r
        <5>3. q \in Pixels /\ RowOf(q) = r
          BY <4>1, <5>2, PixelAt
        <5>4. f[k][q] = fb[q]
          <6>1. ~(r < k)
            BY <5>2
          <6>2. QED BY <3>3, <5>3, <6>1
        <5>5. p + w.shift = q /\ w.do = "copy"
          BY <3>4
        <5>6. f[k + 1][p] = f[k][q]
          BY <3>2, <4>2, <4>3, <5>5, WrittenIs
        <5>7. QED BY <4>3, <5>4, <5>6
      <4>4. CASE RowOf(p) # k
        <5>1. f[k + 1][p] = f[k][p]
          BY <3>2, <4>2, <4>4, WrittenIs
        <5>2. RowOf(p) < k + 1 <=> RowOf(p) < k
          BY <4>1, <4>4
        <5>3. QED BY <3>3, <5>1, <5>2
      <4>5. QED BY <4>3, <4>4
    <3>6. QED BY <3>5
  <2>2. QED BY <2>1
<1> HIDE DEF T
<1>5. n \in T
  BY <1>3, <1>4, Induction
<1>6. QED BY <1>1, <1>5 DEF T

\* A line break shows every line of text but the last one place further up, and
\* clears the last one.
LEMMA LineBreakShows ==
  ASSUME NEW fb \in Frames, NEW p \in Pixels, RowOf(p) < InputTop
  PROVE  AllWritten(fb, createNewLine)[p] =
           IF RowOf(p) < InputTop - FontHeight THEN fb[p + FontHeight * Width] ELSE Black
<1> DEFINE n == Height - 2 * FontHeight
           up == memcpy(0, FontHeight * Width, n)
           clear == memset(n * Width, FontHeight)
<1>1. /\ {Width, Height, FontHeight} \subseteq Nat \ {0} /\ n \in Nat /\ n <= Height - FontHeight
      /\ InputTop = n + FontHeight /\ InputTop - FontHeight = n
  BY Screen DEF InputTop
<1> HIDE DEF n
<1>2. /\ Len(up) = n /\ up \in Seq(Strokes)
      /\ \A i \in 1 .. n : /\ up[i].do = "copy" /\ up[i].shift = FontHeight * Width
                           /\ up[i].to = (i - 1) * Width .. (i - 1) * Width + Width - 1
  <2> DEFINE At(i) == 0 + (i - 1) * Width
             From(i) == FontHeight * Width + (i - 1) * Width
             u(i) == Copy(At(i), From(i), Width)
  <2>1. up = [i \in 1 .. n |-> u(i)]
    BY DEF memcpy
  <2>2. ASSUME NEW i \in 1 .. n
        PROVE  /\ u(i).do = "copy" /\ u(i).shift = FontHeight * Width
               /\ u(i).to = (i - 1) * Width .. (i - 1) * Width + Width - 1
               /\ u(i) \in Strokes
    <3>1. At(i) \in Nat /\ From(i) - At(i) = FontHeight * Width /\ At(i) = (i - 1) * Width
      BY <1>1
    <3>2. At(i) + Width <= n * Width
      <4>1. i * Width <= n * Width /\ At(i) + Width = i * Width
        BY <1>1
      <4>2. QED BY <4>1
    <3> HIDE DEF At, From
    <3>3. /\ u(i).do = "copy" /\ u(i).shift = FontHeight * Width
          /\ u(i).to = At(i) .. At(i) + Width - 1 /\ u(i) \in Copies
      BY <1>1, <3>1 DEF Copy, Copies
    <3> HIDE DEF u
    <3>4. \A q \in u(i).to : q >= 0 /\ q < n * Width
      <4> DEFINE l == At(i)
      <4>1. l \in Nat /\ l + Width <= n * Width /\ u(i).to = l .. l + Width - 1
        BY <3>1, <3>2, <3>3
      <4> HIDE DEF l
      <4>2. \A q \in l .. l + Width - 1 : q >= 0 /\ q < n * Width
        BY <1>1, <4>1
      <4>3. QED BY <4>1, <4>2
    <3>5. Scrolls(u(i))
      BY <3>3, <3>4 DEF Scrolls, n
    <3>6. QED BY <3>1, <3>3, <3>5 DEF Strokes
  <2> HIDE DEF At, From, u, up
  <2>3. up \in Seq(Strokes) /\ Len(up) = n
    BY <1>1, <2>1, <2>2
  <2>4. QED BY <2>1, <2>2, <2>3
<1>3. /\ Len(clear) = FontHeight /\ clear \in Seq(Strokes)
      /\ \A i \in 1 .. FontHeight : clear[i] = BoxRow(n + i - 1, 0, Width)
  <2> DEFINE At(i) == n * Width + (i - 1) * Width
             To(i) == n * Width + i * Width - 1
  <2>1. clear = [i \in 1 .. FontHeight |-> Fill(At(i) .. To(i))]
    BY DEF memset
  <2>2. ASSUME NEW i \in 1 .. FontHeight PROVE Fill(At(i) .. To(i)) = BoxRow(n + i - 1, 0, Width)
    <3>1. At(i) = (n + i - 1) * Width + 0 /\ To(i) = (n + i - 1) * Width + Width - 1
      BY <1>1
    <3>2. QED BY <3>1 DEF BoxRow
  <2>3. \A i \in 1 .. FontHeight : BoxRow(n + i - 1, 0, Width) \in Strokes
    <3>1. \A i \in 1 .. FontHeight : BoxRow(n + i - 1, 0, Width) \in Fills
      BY <1>1 DEF BoxRow, Fill, Fills
    <3>2. QED BY <3>1 DEF Strokes
  <2>4. clear = [i \in 1 .. FontHeight |-> BoxRow(n + i - 1, 0, Width)]
    BY <2>1, <2>2
  <2> HIDE DEF At, To, clear
  <2>5. clear \in Seq(Strokes) /\ Len(clear) = FontHeight
    BY <1>1, <2>3, <2>4
  <2>6. QED BY <2>4, <2>5
<1> HIDE DEF up, clear
<1> DEFINE mid == AllWritten(fb, up)
<1>4. mid \in Frames /\ mid[p] = IF RowOf(p) < n THEN fb[p + FontHeight * Width] ELSE fb[p]
  BY <1>1, <1>2, RowsScrolled, DrawnType
<1> HIDE DEF mid
<1>5. AllWritten(mid, clear)[p] = IF InBox(p, n, FontHeight, 0, Width) THEN Black ELSE mid[p]
  <2>1. 0 \in Nat /\ Width \in 0 .. Width /\ FontHeight \in Nat /\ n \in Nat
    BY <1>1
  <2>2. FillsBox(clear, n, FontHeight, 0, Width)
    BY <1>3 DEF FillsBox
  <2>3. QED BY <1>3, <1>4, <2>1, <2>2, RowsFilled
<1>6. InBox(p, n, FontHeight, 0, Width) <=> ~(RowOf(p) < n)
  BY <1>1, PixelIs DEF InBox
<1>7. AllWritten(fb, createNewLine) = AllWritten(mid, clear)
  <2>1. createNewLine = up \o clear
    BY DEF createNewLine, up, clear, n
  <2>2. QED BY <1>2, <1>3, <2>1, DrawnAfter DEF mid
<1>8. QED BY <1>1, <1>4, <1>5, <1>6, <1>7

-----------------------------------------------------------------------------
(* What a call writes.                                                      *)

\* A string is drawn as glyphs, one for each character.
LEMMA StringIsDrawn ==
  ASSUME NEW str \in Seq(Characters), NEW column \in Int, NEW row \in Int
  PROVE  DrawString(str, column, row) \in Seq(Prints)
<1> DEFINE At(i) == row * FontHeight * Width + column * FontWidth + (i - 1) * (FontWidth + 1)
           n == Len(str)
<1>1. {Width, FontWidth, FontHeight} \subseteq Nat \ {0}
  BY Screen
<1>2. n \in Nat /\ DOMAIN str = 1 .. n /\ \A i \in 1 .. n : str[i] \in Characters
  OBVIOUS
<1>3. DrawString(str, column, row) = [i \in 1 .. n |-> Glyph(At(i), str[i])]
  BY <1>2 DEF DrawString
<1>4. ASSUME NEW corner \in Int, NEW c \in Characters PROVE Glyph(corner, c) \in Prints
  <2>1. Glyph(corner, c).to \in SUBSET Int
    BY <1>1 DEF Glyph
  <2>2. Glyph(corner, c) \in Glyphs /\ Glyph(corner, c).do = "glyph"
    BY <2>1 DEF Glyph, Glyphs
  <2>3. IsGlyph(Glyph(corner, c))
    BY DEF Glyph, IsGlyph
  <2>4. QED BY <2>2, <2>3 DEF Strokes, Prints
<1>5. \A i \in 1 .. n : At(i) \in Int
  BY <1>1
<1> HIDE DEF At, n
<1>6. \A i \in 1 .. n : Glyph(At(i), str[i]) \in Prints
  BY <1>2, <1>4, <1>5
<1>7. QED BY <1>2, <1>3, <1>6

\* What has been printed of a line.
PrintedLine == [writes : Seq(Prints), column : Int]

\* A string continues the line.
LEMMA PieceIsDrawn ==
  ASSUME NEW d \in PrintedLine, NEW str \in Seq(Characters), NEW row \in Int
  PROVE  PieceDrawn(d, str, row) \in PrintedLine
<1> DEFINE ws == d.writes \o DrawString(str, d.column, row)
           column == d.column + Len(str)
<1>1. d.writes \in Seq(Prints) /\ d.column \in Int
  BY DEF PrintedLine
<1>2. DrawString(str, d.column, row) \in Seq(Prints)
  BY <1>1, StringIsDrawn
<1>3. ws \in Seq(Prints)
  BY <1>1, <1>2, Joined
<1>4. column \in Int
  BY <1>1
<1>5. PieceDrawn(d, str, row) = [writes |-> ws, column |-> column]
  BY DEF PieceDrawn
<1> HIDE DEF ws, column
<1>6. QED BY <1>3, <1>4, <1>5 DEF PrintedLine

\* What every step of a fold keeps in a set is there in the end.
LEMMA FoldStays ==
  ASSUME NEW A, NEW n \in Nat, NEW g, g[{}] \in A,
         \A k \in Nat : k + 1 <= n /\ g[1 .. k] \in A => g[1 .. k + 1] \in A
  PROVE  g[1 .. n] \in A
<1> DEFINE T == {k \in Nat : k <= n => g[1 .. k] \in A}
<1>1. 0 \in T
  <2>1. 1 .. 0 = {}
    OBVIOUS
  <2>2. QED BY <2>1
<1>2. ASSUME NEW k \in Nat, k \in T PROVE k + 1 \in T
  <2>1. ASSUME k + 1 <= n PROVE g[1 .. k + 1] \in A
    <3>1. k <= n
      BY <2>1
    <3>2. g[1 .. k] \in A
      BY <1>2, <3>1
    <3>3. QED BY <2>1, <3>2
  <2>2. QED BY <2>1
<1> HIDE DEF T
<1>3. n \in T
  BY <1>1, <1>2, Induction
<1>4. QED BY <1>3 DEF T

\* The fold over the strings of a conversion.
PiecesFold(g, d, pieces, n, row) ==
  g = [s \in SUBSET (1 .. n) |->
         IF s = {} THEN d ELSE PieceDrawn(g[s \ {Max(s)}], pieces[Max(s)], row)]

\* There is such a fold, and what it comes to is a line that has been printed.
LEMMA PiecesAreDrawn ==
  ASSUME NEW d \in PrintedLine, NEW pieces \in Seq(Seq(Characters)), NEW n \in Nat, n = Len(pieces),
         NEW row \in Int
  PROVE  /\ \E g : PiecesFold(g, d, pieces, n, row)
         /\ \A g : PiecesFold(g, d, pieces, n, row) => g[1 .. n] \in PrintedLine
<1>1. \A i \in 1 .. n : pieces[i] \in Seq(Characters)
  OBVIOUS
<1>2. \E g : PiecesFold(g, d, pieces, n, row)
  <2> DEFINE H == [i \in 1 .. n |-> [a \in PrintedLine |-> PieceDrawn(a, pieces[i], row)]]
  <2>1. H \in [1 .. n -> [PrintedLine -> PrintedLine]]
    BY <1>1, PieceIsDrawn
  <2>2. \A i \in 1 .. n, a \in PrintedLine : H[i][a] = PieceDrawn(a, pieces[i], row)
    OBVIOUS
  <2> HIDE DEF H
  <2>3. PICK g : FoldOf(PrintedLine, d, H, n, g)
    BY <2>1, FoldExists
  <2>4. ASSUME NEW s \in SUBSET (1 .. n)
        PROVE  g[s] = IF s = {} THEN d ELSE PieceDrawn(g[s \ {Max(s)}], pieces[Max(s)], row)
    <3>1. CASE s = {}
      BY <2>3, <3>1 DEF FoldOf
    <3>2. CASE s # {}
      <4>1. Max(s) \in s
        BY <3>2, MaxIsIn
      <4>2. g[s \ {Max(s)}] \in PrintedLine /\ g[s] = H[Max(s)][g[s \ {Max(s)}]]
        BY <2>3, <3>2 DEF FoldOf
      <4>3. QED BY <2>2, <3>2, <4>1, <4>2
    <3>3. QED BY <3>1, <3>2
  <2>5. g = [s \in SUBSET (1 .. n) |-> g[s]]
    BY <2>3 DEF FoldOf
  <2>6. PiecesFold(g, d, pieces, n, row)
    <3>1. g = [s \in SUBSET (1 .. n) |->
                 IF s = {} THEN d ELSE PieceDrawn(g[s \ {Max(s)}], pieces[Max(s)], row)]
      BY <2>4, <2>5
    <3>2. QED BY <3>1 DEF PiecesFold
  <2>7. QED BY <2>6
<1>3. ASSUME NEW g, PiecesFold(g, d, pieces, n, row) PROVE g[1 .. n] \in PrintedLine
  <2>1. \A s \in SUBSET (1 .. n) :
          g[s] = IF s = {} THEN d ELSE PieceDrawn(g[s \ {Max(s)}], pieces[Max(s)], row)
    BY <1>3 DEF PiecesFold
  <2>2. g[{}] \in PrintedLine
    BY <2>1
  <2>3. ASSUME NEW k \in Nat, k + 1 <= n, g[1 .. k] \in PrintedLine
        PROVE  g[1 .. k + 1] \in PrintedLine
    <3> DEFINE s == 1 .. k + 1
               i == k + 1
    <3>1. i \in 1 .. n
      BY <2>3
    <3>2. s \in SUBSET (1 .. n) /\ s # {} /\ Max(s) = i /\ s \ {i} = 1 .. k
      BY <2>3, Prefix
    <3> HIDE DEF s, i
    <3>3. g[s] = PieceDrawn(g[1 .. k], pieces[i], row)
      BY <2>1, <3>2
    <3>4. g[s] \in PrintedLine
      BY <1>1, <2>3, <3>1, <3>3, PieceIsDrawn
    <3>5. QED BY <3>4 DEF s
  <2>4. QED BY <2>2, <2>3, FoldStays
<1>4. QED BY <1>2, <1>3

\* One turn of the loop of Print.
LEMMA ItemIsPrinted ==
  ASSUME NEW d \in PrintedLine, NEW it, Printable(it), NEW row \in Int
  PROVE  Printed(d, it, row) \in PrintedLine
<1>1. CASE it.is = "\n"
  <2> DEFINE ws == d.writes \o createNewLine
  <2>1. createNewLine \in Seq(Prints)
    BY NewLineIsSafe, SafeIs
  <2>2. ws \in Seq(Prints)
    BY <2>1, Joined DEF PrintedLine
  <2>3. Printed(d, it, row) = [writes |-> ws, column |-> 0]
    BY <1>1 DEF Printed
  <2> HIDE DEF ws
  <2>4. QED BY <2>2, <2>3 DEF PrintedLine
<1>2. CASE it.is = "char" /\ it.c \in STRING
  <2>1. <<it.c>> \in Seq(Characters)
    BY <1>2 DEF Characters
  <2>2. Printed(d, it, row) = PieceDrawn(d, <<it.c>>, row)
    BY <1>2 DEF Printed
  <2>3. QED BY <2>1, <2>2, PieceIsDrawn
<1>3. CASE it.is \in {"%s", "%d", "%x", "%f"}
  <2> DEFINE pieces == Pieces(it)
             n == Len(pieces)
             g == CHOOSE h : PiecesFold(h, d, pieces, n, row)
  <2>1. pieces \in Seq(Seq(Characters)) /\ n \in Nat /\ DOMAIN pieces = 1 .. n
    <3>1. PICK o : Spells(Pieces(it), Text(it), Wide(it), o)
      BY <1>3, ConversionSpells
    <3>2. pieces \in Seq(Seq(Characters))
      BY <3>1 DEF Spells
    <3> HIDE DEF pieces
    <3>3. QED BY <3>2
  <2>2. it.is # "\n" /\ it.is # "char"
    BY <1>3
  <2>3. Printed(d, it, row) = g[1 .. n]
    <3> HIDE DEF n
    <3>1. QED BY <2>1, <2>2 DEF Printed, FoldLeft, MapThenFoldSet, PiecesFold
  <2>4. /\ \E h : PiecesFold(h, d, pieces, n, row)
        /\ \A h : PiecesFold(h, d, pieces, n, row) => h[1 .. n] \in PrintedLine
    <3> HIDE DEF pieces
    <3>1. QED BY <2>1, PiecesAreDrawn
  <2>5. QED BY <2>3, <2>4
<1>4. QED BY <1>1, <1>2, <1>3 DEF Printable

\* The fold over the items of a call.
NothingPrinted(column) == [writes |-> <<>>, column |-> column]

ItemsFold(g, items, column, n, row) ==
  g = [s \in SUBSET (1 .. n) |->
         IF s = {} THEN NothingPrinted(column) ELSE Printed(g[s \ {Max(s)}], items[Max(s)], row)]

\* There is a fold over the items of a call.
LEMMA ArgsFold ==
  ASSUME NEW items, NEW n \in Nat, \A i \in 1 .. n : Printable(items[i]), NEW column \in Int, NEW row \in Int
  PROVE  \E h : ItemsFold(h, items, column, n, row)
<1>1. NothingPrinted(column) \in PrintedLine
  BY DEF NothingPrinted, PrintedLine
<1> DEFINE H == [i \in 1 .. n |-> [a \in PrintedLine |-> Printed(a, items[i], row)]]
<1>2. H \in [1 .. n -> [PrintedLine -> PrintedLine]]
  BY ItemIsPrinted
<1>3. \A i \in 1 .. n, a \in PrintedLine : H[i][a] = Printed(a, items[i], row)
  OBVIOUS
<1> HIDE DEF H
<1>4. PICK h : FoldOf(PrintedLine, NothingPrinted(column), H, n, h)
  BY <1>1, <1>2, FoldExists
<1>5. ASSUME NEW s \in SUBSET (1 .. n)
      PROVE  h[s] = IF s = {} THEN NothingPrinted(column)
                              ELSE Printed(h[s \ {Max(s)}], items[Max(s)], row)
  <2>1. CASE s = {}
    BY <1>4, <2>1 DEF FoldOf
  <2>2. CASE s # {}
    <3>1. Max(s) \in s
      BY <2>2, MaxIsIn
    <3>2. h[s \ {Max(s)}] \in PrintedLine /\ h[s] = H[Max(s)][h[s \ {Max(s)}]]
      BY <1>4, <2>2 DEF FoldOf
    <3>3. QED BY <1>3, <2>2, <3>1, <3>2
  <2>3. QED BY <2>1, <2>2
<1>6. h = [s \in SUBSET (1 .. n) |-> h[s]]
  BY <1>4 DEF FoldOf
<1>7. ItemsFold(h, items, column, n, row)
  <2>1. h = [s \in SUBSET (1 .. n) |->
               IF s = {} THEN NothingPrinted(column)
                         ELSE Printed(h[s \ {Max(s)}], items[Max(s)], row)]
    BY <1>5, <1>6
  <2>2. QED BY <2>1 DEF ItemsFold
<1>8. QED BY <1>7

\* What Print writes for its items.
LEMMA ArgsArePrinted ==
  ASSUME NEW items, NEW n \in Nat, n = Len(items), DOMAIN items = 1 .. n,
         \A i \in 1 .. n : Printable(items[i]), NEW column \in Int, NEW row \in Int
  PROVE  PrintArgs(items, column, row) \in Seq(Prints)
<1> DEFINE g == CHOOSE h : ItemsFold(h, items, column, n, row)
<1>1. NothingPrinted(column) \in PrintedLine
  BY DEF NothingPrinted, PrintedLine
<1>2. PrintArgs(items, column, row) = g[1 .. n].writes
  BY DEF PrintArgs, FoldLeft, MapThenFoldSet, ItemsFold, NothingPrinted
<1>3. \E h : ItemsFold(h, items, column, n, row)
  BY ArgsFold
<1>4. ItemsFold(g, items, column, n, row)
  BY <1>3
<1> HIDE DEF g
<1>5. \A s \in SUBSET (1 .. n) :
        g[s] = IF s = {} THEN NothingPrinted(column)
                         ELSE Printed(g[s \ {Max(s)}], items[Max(s)], row)
  BY <1>4 DEF ItemsFold
<1>6. g[{}] \in PrintedLine
  BY <1>1, <1>5
<1>7. ASSUME NEW k \in Nat, k + 1 <= n, g[1 .. k] \in PrintedLine
      PROVE  g[1 .. k + 1] \in PrintedLine
  <2> DEFINE s == 1 .. k + 1
             i == k + 1
  <2>1. i \in 1 .. n
    BY <1>7
  <2>2. s \in SUBSET (1 .. n) /\ s # {} /\ Max(s) = i /\ s \ {i} = 1 .. k
    BY <1>7, Prefix
  <2> HIDE DEF s, i
  <2>3. g[s] = Printed(g[1 .. k], items[i], row)
    BY <1>5, <2>2
  <2>4. g[s] \in PrintedLine
    BY <1>7, <2>1, <2>3, ItemIsPrinted
  <2>5. QED BY <2>4 DEF s
<1>8. g[1 .. n] \in PrintedLine
  BY <1>6, <1>7, FoldStays
<1>9. QED BY <1>2, <1>8 DEF PrintedLine

\* What a call writes leaves the input line alone.
LEMMA WritesAreSafe ==
  ASSUME NEW call, KeepsToText(call)
  PROVE  Writes(call) \in Seq(Safe)
<1>1. CASE call.is = "DrawBox"
  <2>1. /\ {call.x, call.y, call.w, call.h} \subseteq Int
        /\ call.x + call.w >= 0 /\ call.y + call.h \in 0 .. Height - FontHeight
    BY <1>1 DEF KeepsToText
  <2>2. call.y + call.h >= 0 /\ call.y + call.h <= InputTop
    BY <2>1, Screen DEF InputTop
  <2>3. DrawBox(call.x, call.y, call.w, call.h) \in Seq(Safe)
    BY <2>1, <2>2, BoxIsSafe
  <2>4. Writes(call) = DrawBox(call.x, call.y, call.w, call.h)
    BY <1>1 DEF Writes
  <2>5. QED BY <2>3, <2>4
<1>2. CASE call.is \in {"Println", "Print"}
  <2>1. /\ call.is = "Print" => call.column \in Int /\ call.row \in 0 .. totalRows - 1
        /\ call.items \in Seq(Range(call.items))
        /\ \A i \in DOMAIN call.items : Printable(call.items[i])
        /\ KeepsToWidth(call)
    BY <1>2 DEF KeepsToText
  <2>2. \A column, row \in Int : PrintArgs(call.items, column, row) \in Seq(Prints)
    <3> DEFINE items == call.items
               n == Len(items)
    <3>1. n \in Nat /\ n = Len(items) /\ DOMAIN items = 1 .. n /\ \A i \in 1 .. n : Printable(items[i])
      BY <2>1
    <3> HIDE DEF items, n
    <3>2. \A column, row \in Int : PrintArgs(items, column, row) \in Seq(Prints)
      BY <3>1, ArgsArePrinted
    <3>3. QED BY <3>2 DEF items
  <2>3. Writes(call) \in Seq(Prints)
    <3>1. CASE call.is = "Println"
      <4>1. totalRows - 1 \in Int /\ 0 \in Int
        BY Screen DEF totalRows
      <4>2. PrintArgs(call.items, 0, totalRows - 1) \in Seq(Prints)
        BY <2>2, <4>1
      <4>3. createNewLine \in Seq(Prints)
        BY NewLineIsSafe, SafeIs
      <4>4. Writes(call) = createNewLine \o PrintArgs(call.items, 0, totalRows - 1)
        BY <3>1 DEF Writes, Println
      <4>5. QED BY <4>2, <4>3, <4>4, Joined
    <3>2. CASE call.is = "Print"
      <4>1. call.column \in Int /\ call.row \in Int
        BY <2>1, <3>2
      <4>2. QED BY <2>2, <3>2, <4>1 DEF Writes
    <3>3. QED BY <1>2, <3>1, <3>2
  <2> DEFINE ws == Writes(call)
             n == Len(ws)
  <2>4. n \in Nat /\ DOMAIN ws = 1 .. n /\ \A i \in 1 .. n : ws[i] \in Prints
    BY <2>3
  <2>5. ws = [i \in 1 .. n |-> ws[i]]
    BY <2>3
  <2> HIDE DEF n, ws
  <2>6. ASSUME NEW i \in 1 .. n PROVE ws[i] \in Safe
    <3>1. ws[i] \in Prints
      BY <2>4
    <3>2. ASSUME ws[i].do = "glyph" PROVE InText(ws[i])
      <4> DEFINE row == TextRow(call)
                 x == ws[i].corner - row * FontHeight * Width
      <4>1. row \in 0 .. totalRows - 1
        <5>1. totalRows \in Int /\ totalRows - 1 >= 0
          BY Screen DEF totalRows
        <5>2. CASE call.is = "Print"
          BY <2>1, <5>2 DEF TextRow
        <5>3. CASE call.is # "Print"
          BY <5>1, <5>3 DEF TextRow
        <5>4. QED BY <5>2, <5>3
      <4>2. x \in 0 .. Width - FontWidth
        BY <2>1, <2>4, <3>2 DEF KeepsToWidth, ws
      <4>3. ws[i].corner \in Int
        BY <3>1, <3>2 DEF Prints, Strokes, Copies, Fills, Glyphs
      <4>4. row \in Int /\ FontHeight \in Nat /\ Width \in Nat
        BY <4>1, Screen
      <4>5. ws[i].corner = row * FontHeight * Width + x
        <5> DEFINE corner == ws[i].corner
                   left == row * FontHeight * Width
        <5>1. corner \in Int /\ left \in Int
          BY <4>3, <4>4
        <5> HIDE DEF corner, left
        <5>2. corner = left + (corner - left)
          BY <5>1
        <5>3. QED BY <5>2 DEF corner, left
      <4> HIDE DEF row, x
      <4>6. QED BY <4>1, <4>2, <4>5 DEF InText
    <3>3. QED BY <3>1, <3>2 DEF Safe
  <2>7. ws \in Seq(Safe)
    BY <2>4, <2>5, <2>6
  <2>8. QED BY <2>7 DEF ws
<1>3. QED BY <1>1, <1>2 DEF KeepsToText

-----------------------------------------------------------------------------
(* What the screen shows of a page.                                         *)

\* There are lines of text.
LEMMA TextRows ==
  totalRows \in Nat /\ \A row \in 0 .. totalRows - 1 : row \in Nat
<1>1. totalRows \in Nat
  BY Screen DEF totalRows
<1>2. QED BY <1>1

\* The lines of text.
LEMMA LineOf ==
  ASSUME NEW p \in Pixels
  PROVE  /\ RowOf(p) \div FontHeight \in Nat
         /\ \A row \in Int : RowOf(p) \in row * FontHeight .. row * FontHeight + FontHeight - 1
                               <=> RowOf(p) \div FontHeight = row
         /\ RowOf(p) < InputTop <=> RowOf(p) \div FontHeight < totalRows
         /\ RowOf(p) < InputTop - FontHeight <=> RowOf(p) \div FontHeight < totalRows - 1
<1> DEFINE r == RowOf(p)
           q == r \div FontHeight
           m == r % FontHeight
<1>1. FontHeight \in Nat \ {0} /\ r \in Nat /\ GetRows \in Nat /\ GetRows >= 3
  BY Screen, PixelIs
<1>2. q \in Nat /\ m \in 0 .. FontHeight - 1 /\ r = q * FontHeight + m
  <2> HIDE DEF r
  <2>1. QED BY <1>1, Divided
<1>3. totalRows \in Nat /\ InputTop = totalRows * FontHeight
  BY Screen DEF totalRows, inputRow
<1>4. InputTop - FontHeight = (totalRows - 1) * FontHeight
  BY <1>1, <1>3
<1> HIDE DEF r, q, m
<1>5. ASSUME NEW k \in Int PROVE r < k * FontHeight <=> q < k
  <2>1. CASE q < k
    <3>1. (q + 1) * FontHeight <= k * FontHeight
      BY <1>1, <1>2, <2>1
    <3>2. QED BY <1>1, <1>2, <2>1, <3>1
  <2>2. CASE q >= k
    <3>1. q * FontHeight >= k * FontHeight
      BY <1>1, <1>2, <2>2
    <3>2. QED BY <1>1, <1>2, <2>2, <3>1
  <2>3. QED BY <1>2, <2>1, <2>2
<1>6. ASSUME NEW row \in Int
      PROVE  r \in row * FontHeight .. row * FontHeight + FontHeight - 1 <=> q = row
  <2>1. r < row * FontHeight <=> q < row
    BY <1>5
  <2>2. r < (row + 1) * FontHeight <=> q < row + 1
    <3>1. row + 1 \in Int
      OBVIOUS
    <3>2. QED BY <1>5, <3>1
  <2>3. (row + 1) * FontHeight = row * FontHeight + FontHeight /\ row * FontHeight \in Int
    BY <1>1
  <2>4. QED BY <1>1, <1>2, <2>1, <2>2, <2>3
<1>7. r < InputTop <=> q < totalRows
  BY <1>3, <1>5
<1>8. r < InputTop - FontHeight <=> q < totalRows - 1
  <2>1. totalRows - 1 \in Int
    BY <1>3
  <2>2. QED BY <1>4, <1>5, <2>1
<1>9. QED BY <1>2, <1>6, <1>7, <1>8 DEF r, q

\* A character of a page.
Placed == [c : Characters, line : Int, x : Int]

\* The characters that stand over pixel p of the text when the line `line' of the page
\* stands in line `row' of the screen, and what p shows then.
Stands(p, glyphs, line, row) ==
  {i \in Over(p, glyphs) : glyphs[i].line = line - (row - RowOf(p) \div FontHeight)}

Seen(p, glyphs, line, row, found) ==
  IF Stands(p, glyphs, line, row) = {} /\ RowOf(p) \div FontHeight + line < totalRows
    THEN found[p + line * FontHeight * Width]
    ELSE Shown(p, glyphs, Stands(p, glyphs, line, row))

\* The text of the screen shows the characters, and what was found where there are none.
Shows(fb, found, glyphs, line, row) ==
  \A p \in Pixels : RowOf(p) < InputTop => fb[p] = Seen(p, glyphs, line, row, found)

\* One more character on the page.
OneMore(glyphs, next, c, line, x) ==
  /\ next \in Seq(Placed) /\ Len(next) = Len(glyphs) + 1
  /\ \A i \in 1 .. Len(glyphs) : next[i] = glyphs[i]
  /\ next[Len(glyphs) + 1].c = c /\ next[Len(glyphs) + 1].line = line /\ next[Len(glyphs) + 1].x = x

\* Drawing the character shows it.
LEMMA GlyphShows ==
  ASSUME NEW fb, NEW found, NEW glyphs \in Seq(Placed), NEW next, NEW line \in Nat,
         NEW row \in 0 .. totalRows - 1, Shows(fb, found, glyphs, line, row),
         NEW w, w.do = "glyph", w.to = Glyph(w.corner, w.c).to, NEW x, InLine(w, row, x),
         NEW c, c = w.c, OneMore(glyphs, next, c, line, x)
  PROVE  Shows(Written(fb, w), found, next, line, row)
<1> DEFINE n == Len(glyphs)
           i == n + 1
<1>1. n \in Nat /\ i \in Nat /\ i \notin 1 .. n /\ \A k \in 1 .. i : k = i \/ k \in 1 .. n
  OBVIOUS
<1>2. /\ DOMAIN glyphs = 1 .. n /\ DOMAIN next = 1 .. i
      /\ \A k \in 1 .. n : next[k] = glyphs[k]
      /\ next[i].c = c /\ next[i].line = line /\ next[i].x = x
  BY DEF OneMore
<1>3. totalRows \in Nat /\ row \in Int
  BY TextRows
<1> HIDE DEF n, i
<1> SUFFICES ASSUME NEW p \in Pixels, RowOf(p) < InputTop
             PROVE  Written(fb, w)[p] = Seen(p, next, line, row, found)
  BY DEF Shows
<1> DEFINE q == RowOf(p) \div FontHeight
           a == Stands(p, glyphs, line, row)
           b == Stands(p, next, line, row)
<1>4. q \in Nat /\ (RowOf(p) \in row * FontHeight .. row * FontHeight + FontHeight - 1 <=> q = row)
  BY <1>3, LineOf
<1>5. a = {k \in 1 .. n : ColumnOf(p) \in glyphs[k].x .. glyphs[k].x + FontWidth - 1
                            /\ glyphs[k].line = line - (row - q)}
  BY <1>2 DEF Stands, Over
<1>6. b = {k \in 1 .. i : ColumnOf(p) \in next[k].x .. next[k].x + FontWidth - 1
                            /\ next[k].line = line - (row - q)}
  BY <1>2 DEF Stands, Over
<1>7. fb[p] = IF a = {} /\ q + line < totalRows
                THEN found[p + line * FontHeight * Width]
                ELSE Shown(p, glyphs, a)
  BY DEF Shows, Seen
<1>8. Seen(p, next, line, row, found) =
        IF b = {} /\ q + line < totalRows
          THEN found[p + line * FontHeight * Width]
          ELSE Shown(p, next, b)
  BY DEF Seen
<1>9. /\ p \in w.to <=> q = row /\ ColumnOf(p) \in x .. x + FontWidth - 1
      /\ p \in w.to => Written(fb, w)[p] = Ink(w.c, RowOf(p) % FontHeight)
  BY <1>4, GlyphInLine
<1> HIDE DEF q, a, b
<1>10. line = line - (row - q) <=> q = row
  BY <1>3, <1>4
<1>11. i \in b <=> p \in w.to
  <2>1. i \in 1 .. i
    <3>1. n \in Nat
      BY <1>1
    <3>2. QED BY <3>1 DEF i
  <2>2. QED BY <1>2, <1>6, <1>9, <1>10, <2>1
<1>12. b \ {i} = a
  <2>1. \A k \in 1 .. n : k \in a <=> k \in b
    <3>1. \A k \in 1 .. n : k \in 1 .. i
      BY <1>1 DEF i
    <3>2. QED BY <1>2, <1>5, <1>6, <3>1
  <2>2. QED BY <1>1, <1>5, <1>6, <2>1
<1>13. CASE p \in w.to
  <2>1. b # {} /\ b \in SUBSET (1 .. i) /\ i \in b
    BY <1>6, <1>11, <1>13
  <2>2. Max(b) = i
    BY <1>1, <2>1, GreatestIs
  <2>3. Shown(p, next, b) = Ink(c, RowOf(p) % FontHeight)
    BY <1>2, <2>1, <2>2 DEF Shown
  <2>4. QED BY <1>8, <1>9, <1>13, <2>1, <2>3
<1>14. CASE p \notin w.to
  <2>1. b = a
    BY <1>11, <1>12, <1>14
  <2>2. Shown(p, next, b) = Shown(p, glyphs, a)
    <3>1. CASE a = {}
      BY <2>1, <3>1 DEF Shown
    <3>2. CASE a # {}
      <4>1. a \in SUBSET (1 .. n)
        BY <1>5
      <4>2. Max(a) \in 1 .. n
        BY <1>1, <3>2, <4>1, MaxIsIn
      <4>3. QED BY <1>2, <2>1, <3>2, <4>2 DEF Shown
    <3>3. QED BY <3>1, <3>2
  <2>3. QED BY <1>7, <1>8, <1>14, <2>1, <2>2, WrittenIs
<1>15. QED BY <1>13, <1>14

\* A line break scrolls the page.
LEMMA LineBreakOnPage ==
  ASSUME NEW fb \in Frames, NEW found, NEW glyphs \in Seq(Placed), NEW line \in Nat, NEW after \in Nat,
         after = line + 1, NEW row \in 0 .. totalRows - 1, Shows(fb, found, glyphs, line, row),
         \A i \in 1 .. Len(glyphs) : glyphs[i].line <= line
  PROVE  Shows(AllWritten(fb, createNewLine), found, glyphs, after, row)
<1>1. totalRows \in Nat /\ row \in Int /\ {Width, Height, FontHeight} \subseteq Nat \ {0}
  BY Screen, TextRows
<1>2. DOMAIN glyphs = 1 .. Len(glyphs)
  OBVIOUS
<1> SUFFICES ASSUME NEW p \in Pixels, RowOf(p) < InputTop
             PROVE  AllWritten(fb, createNewLine)[p] = Seen(p, glyphs, after, row, found)
  BY DEF Shows
<1> DEFINE q == RowOf(p) \div FontHeight
           b == Stands(p, glyphs, after, row)
<1>3. /\ q \in Nat /\ q < totalRows
      /\ RowOf(p) < InputTop - FontHeight <=> q < totalRows - 1
  BY LineOf
<1>4. AllWritten(fb, createNewLine)[p] =
        IF q < totalRows - 1 THEN fb[p + FontHeight * Width] ELSE Black
  BY <1>3, LineBreakShows
<1>5. b = {i \in Over(p, glyphs) : glyphs[i].line = after - (row - q)}
  BY DEF Stands
<1>6. Seen(p, glyphs, after, row, found) =
        IF b = {} /\ q + after < totalRows
          THEN found[p + after * FontHeight * Width]
          ELSE Shown(p, glyphs, b)
  BY DEF Seen
<1>7. CASE q = totalRows - 1
  <2> HIDE DEF q
  <2>1. after - (row - q) > line
    BY <1>1, <1>3, <1>7
  <2>2. ~(q + after < totalRows)
    BY <1>1, <1>3, <1>7
  <2>3. ASSUME NEW i \in Over(p, glyphs) PROVE glyphs[i].line # after - (row - q)
    <3>1. i \in 1 .. Len(glyphs)
      BY <1>2 DEF Over
    <3>2. glyphs[i].line <= line /\ glyphs[i] \in Placed
      BY <3>1
    <3>3. glyphs[i].line \in Int
      BY <3>2 DEF Placed
    <3>4. QED BY <1>1, <1>3, <2>1, <3>2, <3>3
  <2>4. b = {}
    BY <1>5, <2>3 DEF q
  <2> HIDE DEF b
  <2>5. Shown(p, glyphs, b) = Black
    BY <2>4 DEF Shown
  <2>6. QED BY <1>4, <1>6, <1>7, <2>2, <2>5
<1>8. CASE q < totalRows - 1
  <2> DEFINE d == p + FontHeight * Width
             r == RowOf(p) + FontHeight
  <2>1. /\ d \in Pixels /\ RowOf(d) = RowOf(p) + FontHeight /\ ColumnOf(d) = ColumnOf(p)
        /\ RowOf(d) < InputTop
    <3>1. /\ RowOf(p) < InputTop - FontHeight /\ RowOf(p) \in Nat
          /\ ColumnOf(p) \in 0 .. Width - 1 /\ p = RowOf(p) * Width + ColumnOf(p)
          /\ InputTop \in Nat /\ InputTop < Height
      BY <1>3, <1>8, PixelIs, Screen
    <3>2. r \in 0 .. Height - 1 /\ r < InputTop
      BY <1>1, <3>1
    <3>3. d = r * Width + ColumnOf(p)
      <4>1. r * Width = RowOf(p) * Width + FontHeight * Width
        BY <1>1, <3>1
      <4>2. RowOf(p) * Width \in Nat /\ FontHeight * Width \in Nat
        BY SMTT(20), <1>1, <3>1
      <4> HIDE DEF r
      <4>3. QED BY <3>1, <4>1, <4>2
    <3>4. RowOf(r * Width + ColumnOf(p)) = r /\ ColumnOf(r * Width + ColumnOf(p)) = ColumnOf(p)
          /\ r * Width + ColumnOf(p) \in Pixels
      BY <3>1, <3>2, PixelAt
    <3> HIDE DEF d
    <3>5. QED BY <3>2, <3>3, <3>4
  <2>2. RowOf(d) \div FontHeight = q + 1 /\ RowOf(d) % FontHeight = RowOf(p) % FontHeight
    <3> DEFINE m == RowOf(p) % FontHeight
    <3>1. RowOf(p) = q * FontHeight + m /\ m \in 0 .. FontHeight - 1 /\ RowOf(p) \in Nat
      <4>1. RowOf(p) \in Nat /\ FontHeight \in Nat \ {0}
        BY <1>1, PixelIs
      <4>2. QED BY <4>1, Divided
    <3> HIDE DEF q, m, d
    <3>2. RowOf(d) = (q + 1) * FontHeight + m /\ q + 1 \in Int
      BY <1>1, <1>3, <2>1, <3>1
    <3>3. ((q + 1) * FontHeight + m) \div FontHeight = q + 1 /\ ((q + 1) * FontHeight + m) % FontHeight = m
      BY <1>1, <3>1, <3>2, Division
    <3>4. QED BY <3>2, <3>3 DEF m
  <2> HIDE DEF d, r
  <2>3. Over(d, glyphs) = Over(p, glyphs)
    BY <2>1 DEF Over
  <2>4. Stands(d, glyphs, line, row) = b
    <3>1. line - (row - (q + 1)) = after - (row - q)
      BY <1>1, <1>3
    <3> DEFINE v == after - (row - q)
    <3>2. Stands(d, glyphs, line, row) = {i \in Over(p, glyphs) : glyphs[i].line = v}
      BY <2>2, <2>3, <3>1 DEF Stands
    <3>3. QED BY <1>5, <3>2
  <2>5. fb[d] = IF b = {} /\ q + 1 + line < totalRows
                  THEN found[d + line * FontHeight * Width]
                  ELSE Shown(d, glyphs, b)
    BY <2>1, <2>2, <2>4 DEF Shows, Seen
  <2>6. d + line * FontHeight * Width = p + after * FontHeight * Width
    <3> DEFINE u == FontHeight * Width
    <3>1. u \in Nat /\ line * FontHeight * Width = line * u /\ after * FontHeight * Width = after * u
      BY <1>1
    <3>2. d = p + u /\ p \in Nat
      BY PixelIs DEF d
    <3> HIDE DEF u
    <3>3. after * u = line * u + u
      BY <3>1
    <3>4. line * u \in Nat
      BY <3>1
    <3>5. QED BY <3>1, <3>2, <3>3, <3>4
  <2>7. Shown(d, glyphs, b) = Shown(p, glyphs, b)
    BY <2>2 DEF Shown
  <2>8. q + 1 + line < totalRows <=> q + after < totalRows
    BY <1>3
  <2>9. AllWritten(fb, createNewLine)[p] = fb[d]
    BY <1>4, <1>8 DEF d
  <2> HIDE DEF b, q
  <2>10. QED BY <1>6, <2>5, <2>6, <2>7, <2>8, <2>9
<1>9. QED BY <1>1, <1>3, <1>7, <1>8

\* An empty page.
LEMMA NothingShows ==
  ASSUME NEW found
  PROVE  \A row \in 0 .. totalRows - 1 : Shows(found, found, <<>>, 0, row)
<1> SUFFICES ASSUME NEW row \in 0 .. totalRows - 1, NEW p \in Pixels, RowOf(p) < InputTop
             PROVE  found[p] = Seen(p, <<>>, 0, row, found)
  BY DEF Shows
<1>1. Stands(p, <<>>, 0, row) = {}
  BY DEF Stands, Over
<1>2. RowOf(p) \div FontHeight + 0 < totalRows
  <2>1. RowOf(p) \div FontHeight \in Nat /\ RowOf(p) \div FontHeight < totalRows
    BY LineOf
  <2>2. QED BY <2>1
<1>3. p + 0 * FontHeight * Width = p
  BY Screen, PixelIs
<1>4. QED BY <1>1, <1>2, <1>3 DEF Seen

-----------------------------------------------------------------------------
(* Texts.                                                                   *)

\* The k-th character of a text that is set from a column of a line on, and the page
\* with the first m of them.
SetAt(k, wide, column) == (column + k - 1) * FontWidth + Apart(k, wide)

Setting(text, k, wide, line, column) == [c |-> text[k], line |-> line, x |-> SetAt(k, wide, column)]

Set(glyphs, text, m, wide, line, column) ==
  glyphs \o [k \in 1 .. m |-> Setting(text, k, wide, line, column)]

\* They are characters of a page.
LEMMA SetIs ==
  ASSUME NEW glyphs \in Seq(Placed), NEW text \in Seq(Characters), NEW m \in 0 .. Len(text),
         NEW wide \in Int, NEW line \in Int, NEW column \in Int
  PROVE  /\ Set(glyphs, text, m, wide, line, column) \in Seq(Placed)
         /\ Len(Set(glyphs, text, m, wide, line, column)) = Len(glyphs) + m
         /\ \A i \in 1 .. Len(glyphs) : Set(glyphs, text, m, wide, line, column)[i] = glyphs[i]
         /\ \A k \in 1 .. m : Set(glyphs, text, m, wide, line, column)[Len(glyphs) + k]
                                = Setting(text, k, wide, line, column)
<1> DEFINE s == [k \in 1 .. m |-> Setting(text, k, wide, line, column)]
<1>1. m \in Nat /\ \A k \in 1 .. m : k \in Nat /\ text[k] \in Characters
  <2>1. Len(text) \in Nat
    OBVIOUS
  <2>2. m \in Nat /\ \A k \in 1 .. m : k \in 1 .. Len(text)
    BY <2>1
  <2>3. QED BY <2>2
<1>2. \A k \in 1 .. m : Setting(text, k, wide, line, column) \in Placed
  <2> SUFFICES ASSUME NEW k \in 1 .. m PROVE Setting(text, k, wide, line, column) \in Placed
    OBVIOUS
  <2> DEFINE x == SetAt(k, wide, column)
  <2>1. x \in Int
    <3>1. Apart(k, wide) \in Int /\ k \in Int /\ FontWidth \in Int
      BY <1>1, Screen DEF Apart
    <3>2. QED BY <3>1 DEF SetAt
  <2>2. Setting(text, k, wide, line, column) = [c |-> text[k], line |-> line, x |-> x]
    BY DEF Setting
  <2> HIDE DEF x
  <2>3. QED BY <1>1, <2>1, <2>2 DEF Placed
<1>3. s \in Seq(Placed) /\ Len(s) = m /\ \A k \in 1 .. m : s[k] = Setting(text, k, wide, line, column)
  BY <1>1, <1>2
<1> HIDE DEF s
<1>4. /\ glyphs \o s \in Seq(Placed) /\ Len(glyphs \o s) = Len(glyphs) + Len(s)
      /\ \A i \in 1 .. Len(glyphs) : (glyphs \o s)[i] = glyphs[i]
      /\ \A i \in 1 .. Len(s) : (glyphs \o s)[Len(glyphs) + i] = s[i]
  <2>1. s \in Seq(Placed)
    BY <1>3
  <2>2. QED BY <2>1, Joined
<1>5. Set(glyphs, text, m, wide, line, column) = glyphs \o s
  BY DEF Set, s
<1>6. QED BY <1>3, <1>4, <1>5

\* Where no character is set, the page stays as it is.
LEMMA NothingSet ==
  ASSUME NEW glyphs \in Seq(Placed), NEW text \in Seq(Characters), NEW wide \in Int,
         NEW line \in Int, NEW column \in Int
  PROVE  Set(glyphs, text, 0, wide, line, column) = glyphs
<1> DEFINE s == Set(glyphs, text, 0, wide, line, column)
           n == Len(glyphs)
<1>1. 0 \in 0 .. Len(text) /\ n \in Nat /\ n + 0 = n
  OBVIOUS
<1>2. s \in Seq(Placed) /\ Len(s) = n + 0 /\ \A i \in 1 .. n : s[i] = glyphs[i]
  BY <1>1, SetIs
<1> HIDE DEF s, n
<1>3. s = [i \in 1 .. n |-> s[i]]
  BY <1>1, <1>2
<1>4. glyphs = [i \in 1 .. n |-> glyphs[i]]
  BY DEF n
<1>5. s = glyphs
  BY <1>2, <1>3, <1>4
<1>6. QED BY <1>5 DEF s

\* One character after the other.
LEMMA OneMoreSet ==
  ASSUME NEW glyphs \in Seq(Placed), NEW text \in Seq(Characters), NEW m \in Nat,
         NEW k \in 1 .. Len(text), k = m + 1, NEW wide \in Int, NEW line \in Int, NEW column \in Int,
         NEW x, x = SetAt(k, wide, column)
  PROVE  OneMore(Set(glyphs, text, m, wide, line, column), Set(glyphs, text, k, wide, line, column),
                 text[k], line, x)
<1> DEFINE a == Set(glyphs, text, m, wide, line, column)
           b == Set(glyphs, text, k, wide, line, column)
           n == Len(glyphs)
<1>1. Len(text) \in Nat /\ n \in Nat /\ k \in Nat
  OBVIOUS
<1>2. m \in 0 .. Len(text) /\ k \in 0 .. Len(text)
  BY <1>1
<1>3. /\ a \in Seq(Placed) /\ Len(a) = n + m /\ \A i \in 1 .. n : a[i] = glyphs[i]
      /\ \A i \in 1 .. m : a[n + i] = Setting(text, i, wide, line, column)
  BY <1>2, SetIs
<1>4. /\ b \in Seq(Placed) /\ Len(b) = n + k /\ \A i \in 1 .. n : b[i] = glyphs[i]
      /\ \A i \in 1 .. k : b[n + i] = Setting(text, i, wide, line, column)
  BY <1>2, SetIs
<1> HIDE DEF a, b, n
<1>5. Len(b) = Len(a) + 1 /\ Len(a) + 1 = n + k
  BY <1>1, <1>3, <1>4
<1>6. ASSUME NEW i \in 1 .. Len(a) PROVE b[i] = a[i]
  <2>1. CASE i \in 1 .. n
    BY <1>3, <1>4, <2>1
  <2>2. CASE i \notin 1 .. n
    <3> DEFINE j == i - n
    <3>1. j \in 1 .. m /\ j \in 1 .. k /\ i = n + j
      BY <1>1, <1>3, <2>2
    <3> HIDE DEF j
    <3>2. QED BY <1>3, <1>4, <3>1
  <2>3. QED BY <2>1, <2>2
<1>7. b[n + k] = Setting(text, k, wide, line, column)
  <2>1. k \in 1 .. k
    BY <1>1
  <2>2. QED BY <1>4, <2>1
<1>8. b[n + k].c = text[k] /\ b[n + k].line = line /\ b[n + k].x = x
  BY <1>7 DEF Setting
<1>9. OneMore(a, b, text[k], line, x)
  BY <1>4, <1>5, <1>6, <1>8 DEF OneMore
<1>10. QED BY <1>9 DEF a, b

\* A text is set in the line that is the last one.
LEMMA SetLines ==
  ASSUME NEW glyphs \in Seq(Placed), NEW text \in Seq(Characters), NEW m \in 0 .. Len(text),
         NEW wide \in Int, NEW line \in Int, NEW column \in Int,
         \A i \in 1 .. Len(glyphs) : glyphs[i].line <= line,
         NEW all, all = Set(glyphs, text, m, wide, line, column)
  PROVE  \A i \in 1 .. Len(all) : all[i].line <= line
<1> DEFINE n == Len(glyphs)
<1>1. n \in Nat /\ m \in Nat
  OBVIOUS
<1>2. /\ Len(all) = n + m /\ \A i \in 1 .. n : all[i] = glyphs[i]
      /\ \A k \in 1 .. m : all[n + k] = Setting(text, k, wide, line, column)
  BY SetIs
<1>3. \A i \in 1 .. n : glyphs[i].line <= line
  OBVIOUS
<1> HIDE DEF n
<1> SUFFICES ASSUME NEW i \in 1 .. n + m PROVE all[i].line <= line
  BY <1>2
<1>4. CASE i \in 1 .. n
  BY <1>2, <1>3, <1>4
<1>5. CASE i \notin 1 .. n
  <2> DEFINE k == i - n
  <2>1. k \in 1 .. m /\ i = n + k
    BY <1>1, <1>5
  <2> HIDE DEF k
  <2>2. all[i] = Setting(text, k, wide, line, column)
    BY <1>2, <2>1
  <2>3. Setting(text, k, wide, line, column).line = line
    BY DEF Setting
  <2>4. QED BY <2>2, <2>3
<1>6. QED BY <1>4, <1>5

\* All glyphs of a drawing in a line keep to the width of the screen.
Fits(ws, row) ==
  \A i \in 1 .. Len(ws) : ws[i].do = "glyph" =>
    ws[i].corner - row * FontHeight * Width \in 0 .. Width - FontWidth

\* A string is a part of a text, from behind its character o up to its character m.
PartOf(s, text, wide, o, m) ==
  /\ s \in Seq(Characters) /\ text \in Seq(Characters)
  /\ o \in Nat /\ m = o + Len(s) /\ m <= Len(text)
  /\ \A k \in 1 .. Len(s) : text[o + k] = s[k] /\ Apart(o + k, wide) = k - 1

\* Where the k-th glyph of a string is drawn.
CornerAt(column, row, k) ==
  row * FontHeight * Width + column * FontWidth + (k - 1) * (FontWidth + 1)

\* The glyphs of a string.
LEMMA StringGlyphs ==
  ASSUME NEW s \in Seq(Characters), NEW column \in Int, NEW row \in Int, NEW ws,
         ws = DrawString(s, column, row)
  PROVE  /\ ws \in Seq(Strokes) /\ Len(ws) = Len(s)
         /\ \A k \in 1 .. Len(s) :
              /\ ws[k].do = "glyph" /\ ws[k].c = s[k] /\ ws[k].corner = CornerAt(column, row, k)
              /\ ws[k].to = Glyph(ws[k].corner, ws[k].c).to
<1> DEFINE n == Len(s)
           g(k) == Glyph(CornerAt(column, row, k), s[k])
<1>1. n \in Nat /\ DOMAIN s = 1 .. n
  OBVIOUS
<1>2. ws = [k \in 1 .. n |-> g(k)]
  BY <1>1 DEF DrawString, CornerAt
<1>3. ws \in Seq(Strokes)
  <2>1. DrawString(s, column, row) \in Seq(Prints)
    BY StringIsDrawn
  <2>2. QED BY <2>1 DEF Prints
<1> HIDE DEF n
<1>4. Len(ws) = n /\ \A k \in 1 .. n : ws[k] = g(k)
  BY <1>1, <1>2, <1>3
<1>5. \A k \in 1 .. n : /\ g(k).do = "glyph" /\ g(k).c = s[k] /\ g(k).corner = CornerAt(column, row, k)
                        /\ g(k).to = Glyph(g(k).corner, g(k).c).to
  BY DEF Glyph
<1> HIDE DEF g
<1>6. QED BY <1>3, <1>4, <1>5 DEF n

\* Drawing a part of a text shows the text up to the end of the part.
LEMMA StringShows ==
  ASSUME NEW fb \in Frames, NEW found, NEW glyphs \in Seq(Placed), NEW line \in Nat,
         NEW row \in 0 .. totalRows - 1, NEW s, NEW text, NEW wide \in Int,
         NEW o, NEW m, PartOf(s, text, wide, o, m),
         NEW column \in Int, NEW at, at = column + o, Fits(DrawString(s, at, row), row),
         Shows(fb, found, Set(glyphs, text, o, wide, line, column), line, row)
  PROVE  Shows(AllWritten(fb, DrawString(s, at, row)), found, Set(glyphs, text, m, wide, line, column),
               line, row)
<1> DEFINE n == Len(s)
           ws == DrawString(s, at, row)
           page(k) == Set(glyphs, text, o + k, wide, line, column)
<1>1. /\ s \in Seq(Characters) /\ text \in Seq(Characters) /\ o \in Nat /\ m = o + n /\ o + n <= Len(text)
      /\ \A k \in 1 .. n : text[o + k] = s[k] /\ Apart(o + k, wide) = k - 1
      /\ n \in Nat /\ Len(text) \in Nat
  BY DEF PartOf
<1>2. at \in Int /\ row \in Int /\ row \in Nat
  BY <1>1, TextRows
<1>3. /\ ws \in Seq(Strokes) /\ Len(ws) = n
      /\ \A k \in 1 .. n :
           /\ ws[k].do = "glyph" /\ ws[k].c = s[k] /\ ws[k].corner = CornerAt(at, row, k)
           /\ ws[k].to = Glyph(ws[k].corner, ws[k].c).to
  BY SMTT(20), <1>1, <1>2, StringGlyphs
<1>4. \A k \in 1 .. n : ws[k].corner - row * FontHeight * Width \in 0 .. Width - FontWidth
  BY <1>3 DEF Fits
<1> HIDE DEF n, ws
<1>5. PICK f : Screens(f, fb, ws, n) /\ AllWritten(fb, ws) = f[n]
  BY <1>3, ScreensExist
<1> DEFINE T == {k \in Nat : k <= n => Shows(f[k], found, page(k), line, row)}
<1>6. 0 \in T
  <2>1. o + 0 = o /\ f[0] = fb
    BY <1>1, <1>5 DEF Screens
  <2>2. QED BY <2>1
<1>7. ASSUME NEW k \in Nat, k \in T PROVE k + 1 \in T
  <2>1. ASSUME k + 1 <= n PROVE Shows(f[k + 1], found, page(k + 1), line, row)
    <3> DEFINE i == k + 1
               w == ws[i]
               x == SetAt(o + i, wide, column)
    <3>1. i \in 1 .. n /\ Shows(f[k], found, page(k), line, row)
      <4>1. k <= n /\ k + 1 \in 1 .. n
        BY <1>1, <2>1
      <4>2. QED BY <1>7, <4>1
    <3>2. f[i] = Written(f[k], w)
      BY <1>5, <2>1 DEF Screens
    <3>3. /\ w.do = "glyph" /\ w.c = s[i] /\ w.to = Glyph(w.corner, w.c).to
          /\ w.corner = CornerAt(at, row, i)
      BY <1>3, <3>1
    <3>4. w.corner - row * FontHeight * Width \in 0 .. Width - FontWidth
      BY <1>4, <3>1
    <3>5. Apart(o + i, wide) = i - 1 /\ text[o + i] = s[i]
      BY <1>1, <3>1
    <3> HIDE DEF w
    <3>6. w.corner = row * FontHeight * Width + x /\ x \in Int
      <4>1. {FontWidth, FontHeight, Width} \subseteq Nat
        BY Screen
      <4>2. i \in Int /\ o \in Int /\ row * FontHeight * Width \in Int
        BY <1>1, <1>2, <4>1
      <4> DEFINE left == row * FontHeight * Width
      <4>3. w.corner = left + at * FontWidth + (i - 1) * (FontWidth + 1) /\ left \in Int
        BY <3>3, <4>2 DEF CornerAt
      <4>4. x = (column + (o + i) - 1) * FontWidth + (i - 1)
        BY <3>5 DEF SetAt
      <4> DEFINE j == i - 1
                 e == at * FontWidth
                 d == j * FontWidth
      <4>5. x = e + d + j
        <5>1. column + (o + i) - 1 = at + j /\ j \in Int
          BY <1>1, <4>2
        <5>2. (at + j) * FontWidth = at * FontWidth + j * FontWidth
          <6> HIDE DEF j
          <6>1. QED BY <1>2, <4>1, <5>1
        <5> HIDE DEF x
        <5>3. QED BY <4>4, <5>1, <5>2
      <4>6. j * (FontWidth + 1) = d + j /\ e \in Int /\ d \in Int /\ j \in Int
        <5>1. j \in Int
          BY <4>2
        <5> HIDE DEF j
        <5>2. j * (FontWidth + 1) = j * FontWidth + j /\ at * FontWidth \in Int /\ j * FontWidth \in Int
          BY <1>2, <4>1, <5>1
        <5>3. QED BY <5>1, <5>2
      <4> HIDE DEF left, x, e, d
      <4>7. w.corner = left + e + (d + j)
        BY <4>3, <4>6 DEF e
      <4> HIDE DEF j
      <4>8. w.corner = left + x /\ x \in Int
        BY <4>3, <4>5, <4>6, <4>7
      <4>9. QED BY <4>8 DEF left
    <3>7. InLine(w, row, x)
      <4> DEFINE left == row * FontHeight * Width
      <4>1. left \in Int
        <5>1. FontHeight \in Int /\ Width \in Int
          BY Screen
        <5>2. QED BY <1>2, <5>1
      <4>2. left \in Int /\ w.corner = left + x /\ w.corner - left \in 0 .. Width - FontWidth
        BY <3>4, <3>6, <4>1
      <4> HIDE DEF left, x
      <4>3. w.corner - left = x
        BY <3>6, <4>2
      <4>4. x \in 0 .. Width - FontWidth
        BY <4>2, <4>3
      <4>5. QED BY <1>2, <3>6, <4>4 DEF InLine
    <3> DEFINE u == o + k
               v == o + i
    <3>8. u \in Nat /\ v \in 1 .. Len(text) /\ v = u + 1 /\ u \in 0 .. Len(text)
      BY <1>1, <2>1
    <3>9. x = SetAt(v, wide, column) /\ text[v] = w.c
      BY <3>3, <3>5
    <3> HIDE DEF u, v, x, i
    <3> DEFINE a == Set(glyphs, text, u, wide, line, column)
               b == Set(glyphs, text, v, wide, line, column)
    <3>10. OneMore(a, b, text[v], line, x)
      BY SMTT(20), <1>1, <3>8, <3>9, OneMoreSet
    <3>11. a \in Seq(Placed)
      BY <1>1, <3>8, SetIs
    <3>12. Shows(f[k], found, a, line, row)
      BY <3>1 DEF u
    <3> HIDE DEF a, b
    <3>13. Shows(Written(f[k], w), found, b, line, row)
      BY <3>3, <3>7, <3>9, <3>10, <3>11, <3>12, GlyphShows
    <3>14. QED BY <3>2, <3>13 DEF b, v, i
  <2>2. QED BY <2>1
<1> HIDE DEF T
<1>8. n \in T
  BY <1>1, <1>6, <1>7, Induction
<1>9. QED BY <1>1, <1>5, <1>8 DEF T, n, ws

\* What has been written shows a page, if it keeps to the width of the screen.
Showing(fb, found, ws, glyphs, line, row) ==
  Fits(ws, row) => Shows(AllWritten(fb, ws), found, glyphs, line, row)

\* A drawing keeps to the width if both of its parts do.
LEMMA FitsBoth ==
  ASSUME NEW s \in Seq(Strokes), NEW t \in Seq(Strokes), NEW row, Fits(s \o t, row)
  PROVE  Fits(s, row) /\ Fits(t, row)
<1> DEFINE n == Len(s)
           m == Len(t)
           st == s \o t
<1>1. n \in Nat /\ m \in Nat
  OBVIOUS
<1>2. /\ Len(st) = n + m /\ \A i \in 1 .. n : st[i] = s[i]
      /\ \A i \in 1 .. m : st[n + i] = t[i]
  BY Joined
<1>3. \A i \in 1 .. n : i \in 1 .. n + m
  BY <1>1
<1>4. \A i \in 1 .. m : n + i \in 1 .. n + m
  BY <1>1
<1> DEFINE Ok(w) == w.do = "glyph" => w.corner - row * FontHeight * Width \in 0 .. Width - FontWidth
<1>5. \A i \in 1 .. Len(st) : Ok(st[i])
  BY DEF Fits
<1> HIDE DEF n, m, st, Ok
<1>6. \A i \in 1 .. n : Ok(s[i])
  BY <1>2, <1>3, <1>5
<1>7. \A i \in 1 .. m : Ok(t[i])
  <2> SUFFICES ASSUME NEW i \in 1 .. m PROVE Ok(t[i])
    OBVIOUS
  <2>1. Ok(st[n + i])
    BY <1>2, <1>4, <1>5
  <2>2. QED BY <1>2, <2>1
<1>8. QED BY <1>6, <1>7 DEF Fits, Ok, n, m

\* The first m characters of a text have been written behind a page.
TextTo(fb, found, d, glyphs, text, m, wide, line, column, row) ==
  /\ d \in PrintedLine /\ d.column = column + m
  /\ Showing(fb, found, d.writes, Set(glyphs, text, m, wide, line, column), line, row)

\* A part of a text is drawn behind what has been written.
LEMMA PieceShows ==
  ASSUME NEW fb \in Frames, NEW found, NEW glyphs \in Seq(Placed), NEW line \in Nat,
         NEW row \in 0 .. totalRows - 1, NEW s, NEW text, NEW wide \in Int,
         NEW o, NEW m, PartOf(s, text, wide, o, m), NEW column \in Int,
         NEW d, TextTo(fb, found, d, glyphs, text, o, wide, line, column, row),
         NEW e, e = PieceDrawn(d, s, row)
  PROVE  TextTo(fb, found, e, glyphs, text, m, wide, line, column, row)
<1> DEFINE at == d.column
           ws == d.writes
           part == DrawString(s, at, row)
<1>1. /\ d \in PrintedLine /\ d.column = column + o
      /\ Showing(fb, found, d.writes, Set(glyphs, text, o, wide, line, column), line, row)
  BY DEF TextTo
<1>2. s \in Seq(Characters) /\ o \in Nat /\ Len(s) \in Nat /\ m = o + Len(s)
  BY DEF PartOf
<1>3. row \in Int
  BY TextRows
<1>4. e \in PrintedLine
  BY <1>1, <1>2, <1>3, PieceIsDrawn
<1>5. e.writes = ws \o part /\ e.column = at + Len(s)
  BY DEF PieceDrawn
<1>6. ws \in Seq(Prints) /\ at \in Int /\ at = column + o
  BY <1>1 DEF PrintedLine
<1> HIDE DEF at, ws
<1>7. part \in Seq(Strokes) /\ ws \in Seq(Strokes)
  <2>1. part \in Seq(Strokes)
    BY <1>2, <1>3, <1>6, StringGlyphs
  <2>2. QED BY <1>6, <2>1 DEF Prints
<1>8. e.column = column + m
  BY <1>2, <1>5, <1>6
<1>9. ASSUME Fits(e.writes, row)
      PROVE  Shows(AllWritten(fb, e.writes), found, Set(glyphs, text, m, wide, line, column), line, row)
  <2>1. Fits(ws, row) /\ Fits(part, row)
    BY <1>5, <1>7, <1>9, FitsBoth
  <2> DEFINE mid == AllWritten(fb, ws)
  <2>2. Shows(mid, found, Set(glyphs, text, o, wide, line, column), line, row)
    BY <1>1, <2>1 DEF Showing, ws
  <2>3. mid \in Frames
    BY <1>7, DrawnType
  <2> HIDE DEF mid
  <2>4. Shows(AllWritten(mid, DrawString(s, at, row)), found,
              Set(glyphs, text, m, wide, line, column), line, row)
    BY <1>2, <1>6, <2>1, <2>2, <2>3, StringShows
  <2>5. AllWritten(fb, ws \o part) = AllWritten(mid, part)
    BY <1>7, DrawnAfter DEF mid
  <2>6. QED BY <1>5, <2>4, <2>5
<1>10. QED BY <1>4, <1>8, <1>9 DEF Showing, TextTo

\* The items with more than a character.
Converts(it) == it.is \in {"%s", "%d", "%x", "%f"}

\* The lines between the strings of a conversion.
Pieced(f, d, pieces, n, row) ==
  f[0] = d /\ \A k \in Nat : k + 1 <= n => f[k + 1] = PieceDrawn(f[k], pieces[k + 1], row)

\* They end with the conversion.
LEMMA ConversionUnrolled ==
  ASSUME NEW d \in PrintedLine, NEW it, Converts(it), NEW pieces, pieces = Pieces(it),
         pieces \in Seq(Seq(Characters)), NEW n, n = Len(pieces), NEW row \in Int
  PROVE  \E f : Pieced(f, d, pieces, n, row) /\ Printed(d, it, row) = f[n]
<1> DEFINE g == CHOOSE h : PiecesFold(h, d, pieces, n, row)
<1>1. n \in Nat /\ DOMAIN pieces = 1 .. n
  OBVIOUS
<1>2. it.is # "\n" /\ it.is # "char"
  BY DEF Converts
<1>3. Printed(d, it, row) = g[1 .. n]
  BY <1>1, <1>2 DEF Printed, FoldLeft, MapThenFoldSet, PiecesFold
<1>4. \E h : PiecesFold(h, d, pieces, n, row)
  BY <1>1, PiecesAreDrawn
<1>5. PiecesFold(g, d, pieces, n, row)
  BY <1>4
<1> HIDE DEF g
<1>6. \A s \in SUBSET (1 .. n) :
        g[s] = IF s = {} THEN d ELSE PieceDrawn(g[s \ {Max(s)}], pieces[Max(s)], row)
  BY <1>5 DEF PiecesFold
<1>7. ASSUME NEW k \in Nat, k + 1 <= n
      PROVE  g[1 .. k + 1] = PieceDrawn(g[1 .. k], pieces[k + 1], row)
  <2> DEFINE s == 1 .. k + 1
             i == k + 1
  <2>1. s \in SUBSET (1 .. n) /\ s # {} /\ Max(s) = i /\ s \ {i} = 1 .. k
    BY <1>1, <1>7, Prefix
  <2> HIDE DEF s, i
  <2>2. g[s] = PieceDrawn(g[1 .. k], pieces[i], row)
    BY <1>6, <2>1
  <2>3. QED BY <2>2 DEF s, i
<1> DEFINE f == [k \in Nat |-> g[1 .. k]]
<1>8. \A k \in Nat : f[k] = g[1 .. k] /\ f[k + 1] = g[1 .. k + 1]
  OBVIOUS
<1>9. f[0] = d
  <2>1. 1 .. 0 = {} /\ 0 \in Nat
    OBVIOUS
  <2>2. f[0] = g[1 .. 0]
    BY <1>8
  <2>3. g[{}] = d
    BY <1>6
  <2>4. QED BY <2>1, <2>2, <2>3
<1> HIDE DEF f
<1>10. \A k \in Nat : k + 1 <= n => f[k + 1] = PieceDrawn(f[k], pieces[k + 1], row)
  BY <1>7, <1>8
<1>11. QED BY <1>1, <1>3, <1>8, <1>9, <1>10 DEF Pieced

\* A conversion shows its text.
LEMMA ConversionShows ==
  ASSUME NEW fb \in Frames, NEW found, NEW glyphs \in Seq(Placed), NEW line \in Nat,
         NEW row \in 0 .. totalRows - 1, NEW it, Converts(it), Printable(it),
         NEW text, text = Text(it), NEW wide, wide = Wide(it), wide \in Int,
         NEW d \in PrintedLine, Showing(fb, found, d.writes, glyphs, line, row),
         NEW m, m = Len(text), NEW column, column = d.column, NEW e, e = Printed(d, it, row)
  PROVE  TextTo(fb, found, e, glyphs, text, m, wide, line, column, row)
<1> DEFINE pieces == Pieces(it)
           n == Len(pieces)
<1>1. row \in Int /\ column \in Int /\ it.is \in {"%s", "%d", "%x", "%f"}
  BY TextRows DEF PrintedLine, Converts
<1>2. PICK o : Spells(pieces, text, wide, o)
  BY <1>1, ConversionSpells
<1> HIDE DEF pieces
<1>3. /\ pieces \in Seq(Seq(Characters)) /\ text \in Seq(Characters)
      /\ o \in [1 .. n + 1 -> Nat] /\ o[1] = 0 /\ o[n + 1] = m
      /\ \A j \in 1 .. n :
           /\ o[j + 1] = o[j] + Len(pieces[j])
           /\ \A k \in 1 .. Len(pieces[j]) :
                text[o[j] + k] = pieces[j][k] /\ Apart(o[j] + k, wide) = k - 1
  BY <1>2 DEF Spells
<1>4. pieces = Pieces(it)
  BY DEF pieces
<1>5. n = Len(pieces) /\ pieces \in Seq(Seq(Characters)) /\ row \in Int
  BY <1>1, <1>3
<1>6. n \in Nat /\ \A j \in 1 .. n : pieces[j] \in Seq(Characters) /\ Len(pieces[j]) \in Nat
  <2>1. n \in Nat /\ \A j \in 1 .. n : pieces[j] \in Seq(Characters)
    BY <1>3
  <2>2. QED BY <2>1
<1> HIDE DEF n
<1>7. PICK f : Pieced(f, d, pieces, n, row) /\ e = f[n]
  BY <1>1, <1>4, <1>5, ConversionUnrolled
<1>8. \A i \in 1 .. n + 1 : o[i] \in Nat /\ o[i] <= m
  <2> DEFINE T == {k \in Nat : k <= n => o[n + 1 - k] \in Nat /\ o[n + 1 - k] <= m}
  <2>1. 0 \in T
    <3>1. n + 1 - 0 = n + 1 /\ n + 1 \in 1 .. n + 1
      BY <1>6
    <3>2. o[n + 1] \in Nat
      BY <1>3, <3>1
    <3>3. QED BY <1>3, <3>1, <3>2
  <2>2. ASSUME NEW k \in Nat, k \in T PROVE k + 1 \in T
    <3>1. ASSUME k + 1 <= n PROVE o[n + 1 - (k + 1)] \in Nat /\ o[n + 1 - (k + 1)] <= m
      <4> DEFINE j == n - k
      <4>1. j \in 1 .. n /\ j \in 1 .. n + 1 /\ n + 1 - (k + 1) = j /\ n + 1 - k = j + 1
        BY <1>6, <3>1
      <4>2. o[j + 1] \in Nat /\ o[j + 1] <= m
        <5>1. k <= n /\ o[n + 1 - k] \in Nat /\ o[n + 1 - k] <= m
          BY <1>6, <2>2, <3>1
        <5>2. QED BY <4>1, <5>1
      <4> HIDE DEF j
      <4>3. o[j] \in Nat /\ o[j + 1] = o[j] + Len(pieces[j]) /\ Len(pieces[j]) \in Nat
        BY <1>3, <1>6, <4>1
      <4>4. m \in Nat
        BY <1>3
      <4>5. QED BY SMTT(20), <4>1, <4>2, <4>3, <4>4
    <3>2. QED BY <3>1
  <2> HIDE DEF T
  <2>3. Nat \subseteq T
    BY <2>1, <2>2, Induction
  <2>4. ASSUME NEW i \in 1 .. n + 1 PROVE o[i] \in Nat /\ o[i] <= m
    <3> DEFINE k == n + 1 - i
    <3>1. k \in Nat /\ k <= n /\ n + 1 - k = i
      BY <1>6
    <3> HIDE DEF k
    <3>2. QED BY <2>3, <3>1 DEF T
  <2>5. QED BY <2>4
<1> DEFINE Is(k) == TextTo(fb, found, f[k], glyphs, text, o[k + 1], wide, line, column, row)
           T == {k \in Nat : k <= n => Is(k)}
<1>9. 0 \in T
  <2>1. o[0 + 1] = 0 /\ f[0] = d
    BY <1>3, <1>7 DEF Pieced
  <2>2. column + 0 = column
    BY <1>1
  <2>3. Set(glyphs, text, 0, wide, line, column) = glyphs
    BY <1>1, <1>3, NothingSet
  <2>4. QED BY <2>1, <2>2, <2>3 DEF TextTo
<1>10. ASSUME NEW k \in Nat, k \in T PROVE k + 1 \in T
  <2>1. ASSUME k + 1 <= n PROVE Is(k + 1)
    <3> DEFINE i == k + 1
               s == pieces[i]
               a == o[i]
               b == o[i + 1]
    <3>1. i \in 1 .. n /\ i \in 1 .. n + 1 /\ i + 1 \in 1 .. n + 1
      BY <1>6, <2>1
    <3>2. Is(k)
      BY <1>6, <1>10, <2>1
    <3>3. f[i] = PieceDrawn(f[k], s, row)
      BY <1>7, <2>1 DEF Pieced
    <3>4. PartOf(s, text, wide, a, b)
      <4>1. s \in Seq(Characters) /\ a \in Nat /\ b <= m /\ b = a + Len(s)
        BY <1>3, <1>6, <1>8, <3>1
      <4>2. \A j \in 1 .. Len(s) : text[a + j] = s[j] /\ Apart(a + j, wide) = j - 1
        BY <1>3, <3>1
      <4>3. QED BY <1>3, <4>1, <4>2 DEF PartOf
    <3> DEFINE now == f[k]
               next == f[i]
    <3>5. next = PieceDrawn(now, s, row) /\ TextTo(fb, found, now, glyphs, text, a, wide, line, column, row)
      BY <3>2, <3>3
    <3> HIDE DEF i, s, a, b, now, next
    <3>6. column \in Int
      BY <1>1
    <3>7. TextTo(fb, found, next, glyphs, text, b, wide, line, column, row)
      BY <3>4, <3>5, <3>6, PieceShows
    <3>8. QED BY <3>7 DEF i, b, next
  <2>2. QED BY <2>1
<1> HIDE DEF T
<1>11. n \in T
  BY <1>6, <1>9, <1>10, Induction
<1>12. Is(n)
  BY <1>6, <1>11 DEF T
<1>13. QED BY <1>3, <1>7, <1>12

-----------------------------------------------------------------------------
(* Items.                                                                   *)

\* A page that is being set.
Pages == [glyphs : Seq(Placed), line : Nat, column : Int]

\* A line break begins a line.
LEMMA LineBreakIsSet ==
  ASSUME NEW page \in Pages, NEW it, it.is = "\n", NEW next, next = SetItem(page, it)
  PROVE  next \in Pages /\ next.glyphs = page.glyphs /\ next.line = page.line + 1 /\ next.column = 0
<1>1. next = [page EXCEPT !.line = @ + 1, !.column = 0]
  BY DEF SetItem
<1>2. page.glyphs \in Seq(Placed) /\ page.line \in Nat /\ page.column \in Int
      /\ page = [glyphs |-> page.glyphs, line |-> page.line, column |-> page.column]
  BY DEF Pages
<1> DEFINE line == page.line + 1
           glyphs == page.glyphs
<1>3. next = [glyphs |-> glyphs, line |-> line, column |-> 0]
  BY <1>1, <1>2
<1>4. line \in Nat /\ glyphs \in Seq(Placed)
  BY <1>2
<1> HIDE DEF line, glyphs
<1>5. next \in Pages /\ next.glyphs = glyphs /\ next.line = line /\ next.column = 0
  BY <1>3, <1>4 DEF Pages
<1>6. QED BY <1>5 DEF line, glyphs

\* Anything else is set in the line.
LEMMA TextIsSet ==
  ASSUME NEW page \in Pages, NEW it, it.is # "\n", NEW text, text = Text(it), text \in Seq(Characters),
         NEW wide, wide = Wide(it), wide \in Int, NEW m, m = Len(text),
         NEW next, next = SetItem(page, it)
  PROVE  /\ next \in Pages
         /\ next.glyphs = Set(page.glyphs, text, m, wide, page.line, page.column)
         /\ next.line = page.line /\ next.column = page.column + m
<1> DEFINE line == page.line
           column == page.column
           glyphs == page.glyphs
<1>1. m \in Nat /\ m \in 0 .. Len(text) /\ DOMAIN text = 1 .. m
  OBVIOUS
<1>2. /\ glyphs \in Seq(Placed) /\ line \in Nat /\ column \in Int
      /\ page = [glyphs |-> glyphs, line |-> line, column |-> column]
  BY DEF Pages
<1> DEFINE more == [k \in 1 .. m |-> Setting(text, k, wide, line, column)]
           past == column + m
           all == glyphs \o more
<1>3. next = [page EXCEPT !.glyphs = @ \o more, !.column = @ + m]
  BY <1>1 DEF SetItem, Setting, SetAt, Apart
<1> HIDE DEF more
<1>4. next = [glyphs |-> all, line |-> line, column |-> past]
  BY <1>2, <1>3
<1>5. past \in Int
  BY <1>1, <1>2
<1>6. all = Set(glyphs, text, m, wide, line, column)
  BY DEF Set, more
<1> HIDE DEF all, past, glyphs, line, column
<1>7. all \in Seq(Placed)
  <2>1. line \in Int
    BY <1>2
  <2>2. QED BY <1>1, <1>2, <1>6, <2>1, SetIs
<1>8. next \in Pages /\ next.glyphs = all /\ next.line = line /\ next.column = past
  BY <1>2, <1>4, <1>5, <1>7 DEF Pages
<1>9. QED BY <1>6, <1>8 DEF glyphs, line, column, past

\* What is set of an item other than a line break.
LEMMA ItemText ==
  ASSUME NEW it, Printable(it), it.is # "\n"
  PROVE  /\ Text(it) \in Seq(Characters) /\ Wide(it) \in Int
         /\ \/ it.is = "char" /\ it.c \in Characters /\ Text(it) = <<it.c>> /\ Wide(it) = 1
            \/ it.is \in {"%s", "%d", "%x", "%f"}
<1>1. CASE it.is = "char"
  <2>1. it.c \in Characters
    BY <1>1 DEF Printable, Characters
  <2>2. Text(it) = <<it.c>> /\ Wide(it) = 1
    BY <1>1 DEF Text, Wide
  <2>3. QED BY <1>1, <2>1, <2>2
<1>2. CASE it.is \in {"%s", "%d", "%x", "%f"}
  <2>1. PICK o : Spells(Pieces(it), Text(it), Wide(it), o)
    BY <1>2, ConversionSpells
  <2>2. Text(it) \in Seq(Characters)
    BY <2>1 DEF Spells
  <2>3. Wide(it) \in Int
    <3>1. CASE it.is = "%s"
      <4>1. Wide(it) = Len(it.s) /\ it.s \in Seq(STRING)
        BY <3>1 DEF Wide, Printable
      <4>2. QED BY <4>1
    <3>2. CASE it.is # "%s"
      BY <3>2 DEF Wide
    <3>3. QED BY <3>1, <3>2
  <2>4. QED BY <1>2, <2>2, <2>3
<1>3. QED BY <1>1, <1>2 DEF Printable

\* What has been written shows what has been set.
Matches(d, page, fb, found, row) ==
  /\ d \in PrintedLine /\ page \in Pages /\ d.column = page.column
  /\ \A i \in 1 .. Len(page.glyphs) : page.glyphs[i].line <= page.line
  /\ Showing(fb, found, d.writes, page.glyphs, page.line, row)

\* A line break scrolls the page.
LEMMA LineBreakMatches ==
  ASSUME NEW fb \in Frames, NEW found, NEW row \in 0 .. totalRows - 1, NEW it, it.is = "\n",
         NEW d, NEW page, Matches(d, page, fb, found, row), NEW e, e = Printed(d, it, row),
         NEW next, next = SetItem(page, it)
  PROVE  Matches(e, next, fb, found, row)
<1> DEFINE ws == d.writes
           glyphs == page.glyphs
           line == page.line
           after == line + 1
<1>1. /\ ws \in Seq(Prints) /\ glyphs \in Seq(Placed) /\ line \in Nat /\ page \in Pages
      /\ \A i \in 1 .. Len(glyphs) : glyphs[i].line <= line
      /\ Showing(fb, found, ws, glyphs, line, row)
  BY DEF Matches, PrintedLine, Pages
<1>2. next \in Pages /\ next.glyphs = glyphs /\ next.line = after /\ next.column = 0
  BY <1>1, LineBreakIsSet
<1>3. createNewLine \in Seq(Prints)
  BY NewLineIsSafe, SafeIs
<1> HIDE DEF ws
<1> DEFINE more == ws \o createNewLine
<1>4. more \in Seq(Prints)
  BY <1>1, <1>3, Joined
<1>5. e = [writes |-> more, column |-> 0]
  BY DEF Printed, ws
<1> HIDE DEF more
<1>6. e \in PrintedLine /\ e.writes = more /\ e.column = 0
  BY <1>4, <1>5 DEF PrintedLine
<1> HIDE DEF glyphs, line
<1>7. after \in Nat /\ after = line + 1
  BY <1>1
<1> HIDE DEF after
<1>8. \A i \in 1 .. Len(glyphs) : glyphs[i].line <= after
  <2> SUFFICES ASSUME NEW i \in 1 .. Len(glyphs) PROVE glyphs[i].line <= after
    OBVIOUS
  <2>1. glyphs[i] \in Placed /\ glyphs[i].line <= line
    BY <1>1
  <2>2. glyphs[i].line \in Int
    BY <2>1 DEF Placed
  <2>3. QED BY <1>1, <1>7, <2>1, <2>2
<1>9. ASSUME Fits(more, row)
      PROVE  Shows(AllWritten(fb, more), found, glyphs, after, row)
  <2>1. ws \in Seq(Strokes) /\ createNewLine \in Seq(Strokes)
    BY <1>1, <1>3 DEF Prints
  <2>2. Fits(ws, row)
    BY <1>9, <2>1, FitsBoth DEF more
  <2> DEFINE mid == AllWritten(fb, ws)
  <2>3. mid \in Frames /\ Shows(mid, found, glyphs, line, row)
    BY <1>1, <2>1, <2>2, DrawnType DEF Showing
  <2>4. AllWritten(fb, more) = AllWritten(mid, createNewLine)
    BY <2>1, DrawnAfter DEF more
  <2> HIDE DEF mid
  <2>5. Shows(AllWritten(mid, createNewLine), found, glyphs, after, row)
    BY <1>1, <1>7, <2>3, LineBreakOnPage
  <2>6. QED BY <2>4, <2>5
<1>10. QED BY <1>2, <1>6, <1>8, <1>9 DEF Matches, Showing

\* A text is drawn where it is set.
LEMMA TextMatches ==
  ASSUME NEW fb \in Frames, NEW found, NEW row \in 0 .. totalRows - 1,
         NEW it, Printable(it), it.is # "\n",
         NEW d, NEW page, Matches(d, page, fb, found, row), NEW e, e = Printed(d, it, row),
         NEW next, next = SetItem(page, it)
  PROVE  Matches(e, next, fb, found, row)
<1> DEFINE text == Text(it)
           wide == Wide(it)
           m == Len(text)
           glyphs == page.glyphs
           line == page.line
           column == d.column
           ws == d.writes
           all == Set(glyphs, text, m, wide, line, column)
<1>1. /\ d \in PrintedLine /\ glyphs \in Seq(Placed) /\ line \in Nat /\ page \in Pages
      /\ column \in Int /\ column = page.column
      /\ \A i \in 1 .. Len(glyphs) : glyphs[i].line <= line
      /\ Showing(fb, found, ws, glyphs, line, row)
  BY DEF Matches, PrintedLine, Pages
<1>2. text \in Seq(Characters) /\ wide \in Int
  BY ItemText
<1>3. text = Text(it) /\ wide = Wide(it) /\ m = Len(text)
  OBVIOUS
<1>4. line \in Int
  BY <1>1
<1> HIDE DEF text, wide, m
<1>5. /\ next \in Pages /\ next.glyphs = Set(page.glyphs, text, m, wide, page.line, page.column)
      /\ next.line = page.line /\ next.column = page.column + m
  BY <1>1, <1>2, <1>3, <1>4, TextIsSet
<1>6. next.glyphs = all /\ next.line = line /\ next.column = column + m
  BY <1>1, <1>5
<1> HIDE DEF glyphs, line, column, ws
<1>7. TextTo(fb, found, e, glyphs, text, m, wide, line, column, row)
  <2>1. CASE it.is \in {"%s", "%d", "%x", "%f"}
    <3>1. Showing(fb, found, d.writes, glyphs, line, row) /\ column = d.column
      BY <1>1 DEF ws, column
    <3>2. d \in PrintedLine /\ glyphs \in Seq(Placed) /\ line \in Nat /\ wide \in Int /\ Converts(it)
      BY <1>1, <1>2, <1>4, <2>1 DEF Converts
    <3>3. QED BY <1>3, <3>1, <3>2, ConversionShows
  <2>2. CASE it.is = "char"
    <3>1. it.c \in Characters /\ text = <<it.c>> /\ wide = 1
      BY <1>3, <2>2, ItemText
    <3>2. e = PieceDrawn(d, text, row)
      BY <2>2, <3>1 DEF Printed
    <3>3. Len(text) = 1 /\ m = 1
      <4>1. Len(<<it.c>>) = 1
        OBVIOUS
      <4>2. QED BY <1>3, <3>1, <4>1
    <3>4. PartOf(text, text, wide, 0, m)
      <4>1. \A k \in 1 .. Len(text) : text[0 + k] = text[k] /\ Apart(0 + k, wide) = k - 1
        <5>1. \A k \in 1 .. 1 : k = 1 /\ 0 + k = k /\ Apart(k, 1) = k - 1
          BY DEF Apart
        <5>2. QED BY <3>1, <3>3, <5>1
      <4>2. 0 \in Nat /\ m = 0 + Len(text) /\ m <= Len(text)
        BY <3>3
      <4>3. QED BY <1>2, <4>1, <4>2 DEF PartOf
    <3>5. TextTo(fb, found, d, glyphs, text, 0, wide, line, column, row)
      <4>1. column + 0 = column
        BY <1>1
      <4>2. Set(glyphs, text, 0, wide, line, column) = glyphs
        BY <1>1, <1>2, <1>3, NothingSet
      <4>3. QED BY <1>1, <4>1, <4>2 DEF TextTo, column, ws
    <3>6. QED BY <1>1, <1>2, <3>2, <3>4, <3>5, PieceShows
  <2>3. QED BY <2>1, <2>2, ItemText
<1>8. /\ e \in PrintedLine /\ e.column = column + m
      /\ Showing(fb, found, e.writes, all, line, row)
  BY <1>7 DEF TextTo
<1>9. \A i \in 1 .. Len(all) : all[i].line <= line
  <2>1. /\ glyphs \in Seq(Placed) /\ text \in Seq(Characters) /\ wide \in Int /\ line \in Int
        /\ column \in Int /\ m \in 0 .. Len(text) /\ all = Set(glyphs, text, m, wide, line, column)
    BY <1>1, <1>2, <1>3
  <2>2. \A i \in 1 .. Len(glyphs) : glyphs[i].line <= line
    BY <1>1
  <2> HIDE DEF all
  <2>3. QED BY <2>1, <2>2, SetLines
<1> HIDE DEF all
<1>10. QED BY <1>5, <1>6, <1>8, <1>9 DEF Matches

\* An item is drawn where it is set.
LEMMA ItemMatches ==
  ASSUME NEW fb \in Frames, NEW found, NEW row \in 0 .. totalRows - 1, NEW it, Printable(it),
         NEW d, NEW page, Matches(d, page, fb, found, row), NEW e, e = Printed(d, it, row),
         NEW next, next = SetItem(page, it)
  PROVE  Matches(e, next, fb, found, row)
<1>1. CASE it.is = "\n"
  BY <1>1, LineBreakMatches
<1>2. CASE it.is # "\n"
  BY <1>2, TextMatches
<1>3. QED BY <1>1, <1>2

\* Pages stay pages.
LEMMA SetItemType ==
  ASSUME NEW page \in Pages, NEW it, Printable(it)
  PROVE  SetItem(page, it) \in Pages
<1>1. CASE it.is = "\n"
  BY <1>1, LineBreakIsSet
<1>2. CASE it.is # "\n"
  BY <1>2, TextIsSet, ItemText
<1>3. QED BY <1>1, <1>2

\* Items that can be printed.
PrintableAll(items, n) ==
  n \in Nat /\ n = Len(items) /\ DOMAIN items = 1 .. n /\ \A i \in 1 .. n : Printable(items[i])

\* The lines between the items of a call.
LinesPrinted(f, items, column, n, row) ==
  /\ f[0] = NothingPrinted(column)
  /\ \A k \in Nat : k + 1 <= n => f[k + 1] = Printed(f[k], items[k + 1], row)

\* They end with what the call writes.
LEMMA ArgsUnrolled ==
  ASSUME NEW items, NEW n, PrintableAll(items, n), NEW column \in Int, NEW row \in Int
  PROVE  \E f : LinesPrinted(f, items, column, n, row) /\ PrintArgs(items, column, row) = f[n].writes
<1> DEFINE g == CHOOSE h : ItemsFold(h, items, column, n, row)
<1>1. n \in Nat /\ n = Len(items) /\ DOMAIN items = 1 .. n /\ \A i \in 1 .. n : Printable(items[i])
  BY DEF PrintableAll
<1>2. PrintArgs(items, column, row) = g[1 .. n].writes
  BY <1>1 DEF PrintArgs, FoldLeft, MapThenFoldSet, ItemsFold, NothingPrinted
<1>3. ItemsFold(g, items, column, n, row)
  <2>1. \E h : ItemsFold(h, items, column, n, row)
    BY <1>1, ArgsFold
  <2>2. QED BY <2>1
<1> HIDE DEF g
<1>4. \A s \in SUBSET (1 .. n) :
        g[s] = IF s = {} THEN NothingPrinted(column)
                         ELSE Printed(g[s \ {Max(s)}], items[Max(s)], row)
  BY <1>3 DEF ItemsFold
<1>5. ASSUME NEW k \in Nat, k + 1 <= n
      PROVE  g[1 .. k + 1] = Printed(g[1 .. k], items[k + 1], row)
  <2> DEFINE s == 1 .. k + 1
             i == k + 1
  <2>1. s \in SUBSET (1 .. n) /\ s # {} /\ Max(s) = i /\ s \ {i} = 1 .. k
    BY <1>1, <1>5, Prefix
  <2> HIDE DEF s, i
  <2>2. g[s] = Printed(g[1 .. k], items[i], row)
    BY <1>4, <2>1
  <2>3. QED BY <2>2 DEF s, i
<1> DEFINE f == [k \in Nat |-> g[1 .. k]]
<1>6. \A k \in Nat : f[k] = g[1 .. k] /\ f[k + 1] = g[1 .. k + 1]
  OBVIOUS
<1>7. f[0] = NothingPrinted(column)
  <2>1. 1 .. 0 = {} /\ 0 \in Nat
    OBVIOUS
  <2>2. f[0] = g[1 .. 0]
    BY <1>6
  <2>3. g[{}] = NothingPrinted(column)
    BY <1>4
  <2>4. QED BY <2>1, <2>2, <2>3
<1> HIDE DEF f
<1>8. \A k \in Nat : k + 1 <= n => f[k + 1] = Printed(f[k], items[k + 1], row)
  BY <1>5, <1>6
<1>9. QED BY <1>1, <1>2, <1>6, <1>7, <1>8 DEF LinesPrinted

\* The fold over the items of a page.
NothingSetYet(column) == [glyphs |-> <<>>, line |-> 0, column |-> column]

PageFold(g, items, column, n) ==
  g = [s \in SUBSET (1 .. n) |->
         IF s = {} THEN NothingSetYet(column) ELSE SetItem(g[s \ {Max(s)}], items[Max(s)])]

\* There is one.
LEMMA PageFolds ==
  ASSUME NEW items, NEW n \in Nat, \A i \in 1 .. n : Printable(items[i]), NEW column \in Int
  PROVE  \E h : PageFold(h, items, column, n)
<1>1. NothingSetYet(column) \in Pages
  BY DEF NothingSetYet, Pages
<1> DEFINE H == [i \in 1 .. n |-> [a \in Pages |-> SetItem(a, items[i])]]
<1>2. H \in [1 .. n -> [Pages -> Pages]]
  BY SetItemType
<1>3. \A i \in 1 .. n, a \in Pages : H[i][a] = SetItem(a, items[i])
  OBVIOUS
<1> HIDE DEF H
<1>4. PICK h : FoldOf(Pages, NothingSetYet(column), H, n, h)
  BY <1>1, <1>2, FoldExists
<1>5. ASSUME NEW s \in SUBSET (1 .. n)
      PROVE  h[s] = IF s = {} THEN NothingSetYet(column) ELSE SetItem(h[s \ {Max(s)}], items[Max(s)])
  <2>1. CASE s = {}
    BY <1>4, <2>1 DEF FoldOf
  <2>2. CASE s # {}
    <3>1. Max(s) \in s
      BY <2>2, MaxIsIn
    <3>2. h[s \ {Max(s)}] \in Pages /\ h[s] = H[Max(s)][h[s \ {Max(s)}]]
      BY <1>4, <2>2 DEF FoldOf
    <3>3. QED BY <1>3, <2>2, <3>1, <3>2
  <2>3. QED BY <2>1, <2>2
<1>6. h = [s \in SUBSET (1 .. n) |-> h[s]]
  BY <1>4 DEF FoldOf
<1>7. PageFold(h, items, column, n)
  <2>1. h = [s \in SUBSET (1 .. n) |->
               IF s = {} THEN NothingSetYet(column) ELSE SetItem(h[s \ {Max(s)}], items[Max(s)])]
    BY <1>5, <1>6
  <2>2. QED BY <2>1 DEF PageFold
<1>8. QED BY <1>7

\* The pages between the items.
PagesSet(q, items, page, n) ==
  /\ q[0] = page
  /\ \A k \in Nat : k + 1 <= n => q[k + 1] = SetItem(q[k], items[k + 1])

\* They end with the page of the items.
LEMMA PageUnrolled ==
  ASSUME NEW items, NEW n, PrintableAll(items, n), NEW column \in Int
  PROVE  \E q : PagesSet(q, items, NothingSetYet(column), n) /\ Page(items, column) = q[n]
<1> DEFINE g == CHOOSE h : PageFold(h, items, column, n)
<1>1. n \in Nat /\ n = Len(items) /\ DOMAIN items = 1 .. n /\ \A i \in 1 .. n : Printable(items[i])
  BY DEF PrintableAll
<1>2. Page(items, column) = g[1 .. n]
  BY <1>1 DEF Page, FoldLeft, MapThenFoldSet, PageFold, NothingSetYet
<1>3. PageFold(g, items, column, n)
  <2>1. \E h : PageFold(h, items, column, n)
    BY <1>1, PageFolds
  <2>2. QED BY <2>1
<1> HIDE DEF g
<1>4. \A s \in SUBSET (1 .. n) :
        g[s] = IF s = {} THEN NothingSetYet(column) ELSE SetItem(g[s \ {Max(s)}], items[Max(s)])
  BY <1>3 DEF PageFold
<1>5. ASSUME NEW k \in Nat, k + 1 <= n
      PROVE  g[1 .. k + 1] = SetItem(g[1 .. k], items[k + 1])
  <2> DEFINE s == 1 .. k + 1
             i == k + 1
  <2>1. s \in SUBSET (1 .. n) /\ s # {} /\ Max(s) = i /\ s \ {i} = 1 .. k
    BY <1>1, <1>5, Prefix
  <2> HIDE DEF s, i
  <2>2. g[s] = SetItem(g[1 .. k], items[i])
    BY <1>4, <2>1
  <2>3. QED BY <2>2 DEF s, i
<1> DEFINE q == [k \in Nat |-> g[1 .. k]]
<1>6. \A k \in Nat : q[k] = g[1 .. k] /\ q[k + 1] = g[1 .. k + 1]
  OBVIOUS
<1>7. q[0] = NothingSetYet(column)
  <2>1. 1 .. 0 = {} /\ 0 \in Nat
    OBVIOUS
  <2>2. q[0] = g[1 .. 0]
    BY <1>6
  <2>3. g[{}] = NothingSetYet(column)
    BY <1>4
  <2>4. QED BY <2>1, <2>2, <2>3
<1> HIDE DEF q
<1>8. \A k \in Nat : k + 1 <= n => q[k + 1] = SetItem(q[k], items[k + 1])
  BY <1>5, <1>6
<1>9. QED BY <1>1, <1>2, <1>6, <1>7, <1>8 DEF PagesSet

\* Items are drawn where they are set, one after the other.
LEMMA ItemsMatch ==
  ASSUME NEW fb \in Frames, NEW found, NEW row \in 0 .. totalRows - 1,
         NEW items, NEW n, PrintableAll(items, n), NEW column, NEW f, LinesPrinted(f, items, column, n, row),
         NEW page, NEW q, PagesSet(q, items, page, n),
         NEW blank, blank = NothingPrinted(column), Matches(blank, page, fb, found, row)
  PROVE  \E d, last : d = f[n] /\ last = q[n] /\ Matches(d, last, fb, found, row)
<1>1. n \in Nat /\ \A i \in 1 .. n : Printable(items[i])
  BY DEF PrintableAll
<1> DEFINE Is(k) == Matches(f[k], q[k], fb, found, row)
           T == {k \in Nat : k <= n => Is(k)}
<1>2. 0 \in T
  BY DEF LinesPrinted, PagesSet
<1>3. ASSUME NEW k \in Nat, k \in T PROVE k + 1 \in T
  <2>1. ASSUME k + 1 <= n PROVE Is(k + 1)
    <3> DEFINE i == k + 1
               it == items[i]
               now == f[k]
               then == f[i]
               one == q[k]
               two == q[i]
    <3>1. k <= n /\ i \in 1 .. n
      BY <1>1, <2>1
    <3>2. Matches(now, one, fb, found, row)
      BY <1>3, <3>1
    <3>3. then = Printed(now, it, row) /\ two = SetItem(one, it)
      BY <2>1 DEF LinesPrinted, PagesSet
    <3>4. Printable(it)
      BY <1>1, <3>1
    <3> HIDE DEF i, it, now, then, one, two
    <3>5. Matches(then, two, fb, found, row)
      BY <3>2, <3>3, <3>4, ItemMatches
    <3>6. QED BY <3>5 DEF then, two, i
  <2>2. QED BY <2>1
<1> HIDE DEF T
<1>4. n \in T
  BY <1>1, <1>2, <1>3, Induction
<1>5. QED BY <1>1, <1>4 DEF T

-----------------------------------------------------------------------------
(* Calls.                                                                   *)

\* Before the first item.
LEMMA NothingMatches ==
  ASSUME NEW fb \in Frames, NEW found, NEW row \in 0 .. totalRows - 1, NEW column \in Int,
         NEW page \in Pages, page.glyphs = <<>>, page.column = column,
         Shows(fb, found, <<>>, page.line, row), NEW blank, blank = NothingPrinted(column)
  PROVE  Matches(blank, page, fb, found, row)
<1>1. <<>> \in Seq(Prints) /\ Len(<<>>) = 0
  OBVIOUS
<1>2. blank \in PrintedLine /\ blank.writes = <<>> /\ blank.column = column
  BY <1>1 DEF NothingPrinted, PrintedLine
<1>3. Shows(AllWritten(fb, <<>>), found, <<>>, page.line, row)
  BY NothingDrawn
<1>4. \A i \in 1 .. Len(page.glyphs) : page.glyphs[i].line <= page.line
  BY <1>1
<1>5. QED BY <1>2, <1>3, <1>4 DEF Matches, Showing

\* What was asked for is on the screen.
Appears(fb, call) ==
  \A p \in Pixels : RowOf(p) < InputTop => AllWritten(fb, Writes(call))[p] = Expected(p, call, fb)

\* What is asked of the items of a call.
ItemsOf(items, n, call) ==
  /\ items = call.items /\ items \in Seq(Range(items)) /\ PrintableAll(items, n)
  /\ Writes(call) \in Seq(Prints) /\ Fits(Writes(call), TextRow(call))

\* A page that is shown in the line of text a call writes to.
LEMMA PageAppears ==
  ASSUME NEW fb, NEW call, call.is \in {"Println", "Print"}, NEW page, page = PageOf(call),
         NEW row, row = TextRow(call),
         Shows(AllWritten(fb, Writes(call)), fb, page.glyphs, page.line, row)
  PROVE  Appears(fb, call)
<1> SUFFICES ASSUME NEW p \in Pixels, RowOf(p) < InputTop
             PROVE  AllWritten(fb, Writes(call))[p] = Expected(p, call, fb)
  BY DEF Appears
<1>1. Expected(p, call, fb) = Printout(p, page, row, fb)
  BY DEF Expected
<1>2. Printout(p, page, row, fb) = Seen(p, page.glyphs, page.line, row, fb)
  BY DEF Printout, Seen, Stands
<1>3. AllWritten(fb, Writes(call))[p] = Seen(p, page.glyphs, page.line, row, fb)
  BY DEF Shows
<1>4. QED BY <1>1, <1>2, <1>3

\* Print, from a column of a line on.
LEMMA PrintAppears ==
  ASSUME NEW fb \in Frames, NEW call, call.is = "Print", NEW items, NEW n, ItemsOf(items, n, call),
         NEW column \in Int, column = call.column, NEW row \in 0 .. totalRows - 1, row = call.row
  PROVE  Appears(fb, call)
<1>1. items = call.items /\ PrintableAll(items, n)
  BY DEF ItemsOf
<1>2. row \in Int /\ row = TextRow(call) /\ Fits(Writes(call), row)
  BY TextRows DEF TextRow, ItemsOf
<1>3. Writes(call) = PrintArgs(items, column, row) /\ PageOf(call) = Page(items, column)
  BY <1>1 DEF Writes, PageOf
<1>4. PICK f : LinesPrinted(f, items, column, n, row) /\ PrintArgs(items, column, row) = f[n].writes
  BY <1>1, <1>2, ArgsUnrolled
<1> DEFINE page == NothingSetYet(column)
           blank == NothingPrinted(column)
<1>5. PICK q : PagesSet(q, items, page, n) /\ Page(items, column) = q[n]
  BY <1>1, PageUnrolled
<1>6. page \in Pages /\ page.glyphs = <<>> /\ page.column = column /\ page.line = 0
  BY DEF NothingSetYet, Pages
<1>7. Shows(fb, fb, <<>>, page.line, row)
  BY <1>6, NothingShows
<1> HIDE DEF page
<1>8. Matches(blank, page, fb, fb, row)
  BY <1>6, <1>7, NothingMatches
<1>9. blank = NothingPrinted(column)
  OBVIOUS
<1> HIDE DEF blank
<1>10. PICK d, last : d = f[n] /\ last = q[n] /\ Matches(d, last, fb, fb, row)
  BY <1>1, <1>4, <1>5, <1>8, <1>9, ItemsMatch
<1>11. d.writes = Writes(call) /\ last = PageOf(call)
  BY <1>3, <1>4, <1>5, <1>10
<1>12. Shows(AllWritten(fb, Writes(call)), fb, last.glyphs, last.line, row)
  BY <1>2, <1>10, <1>11 DEF Matches, Showing
<1>13. QED BY <1>2, <1>11, <1>12, PageAppears

\* Println, after a line break, in the last line of the text.
LEMMA PrintlnAppears ==
  ASSUME NEW fb \in Frames, NEW call, call.is = "Println", NEW items, NEW n, ItemsOf(items, n, call)
  PROVE  Appears(fb, call)
<1> DEFINE row == totalRows - 1
           br == [is |-> "\n"]
           all == <<br>> \o items
           m == n + 1
<1>1. items = call.items /\ PrintableAll(items, n)
  BY DEF ItemsOf
<1>2. n \in Nat /\ n = Len(items) /\ DOMAIN items = 1 .. n /\ \A i \in 1 .. n : Printable(items[i])
  BY <1>1 DEF PrintableAll
<1>3. /\ row \in Int /\ row \in 0 .. totalRows - 1 /\ row = TextRow(call)
      /\ Writes(call) \in Seq(Prints) /\ Fits(Writes(call), row)
  <2>1. totalRows \in Nat /\ totalRows >= 2
    BY Screen DEF totalRows
  <2>2. QED BY <2>1 DEF TextRow, ItemsOf
<1>4. br.is = "\n" /\ Printable(br)
  BY DEF Printable
<1> DEFINE one == <<br>>
           S == Range(items) \cup {br}
<1>5. one \in Seq(S) /\ items \in Seq(S) /\ Len(one) = 1 /\ one[1] = br
  <2>1. items \in Seq(Range(items))
    BY DEF ItemsOf
  <2> HIDE DEF br
  <2>2. QED BY <2>1
<1> HIDE DEF br, S, one
<1>6. /\ m \in Nat /\ m = Len(all) /\ DOMAIN all = 1 .. m /\ all[1] = br
      /\ \A i \in 1 .. n : all[1 + i] = items[i]
  <2>1. one \in Seq(S) /\ items \in Seq(S)
    BY <1>5
  <2>2. /\ one \o items \in Seq(S) /\ Len(one \o items) = Len(one) + Len(items)
        /\ \A i \in 1 .. Len(one) : (one \o items)[i] = one[i]
        /\ \A i \in 1 .. Len(items) : (one \o items)[Len(one) + i] = items[i]
    BY <2>1, Joined
  <2>3. one \o items = all
    BY DEF one
  <2> HIDE DEF all
  <2>4. all \in Seq(S) /\ Len(all) = 1 + n
    BY <1>2, <1>5, <2>2, <2>3
  <2>5. DOMAIN all = 1 .. Len(all)
    BY <2>4
  <2>6. all[1] = br /\ \A i \in 1 .. n : all[1 + i] = items[i]
    BY <1>2, <1>5, <2>2, <2>3
  <2>7. QED BY <1>2, <2>4, <2>5, <2>6
<1>7. PageOf(call) = Page(all, 0)
  BY <1>1 DEF PageOf, br
<1> DEFINE args == PrintArgs(items, 0, row)
<1>8. Writes(call) = createNewLine \o args
  BY <1>1 DEF Writes, Println
<1> HIDE DEF row, all, m
<1>9. PICK f : LinesPrinted(f, items, 0, n, row) /\ args = f[n].writes
  <2>1. 0 \in Int
    OBVIOUS
  <2>2. QED BY <1>1, <1>3, <2>1, ArgsUnrolled
<1>10. \A i \in 1 .. m : Printable(all[i])
  <2> SUFFICES ASSUME NEW i \in 1 .. m PROVE Printable(all[i])
    OBVIOUS
  <2>1. CASE i = 1
    BY <1>4, <1>6, <2>1
  <2>2. CASE i # 1
    <3>1. i - 1 \in 1 .. n /\ 1 + (i - 1) = i
      BY <1>2, <2>2 DEF m
    <3>2. all[1 + (i - 1)] = items[i - 1]
      BY <1>6, <3>1
    <3>3. QED BY <1>2, <3>1, <3>2
  <2>3. QED BY <2>1, <2>2
<1>11. PrintableAll(all, m)
  BY <1>6, <1>10 DEF PrintableAll
<1> DEFINE start == NothingSetYet(0)
<1>12. PICK g : PagesSet(g, all, start, m) /\ Page(all, 0) = g[m]
  BY <1>11, PageUnrolled
<1> DEFINE q == [k \in Nat |-> g[k + 1]]
           page == g[1]
<1>13. \A k \in Nat : q[k] = g[k + 1]
  OBVIOUS
<1>14. PagesSet(q, items, page, n) /\ q[n] = g[m]
  <2>1. q[0] = page /\ q[n] = g[m]
    <3>1. 0 \in Nat /\ 0 + 1 = 1
      OBVIOUS
    <3>2. QED BY <1>2, <1>13, <3>1 DEF m
  <2>2. ASSUME NEW k \in Nat, k + 1 <= n PROVE q[k + 1] = SetItem(q[k], items[k + 1])
    <3> DEFINE i == k + 1
    <3>1. i \in Nat /\ i + 1 <= m /\ i \in 1 .. n /\ i + 1 = 1 + i
      BY <1>2, <2>2 DEF m
    <3>2. q[i] = g[i + 1] /\ q[k] = g[i]
      BY <1>13, <3>1
    <3> HIDE DEF q, i
    <3>3. g[i + 1] = SetItem(g[i], all[i + 1])
      BY <1>12, <3>1 DEF PagesSet
    <3>4. all[i + 1] = items[i]
      BY <1>6, <3>1
    <3>5. q[i] = SetItem(q[k], items[i])
      BY <3>2, <3>3, <3>4
    <3>6. QED BY <3>5 DEF i
  <2> HIDE DEF q, page
  <2>3. QED BY <2>1, <2>2 DEF PagesSet
<1> HIDE DEF q
<1>15. page = SetItem(start, br)
  <2>1. 0 \in Nat /\ 0 + 1 = 1 /\ 0 + 1 <= m
    BY <1>2 DEF m
  <2>2. g[0] = start /\ g[0 + 1] = SetItem(g[0], all[0 + 1])
    BY <1>12, <2>1 DEF PagesSet
  <2>3. QED BY <1>6, <2>1, <2>2
<1>16. start \in Pages /\ start.glyphs = <<>> /\ start.line = 0
  BY DEF NothingSetYet, Pages
<1> HIDE DEF start, page
<1>17. page \in Pages /\ page.glyphs = <<>> /\ page.line = 1 /\ page.column = 0
  <2>1. page \in Pages /\ page.glyphs = start.glyphs /\ page.line = start.line + 1 /\ page.column = 0
    BY <1>4, <1>15, <1>16, LineBreakIsSet
  <2>2. QED BY <1>16, <2>1
<1> DEFINE base == AllWritten(fb, createNewLine)
<1>18. createNewLine \in Seq(Strokes)
  BY NewLineIsSafe, SafeIs DEF Prints
<1>19. base \in Frames
  BY <1>18, DrawnType
<1>20. Shows(base, fb, <<>>, page.line, row)
  <2>1. Shows(fb, fb, <<>>, 0, row)
    BY <1>3, NothingShows
  <2>2. <<>> \in Seq(Placed) /\ \A i \in 1 .. Len(<<>>) : <<>>[i].line <= 0
    OBVIOUS
  <2>3. page.line \in Nat /\ page.line = 0 + 1 /\ 0 \in Nat
    BY <1>17
  <2>4. Shows(AllWritten(fb, createNewLine), fb, <<>>, page.line, row)
    BY <1>3, <2>1, <2>2, <2>3, LineBreakOnPage
  <2>5. QED BY <2>4
<1> HIDE DEF base
<1> DEFINE blank == NothingPrinted(0)
<1>21. blank = NothingPrinted(0)
  OBVIOUS
<1> HIDE DEF blank
<1>22. Matches(blank, page, base, fb, row)
  <2>1. 0 \in Int
    OBVIOUS
  <2>2. QED BY <1>3, <1>17, <1>19, <1>20, <1>21, <2>1, NothingMatches
<1>23. PICK d, last : d = f[n] /\ last = q[n] /\ Matches(d, last, base, fb, row)
  BY <1>1, <1>3, <1>9, <1>14, <1>19, <1>21, <1>22, ItemsMatch
<1>24. d.writes = args /\ last = PageOf(call)
  BY <1>7, <1>9, <1>12, <1>14, <1>23
<1>25. args \in Seq(Strokes)
  BY <1>23, <1>24 DEF Matches, PrintedLine, Prints
<1> HIDE DEF args
<1>26. Fits(args, row)
  BY <1>3, <1>8, <1>18, <1>25, FitsBoth
<1>27. AllWritten(fb, Writes(call)) = AllWritten(base, args)
  BY <1>8, <1>18, <1>25, DrawnAfter DEF base
<1>28. Shows(AllWritten(base, args), fb, last.glyphs, last.line, row)
  BY <1>23, <1>24, <1>26 DEF Matches, Showing
<1>29. QED BY <1>3, <1>24, <1>27, <1>28, PageAppears

\* Whatever is on the screen: a call appears on it.
THEOREM CallAppears ==
  ASSUME NEW fb \in Frames, NEW call, KeepsToText(call)
  PROVE  Appears(fb, call)
<1>1. CASE call.is = "DrawBox"
  <2> DEFINE x == call.x
             y == call.y
             w == call.w
             h == call.h
  <2>1. x \in Int /\ y \in Int /\ w \in Int /\ h \in Int /\ x + w >= 0 /\ y + h >= 0
    BY <1>1, Screen DEF KeepsToText
  <2>2. Writes(call) = DrawBox(x, y, w, h)
    BY <1>1 DEF Writes
  <2>3. ASSUME NEW p \in Pixels
        PROVE  Expected(p, call, fb) =
                 IF /\ x <= ColumnOf(p) /\ ColumnOf(p) < x + w
                    /\ y <= RowOf(p) /\ RowOf(p) < y + h
                   THEN Black ELSE fb[p]
    BY <1>1 DEF Expected
  <2> HIDE DEF x, y, w, h
  <2>4. ASSUME NEW p \in Pixels PROVE AllWritten(fb, DrawBox(x, y, w, h))[p] = Expected(p, call, fb)
    <3>1. AllWritten(fb, DrawBox(x, y, w, h))[p] =
            IF /\ x <= ColumnOf(p) /\ ColumnOf(p) < x + w
               /\ y <= RowOf(p) /\ RowOf(p) < y + h
              THEN Black ELSE fb[p]
      BY <2>1, BoxShows
    <3>2. QED BY <2>3, <3>1
  <2>5. QED BY <2>2, <2>4 DEF Appears
<1>2. CASE call.is \in {"Println", "Print"}
  <2> DEFINE items == call.items
             n == Len(items)
  <2>1. /\ call.is = "Print" => call.column \in Int /\ call.row \in 0 .. totalRows - 1
        /\ items \in Seq(Range(items)) /\ \A i \in DOMAIN items : Printable(items[i])
        /\ KeepsToWidth(call)
    BY <1>2 DEF KeepsToText
  <2>2. PrintableAll(items, n)
    BY <2>1 DEF PrintableAll
  <2>3. Writes(call) \in Seq(Prints) /\ DOMAIN Writes(call) = 1 .. Len(Writes(call))
    <3>1. Writes(call) \in Seq(Safe)
      BY WritesAreSafe
    <3>2. QED BY <3>1, SafeIs
  <2>4. Fits(Writes(call), TextRow(call))
    BY <2>1, <2>3 DEF Fits, KeepsToWidth
  <2>5. ItemsOf(items, n, call)
    BY <2>1, <2>2, <2>3, <2>4 DEF ItemsOf
  <2> HIDE DEF items, n
  <2>6. CASE call.is = "Print"
    <3> DEFINE column == call.column
               row == call.row
    <3>1. column \in Int /\ row \in 0 .. totalRows - 1 /\ column = call.column /\ row = call.row
      BY <2>1, <2>6
    <3> HIDE DEF column, row
    <3>2. QED BY <2>5, <2>6, <3>1, PrintAppears
  <2>7. CASE call.is = "Println"
    BY <2>5, <2>7, PrintlnAppears
  <2>8. QED BY <1>2, <2>6, <2>7
<1>3. QED BY <1>1, <1>2 DEF KeepsToText
=============================================================================
