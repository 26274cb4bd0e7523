--------------------------- MODULE TerminalProofs ----------------------------
(****************************************************************************)
(* Proofs about the terminal: however printing tasks, Schedule and the      *)
(* keyboard handler interrupt each other, the input line shows what was     *)
(* typed, no glyph is smeared, and a call that nobody draws during shows    *)
(* what it was given; for any screen, font, tasks and programs that keep to *)
(* the lines of text.                                                       *)
(****************************************************************************)
EXTENDS PrintoutProofs

-----------------------------------------------------------------------------
(* The invariant.                                                           *)

\* The pixel columns of the i-th glyph of the input line.
InGlyph(p, i) ==
  ColumnOf(p) \in (i - 1) * (FontWidth + 1) .. (i - 1) * (FontWidth + 1) + FontWidth - 1

\* The input line shows the first k characters of str; it is black where there is
\* none of n.
Typed(fb, str, k, n) ==
  \A p \in Pixels : RowOf(p) >= InputTop =>
    /\ \A i \in 1 .. k : InGlyph(p, i) => fb[p] = Ink(str[i], RowOf(p) % FontHeight)
    /\ (\A i \in 1 .. n : ~InGlyph(p, i)) => fb[p] = Black

Typing ==
  /\ framebuffer \in Frames
  /\ plan \in [Task -> Seq(Calls)]
  /\ inputStr \in Seq(Keys) /\ Len(inputStr) <= LineLength
  /\ stopped \in 0 .. MaxStopped
Pending == todo \in [Task -> Seq(Safe)]
LineTyped == Typed(framebuffer, inputStr, Len(inputStr), Len(inputStr))

IInv == Typing /\ Pending /\ Aligned(framebuffer) /\ LineTyped

-----------------------------------------------------------------------------
(* The input line.                                                          *)

\* Keys stand for characters.
LEMMA KeysAreLetters ==
  Keys \subseteq Characters
BY TextAssumption DEF TextLayout, Characters

\* A glyph of the input line: the i-th, of a line of n that the screen has room for.
TypedGlyph(c, i) == Glyph(inputRow * FontHeight * Width + (i - 1) * (FontWidth + 1), c)

\* The screen has room for the glyphs of the input line.
LEMMA GlyphHasRoom ==
  ASSUME NEW i \in 1 .. LineLength, NEW c
  PROVE  /\ TypedGlyph(c, i).do = "glyph" /\ TypedGlyph(c, i).c = c
         /\ TypedGlyph(c, i).to = Glyph(TypedGlyph(c, i).corner, TypedGlyph(c, i).c).to
         /\ InLine(TypedGlyph(c, i), inputRow, (i - 1) * (FontWidth + 1))
<1>1. {Width, FontWidth, FontHeight} \subseteq Nat \ {0} /\ inputRow \in Nat /\ LineLength \in Nat
  BY Screen, TerminalAssumption DEF inputRow
<1>2. LineLength * (FontWidth + 1) <= Width + 1
  BY TextAssumption DEF TextLayout
<1>3. i * (FontWidth + 1) <= LineLength * (FontWidth + 1) /\ (i - 1) * (FontWidth + 1) >= 0
  BY <1>1
<1>4. (i - 1) * (FontWidth + 1) = i * (FontWidth + 1) - (FontWidth + 1)
  BY <1>1
<1>5. (i - 1) * (FontWidth + 1) \in 0 .. Width - FontWidth
  BY <1>1, <1>2, <1>3, <1>4
<1>6. QED BY <1>1, <1>5 DEF InLine, TypedGlyph, Glyph

\* They are strokes.
LEMMA TypedGlyphIsStroke ==
  ASSUME NEW i \in 1 .. LineLength, NEW c \in Characters
  PROVE  TypedGlyph(c, i) \in Strokes
<1> DEFINE corner == inputRow * FontHeight * Width + (i - 1) * (FontWidth + 1)
<1>1. {Width, FontWidth, FontHeight} \subseteq Nat \ {0} /\ inputRow \in Nat
  BY Screen DEF inputRow
<1>2. corner \in Int
  BY <1>1
<1> HIDE DEF corner
<1>3. Glyph(corner, c).to \in SUBSET Int
  BY <1>1, <1>2 DEF Glyph
<1>4. Glyph(corner, c) \in Glyphs
  BY <1>2, <1>3 DEF Glyph, Glyphs
<1>5. IsGlyph(Glyph(corner, c))
  BY DEF Glyph, IsGlyph
<1>6. QED BY <1>4, <1>5 DEF Strokes, TypedGlyph, corner

\* A pixel of the input line is at most in one glyph of it.
LEMMA GlyphsApart ==
  ASSUME NEW p \in Pixels, NEW i \in Nat, NEW j \in Nat, InGlyph(p, i), InGlyph(p, j)
  PROVE  i = j
<1>1. ColumnOf(p) \in Nat /\ FontWidth \in Nat
  BY PixelIs, Screen
<1>2. ASSUME NEW a \in Nat, NEW b \in Nat, InGlyph(p, a), InGlyph(p, b), a < b PROVE FALSE
  <2>1. b * (FontWidth + 1) >= (a + 1) * (FontWidth + 1)
    BY <1>1, <1>2
  <2>2. (b - 1) * (FontWidth + 1) >= (a - 1) * (FontWidth + 1) + FontWidth + 1
    BY <1>1, <1>2, <2>1
  <2>3. /\ ColumnOf(p) <= (a - 1) * (FontWidth + 1) + FontWidth - 1
        /\ ColumnOf(p) >= (b - 1) * (FontWidth + 1)
    BY <1>1, <1>2 DEF InGlyph
  <2>4. QED BY <1>1, <1>2, <2>2, <2>3
<1>3. ~(i < j) /\ ~(j < i)
  BY <1>2
<1>4. QED BY <1>3

\* One more glyph of the line is drawn.
LEMMA GlyphTyped ==
  ASSUME NEW fb, Aligned(fb), fb \in Frames, NEW str, NEW n \in 0 .. LineLength,
         NEW k \in Nat, NEW i \in 1 .. n, i = k + 1, str[i] \in Characters, Typed(fb, str, k, n),
         NEW next, next = Written(fb, TypedGlyph(str[i], i))
  PROVE  next \in Frames /\ Aligned(next) /\ Typed(next, str, i, n)
<1> DEFINE w == TypedGlyph(str[i], i)
           x == (i - 1) * (FontWidth + 1)
<1>1. i \in 1 .. LineLength
  BY TerminalAssumption
<1>2. /\ w.do = "glyph" /\ w.c = str[i] /\ w.to = Glyph(w.corner, w.c).to
      /\ InLine(w, inputRow, x)
  BY <1>1, GlyphHasRoom
<1>3. w \in Strokes
  BY <1>1, TypedGlyphIsStroke
<1>4. next = Written(fb, w)
  OBVIOUS
<1> HIDE DEF w
<1>5. next \in Frames
  BY <1>4, <1>3, WrittenType
<1>6. Aligned(next)
  BY <1>4, <1>2, <1>3, KeepsAligned
<1>7. ASSUME NEW p \in Pixels, RowOf(p) >= InputTop
      PROVE  /\ InGlyph(p, i) => next[p] = Ink(str[i], RowOf(p) % FontHeight)
             /\ ~InGlyph(p, i) => next[p] = fb[p]
  <2>1. /\ p \in w.to <=>
             /\ RowOf(p) \in inputRow * FontHeight .. inputRow * FontHeight + FontHeight - 1
             /\ ColumnOf(p) \in x .. x + FontWidth - 1
        /\ p \in w.to => next[p] = Ink(w.c, RowOf(p) % FontHeight)
    BY <1>4, <1>2, GlyphInLine
  <2>2. RowOf(p) \in inputRow * FontHeight .. inputRow * FontHeight + FontHeight - 1
    BY <1>7, Screen, PixelIs DEF InputTop
  <2>3. p \in w.to <=> InGlyph(p, i)
    BY <2>1, <2>2 DEF InGlyph
  <2>4. QED BY <1>4, <1>2, <2>1, <2>3, WrittenIs
<1>8. ASSUME NEW p \in Pixels, RowOf(p) >= InputTop
      PROVE  /\ \A j \in 1 .. i : InGlyph(p, j) => next[p] = Ink(str[j], RowOf(p) % FontHeight)
             /\ (\A j \in 1 .. n : ~InGlyph(p, j)) => next[p] = Black
  <2>1. ASSUME NEW j \in 1 .. i, InGlyph(p, j)
        PROVE  next[p] = Ink(str[j], RowOf(p) % FontHeight)
    <3>1. CASE j = i
      BY <1>7, <1>8, <2>1, <3>1
    <3>2. CASE j # i
      <4>1. ~InGlyph(p, i)
        BY <2>1, <3>2, GlyphsApart
      <4>2. j \in 1 .. k
        BY <3>2
      <4>3. fb[p] = Ink(str[j], RowOf(p) % FontHeight)
        BY <1>8, <2>1, <4>2 DEF Typed
      <4>4. QED BY <1>7, <1>8, <4>1, <4>3
    <3>3. QED BY <3>1, <3>2
  <2>2. ASSUME \A j \in 1 .. n : ~InGlyph(p, j) PROVE next[p] = Black
    <3>1. fb[p] = Black
      BY <1>8, <2>2 DEF Typed
    <3>2. ~InGlyph(p, i)
      BY <2>2
    <3>3. QED BY <1>7, <1>8, <3>1, <3>2
  <2>3. QED BY <2>1, <2>2
<1>9. Typed(next, str, i, n)
  BY <1>8 DEF Typed
<1>10. QED BY <1>5, <1>6, <1>9

\* The whole line is drawn, as the last n of a sequence of writes.
LEMMA LineTypedAgain ==
  ASSUME NEW h, NEW a \in Nat, NEW n \in 0 .. LineLength, NEW str \in Seq(Keys), n = Len(str),
         h[1 .. a] \in Frames, Aligned(h[1 .. a]), Typed(h[1 .. a], str, 0, n),
         \A k \in Nat : k + 1 <= n =>
           h[1 .. a + k + 1] = Written(h[1 .. a + k], TypedGlyph(str[k + 1], k + 1))
  PROVE  h[1 .. a + n] \in Frames /\ Aligned(h[1 .. a + n]) /\ Typed(h[1 .. a + n], str, n, n)
<1> DEFINE Is(k) == /\ h[1 .. a + k] \in Frames /\ Aligned(h[1 .. a + k])
                    /\ Typed(h[1 .. a + k], str, k, n)
           T == {k \in Nat : k <= n => Is(k)}
<1>1. 0 \in T
  <2>1. a + 0 = a
    OBVIOUS
  <2>2. QED BY <2>1
<1>2. ASSUME NEW k \in Nat, k \in T PROVE k + 1 \in T
  <2>1. ASSUME k + 1 <= n PROVE Is(k + 1)
    <3> DEFINE i == k + 1
               fb == h[1 .. a + k]
               next == h[1 .. a + i]
    <3>1. fb \in Frames /\ Aligned(fb) /\ Typed(fb, str, k, n)
      BY <1>2, <2>1
    <3>2. i \in 1 .. n /\ n \in Nat
      BY <2>1
    <3>3. str[i] \in Characters
      <4>1. str[i] \in Keys
        BY <3>2
      <4>2. QED BY <4>1, KeysAreLetters
    <3>4. next = Written(fb, TypedGlyph(str[i], i))
      <4>1. a + k + 1 = a + (k + 1)
        OBVIOUS
      <4>2. QED BY <2>1, <4>1
    <3>5. i = k + 1
      OBVIOUS
    <3> HIDE DEF i, fb, next
    <3>6. next \in Frames /\ Aligned(next) /\ Typed(next, str, i, n)
      BY <3>1, <3>2, <3>3, <3>4, <3>5, GlyphTyped
    <3>7. QED BY <3>6 DEF i, next
  <2>2. QED BY <2>1
<1> HIDE DEF T
<1>3. n \in T
  BY <1>1, <1>2, Induction
<1>4. QED BY <1>3 DEF T

\* The line as DrawString draws it.
LEMMA LineDrawn ==
  ASSUME NEW str \in Seq(Keys), Len(str) <= LineLength
  PROVE  /\ DrawString(str, 0, inputRow) \in Seq(Strokes)
         /\ Len(DrawString(str, 0, inputRow)) = Len(str)
         /\ \A i \in 1 .. Len(str) : DrawString(str, 0, inputRow)[i] = TypedGlyph(str[i], i)
<1>1. {Width, FontWidth, FontHeight} \subseteq Nat \ {0} /\ inputRow \in Nat
  BY Screen DEF inputRow
<1> DEFINE r == inputRow * FontHeight * Width
           n == Len(str)
<1>2. n \in Nat /\ DOMAIN str = 1 .. n /\ \A i \in 1 .. n : str[i] \in Keys
  OBVIOUS
<1>3. \A i \in 1 .. n : str[i] \in Characters /\ i \in 1 .. LineLength
  <2> SUFFICES ASSUME NEW i \in 1 .. n PROVE str[i] \in Characters /\ i \in 1 .. LineLength
    OBVIOUS
  <2>1. str[i] \in Keys /\ LineLength \in Nat /\ n \in Nat /\ n <= LineLength
    BY <1>2, TerminalAssumption
  <2>2. i \in 1 .. LineLength
    <3> HIDE DEF n
    <3>1. QED BY <2>1
  <2>3. QED BY <2>1, <2>2, KeysAreLetters
<1>4. r + 0 * FontWidth = r
  BY <1>1
<1>5. DrawString(str, 0, inputRow) = [i \in 1 .. n |-> TypedGlyph(str[i], i)]
  BY <1>2, <1>4 DEF DrawString, TypedGlyph
<1>6. \A i \in 1 .. n : TypedGlyph(str[i], i) \in Strokes
  BY <1>3, TypedGlyphIsStroke
<1> HIDE DEF n
<1>7. DrawString(str, 0, inputRow) \in Seq(Strokes) /\ Len(DrawString(str, 0, inputRow)) = n
  BY <1>2, <1>5, <1>6
<1>8. QED BY <1>5, <1>7 DEF n

\* What RemoveInputCharacter clears.
LEMMA LineCleared ==
  ASSUME NEW box, box = DrawBox(0, inputRow * FontHeight, Width, Height - inputRow * FontHeight)
  PROVE  /\ box \in Seq(Strokes) /\ Len(box) = FontHeight
         /\ \A i \in 1 .. FontHeight : box[i] = BoxRow(InputTop + i - 1, 0, Width)
<1>1. {Width, Height, FontHeight, U16} \subseteq Nat \ {0} /\ Width < U16 /\ Height < U16
      /\ InputTop \in Nat /\ InputTop < Height /\ inputRow * FontHeight = InputTop
  BY Screen, CanvasAssumption
<1>2. Height - InputTop = FontHeight
  BY <1>1 DEF InputTop
<1>3. Clipped(0, Width) = 0 /\ Clipped(InputTop, Height) = InputTop
  BY <1>1 DEF Clipped, Smaller
<1>4. End(0, Width, Width) = Width
  <2>1. Smaller(0 + Width, Width) = Width
    BY <1>1 DEF Smaller
  <2>2. Width % U16 = Width
    BY <1>1
  <2>3. QED BY <2>1, <2>2 DEF End
<1>5. End(InputTop, FontHeight, Height) = Height
  <2>1. Smaller(InputTop + FontHeight, Height) = Height
    BY <1>1, <1>2 DEF Smaller
  <2>2. Height % U16 = Height
    BY <1>1
  <2>3. QED BY <2>1, <2>2 DEF End
<1>6. box = DrawBox(0, InputTop, Width, FontHeight)
  BY <1>1, <1>2
<1>7. /\ box \in Seq(Fills)
      /\ Len(box) = IF InputTop > Height - 1 THEN 0 ELSE Height - InputTop
      /\ \A i \in 1 .. Len(box) : box[i] = BoxRow(InputTop + i - 1, 0, Width)
  BY <1>1, <1>3, <1>4, <1>5, <1>6, BoxIs
<1>8. Len(box) = FontHeight
  BY <1>1, <1>2, <1>7
<1>9. box \in Seq(Strokes)
  BY <1>7 DEF Strokes
<1>10. QED BY <1>7, <1>8, <1>9

-----------------------------------------------------------------------------
(* The keyboard handler's steps.                                            *)

\* AddInputCharacter draws the line over what is there: nothing where it gets longer.
LEMMA LineExtended ==
  ASSUME NEW fb \in Frames, Aligned(fb), NEW str \in Seq(Keys), NEW n \in 0 .. LineLength,
         n = Len(str), Typed(fb, str, 0, n),
         NEW next, next = AllWritten(fb, DrawString(str, 0, inputRow))
  PROVE  next \in Frames /\ Aligned(next) /\ Typed(next, str, n, n)
<1> DEFINE ws == DrawString(str, 0, inputRow)
<1>1. /\ ws \in Seq(Strokes) /\ Len(ws) = n
      /\ \A i \in 1 .. n : ws[i] = TypedGlyph(str[i], i)
  BY LineDrawn, TerminalAssumption
<1>2. n \in Nat
  BY TerminalAssumption
<1> HIDE DEF ws
<1>3. PICK h : /\ h[{}] = fb /\ AllWritten(fb, ws) = h[1 .. n]
               /\ \A k \in Nat : k + 1 <= n => h[1 .. k + 1] = Written(h[1 .. k], ws[k + 1])
  BY <1>1, <1>2, WritesUnrolled
<1>4. 1 .. 0 = {}
  OBVIOUS
<1>5. h[1 .. 0] \in Frames /\ Aligned(h[1 .. 0]) /\ Typed(h[1 .. 0], str, 0, n)
  BY <1>3, <1>4
<1>6. ASSUME NEW k \in Nat, k + 1 <= n
      PROVE  h[1 .. 0 + k + 1] = Written(h[1 .. 0 + k], TypedGlyph(str[k + 1], k + 1))
  <2>1. 0 + k + 1 = k + 1 /\ 0 + k = k /\ k + 1 \in 1 .. n
    BY <1>6
  <2>2. h[1 .. k + 1] = Written(h[1 .. k], TypedGlyph(str[k + 1], k + 1))
    BY <1>1, <1>3, <1>6, <2>1
  <2>3. QED BY <2>1, <2>2
<1>7. h[1 .. 0 + n] \in Frames /\ Aligned(h[1 .. 0 + n]) /\ Typed(h[1 .. 0 + n], str, n, n)
  BY <1>5, <1>6, LineTypedAgain
<1>8. 0 + n = n
  BY <1>2
<1>9. QED BY <1>3, <1>7, <1>8 DEF ws

\* The first k pixel rows of the input line are black.
Cleared(fb, k) == \A p \in Pixels : RowOf(p) \in InputTop .. InputTop + k - 1 => fb[p] = Black

\* One more pixel row of the input line is cleared.
LEMMA RowCleared ==
  ASSUME NEW fb \in Frames, Aligned(fb), NEW k \in Nat, NEW i \in 1 .. FontHeight, i = k + 1,
         Cleared(fb, k), NEW next, next = Written(fb, BoxRow(InputTop + i - 1, 0, Width))
  PROVE  next \in Frames /\ Aligned(next) /\ Cleared(next, i)
<1> DEFINE row == InputTop + k
           w == BoxRow(row, 0, Width)
<1>1. {Width, Height, FontHeight} \subseteq Nat \ {0} /\ InputTop \in Nat
  BY Screen
<1>2. row \in Nat /\ next = Written(fb, w)
  <2>1. InputTop + i - 1 = InputTop + k
    BY <1>1
  <2>2. QED BY <1>1, <2>1
<1>3. w.do = "fill" /\ w.to = row * Width + 0 .. row * Width + Width - 1
  BY DEF BoxRow, Fill
<1>4. w \in Strokes
  <2>1. w \in Fills
    BY <1>1 DEF BoxRow, Fill, Fills
  <2>2. QED BY <2>1 DEF Strokes
<1> HIDE DEF w
<1>5. next \in Frames /\ Aligned(next)
  BY <1>2, <1>3, <1>4, WrittenType, KeepsAligned
<1>6. ASSUME NEW p \in Pixels, RowOf(p) \in InputTop .. InputTop + i - 1
      PROVE  next[p] = Black
  <2>1. p = RowOf(p) * Width + ColumnOf(p) /\ ColumnOf(p) \in 0 .. Width - 1 /\ RowOf(p) \in Nat
    BY PixelIs
  <2>2. CASE RowOf(p) = row
    <3>1. p \in w.to
      BY <1>1, <1>2, <1>3, <2>1, <2>2
    <3>2. w.do = "fill"
      BY <1>3
    <3>3. Written(fb, w)[p] = Black
      BY <3>1, <3>2, WrittenIs
    <3>4. QED BY <1>2, <3>3
  <2>3. CASE RowOf(p) # row
    <3>1. RowOf(p) \in InputTop .. InputTop + k - 1
      BY <1>1, <1>6, <2>3
    <3>2. fb[p] = Black
      BY <3>1 DEF Cleared
    <3>3. QED BY <1>2, <1>3, <3>2, WrittenIs
  <2>4. QED BY <2>2, <2>3
<1>7. QED BY <1>5, <1>6 DEF Cleared

\* The first rows of the input line are cleared one after the other.
LEMMA RowsCleared ==
  ASSUME NEW h, h[1 .. 0] \in Frames, Aligned(h[1 .. 0]),
         \A k \in Nat : k + 1 <= FontHeight =>
           h[1 .. k + 1] = Written(h[1 .. k], BoxRow(InputTop + (k + 1) - 1, 0, Width))
  PROVE  /\ h[1 .. FontHeight] \in Frames /\ Aligned(h[1 .. FontHeight])
         /\ Cleared(h[1 .. FontHeight], FontHeight)
<1> DEFINE Is(k) == h[1 .. k] \in Frames /\ Aligned(h[1 .. k]) /\ Cleared(h[1 .. k], k)
           T == {k \in Nat : k <= FontHeight => Is(k)}
<1>1. FontHeight \in Nat /\ InputTop \in Nat
  BY Screen
<1>2. 0 \in T
  <2>1. InputTop .. InputTop + 0 - 1 = {}
    BY <1>1
  <2>2. QED BY <2>1 DEF Cleared
<1>3. ASSUME NEW k \in Nat, k \in T PROVE k + 1 \in T
  <2>1. ASSUME k + 1 <= FontHeight PROVE Is(k + 1)
    <3> DEFINE i == k + 1
               fb == h[1 .. k]
               next == h[1 .. i]
    <3>1. fb \in Frames /\ Aligned(fb) /\ Cleared(fb, k)
      BY <1>1, <1>3, <2>1
    <3>2. i \in 1 .. FontHeight /\ i = k + 1
      BY <1>1, <2>1
    <3>3. next = Written(fb, BoxRow(InputTop + i - 1, 0, Width))
      BY <2>1
    <3> HIDE DEF i, fb, next
    <3>4. next \in Frames /\ Aligned(next) /\ Cleared(next, i)
      BY <3>1, <3>2, <3>3, RowCleared
    <3>5. QED BY <3>4 DEF i, next
  <2>2. QED BY <2>1
<1> HIDE DEF T
<1>4. FontHeight \in T
  BY <1>1, <1>2, <1>3, Induction
<1>5. QED BY <1>1, <1>4 DEF T

\* RemoveInputCharacter draws the line on what it has cleared.
LEMMA LineRedrawn ==
  ASSUME NEW fb \in Frames, Aligned(fb), NEW str \in Seq(Keys), NEW n \in 0 .. LineLength,
         n = Len(str), NEW box,
         box = DrawBox(0, inputRow * FontHeight, Width, Height - inputRow * FontHeight),
         NEW next, next = AllWritten(fb, box \o DrawString(str, 0, inputRow))
  PROVE  next \in Frames /\ Aligned(next) /\ Typed(next, str, n, n)
<1> DEFINE line == DrawString(str, 0, inputRow)
           ws == box \o line
           m == FontHeight + n
<1>1. /\ line \in Seq(Strokes) /\ Len(line) = n
      /\ \A i \in 1 .. n : line[i] = TypedGlyph(str[i], i)
  BY LineDrawn, TerminalAssumption
<1>2. n \in Nat /\ FontHeight \in Nat /\ InputTop \in Nat /\ Height = InputTop + FontHeight
  <2>1. n \in Nat
    BY TerminalAssumption
  <2>2. FontHeight \in Nat /\ InputTop \in Nat /\ Height = InputTop + FontHeight
    BY Screen DEF InputTop
  <2>3. QED BY <2>1, <2>2
<1>3. /\ box \in Seq(Strokes) /\ Len(box) = FontHeight
      /\ \A i \in 1 .. FontHeight : box[i] = BoxRow(InputTop + i - 1, 0, Width)
  BY LineCleared
<1> HIDE DEF line
<1>4. ws \in Seq(Strokes) /\ Len(ws) = m /\ m \in Nat
  <2>1. ws \in Seq(Strokes) /\ Len(ws) = Len(box) + Len(line)
    BY <1>1, <1>3, Joined
  <2>2. QED BY <1>1, <1>2, <1>3, <2>1
<1>5. ASSUME NEW i \in 1 .. FontHeight PROVE ws[i] = BoxRow(InputTop + i - 1, 0, Width)
  <2>1. ws[i] = box[i]
    BY <1>1, <1>3, Joined
  <2>2. QED BY <1>3, <2>1
<1>6. ASSUME NEW i \in 1 .. n PROVE ws[FontHeight + i] = TypedGlyph(str[i], i)
  <2>1. ws[FontHeight + i] = line[i]
    BY <1>1, <1>3, Joined
  <2>2. QED BY <1>1, <2>1
<1> HIDE DEF ws, m
<1>7. PICK h : /\ h[{}] = fb /\ AllWritten(fb, ws) = h[1 .. m]
               /\ \A k \in Nat : k + 1 <= m => h[1 .. k + 1] = Written(h[1 .. k], ws[k + 1])
  BY <1>4, WritesUnrolled
<1>8. /\ h[1 .. FontHeight] \in Frames /\ Aligned(h[1 .. FontHeight])
      /\ Cleared(h[1 .. FontHeight], FontHeight)
  <2>1. 1 .. 0 = {}
    OBVIOUS
  <2>2. h[1 .. 0] \in Frames /\ Aligned(h[1 .. 0])
    BY <1>7, <2>1
  <2>3. ASSUME NEW k \in Nat, k + 1 <= FontHeight
        PROVE  h[1 .. k + 1] = Written(h[1 .. k], BoxRow(InputTop + (k + 1) - 1, 0, Width))
    <3>1. k + 1 \in 1 .. FontHeight /\ k + 1 <= m
      BY <1>2, <2>3 DEF m
    <3>2. ws[k + 1] = BoxRow(InputTop + (k + 1) - 1, 0, Width)
      BY <1>5, <3>1
    <3>3. QED BY <1>7, <3>1, <3>2
  <2>4. QED BY <2>2, <2>3, RowsCleared
<1>9. Typed(h[1 .. FontHeight], str, 0, n)
  <2>1. ASSUME NEW p \in Pixels, RowOf(p) >= InputTop PROVE h[1 .. FontHeight][p] = Black
    <3>1. RowOf(p) \in InputTop .. InputTop + FontHeight - 1
      BY <1>2, <2>1, PixelIs
    <3>2. QED BY <1>8, <3>1 DEF Cleared
  <2>2. QED BY <2>1 DEF Typed
<1>10. ASSUME NEW k \in Nat, k + 1 <= n
       PROVE  h[1 .. FontHeight + k + 1] =
                Written(h[1 .. FontHeight + k], TypedGlyph(str[k + 1], k + 1))
  <2> DEFINE j == FontHeight + k
  <2>1. j \in Nat /\ j + 1 <= m /\ j + 1 = FontHeight + (k + 1) /\ k + 1 \in 1 .. n
    BY <1>2, <1>10 DEF m
  <2>2. ws[j + 1] = TypedGlyph(str[k + 1], k + 1)
    BY <1>6, <2>1
  <2> HIDE DEF j
  <2>3. h[1 .. j + 1] = Written(h[1 .. j], TypedGlyph(str[k + 1], k + 1))
    BY <1>7, <2>1, <2>2
  <2>4. QED BY <2>3 DEF j
<1>11. /\ h[1 .. FontHeight + n] \in Frames /\ Aligned(h[1 .. FontHeight + n])
       /\ Typed(h[1 .. FontHeight + n], str, n, n)
  BY <1>2, <1>8, <1>9, <1>10, LineTypedAgain
<1>12. QED BY <1>7, <1>11 DEF ws, m, line

\* The input line is drawn below the text.
LEMMA LineSparesText ==
  ASSUME NEW fb \in Frames, NEW str \in Seq(Keys), NEW n \in 0 .. LineLength, n = Len(str)
  PROVE  SameText(fb, AllWritten(fb, DrawString(str, 0, inputRow)))
<1> DEFINE ws == DrawString(str, 0, inputRow)
<1>1. /\ ws \in Seq(Strokes) /\ Len(ws) = n
      /\ \A i \in 1 .. n : ws[i] = TypedGlyph(str[i], i)
  BY LineDrawn, TerminalAssumption
<1>2. n \in Nat
  BY TerminalAssumption
<1> HIDE DEF ws
<1>3. PICK f : Screens(f, fb, ws, Len(ws)) /\ AllWritten(fb, ws) = f[Len(ws)]
  BY <1>1, ScreensExist
<1>4. f[0] = fb /\ \A k \in Nat : k + 1 <= n => f[k + 1] = Written(f[k], ws[k + 1])
  BY <1>1, <1>3 DEF Screens
<1> DEFINE T == {k \in Nat : k <= n => SameText(fb, f[k])}
<1>5. 0 \in T
  BY <1>4 DEF SameText
<1>6. ASSUME NEW k \in Nat, k \in T PROVE k + 1 \in T
  <2>1. ASSUME k + 1 <= n PROVE SameText(fb, f[k + 1])
    <3> DEFINE i == k + 1
               w == ws[i]
               now == f[k]
    <3>1. i \in 1 .. n /\ k <= n
      BY <1>2, <2>1
    <3>2. SameText(fb, now) /\ f[i] = Written(now, w) /\ w = TypedGlyph(str[i], i)
      BY <1>1, <1>4, <1>6, <2>1, <3>1
    <3> HIDE DEF i, w, now
    <3>3. ASSUME NEW p \in Pixels, RowOf(p) < InputTop PROVE p \notin w.to
      <4> DEFINE x == (i - 1) * (FontWidth + 1)
      <4>1. w.do = "glyph" /\ w.to = Glyph(w.corner, w.c).to /\ InLine(w, inputRow, x)
        <5>1. i \in 1 .. LineLength
          BY <1>2, <3>1, TerminalAssumption
        <5>2. QED BY <3>2, <5>1, GlyphHasRoom
      <4>2. p \in w.to => RowOf(p) >= inputRow * FontHeight
        <5> HIDE DEF x
        <5>1. p \in w.to => RowOf(p) \in inputRow * FontHeight .. inputRow * FontHeight + FontHeight - 1
          BY <4>1, GlyphInLine
        <5>2. RowOf(p) \in Int /\ inputRow * FontHeight \in Int
          BY PixelIs, Screen
        <5>3. QED BY <5>1, <5>2
      <4>3. RowOf(p) \in Int /\ InputTop \in Int /\ InputTop = inputRow * FontHeight
        BY PixelIs, Screen
      <4>4. p \in w.to => RowOf(p) >= InputTop
        BY <4>2, <4>3
      <4>5. QED BY <3>3, <4>3, <4>4
    <3>4. \A p \in Pixels : RowOf(p) < InputTop => Written(now, w)[p] = now[p]
      BY <3>3, WrittenIs
    <3>5. SameText(fb, f[i])
      BY <3>2, <3>4 DEF SameText
    <3>6. QED BY <3>5 DEF i
  <2>2. QED BY <2>1
<1> HIDE DEF T
<1>7. n \in T
  BY <1>2, <1>5, <1>6, Induction
<1>8. SameText(fb, AllWritten(fb, ws))
  BY <1>1, <1>2, <1>3, <1>7 DEF T
<1>9. QED BY <1>8 DEF ws

\* So it is when the input line is cleared before.
LEMMA ClearingSparesText ==
  ASSUME NEW fb \in Frames, NEW str \in Seq(Keys), NEW n \in 0 .. LineLength, n = Len(str), NEW box,
         box = DrawBox(0, inputRow * FontHeight, Width, Height - inputRow * FontHeight)
  PROVE  SameText(fb, AllWritten(fb, box \o DrawString(str, 0, inputRow)))
<1> DEFINE line == DrawString(str, 0, inputRow)
           mid == AllWritten(fb, box)
<1>1. line \in Seq(Strokes) /\ box \in Seq(Strokes)
  BY LineDrawn, LineCleared, TerminalAssumption
<1>2. mid \in Frames
  BY <1>1, DrawnType
<1>3. AllWritten(fb, box \o line) = AllWritten(mid, line)
  BY <1>1, DrawnAfter
<1>4. SameText(fb, mid)
  <2> DEFINE y == inputRow * FontHeight
             h == Height - y
  <2>1. y = InputTop /\ InputTop \in Nat /\ Width \in Nat /\ Height \in Nat
    BY Screen
  <2> HIDE DEF y
  <2>2. 0 \in Int /\ y \in Int /\ Width \in Int /\ h \in Int /\ 0 + Width >= 0 /\ y + h >= 0
    BY <2>1
  <2>3. box = DrawBox(0, y, Width, h)
    BY DEF y
  <2> HIDE DEF h
  <2>4. ASSUME NEW p \in Pixels, RowOf(p) < InputTop PROVE mid[p] = fb[p]
    <3>1. AllWritten(fb, DrawBox(0, y, Width, h))[p] =
            IF /\ 0 <= ColumnOf(p) /\ ColumnOf(p) < 0 + Width
               /\ y <= RowOf(p) /\ RowOf(p) < y + h
              THEN Black ELSE fb[p]
      BY <2>2, BoxShows
    <3>2. ~(y <= RowOf(p))
      BY <2>1, <2>4, PixelIs
    <3>3. QED BY <2>3, <3>1, <3>2
  <2>5. QED BY <2>4 DEF SameText
<1> HIDE DEF mid
<1>5. SameText(mid, AllWritten(mid, line))
  BY <1>2, LineSparesText
<1>6. QED BY <1>3, <1>4, <1>5 DEF SameText

-----------------------------------------------------------------------------
(* The invariant is inductive.                                              *)

\* Nothing is typed, nothing is to be written and the screen is black.
LEMMA Initially ==
  Init => IInv
<1> SUFFICES ASSUME Init PROVE IInv
  OBVIOUS
<1>1. framebuffer = [p \in Pixels |-> Black] /\ inputStr = <<>> /\ stopped = 0
      /\ plan \in Plans /\ todo = [t \in Task |-> <<>>]
  BY DEF Init
<1>2. Typing
  <2>1. framebuffer \in Frames
    BY <1>1, InkIs DEF Frames
  <2>2. plan \in [Task -> Seq(Calls)]
    BY <1>1, TextAssumption DEF TextLayout
  <2>3. inputStr \in Seq(Keys) /\ Len(inputStr) <= LineLength /\ stopped \in 0 .. MaxStopped
    BY <1>1, TerminalAssumption
  <2>4. QED BY <2>1, <2>2, <2>3 DEF Typing
<1>3. Pending
  <2>1. <<>> \in Seq(Safe)
    OBVIOUS
  <2>2. QED BY <1>1, <2>1 DEF Pending
<1>4. Aligned(framebuffer)
  BY <1>1 DEF Aligned
<1>5. LineTyped
  <2>1. Len(inputStr) = 0
    BY <1>1
  <2>2. 1 .. 0 = {}
    OBVIOUS
  <2>3. QED BY <1>1, <2>1, <2>2 DEF LineTyped, Typed
<1>6. QED BY <1>2, <1>3, <1>4, <1>5 DEF IInv

\* A step that spares the input line.
LEMMA Spared ==
  ASSUME IInv, inputStr' = inputStr, Keeps(framebuffer, framebuffer')
  PROVE  framebuffer' \in Frames /\ Aligned(framebuffer') /\ LineTyped'
<1>1. framebuffer' \in Frames /\ Aligned(framebuffer')
  BY DEF Keeps
<1>2. \A p \in Pixels : RowOf(p) >= InputTop => framebuffer'[p] = framebuffer[p]
  BY DEF Keeps
<1>3. Typed(framebuffer, inputStr, Len(inputStr), Len(inputStr))
  BY DEF IInv, LineTyped
<1> DEFINE n == Len(inputStr)
<1> HIDE DEF n
<1>4. Typed(framebuffer', inputStr, n, n)
  BY <1>2, <1>3 DEF Typed, n
<1>5. QED BY <1>1, <1>4 DEF LineTyped, n

\* A call that begins is safe, as the programs keep to the lines of text.
LEMMA BeginKeeps ==
  ASSUME IInv, NEW t \in Task, Begin(t)
  PROVE  IInv'
<1> USE DEF IInv
<1>1. plan \in [Task -> Seq(Calls)] /\ plan[t] # <<>> /\ todo \in [Task -> Seq(Safe)]
  BY DEF Begin, Typing, Pending
<1>2. plan[t] \in Seq(Calls) /\ Head(plan[t]) \in Calls /\ Tail(plan[t]) \in Seq(Calls)
  BY <1>1
<1>3. KeepsToText(Head(plan[t]))
  BY <1>2, TextAssumption DEF TextLayout
<1>4. Writes(Head(plan[t])) \in Seq(Safe)
  BY <1>3, WritesAreSafe
<1>5. todo' \in [Task -> Seq(Safe)]
  BY <1>1, <1>4 DEF Begin
<1>6. plan' \in [Task -> Seq(Calls)]
  BY <1>1, <1>2 DEF Begin
<1>7. framebuffer' = framebuffer /\ inputStr' = inputStr /\ stopped' = stopped
  BY DEF Begin
<1>8. QED BY <1>5, <1>6, <1>7 DEF Typing, Pending, LineTyped

\* What a task writes is safe, whatever has been drawn since its call began.
LEMMA DrawKeeps ==
  ASSUME IInv, NEW t \in Task, Draw(t)
  PROVE  IInv'
<1>1. todo \in [Task -> Seq(Safe)] /\ todo[t] # <<>>
  BY DEF IInv, Draw, Pending
<1>2. Head(todo[t]) \in Safe /\ Tail(todo[t]) \in Seq(Safe)
  <2>1. todo[t] \in Seq(Safe)
    BY <1>1
  <2>2. QED BY <1>1, <2>1
<1>3. framebuffer' = Written(framebuffer, Head(todo[t])) /\ inputStr' = inputStr
      /\ plan' = plan /\ stopped' = stopped
  BY DEF Draw
<1>4. Keeps(framebuffer, framebuffer)
  BY DEF Keeps, IInv, Typing
<1>5. Keeps(framebuffer, framebuffer')
  BY <1>2, <1>3, <1>4, SafeWrite
<1>6. framebuffer' \in Frames /\ Aligned(framebuffer') /\ LineTyped'
  BY <1>3, <1>5, Spared
<1>7. todo' \in [Task -> Seq(Safe)]
  BY <1>1, <1>2 DEF Draw
<1>8. QED BY <1>3, <1>6, <1>7 DEF IInv, Typing, Pending

\* What Schedule prints is safe.
LEMMA ScheduleReportsKeeps ==
  ASSUME IInv, ScheduleReports
  PROVE  IInv'
<1>1. framebuffer \in Frames /\ Aligned(framebuffer) /\ stopped \in 0 .. MaxStopped
  BY DEF IInv, Typing
<1>2. stopped \in 0 .. MaxStopped - 1 /\ stopped' = stopped + 1 /\ MaxStopped \in Nat
  BY <1>1, TerminalAssumption DEF ScheduleReports
<1> DEFINE ws == Writes(StoppedTask(stopped))
<1>3. ws \in Seq(Safe)
  <2>1. KeepsToText(StoppedTask(stopped))
    BY <1>2, TextAssumption DEF TextLayout
  <2>2. QED BY <2>1, WritesAreSafe
<1>4. framebuffer' = AllWritten(framebuffer, ws) /\ inputStr' = inputStr
      /\ plan' = plan /\ todo' = todo
  BY DEF ScheduleReports
<1> HIDE DEF ws
<1>5. Keeps(framebuffer, framebuffer')
  BY <1>1, <1>3, <1>4, SafeWrites
<1>6. framebuffer' \in Frames /\ Aligned(framebuffer') /\ LineTyped'
  BY <1>4, <1>5, Spared
<1>7. stopped' \in 0 .. MaxStopped
  BY <1>2
<1>8. QED BY <1>4, <1>6, <1>7 DEF IInv, Typing, Pending

\* The line is drawn again, with the character, over what is there.
LEMMA AddInputCharacterKeeps ==
  ASSUME IInv, NEW c \in Keys, AddInputCharacter(c)
  PROVE  IInv'
<1> DEFINE m == Len(inputStr)
           n == Len(inputStr')
<1>1. /\ framebuffer \in Frames /\ Aligned(framebuffer)
      /\ inputStr \in Seq(Keys) /\ Typed(framebuffer, inputStr, m, m)
  BY DEF IInv, Typing, LineTyped
<1>2. /\ inputStr' = Append(inputStr, c) /\ m < LineLength
      /\ framebuffer' = AllWritten(framebuffer, DrawString(inputStr', 0, inputRow))
      /\ plan' = plan /\ todo' = todo /\ stopped' = stopped
  BY DEF AddInputCharacter
<1>3. inputStr' \in Seq(Keys) /\ n = m + 1 /\ m \in Nat
  BY <1>1, <1>2
<1>4. n \in 0 .. LineLength
  <2>1. LineLength \in Nat
    BY TerminalAssumption
  <2> HIDE DEF m, n
  <2>2. QED BY <1>2, <1>3, <2>1
<1>5. Typed(framebuffer, inputStr', 0, n)
  <2>1. ASSUME NEW p \in Pixels, RowOf(p) >= InputTop, \A i \in 1 .. n : ~InGlyph(p, i)
        PROVE  framebuffer[p] = Black
    <3> HIDE DEF m, n
    <3>1. \A i \in 1 .. m : ~InGlyph(p, i)
      BY <1>3, <2>1
    <3>2. QED BY <1>1, <2>1, <3>1 DEF Typed
  <2>2. 1 .. 0 = {}
    OBVIOUS
  <2>3. QED BY <2>1, <2>2 DEF Typed
<1>6. framebuffer' \in Frames /\ Aligned(framebuffer') /\ Typed(framebuffer', inputStr', n, n)
  BY <1>1, <1>2, <1>3, <1>4, <1>5, LineExtended
<1>7. n <= LineLength
  BY <1>4, TerminalAssumption
<1>8. QED BY <1>2, <1>3, <1>6, <1>7 DEF IInv, Typing, Pending, LineTyped

\* A line without its last character.
LEMMA Shortened ==
  ASSUME NEW S, NEW s \in Seq(S), Len(s) >= 1
  PROVE  SubSeq(s, 1, Len(s) - 1) \in Seq(S) /\ Len(SubSeq(s, 1, Len(s) - 1)) = Len(s) - 1
<1> DEFINE k == Len(s) - 1
<1>1. k \in Nat /\ \A i \in 1 .. k : s[i] \in S
  OBVIOUS
<1>2. SubSeq(s, 1, k) = [i \in 1 .. k |-> s[i]]
  OBVIOUS
<1> HIDE DEF k
<1>3. SubSeq(s, 1, k) \in Seq(S) /\ Len(SubSeq(s, 1, k)) = k
  BY <1>1, <1>2
<1>4. QED BY <1>3 DEF k

\* The line is cleared and drawn again without its last character.
LEMMA RemoveInputCharacterKeeps ==
  ASSUME IInv, RemoveInputCharacter
  PROVE  IInv'
<1> DEFINE m == Len(inputStr)
           n == Len(inputStr')
           box == DrawBox(0, inputRow * FontHeight, Width, Height - inputRow * FontHeight)
<1>1. /\ framebuffer \in Frames /\ Aligned(framebuffer)
      /\ inputStr \in Seq(Keys) /\ m <= LineLength
  BY DEF IInv, Typing
<1>2. /\ inputStr' = IF inputStr = <<>> THEN <<>> ELSE SubSeq(inputStr, 1, m - 1)
      /\ framebuffer' = AllWritten(framebuffer, box \o DrawString(inputStr', 0, inputRow))
      /\ plan' = plan /\ todo' = todo /\ stopped' = stopped
  BY DEF RemoveInputCharacter
<1>3. inputStr' \in Seq(Keys) /\ n <= m /\ m \in Nat /\ n \in Nat
  <2>1. CASE inputStr = <<>>
    BY <1>1, <1>2, <2>1
  <2>2. CASE inputStr # <<>>
    <3>1. m >= 1 /\ inputStr' = SubSeq(inputStr, 1, m - 1)
      BY <1>1, <1>2, <2>2
    <3>2. SubSeq(inputStr, 1, m - 1) \in Seq(Keys) /\ Len(SubSeq(inputStr, 1, m - 1)) = m - 1
      BY <1>1, <3>1, Shortened
    <3>3. QED BY <1>1, <3>1, <3>2
  <2>3. QED BY <2>1, <2>2
<1>4. n \in 0 .. LineLength
  BY <1>1, <1>3, TerminalAssumption
<1> HIDE DEF box
<1>5. framebuffer' \in Frames /\ Aligned(framebuffer') /\ Typed(framebuffer', inputStr', n, n)
  BY <1>1, <1>2, <1>3, <1>4, LineRedrawn DEF box
<1>6. n <= LineLength
  BY <1>4, TerminalAssumption
<1>7. QED BY <1>2, <1>3, <1>5, <1>6 DEF IInv, Typing, Pending, LineTyped

\* Nothing changes.
LEMMA StutteringKeeps ==
  IInv /\ UNCHANGED vars => IInv'
BY DEF vars, IInv, Typing, Pending, LineTyped

\* Every step keeps the invariant.
LEMMA InvariantKept ==
  IInv /\ [Next]_vars => IInv'
<1> SUFFICES ASSUME IInv, [Next]_vars PROVE IInv'
  OBVIOUS
<1>1. ASSUME NEW t \in Task, Begin(t) PROVE IInv'
  BY <1>1, BeginKeeps
<1>2. ASSUME NEW t \in Task, Draw(t) PROVE IInv'
  BY <1>2, DrawKeeps
<1>3. CASE ScheduleReports
  BY <1>3, ScheduleReportsKeeps
<1>4. ASSUME NEW c \in Keys, AddInputCharacter(c) PROVE IInv'
  BY <1>4, AddInputCharacterKeeps
<1>5. CASE RemoveInputCharacter
  BY <1>5, RemoveInputCharacterKeeps
<1>6. CASE UNCHANGED vars
  BY <1>6, StutteringKeeps
<1>7. QED BY <1>1, <1>2, <1>3, <1>4, <1>5, <1>6 DEF Next

\* So it always holds.
LEMMA Invariant ==
  Spec => []IInv
BY Initially, InvariantKept, PTL DEF Spec

-----------------------------------------------------------------------------
(* Calls that nobody disturbs.                                              *)

\* Nobody else has drawn into the text since the call began: it shows what the call has
\* written so far on the screen it found, and `left' is what is left to be written.
Continues(call, found, left, fb) ==
  /\ KeepsToText(call) /\ found \in Frames
  /\ \E done \in Seq(Safe) : Writes(call) = done \o left /\ SameText(fb, AllWritten(found, done))

\* A call that begins has written nothing.
LEMMA CallBegins ==
  ASSUME NEW fb \in Frames, NEW call, KeepsToText(call), NEW left, left = Writes(call)
  PROVE  Continues(call, fb, left, fb)
<1>1. left \in Seq(Safe)
  BY WritesAreSafe
<1>2. <<>> \in Seq(Safe) /\ left = <<>> \o left
  BY <1>1
<1>3. SameText(fb, AllWritten(fb, <<>>))
  BY NothingDrawn DEF SameText
<1>4. QED BY <1>2, <1>3 DEF Continues

\* A call that has written everything.
LEMMA CallEnds ==
  ASSUME NEW fb \in Frames, NEW call, KeepsToText(call), NEW next, next = AllWritten(fb, Writes(call))
  PROVE  Continues(call, fb, <<>>, next)
<1> DEFINE done == Writes(call)
<1>1. done \in Seq(Safe)
  BY WritesAreSafe
<1>2. SameText(next, AllWritten(fb, done))
  BY DEF SameText
<1> HIDE DEF done
<1>3. done = done \o <<>>
  BY <1>1
<1>4. QED BY <1>1, <1>2, <1>3 DEF Continues, done

\* One write more.
LEMMA CallGoesOn ==
  ASSUME NEW call, NEW found, NEW left \in Seq(Safe), left # <<>>, NEW fb,
         Continues(call, found, left, fb), NEW rest, rest = Tail(left),
         NEW next, next = Written(fb, Head(left))
  PROVE  Continues(call, found, rest, next)
<1> DEFINE w == Head(left)
<1>1. w \in Safe /\ rest \in Seq(Safe) /\ left = <<w>> \o rest
  OBVIOUS
<1>2. next = Written(fb, w)
  OBVIOUS
<1> HIDE DEF w
<1>3. PICK done \in Seq(Safe) : Writes(call) = done \o left /\ SameText(fb, AllWritten(found, done))
  BY DEF Continues
<1> DEFINE more == done \o <<w>>
<1>4. more \in Seq(Safe) /\ Writes(call) = more \o rest
  BY <1>1, <1>3
<1>5. AllWritten(found, more) = Written(AllWritten(found, done), w)
  <2>1. done \in Seq(Strokes) /\ <<w>> \in Seq(Strokes) /\ w \in Strokes /\ found \in Frames
    BY <1>1, <1>3, SafeIs DEF Continues
  <2> DEFINE mid == AllWritten(found, done)
  <2>2. AllWritten(found, more) = AllWritten(mid, <<w>>)
    BY <2>1, DrawnAfter
  <2>3. mid \in Frames
    BY <2>1, DrawnType
  <2> HIDE DEF mid
  <2>4. AllWritten(mid, <<w>>) = Written(mid, w)
    BY <2>1, <2>3, OneDrawn
  <2>5. QED BY <2>2, <2>4 DEF mid
<1>6. SameText(Written(fb, w), Written(AllWritten(found, done), w))
  BY <1>1, <1>3, TextFollows
<1> HIDE DEF more
<1>7. SameText(next, AllWritten(found, more))
  BY <1>2, <1>5, <1>6
<1>8. QED BY <1>4, <1>7 DEF Continues

\* Drawing elsewhere.
LEMMA CallStays ==
  ASSUME NEW call, NEW found, NEW left, NEW fb, Continues(call, found, left, fb),
         NEW next, SameText(fb, next)
  PROVE  Continues(call, found, left, next)
BY DEF Continues, SameText

\* A call that has written everything shows what it was given.
LEMMA CallShows ==
  ASSUME NEW call, NEW found, NEW fb, Continues(call, found, <<>>, fb), NEW p \in Pixels, RowOf(p) < InputTop
  PROVE  fb[p] = Expected(p, call, found)
<1>1. KeepsToText(call) /\ found \in Frames
  BY DEF Continues
<1>2. PICK done \in Seq(Safe) : Writes(call) = done \o <<>> /\ SameText(fb, AllWritten(found, done))
  BY DEF Continues
<1>3. Writes(call) = done
  BY <1>2
<1>4. AllWritten(found, Writes(call))[p] = Expected(p, call, found)
  BY <1>1, CallAppears DEF Appears
<1>5. QED BY <1>2, <1>3, <1>4 DEF SameText

\* What is left of the last call, and that nobody has disturbed it.
Left == IF since.by \in Task THEN todo[since.by] ELSE <<>>

Undisturbed == since # Nobody => Continues(since.call, since.found, Left, framebuffer)

\* A step that only draws below the text.
LEMMA StaysUndisturbed ==
  ASSUME Undisturbed, since' = since, todo' = todo, SameText(framebuffer, framebuffer')
  PROVE  Undisturbed'
<1> SUFFICES ASSUME since # Nobody PROVE Continues(since.call, since.found, Left, framebuffer')
  BY DEF Undisturbed, Left
<1>1. Continues(since.call, since.found, Left, framebuffer)
  BY DEF Undisturbed
<1> DEFINE call == since.call
           found == since.found
           left == Left
           fb == framebuffer
           next == framebuffer'
<1>2. Continues(call, found, left, fb) /\ SameText(fb, next)
  BY <1>1
<1> HIDE DEF call, found, left, fb, next
<1>3. Continues(call, found, left, next)
  BY <1>2, CallStays
<1>4. QED BY <1>3 DEF call, found, left, next

\* Every step keeps the last call undisturbed, or forgets it.
LEMMA UndisturbedKept ==
  ASSUME IInv, Undisturbed, [Next]_vars
  PROVE  Undisturbed'
<1> DEFINE fb == framebuffer
           next == framebuffer'
<1>1. fb \in Frames /\ stopped \in 0 .. MaxStopped /\ plan \in [Task -> Seq(Calls)]
      /\ inputStr \in Seq(Keys) /\ Len(inputStr) <= LineLength /\ todo \in [Task -> Seq(Safe)]
  BY DEF IInv, Typing, Pending
<1>2. IInv'
  <2>1. IInv /\ [Next]_vars => IInv'
    BY InvariantKept
  <2>2. QED BY <2>1
<1>3. inputStr' \in Seq(Keys) /\ Len(inputStr') \in 0 .. LineLength
  <2>1. inputStr' \in Seq(Keys) /\ Len(inputStr') <= LineLength
    BY <1>2 DEF IInv, Typing
  <2>2. LineLength \in Nat
    BY TerminalAssumption
  <2>3. QED BY <2>1, <2>2
<1>4. ASSUME NEW t \in Task, Begin(t) PROVE Undisturbed'
  <2> DEFINE call == Head(plan[t])
             left == Writes(call)
  <2>1. plan[t] \in Seq(Calls) /\ plan[t] # <<>> /\ call \in Calls
    BY <1>1, <1>4 DEF Begin
  <2>2. KeepsToText(call)
    BY <2>1, TextAssumption DEF TextLayout
  <2>3. todo'[t] = left /\ since' = [by |-> t, call |-> call, found |-> fb] /\ next = fb
    BY <1>1, <1>4 DEF Begin
  <2>4. since'.by = t /\ since'.call = call /\ since'.found = fb
    BY <2>3
  <2> HIDE DEF call
  <2>5. left = Writes(call)
    OBVIOUS
  <2> HIDE DEF left, fb
  <2>6. Continues(call, fb, left, fb)
    BY <1>1, <2>2, <2>5, CallBegins
  <2>7. Left' = left
    BY <2>3, <2>4 DEF Left
  <2>8. Continues(since'.call, since'.found, Left', next)
    BY <2>3, <2>4, <2>6, <2>7
  <2>9. QED BY <2>8 DEF Undisturbed, next
<1>5. ASSUME NEW t \in Task, Draw(t) PROVE Undisturbed'
  <2> DEFINE left == todo[t]
             rest == Tail(left)
  <2>1. left \in Seq(Safe) /\ left # <<>> /\ todo'[t] = rest /\ next = Written(fb, Head(left))
        /\ since' = IF since.by = t THEN since ELSE Nobody
    BY <1>1, <1>5 DEF Draw
  <2>2. CASE since' = Nobody
    BY <2>2 DEF Undisturbed
  <2>3. CASE since' # Nobody
    <3>1. since' = since /\ since.by = t /\ since # Nobody
      BY <2>1, <2>3
    <3> DEFINE call == since.call
               found == since.found
    <3>2. Continues(call, found, left, fb)
      BY <3>1 DEF Undisturbed, Left
    <3>3. Left' = rest
      BY <2>1, <3>1 DEF Left
    <3>4. rest = Tail(left)
      OBVIOUS
    <3> HIDE DEF call, found, left, rest, fb, next
    <3>5. Continues(call, found, rest, next)
      BY <2>1, <3>2, <3>4, CallGoesOn
    <3>6. Continues(since'.call, since'.found, Left', next)
      BY <3>1, <3>3, <3>5 DEF call, found
    <3>7. QED BY <3>6 DEF Undisturbed, next
  <2>4. QED BY <2>2, <2>3
<1>6. CASE ScheduleReports
  <2> DEFINE call == StoppedTask(stopped)
  <2>1. stopped \in 0 .. MaxStopped - 1
    BY <1>1, <1>6, TerminalAssumption DEF ScheduleReports
  <2>2. KeepsToText(call)
    BY <2>1, TextAssumption DEF TextLayout
  <2>3. next = AllWritten(fb, Writes(call)) /\ since' = [by |-> Handler, call |-> call, found |-> fb]
    BY <1>6 DEF ScheduleReports
  <2>4. since'.by = Handler /\ since'.call = call /\ since'.found = fb
    BY <2>3
  <2>5. Left' = <<>>
    BY <2>4, TerminalAssumption DEF Left
  <2> HIDE DEF call, fb, next
  <2>6. Continues(call, fb, <<>>, next)
    BY <1>1, <2>2, <2>3, CallEnds
  <2>7. Continues(since'.call, since'.found, Left', next)
    BY <2>4, <2>5, <2>6
  <2>8. QED BY <2>7 DEF Undisturbed, next
<1>7. ASSUME NEW c \in Keys, AddInputCharacter(c) PROVE Undisturbed'
  <2> DEFINE str == inputStr'
             n == Len(str)
  <2>1. next = AllWritten(fb, DrawString(str, 0, inputRow)) /\ since' = since /\ todo' = todo
    BY <1>7 DEF AddInputCharacter
  <2>2. str \in Seq(Keys) /\ n \in 0 .. LineLength /\ n = Len(str)
    BY <1>3
  <2>3. SameText(fb, next)
    <3> HIDE DEF str, n, fb, next
    <3>1. SameText(fb, AllWritten(fb, DrawString(str, 0, inputRow)))
      BY <1>1, <2>2, LineSparesText
    <3>2. QED BY <2>1, <3>1
  <2>4. QED BY <2>1, <2>3, StaysUndisturbed
<1>8. CASE RemoveInputCharacter
  <2> DEFINE str == inputStr'
             n == Len(str)
             box == DrawBox(0, inputRow * FontHeight, Width, Height - inputRow * FontHeight)
  <2>1. next = AllWritten(fb, box \o DrawString(str, 0, inputRow)) /\ since' = since /\ todo' = todo
    BY <1>8 DEF RemoveInputCharacter
  <2>2. str \in Seq(Keys) /\ n \in 0 .. LineLength /\ n = Len(str)
    BY <1>3
  <2>3. SameText(fb, next)
    <3>1. box = DrawBox(0, inputRow * FontHeight, Width, Height - inputRow * FontHeight)
      OBVIOUS
    <3> HIDE DEF str, n, box, fb, next
    <3>2. SameText(fb, AllWritten(fb, box \o DrawString(str, 0, inputRow)))
      BY <1>1, <2>2, <3>1, ClearingSparesText
    <3>3. QED BY <2>1, <3>2
  <2>4. QED BY <2>1, <2>3, StaysUndisturbed
<1>9. CASE UNCHANGED vars
  <2>1. since' = since /\ todo' = todo /\ framebuffer' = framebuffer
    BY <1>9 DEF vars
  <2>2. SameText(framebuffer, framebuffer')
    BY <2>1 DEF SameText
  <2>3. QED BY <2>1, <2>2, StaysUndisturbed
<1>10. QED BY <1>4, <1>5, <1>6, <1>7, <1>8, <1>9 DEF Next

-----------------------------------------------------------------------------
(* The theorems.                                                            *)

\* The input line shows exactly what has been typed and not been taken back, while
\* the text above it scrolls and tasks, Schedule and the keyboard handler interrupt
\* each other: AddInputCharacter draws the line again over what is there,
\* RemoveInputCharacter clears it first, and createNewLine, Print and DrawBox leave
\* it alone.
THEOREM InputLineIsShown ==
  Spec => []InputLineShown
<1>1. ASSUME IInv PROVE InputLineShown
  <2> DEFINE n == Len(inputStr)
             line == [i \in DOMAIN inputStr |-> [c |-> inputStr[i], x |-> (i - 1) * (FontWidth + 1)]]
  <2>1. n \in Nat /\ DOMAIN inputStr = 1 .. n /\ Typed(framebuffer, inputStr, n, n)
    BY <1>1 DEF IInv, Typing, LineTyped
  <2>2. /\ DOMAIN line = 1 .. n
        /\ \A i \in 1 .. n : line[i].c = inputStr[i] /\ line[i].x = (i - 1) * (FontWidth + 1)
    BY <2>1
  <2> HIDE DEF n, line
  <2>3. ASSUME NEW p \in Pixels, RowOf(p) >= Height - FontHeight
        PROVE  framebuffer[p] = Shown(p, line, Over(p, line))
    <3> DEFINE at == Over(p, line)
    <3>1. RowOf(p) >= InputTop
      BY <2>3 DEF InputTop
    <3>2. at = {i \in 1 .. n : InGlyph(p, i)}
      BY <2>2 DEF InGlyph, Over
    <3>3. Shown(p, line, at) = IF at = {} THEN Black ELSE Ink(line[Max(at)].c, RowOf(p) % FontHeight)
      BY DEF Shown
    <3> HIDE DEF at
    <3>4. CASE at = {}
      <4>1. \A i \in 1 .. n : ~InGlyph(p, i)
        BY <3>2, <3>4
      <4>2. framebuffer[p] = Black
        BY <2>1, <3>1, <4>1 DEF Typed
      <4>3. QED BY <3>3, <3>4, <4>2 DEF at
    <3>5. CASE at # {}
      <4>1. at \in SUBSET (1 .. n)
        BY <3>2
      <4>2. Max(at) \in at
        BY <2>1, <3>5, <4>1, MaxIsIn
      <4>3. Max(at) \in 1 .. n /\ InGlyph(p, Max(at))
        BY <3>2, <4>2
      <4>4. framebuffer[p] = Ink(inputStr[Max(at)], RowOf(p) % FontHeight)
        BY <2>1, <3>1, <4>3 DEF Typed
      <4>5. QED BY <2>2, <3>3, <3>5, <4>3, <4>4 DEF at
    <3>6. QED BY <3>4, <3>5
  <2>4. QED BY <2>3 DEF InputLineShown, line
<1>2. QED BY <1>1, Invariant, PTL

\* Whatever is torn when tasks are preempted between two writes, no pixel shows a row
\* of a glyph other than the one that belongs there: createNewLine copies whole lines
\* of text, and DrawString draws glyphs in lines of text only.
THEOREM GlyphsAreAligned ==
  Spec => []GlyphsStayAligned
<1>1. IInv => GlyphsStayAligned
  BY DEF IInv, Aligned, GlyphsStayAligned
<1>2. QED BY <1>1, Invariant, PTL

\* However printing tasks, Schedule and the keyboard handler have interrupted each other
\* before: a call of Print, Println or DrawBox that nobody else has drawn during shows
\* what it was given, in lines, with its numbers in full, and changes nothing else of
\* the text but for the scrolling.
THEOREM UndisturbedCallsShow ==
  Spec => []UndisturbedCallShows
<1>1. Init => Undisturbed
  BY DEF Init, Undisturbed
<1>2. IInv /\ Undisturbed /\ [Next]_vars => Undisturbed'
  BY UndisturbedKept
<1>3. ASSUME Undisturbed PROVE UndisturbedCallShows
  <2> SUFFICES ASSUME since # Nobody, since.by \in Task => todo[since.by] = <<>>,
                      NEW p \in Pixels, RowOf(p) < Height - FontHeight
               PROVE  framebuffer[p] = Expected(p, since.call, since.found)
    BY DEF UndisturbedCallShows
  <2>1. Left = <<>>
    BY DEF Left
  <2>2. Continues(since.call, since.found, <<>>, framebuffer)
    BY <1>3, <2>1 DEF Undisturbed
  <2> DEFINE call == since.call
             found == since.found
             fb == framebuffer
  <2>3. Continues(call, found, <<>>, fb) /\ RowOf(p) < InputTop
    BY <2>2 DEF InputTop
  <2> HIDE DEF call, found, fb
  <2>4. fb[p] = Expected(p, call, found)
    BY <2>3, CallShows
  <2>5. QED BY <2>4 DEF call, found, fb
<1>4. QED BY <1>1, <1>2, <1>3, Invariant, PTL DEF Spec
=============================================================================
