-------------------------------- MODULE Canvas --------------------------------
(****************************************************************************)
(* The framebuffer and what writes to it: memcpy and memset over its        *)
(* memory, DrawBox and DrawString.  The framebuffer is linear memory, one   *)
(* cell per pixel, row after row: what is drawn past the right edge shows   *)
(* up one pixel row further down.  A drawing is a sequence of writes, the   *)
(* pieces between which its context may be preempted: a pixel row of a      *)
(* block, a glyph of a string.                                              *)
(****************************************************************************)
EXTENDS Integers, SequencesExt

CONSTANTS
  Width, Height,            \* CurrentFrame, in pixels
  FontWidth, FontHeight,    \* Font
  U16                       \* 2^16: what an uint16_t wraps at

ASSUME CanvasAssumption ==
  /\ {Width, Height, FontWidth, FontHeight, U16} \subseteq Nat \ {0}
  /\ Width < U16 /\ Height < U16

GetRows == Height \div FontHeight

\* What a pixel shows: the background or the y-th row of the glyph of c.
Black == [c |-> "none", y |-> 0]
Ink(c, y) == [c |-> c, y |-> y]

Pixels == 0 .. Width * Height - 1

\* A write puts into the cells of `to' what `from' tells: the cells `shift'
\* further on, the background, or a glyph whose corner is the first of them.
Copy(dst, src, n) == [do |-> "copy", to |-> dst .. dst + n - 1, shift |-> src - dst]
Fill(cells)       == [do |-> "fill", to |-> cells]
Glyph(corner, c)  == [do |-> "glyph", c |-> c, corner |-> corner,
                      to |-> {corner + y * Width + x :
                                x \in 0 .. FontWidth - 1, y \in 0 .. FontHeight - 1}]

\* The framebuffer after a write, and after a sequence of them.
Written(fb, w) ==
  [p \in Pixels |->
     CASE p \notin w.to                    -> fb[p]
       [] p \in w.to /\ w.do = "copy"      -> fb[p + w.shift]
       [] p \in w.to /\ w.do = "fill"      -> Black
       [] p \in w.to /\ w.do = "glyph"     -> Ink(w.c, (p - w.corner) \div Width)]

AllWritten(fb, ws) == FoldLeft(Written, fb, ws)

-----------------------------------------------------------------------------
\* MUTANT: begins at the end, like memmove where the source lies below.
memcpyDown(dst, src, rows) ==
  [i \in 1 .. rows |-> Copy(dst + (rows - i) * Width, src + (rows - i) * Width, Width)]

\* memcpy and memset of whole pixel rows go upwards, word after word.
memcpy(dst, src, rows) ==
  [i \in 1 .. rows |-> Copy(dst + (i - 1) * Width, src + (i - 1) * Width, Width)]

memset(dst, rows) ==
  [i \in 1 .. rows |-> Fill(dst + (i - 1) * Width .. dst + i * Width - 1)]

Smaller(a, b) == IF a < b THEN a ELSE b
Clipped(v, bound) == Smaller(IF v < 0 THEN 0 ELSE v, bound)

\* One end of a box along one axis; it goes into an uint16_t, so that a box that
\* ends left of the frame or above it has an end beyond all pixels.
End(pos, size, bound) == Smaller(pos + size, bound) % U16

DrawBox(x, y, w, h) ==
  LET rows == Clipped(y, Height) .. End(y, h, Height) - 1
      Row(i) == Fill(i * Width + Clipped(x, Width) .. i * Width + End(x, w, Width) - 1)
  IN  [i \in 1 .. Cardinality(rows) |-> Row(Clipped(y, Height) + i - 1)]

\* The glyphs of a string stand one pixel further apart than columns do.
DrawString(s, column, row) ==
  [i \in DOMAIN s |->
     Glyph(row * FontHeight * Width + column * FontWidth + (i - 1) * (FontWidth + 1), s[i])]
===============================================================================
