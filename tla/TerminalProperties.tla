-------------------------- MODULE TerminalProperties --------------------------
(****************************************************************************)
(* What the screen shows, however printing tasks, Schedule and the keyboard *)
(* handler interrupt each other.                                            *)
(****************************************************************************)
EXTENDS Terminal

RowOf(p)    == p \div Width
ColumnOf(p) == p % Width

\* Glyphs in a line of text, each from a pixel column on: those that stand over
\* pixel p, and what p shows when these do, the later one on top.
Over(p, glyphs) ==
  {i \in DOMAIN glyphs : ColumnOf(p) \in glyphs[i].x .. glyphs[i].x + FontWidth - 1}

Shown(p, glyphs, at) ==
  IF at = {} THEN Black ELSE Ink(glyphs[Max(at)].c, RowOf(p) % FontHeight)

\* The input line shows exactly the characters that have been typed and not been
\* taken back, also while the lines above it scroll and tasks are preempted in
\* the middle of it.
InputLineShown ==
  LET line == [i \in DOMAIN inputStr |-> [c |-> inputStr[i], x |-> (i - 1) * (FontWidth + 1)]]
  IN  \A p \in Pixels : RowOf(p) >= Height - FontHeight => framebuffer[p] = Shown(p, line, Over(p, line))

\* However torn: what the screen shows of a glyph stays in the pixel row of its
\* line that it was drawn in, so that text may be lost but not smeared.
GlyphsStayAligned ==
  \A p \in Pixels : framebuffer[p] # Black => framebuffer[p].y = RowOf(p) % FontHeight

-----------------------------------------------------------------------------
\* What a conversion stands for, in the shortest numerals (5.07 is shown as 5.7).
Power(base) == LET power[k \in Nat] == IF k = 0 THEN 1 ELSE base * power[k - 1]
               IN  power

Spelled(n, base) ==
  LET power  == Power(base)
      length == CHOOSE k \in 1 .. n + 1 : n < power[k] /\ (k = 1 \/ power[k - 1] <= n)
  IN  [i \in 1 .. length |-> Numeral[(n \div power[length - i]) % base]]

Text(it) ==
  CASE it.is = "char" -> <<it.c>>
    [] it.is = "%s"   -> it.s
    [] it.is = "%d"   -> IF it.n < 0 THEN <<"-">> \o Spelled(-it.n, 10) ELSE Spelled(it.n, 10)
    [] it.is = "%x"   -> <<"0", "x">> \o Spelled(it.n, 16)
    [] it.is = "%f"   -> Spelled(it.n \div 100, 10) \o <<".">> \o Spelled(it.n % 100, 10)

\* A string is set wider than single characters are, by a pixel per character, but
\* the text behind it is not moved.
Wide(it) == IF it.is = "%s" THEN Len(it.s) ELSE IF it.is = "%x" THEN 2 ELSE 1

\* Items set in lines, which are counted from 0.
SetItem(page, it) ==
  IF it.is = "\n"
    THEN [page EXCEPT !.line = @ + 1, !.column = 0]
    ELSE [page EXCEPT
            !.glyphs = @ \o [k \in DOMAIN Text(it) |->
                               [c |-> Text(it)[k], line |-> page.line,
                                x |-> (page.column + k - 1) * FontWidth
                                        + (IF k <= Wide(it) THEN k - 1 ELSE 0)]],
            !.column = @ + Len(Text(it))]

Page(items, column) ==
  FoldLeft(SetItem, [glyphs |-> <<>>, line |-> 0, column |-> column], items)

\* Println begins a line of its own.
PageOf(call) ==
  IF call.is = "Println" THEN Page(<<[is |-> "\n"]>> \o call.items, 0)
                         ELSE Page(call.items, call.column)

\* The line of text a call writes to.
TextRow(call) == IF call.is = "Print" THEN call.row ELSE totalRows - 1

\* What pixel p of the text shows when the page has been printed from the line of
\* text `row' on, in which its last line stands: every line of it has scrolled the
\* ones before it, and what was found, by one.
Printout(p, page, row, found) ==
  LET line == page.line - (row - RowOf(p) \div FontHeight)
      at   == {i \in Over(p, page.glyphs) : page.glyphs[i].line = line}
  IN  IF at = {} /\ RowOf(p) \div FontHeight + page.line < totalRows
        THEN found[p + page.line * FontHeight * Width]
        ELSE Shown(p, page.glyphs, at)

\* What it shall show after the call.
Expected(p, call, found) ==
  LET boxed == /\ call.x <= ColumnOf(p) /\ ColumnOf(p) < call.x + call.w
               /\ call.y <= RowOf(p) /\ RowOf(p) < call.y + call.h
  IN  CASE call.is \in {"Println", "Print"} -> Printout(p, PageOf(call), TextRow(call), found)
        [] call.is = "DrawBox"              -> IF boxed THEN Black ELSE found[p]

\* Whatever else was going on before it: a call nobody else has drawn during shows
\* what it was given, numbers in full, and nothing else of the text changes but
\* for the scrolling.
UndisturbedCallShows ==
  since # Nobody /\ (since.by \in Task => todo[since.by] = <<>>) =>
    \A p \in Pixels : RowOf(p) < Height - FontHeight =>
      framebuffer[p] = Expected(p, since.call, since.found)
===============================================================================
