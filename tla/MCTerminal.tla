------------------------------ MODULE MCTerminal ------------------------------
(* Instances of the terminal for TLC. *)
EXTENDS TerminalLayout, TLC

Ch(c)  == [is |-> "char", c |-> c]
D(n)   == [is |-> "%d", n |-> n]
X(n)   == [is |-> "%x", n |-> n]
F(n)   == [is |-> "%f", n |-> n]
S(s)   == [is |-> "%s", s |-> s]
Return == [is |-> "\n"]

Ln(items)            == [is |-> "Println", items |-> items]
At(row, col, items)  == [is |-> "Print", items |-> items, column |-> col, row |-> row]
Box(left, top, w, h) == [is |-> "DrawBox", x |-> left, y |-> top, w |-> w, h |-> h]

\* One task prints: numbers of one and of several digits, strings, lines.  No line
\* is wider than the screen.
Alone ==
  {<<Ln(<<D(-n)>>), At(1, 0, <<Ch("t"), F(n)>>)>> : n \in {0, 9, 10, 107}}
    \cup {<<Ln(<<X(n)>>), At(1, 1, <<X(n + 15)>>)>> : n \in {0, 15, 16}}
    \cup {<<Ln(<<Ch("a"), Return, S(<<"b", "c">>), D(1), Return, Ch("d")>>)>>,
          <<Ln(<<S(<<"a", "b">>)>>), At(1, 2, <<Ch("e"), Return, Ch("f")>>)>>,
          <<Ln(<<S(<<"a", "b">>)>>), Box(3, 1, 20, 4), Box(-2, 3, 5, 1)>>}

\* Two tasks do, one of them the way the profiler does: over a box.
Together ==
  {<< <<Ln(<<Ch("a"), D(12)>>)>>, <<Ln(<<S(<<"p", "q">>)>>)>> >>,
   << <<Ln(<<Ch("a")>>)>>, <<Box(0, 0, 6, 3), At(0, 0, <<D(4), Ch(".")>>)>> >>}

Programs == {("a" :> p @@ "b" :> <<>>) : p \in Alone}
              \cup {("a" :> p[1] @@ "b" :> p[2]) : p \in Together}
===============================================================================
