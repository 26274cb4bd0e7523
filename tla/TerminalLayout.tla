---------------------------- MODULE TerminalLayout ----------------------------
(****************************************************************************)
(* What the proofs about the terminal assume of the programs that print,    *)
(* which the code does not check: that they keep to the lines of text.      *)
(****************************************************************************)
EXTENDS TerminalProperties

\* A line break, a character or a conversion.
Printable(it) ==
  \/ it.is = "\n"
  \/ it.is = "char" /\ it.c \in STRING
  \/ it.is = "%s" /\ it.s \in Seq(STRING)
  \/ it.is = "%d" /\ it.n \in Int
  \/ it.is \in {"%x", "%f"} /\ it.n \in Nat

\* No line is wider than the screen.
KeepsToWidth(call) ==
  \A i \in DOMAIN Writes(call) : Writes(call)[i].do = "glyph" =>
    Writes(call)[i].corner - TextRow(call) * FontHeight * Width \in 0 .. Width - FontWidth

\* Print is given one of the lines above the input line; a box ends neither left of
\* the screen or above it, nor in the input line.
KeepsToText(call) ==
  \/ /\ call.is = "DrawBox"
     /\ {call.x, call.y, call.w, call.h} \subseteq Int
     /\ call.x + call.w >= 0 /\ call.y + call.h \in 0 .. Height - FontHeight
  \/ /\ call.is \in {"Println", "Print"}
     /\ call.is = "Print" => call.column \in Int /\ call.row \in 0 .. totalRows - 1
     /\ call.items \in Seq(Range(call.items))
     /\ \A i \in DOMAIN call.items : Printable(call.items[i])
     /\ KeepsToWidth(call)

Calls == UNION {UNION {Range(programs[t]) : t \in Task} : programs \in Plans}

\* The input line has room for the keys, too.
TextLayout ==
  /\ Keys \subseteq STRING /\ LineLength * (FontWidth + 1) <= Width + 1
  /\ Plans \subseteq [Task -> Seq(Calls)] /\ \A call \in Calls : KeepsToText(call)
  /\ \A id \in 0 .. MaxStopped - 1 : KeepsToText(StoppedTask(id))

ASSUME TextAssumption == TextLayout
===============================================================================
