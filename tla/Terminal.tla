------------------------------- MODULE Terminal -------------------------------
(****************************************************************************)
(* The terminal: Print, Println and the input line, on the framebuffer of   *)
(* Canvas.  Tasks print with interrupts on and may be preempted between any *)
(* two writes; nothing locks the screen.  Schedule (which reports a stopped *)
(* task) and the keyboard handler draw with interrupts off, so what they    *)
(* draw is one step.                                                        *)
(****************************************************************************)
EXTENDS Canvas

CONSTANTS
  Task,           \* the tasks that draw
  Plans,          \* what they may be about to draw: functions from Task to
                  \* sequences of calls
  Keys,           \* the characters keys stand for
  LineLength,     \* bound: the keys on the input line
  MaxStopped,     \* bound: the tasks Schedule reports as stopped
  Handler         \* stands for Schedule, where the name of a printer is asked

ASSUME TerminalAssumption ==
  /\ Height % FontHeight = 0 /\ GetRows >= 3
  /\ LineLength \in Nat /\ MaxStopped \in Nat /\ Handler \notin Task

VARIABLES
  framebuffer,
  plan,       \* the calls each task has yet to make
  todo,       \* what is left to be written of the call it is in
  inputStr,   \* the first inputIndex characters of the input line
  stopped,    \* how many tasks Schedule has reported
  since       \* for the properties: the last call, by whom, and the screen it
              \* found, as long as nobody else has written since it began

vars == <<framebuffer, plan, todo, inputStr, stopped, since>>

-----------------------------------------------------------------------------
(* Printing.                                                                *)

\* Terminal::Setup: both are one less than what Frame tells.
totalRows == GetRows - 1

\* MUTANT: moves up by a pixel row less than a line has.
createNewLineShort ==
  memcpy(0, (FontHeight - 1) * Width, Height - 2 * FontHeight)
    \o memset((Height - 2 * FontHeight) * Width, FontHeight)

\* Everything but the last two lines is overwritten with the line below it, the
\* last but one is cleared; the last one is the input line.
createNewLine ==
  memcpy(0, FontHeight * Width, Height - 2 * FontHeight)
    \o memset((Height - 2 * FontHeight) * Width, FontHeight)

\* hexTranslation, which holds the decimal digits as well.
Numeral == [d \in 0 .. 15 |->
  <<"0", "1", "2", "3", "4", "5", "6", "7", "8", "9", "A", "B", "C", "D", "E", "F">>[d + 1]]

\* printNumber and printNumberHex: the digits in the order in which the recursion
\* draws them, each a piece of its own.
printNumber(n, base) ==
  LET f[k \in Nat] == (IF k < base THEN <<>> ELSE f[k \div base]) \o << <<Numeral[k % base]>> >>
  IN  f[n]

\* The strings a conversion draws one after the other.  %u draws like %d, the long
\* conversions like the short ones.  A %f is given in hundredths, which it shows as
\* a number of their own.
Pieces(it) ==
  CASE it.is = "%s" -> <<it.s>>
    [] it.is = "%d" -> IF it.n < 0 THEN << <<"-">> >> \o printNumber(-it.n, 10)
                                   ELSE printNumber(it.n, 10)
    [] it.is = "%x" -> << <<"0", "x">> >> \o printNumber(it.n, 16)
    [] it.is = "%f" -> printNumber(it.n \div 100, 10) \o << <<".">> >>
                         \o printNumber(it.n % 100, 10)

\* What has been written of a line, and the column that is next.
PieceDrawn(drawn, s, row) ==
  [writes |-> drawn.writes \o DrawString(s, drawn.column, row), column |-> drawn.column + Len(s)]

\* One turn of the loop of Print: a line break, a character or a conversion.
Printed(drawn, it, row) ==
  CASE it.is = "\n"   -> [writes |-> drawn.writes \o createNewLine, column |-> 0]
    [] it.is = "char" -> PieceDrawn(drawn, <<it.c>>, row)
    [] OTHER          -> FoldLeft(LAMBDA d, s : PieceDrawn(d, s, row), drawn, Pieces(it))

PrintArgs(items, column, row) ==
  FoldLeft(LAMBDA d, it : Printed(d, it, row), [writes |-> <<>>, column |-> column], items).writes

Println(items) == createNewLine \o PrintArgs(items, 0, totalRows - 1)

\* What a call of a task writes.
Writes(call) ==
  CASE call.is = "Println" -> Println(call.items)
    [] call.is = "Print"   -> PrintArgs(call.items, call.column, call.row)
    [] call.is = "DrawBox" -> DrawBox(call.x, call.y, call.w, call.h)

-----------------------------------------------------------------------------
(* Who draws.                                                               *)

Nobody == [by |-> "nobody"]

Init ==
  /\ framebuffer = [p \in Pixels |-> Black]
  /\ plan \in Plans
  /\ todo = [t \in Task |-> <<>>]
  /\ inputStr = <<>> /\ stopped = 0 /\ since = Nobody

Begin(t) ==
  /\ todo[t] = <<>> /\ plan[t] # <<>>
  /\ todo' = [todo EXCEPT ![t] = Writes(Head(plan[t]))]
  /\ plan' = [plan EXCEPT ![t] = Tail(@)]
  /\ since' = [by |-> t, call |-> Head(plan[t]), found |-> framebuffer]
  /\ UNCHANGED <<framebuffer, inputStr, stopped>>

\* A task goes on with the call it is in.
Draw(t) ==
  /\ todo[t] # <<>>
  /\ framebuffer' = Written(framebuffer, Head(todo[t]))
  /\ todo' = [todo EXCEPT ![t] = Tail(@)]
  /\ since' = IF since.by = t THEN since ELSE Nobody
  /\ UNCHANGED <<plan, inputStr, stopped>>

\* Schedule, within a tick: `Stopped task %ld'.
StoppedTask(id) == [is |-> "Println",
                    items |-> <<[is |-> "char", c |-> "s"], [is |-> "%d", n |-> id]>>]

ScheduleReports ==
  /\ stopped < MaxStopped /\ stopped' = stopped + 1
  /\ framebuffer' = AllWritten(framebuffer, Writes(StoppedTask(stopped)))
  /\ since' = [by |-> Handler, call |-> StoppedTask(stopped), found |-> framebuffer]
  /\ UNCHANGED <<plan, todo, inputStr>>

inputRow == GetRows - 1

\* AddInputCharacter draws the whole line again.
AddInputCharacter(c) ==
  /\ Len(inputStr) < LineLength
  /\ inputStr' = Append(inputStr, c)
  /\ framebuffer' = AllWritten(framebuffer, DrawString(inputStr', 0, inputRow))
  /\ UNCHANGED <<plan, todo, stopped, since>>

\* MUTANT: what the character has left on the screen is not cleared.
RemoveInputCharacterUncleared ==
  /\ inputStr' = IF inputStr = <<>> THEN <<>> ELSE SubSeq(inputStr, 1, Len(inputStr) - 1)
  /\ framebuffer' = AllWritten(framebuffer, DrawString(inputStr', 0, inputRow))
  /\ UNCHANGED <<plan, todo, stopped, since>>

\* RemoveInputCharacter clears the line before it does.
RemoveInputCharacter ==
  /\ inputStr' = IF inputStr = <<>> THEN <<>> ELSE SubSeq(inputStr, 1, Len(inputStr) - 1)
  /\ framebuffer' = AllWritten(framebuffer,
                      DrawBox(0, inputRow * FontHeight, Width, Height - inputRow * FontHeight)
                        \o DrawString(inputStr', 0, inputRow))
  /\ UNCHANGED <<plan, todo, stopped, since>>

Next == \/ \E t \in Task : Begin(t) \/ Draw(t)
        \/ ScheduleReports
        \/ \E c \in Keys : AddInputCharacter(c)
        \/ RemoveInputCharacter

Spec == Init /\ [][Next]_vars
===============================================================================
