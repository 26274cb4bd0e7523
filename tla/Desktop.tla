-------------------------------- MODULE Desktop --------------------------------
(****************************************************************************)
(* The desktop service: tasks that create a window, draw into its buffer    *)
(* and call Window::Update, and the task that runs DesktopService::Update,  *)
(* which copies dirty windows to the framebuffer row by row.  The tasks are *)
(* preempted between any two steps; only CreateWindow takes a lock.         *)
(****************************************************************************)
EXTENDS Integers, FiniteSets, FiniteSetsExt

CONSTANTS
  Client,       \* the tasks with a window, each named like it
  MaxWindows,   \* MAX_WINDOW_COUNT
  Rows,         \* the height of a window
  MaxDraws,     \* bound: how often a task draws its window anew
  nullptr

ASSUME DesktopAssumption ==
  /\ {MaxWindows, Rows} \subseteq Nat \ {0} /\ MaxDraws \in Nat
  /\ nullptr \notin Client

VARIABLES
  windows, windowCount, windowLock,
  IsDirty,    \* of each window
  buffer,     \* of each window, the drawing each row is of
  screen,     \* what the framebuffer shows of each window
  pc,         \* where each task is
  row,        \* its counter: the slot CreateWindow found, then the next row it draws
  i, y,       \* the loop counters of Update
  window      \* the window Update is at, or nullptr

table == <<windows, windowCount>>
task  == <<pc, row>>
loop  == <<i, y, window>>
vars  == <<table, windowLock, IsDirty, buffer, screen, task, loop>>

Slots    == 0 .. MaxWindows - 1
Drawings == 0 .. MaxDraws

Init ==
  /\ windows = [k \in Slots |-> nullptr] /\ windowCount = 0
  /\ windowLock = FALSE
  /\ IsDirty = [c \in Client |-> FALSE]
  /\ buffer = [c \in Client |-> [r \in 1 .. Rows |-> 0]]
  /\ screen = buffer
  /\ pc = [c \in Client |-> "start"] /\ row = [c \in Client |-> 1]
  /\ i = 0 /\ y = 1 /\ window = nullptr

-----------------------------------------------------------------------------
(* A task with a window.                                                    *)

Step(c, p, q) == pc[c] = p /\ pc' = [pc EXCEPT ![c] = q]

\* MUTANT: the lock is set without a look at it.
CreateBlindly(c) ==
  /\ Step(c, "start", "search")
  /\ windowLock' = TRUE
  /\ UNCHANGED <<table, IsDirty, buffer, screen, row, loop>>

\* CreateWindow: windowLock.Acquire() succeeds.
Create(c) ==
  /\ ~windowLock
  /\ Step(c, "start", "search")
  /\ windowLock' = TRUE
  /\ UNCHANGED <<table, IsDirty, buffer, screen, row, loop>>

\* The search for a free slot; the new window, dirty from the start, is not yet
\* in the table.
Search(c) ==
  /\ IF \E k \in Slots : windows[k] = nullptr
       THEN /\ Step(c, "search", "publish")
            /\ IsDirty' = [IsDirty EXCEPT ![c] = TRUE]
            /\ row' = [row EXCEPT ![c] = Min({k \in Slots : windows[k] = nullptr})]
            /\ UNCHANGED windowLock
       ELSE /\ Step(c, "search", "refused")
            /\ windowLock' = FALSE
            /\ UNCHANGED <<IsDirty, row>>
  /\ UNCHANGED <<table, buffer, screen, loop>>

\* MUTANT: the window is counted before it is in the table.
PublishCounted(c) ==
  /\ Step(c, "publish", "count")
  /\ windowCount' = windowCount + 1
  /\ UNCHANGED <<windows, windowLock, IsDirty, buffer, screen, row, loop>>

Publish(c) ==
  /\ Step(c, "publish", "count")
  /\ windows' = [windows EXCEPT ![row[c]] = c]
  /\ UNCHANGED <<windowCount, windowLock, IsDirty, buffer, screen, row, loop>>

Count(c) ==
  /\ Step(c, "count", "draw")
  /\ windowCount' = windowCount + 1
  /\ windowLock' = FALSE
  /\ row' = [row EXCEPT ![c] = 1]
  /\ UNCHANGED <<windows, IsDirty, buffer, screen, loop>>

\* Drawing writes the buffer row after row.
Draw(c) ==
  /\ row[c] <= Rows /\ Step(c, "draw", "draw")
  /\ buffer[c][row[c]] < MaxDraws
  /\ buffer' = [buffer EXCEPT ![c][row[c]] = @ + 1]
  /\ row' = [row EXCEPT ![c] = @ + 1]
  /\ UNCHANGED <<table, windowLock, IsDirty, screen, loop>>

\* Window::Update of the drawing that is complete.
Dirty(c) ==
  /\ row[c] > Rows /\ Step(c, "draw", "wait")
  /\ IsDirty' = [IsDirty EXCEPT ![c] = TRUE]
  /\ UNCHANGED <<table, windowLock, buffer, screen, row, loop>>

\* Task::Wait ends.
Wakes(c) ==
  /\ Step(c, "wait", "draw")
  /\ row' = [row EXCEPT ![c] = 1]
  /\ UNCHANGED <<table, windowLock, IsDirty, buffer, screen, loop>>

-----------------------------------------------------------------------------
(* The task of the desktop: Update, again and again.                        *)

\* Neither the lock nor windows[i] is looked at.
Visit ==
  /\ window = nullptr /\ i < windowCount
  /\ IF IsDirty[windows[i]]
       THEN window' = windows[i] /\ y' = 1 /\ UNCHANGED i
       ELSE i' = i + 1 /\ UNCHANGED <<window, y>>
  /\ UNCHANGED <<table, windowLock, IsDirty, buffer, screen, task>>

\* MUTANT: stops one row short.
CopyRowShort ==
  /\ window # nullptr /\ y <= Rows
  /\ screen' = IF y < Rows THEN [screen EXCEPT ![window][y] = buffer[window][y]] ELSE screen
  /\ y' = y + 1
  /\ UNCHANGED <<table, windowLock, IsDirty, buffer, task, i, window>>

CopyRow ==
  /\ window # nullptr /\ y <= Rows
  /\ screen' = [screen EXCEPT ![window][y] = buffer[window][y]]
  /\ y' = y + 1
  /\ UNCHANGED <<table, windowLock, IsDirty, buffer, task, i, window>>

Clean ==
  /\ window # nullptr /\ y > Rows
  /\ IsDirty' = [IsDirty EXCEPT ![window] = FALSE]
  /\ window' = nullptr /\ i' = i + 1
  /\ UNCHANGED <<table, windowLock, buffer, screen, task, y>>

\* Update returns, and is called again 20 ms later.
Again ==
  /\ window = nullptr /\ i >= windowCount /\ i > 0
  /\ i' = 0
  /\ UNCHANGED <<table, windowLock, IsDirty, buffer, screen, task, y, window>>

Update == Visit \/ CopyRow \/ Clean \/ Again

Next == Update \/ \E c \in Client :
          Create(c) \/ Search(c) \/ Publish(c) \/ Count(c) \/ Draw(c) \/ Dirty(c) \/ Wakes(c)

\* The scheduler runs every task again and again.
Spec == Init /\ [][Next]_vars /\ WF_vars(Update)
================================================================================
