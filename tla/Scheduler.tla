------------------------------ MODULE Scheduler ------------------------------
(****************************************************************************)
(* The task scheduler of the kernel: the task table `Tasks', StartTask,     *)
(* Task::Stop, Task::Wait, Task::Exit, the idle task and Schedule, which    *)
(* the timer interrupt runs.  One CPU executes one context at a time: the   *)
(* boot code, the idle task or the code of a task, named by its stack.      *)
(* Contexts are preempted by the timer between any two of their steps; the  *)
(* interrupt handler itself runs with interrupts off, its loop over the     *)
(* table is one step per visited slot.                                      *)
(****************************************************************************)
EXTENDS Integers, FiniteSets

CONSTANTS
  MaxTasks,          \* MAX_TASK_COUNT, the slots of the task table
  Stack,             \* the stacks of the tasks: a task is named by its stack
  Boot,              \* the context of kernel_main
  IdleStack,         \* the stack of the idle task
  Nowhere,           \* a frame that leads to no task's code (retip 0, garbage)
  Delays,            \* the millisecond arguments given to Task::Wait
  TickMod,           \* 2^64: SleepTicks is a uint64_t
  StopCalls          \* does some context call Task::Stop or Task::Exit?

ASSUME MaxTasksAssumption == MaxTasks \in Nat \ {0}
ASSUME TickAssumption     == /\ TickMod \in Nat \ {0}
                             /\ Delays \subseteq 0 .. TickMod - 1
ASSUME ContextAssumption  == /\ Boot \notin Stack
                             /\ IdleStack \notin Stack \cup {Boot}
                             /\ Nowhere \notin Stack \cup {Boot, IdleStack}
ASSUME FlagAssumption     == StopCalls \in BOOLEAN

VARIABLES
  Tasks,          \* the task table
  taskCount,      \* the slots below it are the ones Schedule looks at
  currentTask,    \* the slot that runs, -1 for the idle task
  idCounter,
  idle,           \* IsAlive and CpuState of the idle task
  taskStartLock,  \* Spinlock of StartTask
  heapLock,       \* Spinlock of malloc and free
  cpu,            \* the context the CPU executes or has just interrupted
  irqOn,          \* has the boot code executed INT_ON?
  scheduling,     \* is the CPU inside Schedule?
  visit,          \* the loop counter i of Schedule
  nextTask,       \* nextTask of Schedule, -1 until nextTaskFound
  pc,             \* where each context is in the call it makes
  loc             \* the local variable of that call: i of StartTask, the
                  \* loaded taskCount of its ++, the slot t of Wait

table  == <<Tasks, taskCount, currentTask, idCounter>>
locks  == <<taskStartLock, heapLock>>
isr    == <<scheduling, visit, nextTask>>
thread == <<pc, loc>>
vars   == <<table, idle, locks, cpu, irqOn, isr, thread>>

Slots   == 0 .. MaxTasks - 1
Threads == Stack \cup {Boot}
States  == {"Stopped", "Stopping", "Idle", "Running", "Sleeping"}
Places  == {"new", "run", "probe", "fill", "count", "store",
            "wait", "doze", "spin", "heap", "halt"}
InStart == {"probe", "fill", "count", "store"}   \* holds taskStartLock

Task == [State : States, ID : Int, SleepTicks : 0 .. TickMod - 1,
         CpuState : Stack \cup {Nowhere}, stack : Stack \cup {Nowhere}]

\* A slot of the zeroed table, and one cleared by `Tasks[i] = nullptr', which
\* builds a Task for the function at address 0 on a stack no task owns.
NoTask == [State |-> "Stopped", ID |-> -1, SleepTicks |-> 0,
           CpuState |-> Nowhere, stack |-> Nowhere]

NewTask(s, id) == [State |-> "Idle", ID |-> id, SleepTicks |-> 0,
                   CpuState |-> s, stack |-> s]

\* Task::construct writes IsAlive = false and a frame on the new stack.
Init ==
  /\ Tasks = [k \in Slots |-> NoTask]
  /\ taskCount = 0 /\ currentTask = -1 /\ idCounter = 0
  /\ idle = [IsAlive |-> FALSE, CpuState |-> IdleStack]
  /\ taskStartLock = FALSE /\ heapLock = FALSE
  /\ cpu = Boot /\ irqOn = FALSE
  /\ scheduling = FALSE /\ visit = 1 /\ nextTask = -1
  /\ pc = [c \in Threads |-> IF c = Boot THEN "run" ELSE "new"]
  /\ loc = [c \in Threads |-> 0]

-----------------------------------------------------------------------------
(* What a context does.                                                     *)

\* Context c is the one that executes, and stands at p.
At(c, p) == cpu = c /\ ~scheduling /\ pc[c] = p

Goto(c, p, l) == /\ pc' = [pc EXCEPT ![c] = p]
                 /\ loc' = [loc EXCEPT ![c] = l]

\* The boot code calls the scheduler only before it turns interrupts on.
Calls(c) == At(c, "run") /\ (c = Boot => ~irqOn)

\* MUTANT: the lock is set without a look at it.
StartAcquireBlindly(c) ==
  /\ Calls(c) /\ \E s \in Stack : pc[s] = "new"
  /\ taskStartLock' = TRUE
  /\ Goto(c, "probe", taskCount)
  /\ UNCHANGED <<table, idle, heapLock, cpu, irqOn, isr>>

\* StartTask: taskStartLock.Acquire() succeeds, i starts at taskCount.
StartAcquire(c) ==
  /\ Calls(c) /\ \E s \in Stack : pc[s] = "new"
  /\ ~taskStartLock /\ taskStartLock' = TRUE
  /\ Goto(c, "probe", taskCount)
  /\ UNCHANGED <<table, idle, heapLock, cpu, irqOn, isr>>

\* One turn of the search for a Stopped slot.
StartProbe(c) ==
  /\ At(c, "probe") /\ loc[c] < MaxTasks
  /\ IF Tasks[loc[c]].State = "Stopped" THEN Goto(c, "fill", loc[c])
                                        ELSE Goto(c, "probe", loc[c] + 1)
  /\ UNCHANGED <<table, idle, locks, cpu, irqOn, isr>>

\* No slot was Stopped: unlock, return nullptr.
StartFull(c) ==
  /\ At(c, "probe") /\ loc[c] = MaxTasks
  /\ taskStartLock' = FALSE
  /\ Goto(c, "run", 0)
  /\ UNCHANGED <<table, idle, heapLock, cpu, irqOn, isr>>

\* The slot gets a copy of the new task, an ID and the state Idle.
StartFill(c) ==
  /\ At(c, "fill")
  /\ \E s \in Stack :
       /\ pc[s] = "new"
       /\ Tasks' = [Tasks EXCEPT ![loc[c]] = NewTask(s, idCounter)]
       /\ pc' = [pc EXCEPT ![c] = "count", ![s] = "run"]
  /\ idCounter' = idCounter + 1
  /\ UNCHANGED <<taskCount, currentTask, idle, locks, cpu, irqOn, isr, loc>>

\* MUTANT: unlocks before taskCount has been stored.
StartCountUnlocks(c) ==
  /\ At(c, "count")
  /\ Goto(c, "store", taskCount)
  /\ taskStartLock' = FALSE
  /\ UNCHANGED <<table, idle, heapLock, cpu, irqOn, isr>>

\* taskCount++ is a load and a store; the tick may fall between them.
StartCount(c) ==
  /\ At(c, "count")
  /\ Goto(c, "store", taskCount)
  /\ UNCHANGED <<table, idle, locks, cpu, irqOn, isr>>

StartStore(c) ==
  /\ At(c, "store")
  /\ taskCount' = loc[c] + 1
  /\ taskStartLock' = FALSE
  /\ Goto(c, "run", 0)
  /\ UNCHANGED <<Tasks, currentTask, idCounter, idle, heapLock, cpu, irqOn, isr>>

\* Task::Wait: the slot comes from GetCurrentTask, then Sleep writes the two
\* fields one after the other, then Wait spins on the first of them.
WaitCall(c) ==
  /\ Calls(c) /\ c # Boot /\ currentTask # -1
  /\ Goto(c, "wait", currentTask)
  /\ UNCHANGED <<table, idle, locks, cpu, irqOn, isr>>

SleepTicksWritten(c) ==
  /\ At(c, "wait")
  /\ \E ms \in Delays : Tasks' = [Tasks EXCEPT ![loc[c]].SleepTicks = ms]
  /\ Goto(c, "doze", loc[c])
  /\ UNCHANGED <<taskCount, currentTask, idCounter, idle, locks, cpu, irqOn, isr>>

SleepStateWritten(c) ==
  /\ At(c, "doze")
  /\ Tasks' = [Tasks EXCEPT ![loc[c]].State = "Sleeping"]
  /\ Goto(c, "spin", loc[c])
  /\ UNCHANGED <<taskCount, currentTask, idCounter, idle, locks, cpu, irqOn, isr>>

WaitReturn(c) ==
  /\ At(c, "spin") /\ Tasks[loc[c]].SleepTicks = 0
  /\ Goto(c, "run", 0)
  /\ UNCHANGED <<table, idle, locks, cpu, irqOn, isr>>

\* malloc and free, seen from here: a critical section under heapLock.
HeapAcquire(c) ==
  /\ Calls(c)
  /\ ~heapLock /\ heapLock' = TRUE
  /\ Goto(c, "heap", 0)
  /\ UNCHANGED <<table, idle, taskStartLock, cpu, irqOn, isr>>

\* MUTANT: returns without giving the lock back.
HeapUnlockForgotten(c) ==
  /\ At(c, "heap")
  /\ Goto(c, "run", 0)
  /\ UNCHANGED <<table, idle, locks, cpu, irqOn, isr>>

HeapUnlock(c) ==
  /\ At(c, "heap")
  /\ heapLock' = FALSE
  /\ Goto(c, "run", 0)
  /\ UNCHANGED <<table, idle, taskStartLock, cpu, irqOn, isr>>

\* Task::Stop through a pointer StartTask returned, or on an element of the
\* array: it asks neither which task the slot holds by now nor whether it holds
\* one, so that a slot StartTask takes for free, or has just found, is marked.
Stop(c, k) ==
  /\ StopCalls /\ Calls(c)
  /\ Tasks' = [Tasks EXCEPT ![k].State = "Stopping"]
  /\ UNCHANGED <<taskCount, currentTask, idCounter, idle, locks, cpu, irqOn, isr, thread>>

\* Task::Exit: stop the current task, then hlt.
Exit(c) ==
  /\ StopCalls /\ Calls(c) /\ c # Boot /\ currentTask # -1
  /\ Tasks' = [Tasks EXCEPT ![currentTask].State = "Stopping"]
  /\ Goto(c, "halt", 0)
  /\ UNCHANGED <<taskCount, currentTask, idCounter, idle, locks, cpu, irqOn, isr>>

\* A keyboard or mouse interrupt ends the hlt: Exit returns to its caller.
ExitResumes(c) ==
  /\ At(c, "halt")
  /\ Goto(c, "run", 0)
  /\ UNCHANGED <<table, idle, locks, cpu, irqOn, isr>>

\* kernel_main has started its tasks: INT_ON, then while(true).
EnableInterrupts ==
  /\ At(Boot, "run") /\ ~irqOn
  /\ irqOn' = TRUE
  /\ UNCHANGED <<table, idle, locks, cpu, isr, thread>>

IdleSetsAlive ==
  /\ cpu = IdleStack /\ ~scheduling /\ ~idle.IsAlive
  /\ idle' = [idle EXCEPT !.IsAlive = TRUE]
  /\ UNCHANGED <<table, locks, cpu, irqOn, isr, thread>>

-----------------------------------------------------------------------------
(* Schedule.                                                                *)

\* MUTANT: saves the interrupted frame without asking for IsAlive.
IdleFramesUnasked == {cpu}

\* Where the idle task continues once this tick has interrupted the CPU.  Until
\* it is alive the pushed frame is dropped; pushed by the idle task itself it
\* overwrites the one construct prepared, in place or shifted by the alignment.
IdleFrames ==
  CASE idle.IsAlive                     -> {cpu}
    [] ~idle.IsAlive /\ cpu = IdleStack -> {IdleStack, Nowhere}
    [] OTHER                            -> {idle.CpuState}

\* MUTANTS: leaves the task Running; makes it Idle whatever it was.
InterruptedStaysRunning(t) == [t EXCEPT !.CpuState = cpu]
InterruptedAlwaysIdle(t)   == [t EXCEPT !.CpuState = cpu, !.State = "Idle"]

\* The slot of the current task when the tick has interrupted it.
Interrupted(t) == [t EXCEPT !.CpuState = cpu,
                            !.State = IF @ = "Running" THEN "Idle" ELSE @]

\* The timer interrupt: the interrupted frame is saved in the slot of the
\* current task, or in the idle task.
TickEnter ==
  /\ irqOn /\ ~scheduling /\ cpu # Nowhere
  /\ scheduling' = TRUE /\ visit' = 1 /\ nextTask' = -1
  /\ IF currentTask # -1
       THEN Tasks' = [Tasks EXCEPT ![currentTask] = Interrupted(@)] /\ UNCHANGED idle
       ELSE /\ \E f \in IdleFrames : idle' = [idle EXCEPT !.CpuState = f]
            /\ UNCHANGED Tasks
  /\ UNCHANGED <<taskCount, currentTask, idCounter, locks, cpu, irqOn, thread>>

\* MUTANT: the loop begins with the current task instead of the one after it.
SlotFromCurrent == (currentTask + visit - 1) % taskCount

\* The slot the loop looks at; taskCount shrinks under it when a task is reaped.
Slot == (currentTask + visit) % taskCount

Visit(states) ==
  /\ scheduling /\ visit <= taskCount
  /\ Tasks[Slot].State \in states
  /\ visit' = visit + 1
  /\ UNCHANGED <<currentTask, idCounter, idle, locks, cpu, irqOn, scheduling, thread>>

\* MUTANT: takes the last ready task instead of the first.
VisitIdleLast ==
  /\ Visit({"Idle"})
  /\ nextTask' = Slot
  /\ UNCHANGED <<Tasks, taskCount>>

VisitIdle ==
  /\ Visit({"Idle"})
  /\ nextTask' = IF nextTask = -1 THEN Slot ELSE nextTask
  /\ UNCHANGED <<Tasks, taskCount>>

\* MUTANT: a signed counter.
DecSigned(n) == n - 1

\* SleepTicks-- on a uint64_t, then the test against 0.
Dec(n) == IF n = 0 THEN TickMod - 1 ELSE n - 1

\* MUTANT: counts down but never wakes.
SleptOn(t) == [t EXCEPT !.SleepTicks = Dec(@)]

Slept(t) == [t EXCEPT !.SleepTicks = Dec(@),
                      !.State = IF t.SleepTicks = 1 THEN "Idle" ELSE @]

VisitSleeping ==
  /\ Visit({"Sleeping"})
  /\ Tasks' = [Tasks EXCEPT ![Slot] = Slept(@)]
  /\ UNCHANGED <<taskCount, nextTask>>

\* MUTANTS: the last slot is copied but not cleared; the task that moved in
\* goes on under its new index.
ReapedUncleared(k) == [Tasks EXCEPT ![k] = Tasks[taskCount - 1]]
ReapedAlive(k)     == [Tasks EXCEPT ![k] = Tasks[taskCount - 1], ![taskCount - 1] = NoTask]

\* The last slot moves into k and is cleared; the state that is set to Stopped
\* afterwards is that of the task that moved in.
Reaped(k) == [j \in Slots |->
                CASE j = taskCount - 1 -> NoTask
                  [] j = k /\ j # taskCount - 1 -> [Tasks[taskCount - 1] EXCEPT !.State = "Stopped"]
                  [] OTHER -> Tasks[j]]

\* MUTANT: waits for StartTask to be done with the table, too.
VisitStoppingLocked ==
  /\ Visit({"Stopping"}) /\ ~heapLock /\ ~taskStartLock
  /\ Tasks' = Reaped(Slot)
  /\ taskCount' = taskCount - 1
  /\ UNCHANGED nextTask

\* Clearing the slot allocates a stack: malloc spins, with interrupts off, for
\* as long as heapLock is taken.
VisitStopping ==
  /\ Visit({"Stopping"}) /\ ~heapLock
  /\ Tasks' = Reaped(Slot)
  /\ taskCount' = taskCount - 1
  /\ UNCHANGED nextTask

VisitOther ==
  /\ Visit({"Stopped", "Running"})
  /\ UNCHANGED <<Tasks, taskCount, nextTask>>

\* MUTANTS: with nothing ready the interrupted task goes on; the frame is taken
\* before currentTask has been updated.
InterruptedFrame ==
  CASE nextTask # -1                      -> Tasks[nextTask].CpuState
    [] nextTask = -1 /\ currentTask # -1  -> Tasks[currentTask].CpuState
    [] OTHER                              -> idle.CpuState
StaleFrame == IF currentTask = -1 THEN idle.CpuState ELSE Tasks[currentTask].CpuState

\* The frame load_cpu_state continues with.
NextFrame == IF nextTask = -1 THEN idle.CpuState ELSE Tasks[nextTask].CpuState

\* The end of the loop: the next task, or the idle task if none is ready.
Dispatch ==
  /\ scheduling /\ visit > taskCount
  /\ currentTask' = nextTask
  /\ cpu' = NextFrame
  /\ Tasks' = IF nextTask = -1 THEN Tasks ELSE [Tasks EXCEPT ![nextTask].State = "Running"]
  /\ scheduling' = FALSE /\ visit' = 1 /\ nextTask' = -1
  /\ UNCHANGED <<taskCount, idCounter, idle, locks, irqOn, thread>>

Schedule == VisitIdle \/ VisitSleeping \/ VisitStopping \/ VisitOther \/ Dispatch

\* The steps that carry a call on once it has begun.
Carry(c) ==
  \/ StartProbe(c) \/ StartFull(c) \/ StartFill(c) \/ StartCount(c) \/ StartStore(c)
  \/ SleepTicksWritten(c) \/ SleepStateWritten(c) \/ WaitReturn(c)
  \/ HeapUnlock(c)

Call(c) ==
  \/ StartAcquire(c) \/ WaitCall(c) \/ HeapAcquire(c)
  \/ \E k \in Slots : Stop(c, k)
  \/ Exit(c) \/ ExitResumes(c)

Next == \/ \E c \in Threads : Call(c) \/ Carry(c)
        \/ EnableInterrupts \/ IdleSetsAlive
        \/ TickEnter \/ Schedule

Spec == Init /\ [][Next]_vars

\* The timer keeps ticking and the handler runs to its end (interrupts are off
\* in it); a context that is given the CPU again and again, a millisecond each
\* time, gets on with the call it is in.
Fairness ==
  /\ SF_vars(EnableInterrupts) /\ WF_vars(IdleSetsAlive)
  /\ WF_vars(TickEnter) /\ WF_vars(Schedule)
  /\ \A c \in Threads : SF_vars(Carry(c))

FairSpec == Spec /\ Fairness
=============================================================================
