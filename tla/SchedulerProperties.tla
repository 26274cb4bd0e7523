------------------------- MODULE SchedulerProperties -------------------------
(****************************************************************************)
(* What the scheduler promises, in two parts: what holds whatever the       *)
(* contexts call, and what holds as long as nobody stops a task.            *)
(****************************************************************************)
EXTENDS Scheduler

\* The types of the variables.
TypeOK ==
  /\ Tasks \in [Slots -> Task]
  /\ taskCount \in 0 .. MaxTasks
  /\ currentTask \in Slots \cup {-1}
  /\ idCounter \in Nat
  /\ idle \in [IsAlive : BOOLEAN, CpuState : {IdleStack, Nowhere}]
  /\ taskStartLock \in BOOLEAN /\ heapLock \in BOOLEAN
  /\ cpu \in Stack \cup {Boot, IdleStack, Nowhere}
  /\ irqOn \in BOOLEAN /\ scheduling \in BOOLEAN
  /\ visit \in 1 .. MaxTasks + 1
  /\ nextTask \in Slots \cup {-1}
  /\ pc \in [Threads -> Places]
  /\ loc \in [Threads -> 0 .. MaxTasks]

-----------------------------------------------------------------------------
(* Whatever the contexts call, Stop and Exit included.                      *)

\* At most one task is Running, and it is the one the CPU executes: Schedule
\* demotes the interrupted task before it promotes the next one.
RunningIsCurrent ==
  \A k \in Slots : Tasks[k].State = "Running" => ~scheduling /\ k = currentTask

\* The CPU executes on the stack of the slot currentTask names, so that the
\* next tick saves the frame of a task in that task's own slot.
CpuRunsCurrent ==
  ~scheduling /\ cpu \in Stack =>
    currentTask # -1 /\ Tasks[currentTask].stack = cpu

\* Schedule never resumes a task on a frame of another one: the frame saved in
\* a slot lies on that slot's stack.
FrameInOwnStack == \A k \in Slots : Tasks[k].CpuState = Tasks[k].stack

\* No two slots share a stack or an ID, however slots are filled, moved and
\* cleared (a cleared slot has neither).
NoSharedStack ==
  \A j, k \in Slots : j # k =>
    /\ Tasks[j].stack = Tasks[k].stack => Tasks[j].stack = Nowhere
    /\ Tasks[j].ID = Tasks[k].ID => Tasks[j].ID = -1

\* StartTask's search and its taskCount++ are not interleaved with another's.
StartsExclusive ==
  \A c, d \in Threads : pc[c] \in InStart /\ pc[d] \in InStart => c = d

\* Wait goes on using the slot pointer it took at its start: whenever the task
\* executes in Wait, that slot still holds the task itself.
WaitOnOwnSlot ==
  \A c \in Threads : ~scheduling /\ cpu = c /\ pc[c] \in {"wait", "doze", "spin"} =>
    Tasks[loc[c]].stack = c

\* Schedule clears a slot, for which it needs a stack, while a context it has
\* interrupted is in malloc or free.
WaitsForHeap ==
  /\ scheduling /\ visit <= taskCount /\ Tasks[Slot].State = "Stopping" /\ heapLock
  /\ \E c \in Threads : pc[c] = "heap"

\* The machine hangs in two ways only: Schedule clears a slot, which allocates a
\* stack, while the code it has interrupted holds heapLock; or it has resumed a
\* frame that leads nowhere.  No order of locks and ticks adds a third.
HangsOnlyOnHeapLock == ~ENABLED Next => cpu = Nowhere \/ WaitsForHeap

\* The stop request of a task is final: no tick, start or sleep of another task
\* revokes it.  Only the task itself can, in what it still executes before the
\* next tick (when a device ends the hlt of its Exit, its next Wait overwrites
\* Stopping with Sleeping).  It is a promise to a slot that holds a task: the
\* mark a second Stop leaves on a slot without one is lost when StartTask has
\* just found the slot free.
StopIsFinal ==
  [][\A k \in Slots : Tasks[k].State = "Stopping" /\ Tasks[k].stack # Nowhere =>
       \/ Tasks'[k].State \in {"Stopping", "Stopped"}
       \/ Tasks'[k].State = "Sleeping" /\ ~scheduling /\ Tasks[k].stack = cpu]_vars

\* What "Stopped task %ld" (scheduler.cpp:141) says: the task a tick takes off
\* the CPU for good is one that has been asked to stop.
OnlyStoppingTasksStop ==
  [][\A k \in Slots : Tasks[k].State \in {"Idle", "Running", "Sleeping"} =>
       \E j \in Slots : Tasks'[j].stack = Tasks[k].stack /\ Tasks'[j].State # "Stopped"]_vars

-----------------------------------------------------------------------------
(* As long as nobody stops a task and nobody waits for 0 ms.                *)

\* StartTask loses no task, whoever starts tasks concurrently: a slot in use is
\* below taskCount, or its starter is about to make it so.
NoLostStart ==
  \A k \in Slots : Tasks[k].State # "Stopped" =>
    \/ k < taskCount
    \/ \E c \in Threads : pc[c] \in {"count", "store"} /\ k = taskCount

\* The CPU goes nowhere in one way only: a tick has interrupted idleTask before
\* it could report IsAlive, whose own frame then destroyed the one the idle task
\* is dispatched with.  No frame of another context takes that place, no task's
\* frame is lost, and once the idle task is alive it stays so.
NowhereOnlyByIdle ==
  /\ idle.CpuState \in {IdleStack, Nowhere}
  /\ idle.IsAlive => idle.CpuState = IdleStack
  /\ cpu = Nowhere => currentTask = -1 /\ idle.CpuState = Nowhere

\* The slots the loop of Schedule has yet to visit in this tick.
Pending(k) == scheduling /\ \E i \in visit .. taskCount : k = (currentTask + i) % taskCount

\* The task this tick is going to dispatch.
ReadyTurns == {i \in visit .. taskCount : Tasks[(currentTask + i) % taskCount].State = "Idle"}
Chosen ==
  CASE ~scheduling                                     -> currentTask
    [] scheduling /\ (nextTask # -1 \/ ReadyTurns = {}) -> nextTask
    [] OTHER -> (currentTask + (CHOOSE i \in ReadyTurns : \A j \in ReadyTurns : i <= j)) % taskCount

\* The loop of Schedule, one slot at a time over a table other contexts start
\* tasks in, implements the tick of RoundRobin: every tick counts once for every
\* sleeper and for nobody else, and nobody is passed over.
RR == INSTANCE RoundRobin WITH
  count   <- taskCount,
  current <- Chosen,
  asleep  <- [k \in Slots |->
                IF Tasks[k].State # "Sleeping" THEN 0
                ELSE IF Pending(k) THEN Tasks[k].SleepTicks - 1
                ELSE Tasks[k].SleepTicks]
RoundRobinSpec == RR!Spec

\* A task that can run is given the CPU, as long as there is one to give (the
\* CPU goes nowhere only as NowhereOnlyByIdle says).
ReadyRuns ==
  \A k \in Slots : Tasks[k].State = "Idle" ~> Tasks[k].State = "Running" \/ cpu = Nowhere

\* A Wait ends.
WaitEnds == \A s \in Stack : pc[s] = "spin" ~> pc[s] = "run" \/ cpu = Nowhere

\* A call of StartTask or malloc that got its lock gives it back, although its
\* context is preempted while it holds it.
LocksReleased == /\ taskStartLock ~> ~taskStartLock \/ cpu = Nowhere
                 /\ heapLock ~> ~heapLock \/ cpu = Nowhere
=============================================================================
