--------------------------- MODULE SchedulerProofs ---------------------------
(****************************************************************************)
(* The invariants of SchedulerProperties that hold whatever the contexts    *)
(* call, and those that hold as long as nobody stops a task; and, as long   *)
(* as nobody waits for 0 ms either, that the loop of Schedule over the task *)
(* table implements the tick of RoundRobin: for every table size, every set *)
(* of tasks and every Delays.                                               *)
(****************************************************************************)
EXTENDS SchedulerProperties, NaturalsInduction, WellFoundedInduction, TLAPS

\* The CPU executes on the stack of the current slot, which is not Stopped; with
\* no current slot it executes the boot code or the idle task.
CpuInv ==
  ~scheduling =>
    IF currentTask = -1
      THEN cpu \in {Boot, IdleStack, Nowhere}
      ELSE cpu = Tasks[currentTask].stack /\ Tasks[currentTask].State # "Stopped"

\* The boot code loses the CPU for good before the idle task is alive.
IdleInv == idle.IsAlive => cpu # Boot

\* A task that has not been started is in no slot.
NewInv ==
  \A s \in Stack : pc[s] = "new" => \A k \in Slots : Tasks[k].stack # s

\* IDs in the table have been handed out.
IdInv == \A k \in Slots : Tasks[k].ID \in -1 .. idCounter - 1

\* taskStartLock is held by the context in StartTask; the slot it found is
\* free and above all those Schedule looks at, which may have become fewer.
StartInv ==
  \A c \in Threads :
    /\ pc[c] \in InStart => taskStartLock /\ taskCount <= loc[c] /\ nextTask < loc[c]
    /\ pc[c] \in {"fill", "count", "store"} => loc[c] < MaxTasks
    /\ pc[c] = "fill" => Tasks[loc[c]].stack = Nowhere

\* Above the slots Schedule looks at, a Stopped slot holds no task.
FreeInv ==
  \A k \in Slots : taskCount <= k /\ Tasks[k].State = "Stopped" => Tasks[k].stack = Nowhere

\* A task inside Wait has its slot in loc, or it has been marked Stopped (and
\* perhaps stopped again) and will not have the CPU.
WaitInv ==
  \A c \in Stack : pc[c] \in {"wait", "doze", "spin"} =>
    /\ loc[c] \in Slots
    /\ \A k \in Slots : Tasks[k].stack = c =>
         \/ k = loc[c]
         \/ Tasks[k].State \in {"Stopped", "Stopping"} /\ (~scheduling => k # currentTask)

\* Boot never waits.
BootInv == pc[Boot] \notin {"new", "wait", "doze", "spin", "halt"}

\* The slot Schedule has chosen is Idle, unless it was the last slot and has
\* been cleared since.
NextInv ==
  nextTask # -1 =>
    /\ scheduling
    /\ \/ Tasks[nextTask].State = "Idle"
       \/ Tasks[nextTask].State = "Stopped" /\ Tasks[nextTask].stack = Nowhere

IInv ==
  /\ TypeOK /\ RunningIsCurrent /\ FrameInOwnStack /\ NoSharedStack /\ StartsExclusive
  /\ CpuInv /\ IdleInv /\ NewInv /\ IdInv /\ StartInv /\ FreeInv /\ WaitInv /\ BootInv /\ NextInv

USE DEF table, locks, isr, thread, Threads

-----------------------------------------------------------------------------
(* Helpers.                                                                 *)

\* The slot Schedule's loop visits is one below taskCount.
LEMMA SlotRange ==
  ASSUME TypeOK, visit <= taskCount
  PROVE  Slot \in 0 .. taskCount - 1 /\ Slot \in Slots /\ taskCount - 1 \in Slots
<1>1. \A a \in Int, b \in Nat \ {0} : a % b \in 0 .. b - 1
  BY SMT
<1>2. currentTask + visit \in Int /\ taskCount \in Nat \ {0}
  BY MaxTasksAssumption DEF TypeOK, Slots
<1>3. Slot \in 0 .. taskCount - 1
  BY <1>1, <1>2 DEF Slot
<1>4. QED
  BY <1>2, <1>3, MaxTasksAssumption DEF TypeOK, Slots

\* A context that goes to another place keeps the types of pc and loc.
LEMMA GotoType ==
  ASSUME TypeOK, NEW c \in Threads, NEW p \in Places, NEW l \in 0 .. MaxTasks,
         Goto(c, p, l)
  PROVE  pc' \in [Threads -> Places] /\ loc' \in [Threads -> 0 .. MaxTasks]
  BY DEF TypeOK, Goto

\* The same for a context whose call is over.
LEMMA GotoZeroType ==
  ASSUME TypeOK, NEW c \in Threads, NEW p \in Places, Goto(c, p, 0)
  PROVE  pc' \in [Threads -> Places] /\ loc' \in [Threads -> 0 .. MaxTasks]
<1>1. 0 \in 0 .. MaxTasks
  BY MaxTasksAssumption
<1>2. QED
  BY <1>1 DEF TypeOK, Goto

\* The owners of the slots do not change.
SameOwners ==
  \A j \in Slots : /\ Tasks'[j].stack = Tasks[j].stack
                   /\ Tasks'[j].CpuState = Tasks[j].CpuState
                   /\ Tasks'[j].ID = Tasks[j].ID

\* The conjuncts about the owners of the slots survive a step that keeps them.
LEMMA OwnersKept ==
  ASSUME IInv, SameOwners, UNCHANGED idCounter
  PROVE  FrameInOwnStack' /\ NoSharedStack' /\ IdInv'
  BY DEF IInv, Slots, FrameInOwnStack, NoSharedStack, IdInv, SameOwners

\* A step that leaves the table alone keeps the owners.
LEMMA TableKept == ASSUME UNCHANGED Tasks PROVE SameOwners
  BY DEF SameOwners

\* A write to the State of one slot.
LEMMA StateWritten ==
  ASSUME TypeOK, NEW k \in Slots, NEW st \in States,
         Tasks' = [Tasks EXCEPT ![k].State = st]
  PROVE  /\ Tasks' \in [Slots -> Task] /\ SameOwners
         /\ \A j \in Slots : Tasks'[j].State = IF j = k THEN st ELSE Tasks[j].State
  BY DEF TypeOK, Task, SameOwners

\* A step that marks no slot Stopped.
LEMMA FreeKept ==
  ASSUME IInv, SameOwners, UNCHANGED taskCount,
         \A j \in Slots : Tasks'[j].State = "Stopped" => Tasks[j].State = "Stopped"
  PROVE  FreeInv'
  BY DEF IInv, FreeInv, SameOwners

\* A step of nobody in StartTask that fills no slot and adds none to those
\* Schedule looks at.
LEMMA StartKept ==
  ASSUME IInv, UNCHANGED taskStartLock, taskCount' <= taskCount,
         taskCount' \in Int, nextTask' \in {-1, nextTask},
         \A j \in Slots : taskCount <= j /\ Tasks[j].stack = Nowhere =>
                           Tasks'[j].stack = Nowhere,
         \A d \in Threads : \/ pc'[d] = pc[d] /\ loc'[d] = loc[d]
                            \/ pc[d] \notin InStart /\ pc'[d] \notin InStart
  PROVE  StartsExclusive' /\ StartInv'
<1>1. StartsExclusive'
  BY DEF IInv, StartsExclusive
<1>2. ASSUME NEW c \in Threads, pc'[c] \in InStart
      PROVE  /\ taskStartLock' /\ taskCount' <= loc'[c] /\ nextTask' < loc'[c]
             /\ pc'[c] \in {"fill", "count", "store"} => loc'[c] < MaxTasks
             /\ pc'[c] = "fill" => Tasks'[loc'[c]].stack = Nowhere
  <2>1. pc'[c] = pc[c] /\ loc'[c] = loc[c] /\ loc[c] \in 0 .. MaxTasks
    BY <1>2 DEF IInv, TypeOK
  <2>2. taskCount \in Int /\ nextTask \in Int /\ MaxTasks \in Int
    BY MaxTasksAssumption DEF IInv, TypeOK, Slots
  <2>3. loc[c] < MaxTasks => loc[c] \in Slots
    BY <2>1, <2>2 DEF Slots
  <2>4. QED
    BY <1>2, <2>1, <2>2, <2>3 DEF IInv, StartInv
<1>3. QED
  BY <1>1, <1>2 DEF StartInv, InStart

-----------------------------------------------------------------------------
(* One lemma per action: it preserves the inductive invariant.              *)

\* Nobody else is in StartTask: its lock was free.
LEMMA StartAcquireStep == ASSUME IInv, NEW c \in Threads, StartAcquire(c) PROVE IInv'
<1>1. TypeOK'
  <2>1. pc' \in [Threads -> Places] /\ loc' \in [Threads -> 0 .. MaxTasks]
    BY GotoType DEF IInv, TypeOK, Places, Slots, StartAcquire, Calls
  <2>2. QED
    BY <2>1 DEF IInv, TypeOK, StartAcquire, Calls
<1>2. FrameInOwnStack' /\ NoSharedStack' /\ IdInv'
  BY OwnersKept, TableKept DEF StartAcquire, Calls
<1>3. RunningIsCurrent' /\ CpuInv' /\ IdleInv' /\ NextInv'
  BY ContextAssumption DEF IInv, TypeOK, RunningIsCurrent, CpuInv, IdleInv, NextInv,
       Slots, StartAcquire, Calls, At, Goto
<1>4. StartsExclusive' /\ StartInv'
  <2>1. \A d \in Threads : pc[d] \notin InStart
    BY DEF IInv, StartInv, StartAcquire
  <2>2. nextTask < taskCount
    BY DEF IInv, TypeOK, NextInv, StartAcquire, Calls, At
  <2>3. QED
    BY <2>1, <2>2 DEF IInv, TypeOK, StartsExclusive, StartInv, InStart, StartAcquire, Goto
<1>5. NewInv' /\ BootInv' /\ FreeInv'
  BY DEF IInv, TypeOK, NewInv, BootInv, FreeInv, StartAcquire, Calls, At, Goto
<1>6. WaitInv'
  BY DEF IInv, TypeOK, WaitInv, Slots, StartAcquire, Calls, At, Goto
<1>7. QED
  BY <1>1, <1>2, <1>3, <1>4, <1>5, <1>6 DEF IInv

\* The slot found is Stopped and was not looked at by a tick under way.
LEMMA StartProbeStep == ASSUME IInv, NEW c \in Threads, StartProbe(c) PROVE IInv'
<1>1. TypeOK'
  <2>1. loc[c] \in 0 .. MaxTasks /\ loc[c] + 1 \in 0 .. MaxTasks
    BY MaxTasksAssumption DEF IInv, TypeOK, StartProbe
  <2>2. pc' \in [Threads -> Places] /\ loc' \in [Threads -> 0 .. MaxTasks]
    BY <2>1, GotoType DEF IInv, Places, StartProbe
  <2>3. QED
    BY <2>2 DEF IInv, TypeOK, StartProbe
<1>2. FrameInOwnStack' /\ NoSharedStack' /\ IdInv'
  BY OwnersKept, TableKept DEF StartProbe
<1>3. RunningIsCurrent' /\ CpuInv' /\ IdleInv' /\ NextInv'
  BY ContextAssumption DEF IInv, TypeOK, RunningIsCurrent, CpuInv, IdleInv, NextInv,
       Slots, StartProbe, At, Goto
<1>4. StartsExclusive' /\ StartInv'
  <2>1. taskCount <= loc[c] /\ nextTask < loc[c] /\ pc[c] = "probe" /\ loc[c] < MaxTasks
    BY DEF IInv, StartInv, InStart, StartProbe, At
  <2>2. loc[c] \in Int /\ taskCount <= loc[c] + 1 /\ nextTask < loc[c] + 1
    BY <2>1 DEF IInv, TypeOK, Slots
  <2>3. StartsExclusive'
    BY <2>1 DEF IInv, TypeOK, StartsExclusive, InStart, StartProbe, Goto
  <2>4. CASE Tasks[loc[c]].State = "Stopped"
    <3>1. Tasks[loc[c]].stack = Nowhere
      <4>1. loc[c] \in Slots
        BY <2>1, MaxTasksAssumption DEF IInv, TypeOK, Slots
      <4>2. QED
        BY <2>1, <2>4, <4>1 DEF IInv, FreeInv
    <3>2. QED
      BY <2>1, <2>3, <2>4, <3>1 DEF IInv, TypeOK, StartInv, InStart, StartProbe, Goto
  <2>5. CASE Tasks[loc[c]].State # "Stopped"
    BY <2>1, <2>2, <2>3, <2>5 DEF IInv, TypeOK, StartInv, InStart, StartProbe, Goto
  <2>6. QED
    BY <2>3, <2>4, <2>5
<1>5. NewInv' /\ BootInv' /\ FreeInv'
  BY DEF IInv, TypeOK, NewInv, BootInv, FreeInv, StartProbe, At, Goto
<1>6. WaitInv'
  BY DEF IInv, TypeOK, WaitInv, Slots, StartProbe, At, Goto
<1>7. QED
  BY <1>1, <1>2, <1>3, <1>4, <1>5, <1>6 DEF IInv

\* Giving the lock back after a search in vain.
LEMMA StartFullStep == ASSUME IInv, NEW c \in Threads, StartFull(c) PROVE IInv'
<1>1. TypeOK'
  <2>1. pc' \in [Threads -> Places] /\ loc' \in [Threads -> 0 .. MaxTasks]
    BY GotoZeroType DEF IInv, TypeOK, Places, Slots, StartFull
  <2>2. QED
    BY <2>1 DEF IInv, TypeOK, StartFull
<1>2. FrameInOwnStack' /\ NoSharedStack' /\ IdInv'
  BY OwnersKept, TableKept DEF StartFull
<1>3. RunningIsCurrent' /\ CpuInv' /\ IdleInv' /\ NextInv'
  BY ContextAssumption DEF IInv, TypeOK, RunningIsCurrent, CpuInv, IdleInv, NextInv,
       Slots, StartFull, At, Goto
<1>4. StartsExclusive' /\ StartInv'
  BY DEF IInv, TypeOK, StartsExclusive, StartInv, InStart, StartFull, At, Goto
<1>5. NewInv' /\ BootInv' /\ FreeInv'
  BY DEF IInv, TypeOK, NewInv, BootInv, FreeInv, StartFull, At, Goto
<1>6. WaitInv'
  BY DEF IInv, TypeOK, WaitInv, Slots, StartFull, At, Goto
<1>7. QED
  BY <1>1, <1>2, <1>3, <1>4, <1>5, <1>6 DEF IInv

\* The load of taskCount++: loc is a slot's number again.
LEMMA StartCountStep == ASSUME IInv, NEW c \in Threads, StartCount(c) PROVE IInv'
<1>1. TypeOK'
  <2>1. pc' \in [Threads -> Places] /\ loc' \in [Threads -> 0 .. MaxTasks]
    BY GotoType DEF IInv, TypeOK, Places, Slots, StartCount
  <2>2. QED
    BY <2>1 DEF IInv, TypeOK, StartCount
<1>2. FrameInOwnStack' /\ NoSharedStack' /\ IdInv'
  BY OwnersKept, TableKept DEF StartCount
<1>3. RunningIsCurrent' /\ CpuInv' /\ IdleInv' /\ NextInv'
  BY ContextAssumption DEF IInv, TypeOK, RunningIsCurrent, CpuInv, IdleInv, NextInv,
       Slots, StartCount, At, Goto
<1>4. StartsExclusive' /\ StartInv'
  <2>1. StartsExclusive'
    BY DEF IInv, TypeOK, StartsExclusive, InStart, StartCount, At, Goto
  <2>2. StartInv'
    <3>1. nextTask = -1 /\ taskCount <= taskCount /\ -1 < taskCount
      BY DEF IInv, TypeOK, NextInv, StartCount, At
    <3>2. QED
      BY <3>1, MaxTasksAssumption DEF IInv, TypeOK, StartInv, InStart, StartCount, At, Goto
  <2>3. QED
    BY <2>1, <2>2
<1>5. NewInv' /\ BootInv' /\ FreeInv'
  BY DEF IInv, TypeOK, NewInv, BootInv, FreeInv, StartCount, At, Goto
<1>6. WaitInv'
  BY DEF IInv, TypeOK, WaitInv, Slots, StartCount, At, Goto
<1>7. QED
  BY <1>1, <1>2, <1>3, <1>4, <1>5, <1>6 DEF IInv

\* The store of taskCount++ changes what Schedule looks at, not the table.
LEMMA StartStoreStep == ASSUME IInv, NEW c \in Threads, StartStore(c) PROVE IInv'
<1>1. TypeOK'
  <2>1. pc' \in [Threads -> Places] /\ loc' \in [Threads -> 0 .. MaxTasks]
    BY GotoZeroType DEF IInv, Places, StartStore
  <2>2. loc[c] + 1 \in 0 .. MaxTasks
    BY MaxTasksAssumption DEF IInv, TypeOK, StartInv, StartStore, At
  <2>3. QED
    BY <2>1, <2>2 DEF IInv, TypeOK, StartStore
<1>2. FrameInOwnStack' /\ NoSharedStack' /\ IdInv'
  BY OwnersKept, TableKept DEF StartStore
<1>3. RunningIsCurrent' /\ CpuInv' /\ IdleInv' /\ NextInv'
  BY ContextAssumption DEF IInv, TypeOK, RunningIsCurrent, CpuInv, IdleInv, NextInv,
       Slots, StartStore, At, Goto
<1>4. StartsExclusive' /\ StartInv'
  BY DEF IInv, TypeOK, StartsExclusive, StartInv, InStart, StartStore, At, Goto
<1>5. NewInv' /\ BootInv' /\ FreeInv'
  <2>1. taskCount <= loc[c] /\ taskCount' = loc[c] + 1 /\ taskCount \in Int /\ loc[c] \in Int
    BY DEF IInv, TypeOK, StartInv, InStart, StartStore, At
  <2>2. FreeInv'
    BY <2>1 DEF IInv, FreeInv, Slots, StartStore
  <2>3. QED
    BY <2>2 DEF IInv, TypeOK, NewInv, BootInv, StartStore, At, Goto
<1>6. WaitInv'
  BY DEF IInv, TypeOK, WaitInv, Slots, StartStore, At, Goto
<1>7. QED
  BY <1>1, <1>2, <1>3, <1>4, <1>5, <1>6 DEF IInv

\* The caller of Wait is the task in the current slot, so loc is its own.
LEMMA WaitCallStep == ASSUME IInv, NEW c \in Threads, WaitCall(c) PROVE IInv'
<1>1. TypeOK'
  <2>1. pc' \in [Threads -> Places] /\ loc' \in [Threads -> 0 .. MaxTasks]
    BY MaxTasksAssumption, GotoType DEF IInv, TypeOK, Places, Slots, WaitCall, Calls
  <2>2. QED
    BY <2>1 DEF IInv, TypeOK, WaitCall, Calls
<1>2. FrameInOwnStack' /\ NoSharedStack' /\ IdInv'
  BY OwnersKept, TableKept DEF WaitCall, Calls
<1>3. RunningIsCurrent' /\ CpuInv' /\ IdleInv' /\ NextInv'
  BY ContextAssumption DEF IInv, TypeOK, RunningIsCurrent, CpuInv, IdleInv, NextInv,
       Slots, WaitCall, Calls, At, Goto
<1>4. StartsExclusive' /\ StartInv'
  BY DEF IInv, TypeOK, StartsExclusive, StartInv, InStart, WaitCall, Calls, At, Goto
<1>5. NewInv' /\ BootInv' /\ FreeInv'
  BY DEF IInv, TypeOK, NewInv, BootInv, FreeInv, WaitCall, Calls, At, Goto
<1>6. WaitInv'
  <2>1. Tasks[currentTask].stack = c /\ currentTask \in Slots /\ c \in Stack
    BY DEF IInv, TypeOK, CpuInv, WaitCall, Calls, At
  <2>2. \A k \in Slots : Tasks[k].stack = c => k = currentTask
    BY <2>1, ContextAssumption DEF IInv, NoSharedStack
  <2>3. QED
    BY <2>1, <2>2 DEF IInv, TypeOK, WaitInv, WaitCall, Goto
<1>7. QED
  BY <1>1, <1>2, <1>3, <1>4, <1>5, <1>6 DEF IInv

\* Leaving Wait.
LEMMA WaitReturnStep == ASSUME IInv, NEW c \in Threads, WaitReturn(c) PROVE IInv'
<1>1. TypeOK'
  <2>1. pc' \in [Threads -> Places] /\ loc' \in [Threads -> 0 .. MaxTasks]
    BY GotoZeroType DEF IInv, TypeOK, Places, Slots, WaitReturn
  <2>2. QED
    BY <2>1 DEF IInv, TypeOK, WaitReturn
<1>2. FrameInOwnStack' /\ NoSharedStack' /\ IdInv'
  BY OwnersKept, TableKept DEF WaitReturn
<1>3. RunningIsCurrent' /\ CpuInv' /\ IdleInv' /\ NextInv'
  BY ContextAssumption DEF IInv, TypeOK, RunningIsCurrent, CpuInv, IdleInv, NextInv,
       Slots, WaitReturn, At, Goto
<1>4. StartsExclusive' /\ StartInv'
  BY DEF IInv, TypeOK, StartsExclusive, StartInv, InStart, WaitReturn, At, Goto
<1>5. NewInv' /\ BootInv' /\ FreeInv'
  BY DEF IInv, TypeOK, NewInv, BootInv, FreeInv, WaitReturn, At, Goto
<1>6. WaitInv'
  BY DEF IInv, TypeOK, WaitInv, Slots, WaitReturn, At, Goto
<1>7. QED
  BY <1>1, <1>2, <1>3, <1>4, <1>5, <1>6 DEF IInv

\* heapLock plays no part in the invariant.
LEMMA HeapAcquireStep == ASSUME IInv, NEW c \in Threads, HeapAcquire(c) PROVE IInv'
<1>1. TypeOK'
  <2>1. pc' \in [Threads -> Places] /\ loc' \in [Threads -> 0 .. MaxTasks]
    BY GotoZeroType DEF IInv, TypeOK, Places, Slots, HeapAcquire, Calls
  <2>2. QED
    BY <2>1 DEF IInv, TypeOK, HeapAcquire, Calls
<1>2. FrameInOwnStack' /\ NoSharedStack' /\ IdInv'
  BY OwnersKept, TableKept DEF HeapAcquire, Calls
<1>3. RunningIsCurrent' /\ CpuInv' /\ IdleInv' /\ NextInv'
  BY ContextAssumption DEF IInv, TypeOK, RunningIsCurrent, CpuInv, IdleInv, NextInv,
       Slots, HeapAcquire, Calls, At, Goto
<1>4. StartsExclusive' /\ StartInv'
  BY DEF IInv, TypeOK, StartsExclusive, StartInv, InStart, HeapAcquire, Calls, At, Goto
<1>5. NewInv' /\ BootInv' /\ FreeInv'
  BY DEF IInv, TypeOK, NewInv, BootInv, FreeInv, HeapAcquire, Calls, At, Goto
<1>6. WaitInv'
  BY DEF IInv, TypeOK, WaitInv, Slots, HeapAcquire, Calls, At, Goto
<1>7. QED
  BY <1>1, <1>2, <1>3, <1>4, <1>5, <1>6 DEF IInv

\* Nor does its release.
LEMMA HeapUnlockStep == ASSUME IInv, NEW c \in Threads, HeapUnlock(c) PROVE IInv'
<1>1. TypeOK'
  <2>1. pc' \in [Threads -> Places] /\ loc' \in [Threads -> 0 .. MaxTasks]
    BY GotoZeroType DEF IInv, TypeOK, Places, Slots, HeapUnlock
  <2>2. QED
    BY <2>1 DEF IInv, TypeOK, HeapUnlock
<1>2. FrameInOwnStack' /\ NoSharedStack' /\ IdInv'
  BY OwnersKept, TableKept DEF HeapUnlock
<1>3. RunningIsCurrent' /\ CpuInv' /\ IdleInv' /\ NextInv'
  BY ContextAssumption DEF IInv, TypeOK, RunningIsCurrent, CpuInv, IdleInv, NextInv,
       Slots, HeapUnlock, At, Goto
<1>4. StartsExclusive' /\ StartInv'
  BY DEF IInv, TypeOK, StartsExclusive, StartInv, InStart, HeapUnlock, At, Goto
<1>5. NewInv' /\ BootInv' /\ FreeInv'
  BY DEF IInv, TypeOK, NewInv, BootInv, FreeInv, HeapUnlock, At, Goto
<1>6. WaitInv'
  BY DEF IInv, TypeOK, WaitInv, Slots, HeapUnlock, At, Goto
<1>7. QED
  BY <1>1, <1>2, <1>3, <1>4, <1>5, <1>6 DEF IInv

\* Exit returns into the task.
LEMMA ExitResumesStep == ASSUME IInv, NEW c \in Threads, ExitResumes(c) PROVE IInv'
<1>1. TypeOK'
  <2>1. pc' \in [Threads -> Places] /\ loc' \in [Threads -> 0 .. MaxTasks]
    BY GotoZeroType DEF IInv, TypeOK, Places, Slots, ExitResumes
  <2>2. QED
    BY <2>1 DEF IInv, TypeOK, ExitResumes
<1>2. FrameInOwnStack' /\ NoSharedStack' /\ IdInv'
  BY OwnersKept, TableKept DEF ExitResumes
<1>3. RunningIsCurrent' /\ CpuInv' /\ IdleInv' /\ NextInv'
  BY ContextAssumption DEF IInv, TypeOK, RunningIsCurrent, CpuInv, IdleInv, NextInv,
       Slots, ExitResumes, At, Goto
<1>4. StartsExclusive' /\ StartInv'
  BY DEF IInv, TypeOK, StartsExclusive, StartInv, InStart, ExitResumes, At, Goto
<1>5. NewInv' /\ BootInv' /\ FreeInv'
  BY DEF IInv, TypeOK, NewInv, BootInv, FreeInv, ExitResumes, At, Goto
<1>6. WaitInv'
  BY DEF IInv, TypeOK, WaitInv, Slots, ExitResumes, At, Goto
<1>7. QED
  BY <1>1, <1>2, <1>3, <1>4, <1>5, <1>6 DEF IInv

\* INT_ON in the boot code.
LEMMA EnableInterruptsStep == ASSUME IInv, EnableInterrupts PROVE IInv'
<1>1. TypeOK'
  BY DEF IInv, TypeOK, EnableInterrupts
<1>2. FrameInOwnStack' /\ NoSharedStack' /\ IdInv'
  BY OwnersKept, TableKept DEF EnableInterrupts
<1>3. RunningIsCurrent' /\ CpuInv' /\ IdleInv' /\ NextInv'
  BY ContextAssumption DEF IInv, TypeOK, RunningIsCurrent, CpuInv, IdleInv, NextInv,
       Slots, EnableInterrupts, At
<1>4. StartsExclusive' /\ StartInv'
  BY DEF IInv, TypeOK, StartsExclusive, StartInv, InStart, EnableInterrupts, At
<1>5. NewInv' /\ BootInv' /\ FreeInv'
  BY DEF IInv, TypeOK, NewInv, BootInv, FreeInv, EnableInterrupts, At
<1>6. WaitInv'
  BY DEF IInv, TypeOK, WaitInv, Slots, EnableInterrupts, At
<1>7. QED
  BY <1>1, <1>2, <1>3, <1>4, <1>5, <1>6 DEF IInv

\* It is the idle task that executes, so the boot code is gone.
LEMMA IdleSetsAliveStep == ASSUME IInv, IdleSetsAlive PROVE IInv'
<1>1. TypeOK'
  BY DEF IInv, TypeOK, IdleSetsAlive
<1>2. FrameInOwnStack' /\ NoSharedStack' /\ IdInv'
  BY OwnersKept, TableKept DEF IdleSetsAlive
<1>3. RunningIsCurrent' /\ CpuInv' /\ IdleInv' /\ NextInv'
  BY ContextAssumption DEF IInv, TypeOK, RunningIsCurrent, CpuInv, IdleInv, NextInv,
       Slots, IdleSetsAlive
<1>4. StartsExclusive' /\ StartInv'
  BY DEF IInv, TypeOK, StartsExclusive, StartInv, InStart, IdleSetsAlive
<1>5. NewInv' /\ BootInv' /\ FreeInv'
  BY DEF IInv, TypeOK, NewInv, BootInv, FreeInv, IdleSetsAlive
<1>6. WaitInv'
  BY DEF IInv, TypeOK, WaitInv, Slots, IdleSetsAlive
<1>7. QED
  BY <1>1, <1>2, <1>3, <1>4, <1>5, <1>6 DEF IInv

\* The slot chosen is Idle.
LEMMA VisitIdleStep == ASSUME IInv, VisitIdle PROVE IInv'
<1>1. TypeOK'
  BY MaxTasksAssumption, SlotRange DEF IInv, TypeOK, Slots, VisitIdle, Visit
<1>2. FrameInOwnStack' /\ NoSharedStack' /\ IdInv'
  BY OwnersKept, TableKept DEF VisitIdle, Visit
<1>3. RunningIsCurrent' /\ CpuInv' /\ IdleInv' /\ NextInv'
  BY ContextAssumption, SlotRange DEF IInv, TypeOK, RunningIsCurrent, CpuInv, IdleInv, NextInv,
       Slots, VisitIdle, Visit
<1>4. StartsExclusive' /\ StartInv'
  <2>1. nextTask' \in Int /\ (nextTask' = nextTask \/ nextTask' < taskCount)
    BY SlotRange DEF IInv, TypeOK, Slots, VisitIdle, Visit
  <2>2. StartsExclusive'
    BY DEF IInv, StartsExclusive, VisitIdle, Visit
  <2>3. StartInv'
    BY <2>1 DEF IInv, TypeOK, StartInv, VisitIdle, Visit
  <2>4. QED
    BY <2>2, <2>3
<1>5. NewInv' /\ BootInv' /\ FreeInv'
  BY DEF IInv, TypeOK, NewInv, BootInv, FreeInv, VisitIdle, Visit
<1>6. WaitInv'
  BY DEF IInv, TypeOK, WaitInv, Slots, VisitIdle, Visit
<1>7. QED
  BY <1>1, <1>2, <1>3, <1>4, <1>5, <1>6 DEF IInv

\* The loop passes a slot by.
LEMMA VisitOtherStep == ASSUME IInv, VisitOther PROVE IInv'
<1>1. TypeOK'
  BY MaxTasksAssumption, SlotRange DEF IInv, TypeOK, Slots, VisitOther, Visit
<1>2. FrameInOwnStack' /\ NoSharedStack' /\ IdInv'
  BY OwnersKept, TableKept DEF VisitOther, Visit
<1>3. RunningIsCurrent' /\ CpuInv' /\ IdleInv' /\ NextInv'
  BY ContextAssumption DEF IInv, TypeOK, RunningIsCurrent, CpuInv, IdleInv, NextInv,
       Slots, VisitOther, Visit
<1>4. StartsExclusive' /\ StartInv'
  BY DEF IInv, TypeOK, StartsExclusive, StartInv, InStart, VisitOther, Visit
<1>5. NewInv' /\ BootInv' /\ FreeInv'
  BY DEF IInv, TypeOK, NewInv, BootInv, FreeInv, VisitOther, Visit
<1>6. WaitInv'
  BY DEF IInv, TypeOK, WaitInv, Slots, VisitOther, Visit
<1>7. QED
  BY <1>1, <1>2, <1>3, <1>4, <1>5, <1>6 DEF IInv

\* The new task was in no slot, and the slot it gets belongs to nobody.
LEMMA StartFillStep == ASSUME IInv, NEW c \in Threads, StartFill(c) PROVE IInv'
<1>1. PICK s \in Stack :
        /\ pc[s] = "new"
        /\ Tasks' = [Tasks EXCEPT ![loc[c]] = NewTask(s, idCounter)]
        /\ pc' = [pc EXCEPT ![c] = "count", ![s] = "run"]
  BY DEF StartFill
<1>2. /\ loc[c] \in Slots /\ taskCount <= loc[c] /\ Tasks[loc[c]].stack = Nowhere
      /\ taskStartLock /\ ~scheduling /\ cpu = c /\ pc[c] = "fill" /\ c # s
  BY <1>1, MaxTasksAssumption DEF IInv, TypeOK, StartInv, InStart, StartFill, At, Slots
<1>3. /\ idCounter' = idCounter + 1
      /\ UNCHANGED <<taskCount, currentTask, idle, locks, cpu, irqOn, isr, loc>>
  BY DEF StartFill
<1>4. NewTask(s, idCounter) \in Task
  BY TickAssumption DEF IInv, TypeOK, NewTask, Task, States
<1>5. \A j \in Slots : Tasks'[j] = IF j = loc[c] THEN NewTask(s, idCounter) ELSE Tasks[j]
  BY <1>1 DEF IInv, TypeOK
<1>6. TypeOK'
  BY <1>1, <1>2, <1>3, <1>4 DEF IInv, TypeOK, Places
<1>7. RunningIsCurrent' /\ CpuInv' /\ IdleInv' /\ NextInv'
  <2>1. currentTask # loc[c]
    BY <1>2, ContextAssumption DEF IInv, CpuInv, Slots
  <2>2. nextTask = -1
    BY <1>2 DEF IInv, NextInv
  <2>3. QED
    BY <1>2, <1>3, <1>5, <2>1, <2>2
       DEF IInv, TypeOK, RunningIsCurrent, CpuInv, IdleInv, NextInv, NewTask
<1>8. FrameInOwnStack' /\ IdInv'
  BY <1>2, <1>3, <1>5 DEF IInv, TypeOK, FrameInOwnStack, IdInv, NewTask
<1>9. NoSharedStack'
  BY <1>1, <1>2, <1>3, <1>5 DEF IInv, TypeOK, NoSharedStack, NewInv, IdInv, NewTask
<1>10. StartsExclusive' /\ StartInv'
  <2>1. \A d \in Threads : pc'[d] = IF d = s THEN "run" ELSE IF d = c THEN "count" ELSE pc[d]
    BY <1>1, <1>2 DEF IInv, TypeOK
  <2>2. \A d \in Threads : d # c => pc[d] \notin InStart
    BY <1>2 DEF IInv, StartsExclusive, InStart
  <2>3. QED
    BY <1>2, <1>3, <2>1, <2>2 DEF IInv, TypeOK, StartsExclusive, StartInv, InStart, Slots
<1>11. NewInv' /\ BootInv' /\ WaitInv'
  <2>1. \A d \in Threads : pc'[d] = IF d = s THEN "run" ELSE IF d = c THEN "count" ELSE pc[d]
    BY <1>1, <1>2 DEF IInv, TypeOK
  <2>2. QED
    BY <1>2, <1>3, <1>5, <2>1, ContextAssumption DEF IInv, NewInv, BootInv, WaitInv, NewTask
<1>12. FreeInv'
  BY <1>3, <1>5 DEF IInv, FreeInv, NewTask
<1>13. QED
  BY <1>6, <1>7, <1>8, <1>9, <1>10, <1>11, <1>12 DEF IInv

\* A running task in Wait uses the slot that is current.
LEMMA WaitSlot ==
  ASSUME IInv, NEW c \in Threads, cpu = c, ~scheduling, pc[c] \in {"wait", "doze", "spin"}
  PROVE  c \in Stack /\ loc[c] = currentTask /\ loc[c] \in Slots
<1>1. c \in Stack
  BY DEF IInv, BootInv
<1>2. currentTask \in Slots /\ Tasks[currentTask].stack = c /\ Tasks[currentTask].State # "Stopped"
  BY <1>1, ContextAssumption DEF IInv, TypeOK, CpuInv
<1>3. QED
  BY <1>1, <1>2 DEF IInv, WaitInv

\* Wait writes the ticks of its own slot.
LEMMA SleepTicksWrittenStep ==
  ASSUME IInv, NEW c \in Threads, SleepTicksWritten(c) PROVE IInv'
<1>1. c \in Stack /\ loc[c] = currentTask /\ loc[c] \in Slots
  BY WaitSlot DEF SleepTicksWritten, At
<1>2. /\ Tasks' \in [Slots -> Task] /\ SameOwners
      /\ \A j \in Slots : Tasks'[j].State = Tasks[j].State
  <2>1. PICK ms \in Delays : Tasks' = [Tasks EXCEPT ![loc[c]].SleepTicks = ms]
    BY DEF SleepTicksWritten
  <2>2. ms \in 0 .. TickMod - 1
    BY TickAssumption
  <2>3. QED
    BY <1>1, <2>1, <2>2 DEF IInv, TypeOK, Task, SameOwners
<1>3. /\ pc[c] = "wait" /\ Goto(c, "doze", loc[c])
      /\ UNCHANGED <<taskCount, currentTask, idCounter, idle, locks, cpu, irqOn, isr>>
  BY DEF SleepTicksWritten, At
<1>4. TypeOK'
  BY <1>2, <1>3 DEF IInv, TypeOK, Goto, Places
<1>5. FrameInOwnStack' /\ NoSharedStack' /\ IdInv'
  BY <1>2, <1>3, OwnersKept
<1>6. RunningIsCurrent' /\ CpuInv' /\ IdleInv' /\ NextInv'
  BY <1>2, <1>3 DEF IInv, TypeOK, RunningIsCurrent, CpuInv, IdleInv, NextInv, SameOwners
<1>7. StartsExclusive' /\ StartInv'
  <2>1. /\ UNCHANGED taskStartLock /\ nextTask' \in {-1, nextTask}
        /\ taskCount' \in Int /\ taskCount' <= taskCount
    BY <1>2, <1>3 DEF IInv, TypeOK
  <2>2. \A j \in Slots : taskCount <= j /\ Tasks[j].stack = Nowhere =>
                       Tasks'[j].stack = Nowhere
    BY <1>2, <1>3 DEF SameOwners
  <2>3. \A d \in Threads : \/ pc'[d] = pc[d] /\ loc'[d] = loc[d]
                           \/ pc[d] \notin InStart /\ pc'[d] \notin InStart
    BY <1>2, <1>3 DEF IInv, TypeOK, InStart, Goto
  <2>4. QED
    BY <2>1, <2>2, <2>3, StartKept
<1>8. NewInv' /\ BootInv' /\ WaitInv'
  BY <1>1, <1>2, <1>3 DEF IInv, TypeOK, NewInv, BootInv, WaitInv, SameOwners, Goto
<1>9. FreeInv'
  BY <1>2, <1>3, FreeKept
<1>10. QED
  BY <1>4, <1>5, <1>6, <1>7, <1>8, <1>9 DEF IInv

\* Wait writes the state of its own slot, which was not Stopped.
LEMMA SleepStateWrittenStep ==
  ASSUME IInv, NEW c \in Threads, SleepStateWritten(c) PROVE IInv'
<1>1. c \in Stack /\ loc[c] = currentTask /\ loc[c] \in Slots
  BY WaitSlot DEF SleepStateWritten, At
<1>2. /\ Tasks' \in [Slots -> Task] /\ SameOwners
      /\ \A j \in Slots :
           Tasks'[j].State = IF j = loc[c] THEN "Sleeping" ELSE Tasks[j].State
  BY <1>1, StateWritten DEF IInv, SleepStateWritten, States
<1>3. /\ pc[c] = "doze" /\ ~scheduling /\ cpu = c /\ Goto(c, "spin", loc[c])
      /\ UNCHANGED <<taskCount, currentTask, idCounter, idle, locks, cpu, irqOn, isr>>
  BY DEF SleepStateWritten, At
<1>4. TypeOK'
  BY <1>2, <1>3 DEF IInv, TypeOK, Goto, Places
<1>5. FrameInOwnStack' /\ NoSharedStack' /\ IdInv'
  BY <1>2, <1>3, OwnersKept
<1>6. RunningIsCurrent' /\ CpuInv' /\ IdleInv' /\ NextInv'
  BY <1>1, <1>2, <1>3 DEF IInv, TypeOK, RunningIsCurrent, CpuInv, IdleInv, NextInv, SameOwners
<1>7. StartsExclusive' /\ StartInv'
  <2>1. /\ UNCHANGED taskStartLock /\ nextTask' \in {-1, nextTask}
        /\ taskCount' \in Int /\ taskCount' <= taskCount
    BY <1>1, <1>2, <1>3 DEF IInv, TypeOK
  <2>2. \A j \in Slots : taskCount <= j /\ Tasks[j].stack = Nowhere =>
                       Tasks'[j].stack = Nowhere
    BY <1>1, <1>2, <1>3 DEF SameOwners
  <2>3. \A d \in Threads : \/ pc'[d] = pc[d] /\ loc'[d] = loc[d]
                           \/ pc[d] \notin InStart /\ pc'[d] \notin InStart
    BY <1>1, <1>2, <1>3 DEF IInv, TypeOK, InStart, Goto
  <2>4. QED
    BY <2>1, <2>2, <2>3, StartKept
<1>8. NewInv' /\ BootInv' /\ WaitInv'
  BY <1>1, <1>2, <1>3 DEF IInv, TypeOK, NewInv, BootInv, WaitInv, SameOwners, CpuInv, NoSharedStack, Goto
<1>9. FreeInv'
  BY <1>2, <1>3, FreeKept
<1>10. QED
  BY <1>4, <1>5, <1>6, <1>7, <1>8, <1>9 DEF IInv

\* Stop marks a slot, whether it holds a task or not.
LEMMA StopStep == ASSUME IInv, NEW c \in Threads, NEW k \in Slots, Stop(c, k) PROVE IInv'
<1>1. /\ Tasks' \in [Slots -> Task] /\ SameOwners
      /\ \A j \in Slots : Tasks'[j].State = IF j = k THEN "Stopping" ELSE Tasks[j].State
  BY StateWritten DEF IInv, Stop, States
<1>2. /\ ~scheduling
      /\ UNCHANGED <<taskCount, currentTask, idCounter, idle, locks, cpu, irqOn, isr, thread>>
  BY DEF Stop, Calls, At
<1>3. TypeOK'
  BY <1>1, <1>2 DEF IInv, TypeOK
<1>4. FrameInOwnStack' /\ NoSharedStack' /\ IdInv'
  BY <1>1, <1>2, OwnersKept
<1>5. RunningIsCurrent' /\ CpuInv' /\ IdleInv' /\ NextInv'
  BY <1>1, <1>2 DEF IInv, TypeOK, RunningIsCurrent, CpuInv, IdleInv, NextInv, SameOwners
<1>6. StartsExclusive' /\ StartInv'
  <2>1. /\ UNCHANGED taskStartLock /\ nextTask' \in {-1, nextTask}
        /\ taskCount' \in Int /\ taskCount' <= taskCount
    BY <1>1, <1>2 DEF IInv, TypeOK
  <2>2. \A j \in Slots : taskCount <= j /\ Tasks[j].stack = Nowhere =>
                       Tasks'[j].stack = Nowhere
    BY <1>1, <1>2 DEF SameOwners
  <2>3. \A d \in Threads : \/ pc'[d] = pc[d] /\ loc'[d] = loc[d]
                           \/ pc[d] \notin InStart /\ pc'[d] \notin InStart
    BY <1>1, <1>2
  <2>4. QED
    BY <2>1, <2>2, <2>3, StartKept
<1>7. NewInv' /\ BootInv' /\ WaitInv'
  BY <1>1, <1>2 DEF IInv, NewInv, BootInv, WaitInv, SameOwners
<1>8. FreeInv'
  BY <1>1, <1>2, FreeKept
<1>9. QED
  BY <1>3, <1>4, <1>5, <1>6, <1>7, <1>8 DEF IInv

\* Exit marks the current slot.
LEMMA ExitStep == ASSUME IInv, NEW c \in Threads, Exit(c) PROVE IInv'
<1>1. /\ currentTask \in Slots /\ c \in Stack /\ Tasks[currentTask].stack = c
      /\ Tasks[currentTask].State # "Stopped"
  BY DEF IInv, TypeOK, CpuInv, Exit, Calls, At
<1>2. /\ Tasks' \in [Slots -> Task] /\ SameOwners
      /\ \A j \in Slots :
           Tasks'[j].State = IF j = currentTask THEN "Stopping" ELSE Tasks[j].State
  BY <1>1, StateWritten DEF IInv, Exit, States
<1>3. /\ pc[c] = "run" /\ ~scheduling /\ Goto(c, "halt", 0)
      /\ UNCHANGED <<taskCount, currentTask, idCounter, idle, locks, cpu, irqOn, isr>>
  BY DEF Exit, Calls, At
<1>4. TypeOK'
  <2>1. pc' \in [Threads -> Places] /\ loc' \in [Threads -> 0 .. MaxTasks]
    BY <1>3, GotoZeroType DEF IInv, Places
  <2>2. QED
    BY <1>2, <1>3, <2>1 DEF IInv, TypeOK
<1>5. FrameInOwnStack' /\ NoSharedStack' /\ IdInv'
  BY <1>2, <1>3, OwnersKept
<1>6. RunningIsCurrent' /\ CpuInv' /\ IdleInv' /\ NextInv'
  BY <1>1, <1>2, <1>3 DEF IInv, TypeOK, RunningIsCurrent, CpuInv, IdleInv, NextInv, SameOwners
<1>7. StartsExclusive' /\ StartInv'
  <2>1. /\ UNCHANGED taskStartLock /\ nextTask' \in {-1, nextTask}
        /\ taskCount' \in Int /\ taskCount' <= taskCount
    BY <1>1, <1>2, <1>3 DEF IInv, TypeOK
  <2>2. \A j \in Slots : taskCount <= j /\ Tasks[j].stack = Nowhere =>
                       Tasks'[j].stack = Nowhere
    BY <1>1, <1>2, <1>3 DEF SameOwners
  <2>3. \A d \in Threads : \/ pc'[d] = pc[d] /\ loc'[d] = loc[d]
                           \/ pc[d] \notin InStart /\ pc'[d] \notin InStart
    BY <1>1, <1>2, <1>3 DEF IInv, TypeOK, InStart, Goto
  <2>4. QED
    BY <2>1, <2>2, <2>3, StartKept
<1>8. NewInv' /\ BootInv' /\ WaitInv'
  <2>1. c # Boot
    BY DEF Exit
  <2>2. QED
    BY <1>1, <1>2, <1>3, <2>1 DEF IInv, TypeOK, NewInv, BootInv, WaitInv, SameOwners, Goto
<1>9. FreeInv'
  BY <1>2, <1>3, FreeKept
<1>10. QED
  BY <1>4, <1>5, <1>6, <1>7, <1>8, <1>9 DEF IInv

\* The frame saved is that of the task in the current slot.
LEMMA TickEnterStep == ASSUME IInv, TickEnter PROVE IInv'
<1>1. /\ ~scheduling /\ scheduling' = TRUE /\ visit' = 1 /\ nextTask' = -1 /\ cpu # Nowhere
      /\ UNCHANGED <<taskCount, currentTask, idCounter, locks, cpu, irqOn, thread>>
  BY DEF TickEnter
<1>2. /\ Tasks' \in [Slots -> Task] /\ SameOwners
      /\ \A j \in Slots :
           Tasks'[j].State = IF Tasks[j].State = "Running" THEN "Idle" ELSE Tasks[j].State
  <2>1. CASE currentTask = -1
    <3>1. Tasks' = Tasks
      BY <2>1 DEF TickEnter
    <3>2. QED
      BY <2>1, <3>1, TableKept DEF IInv, TypeOK, Slots, RunningIsCurrent
  <2>2. CASE currentTask # -1
    <3>1. /\ currentTask \in Slots /\ cpu \in Stack \cup {Nowhere}
          /\ cpu = Tasks[currentTask].stack /\ Tasks[currentTask].CpuState = cpu
      BY <1>1, <2>2 DEF IInv, TypeOK, CpuInv, FrameInOwnStack, Task
    <3>2. Tasks' = [Tasks EXCEPT ![currentTask] = Interrupted(@)]
      BY <2>2 DEF TickEnter
    <3>3. \A j \in Slots :
            Tasks'[j] = IF j # currentTask THEN Tasks[j] ELSE Interrupted(Tasks[j])
      BY <3>1, <3>2 DEF IInv, TypeOK
    <3>4. Tasks' \in [Slots -> Task]
      <4>1. \A j \in Slots : Tasks[j] \in Task /\ Tasks'[j] \in Task
        <5>1. \A t \in Task : Interrupted(t) \in Task
          BY <3>1 DEF Task, States, Interrupted
        <5>2. \A j \in Slots : Tasks[j] \in Task
          BY DEF IInv, TypeOK
        <5>3. QED
          BY <3>3, <5>1, <5>2
      <4>2. QED
        BY <3>2, <4>1 DEF IInv, TypeOK
    <3>5. \A j \in Slots : j # currentTask => Tasks[j].State # "Running"
      BY DEF IInv, RunningIsCurrent
    <3>6. \A j \in Slots : Tasks[j] \in Task
      BY DEF IInv, TypeOK
    <3>7. SameOwners
      BY <3>1, <3>3, <3>6 DEF Task, SameOwners, Interrupted
    <3>8. QED
      BY <3>3, <3>4, <3>5, <3>6, <3>7 DEF Task, Interrupted
  <2>3. QED
    BY <2>1, <2>2
<1>3. idle' \in [IsAlive : BOOLEAN, CpuState : {IdleStack, Nowhere}] /\ idle'.IsAlive = idle.IsAlive
  <2>1. CASE currentTask # -1
    BY <2>1 DEF IInv, TypeOK, TickEnter
  <2>2. CASE currentTask = -1
    <3>1. PICK f \in IdleFrames : idle' = [idle EXCEPT !.CpuState = f]
      BY <2>2 DEF TickEnter
    <3>2. f \in {IdleStack, Nowhere}
      BY <1>1, <2>2 DEF IInv, TypeOK, CpuInv, IdleInv, IdleFrames
    <3>3. QED
      BY <3>1, <3>2 DEF IInv, TypeOK
  <2>3. QED
    BY <2>1, <2>2
<1>4. TypeOK'
  BY <1>1, <1>2, <1>3, MaxTasksAssumption DEF IInv, TypeOK
<1>5. FrameInOwnStack' /\ NoSharedStack' /\ IdInv'
  BY <1>1, <1>2, OwnersKept
<1>6. RunningIsCurrent' /\ CpuInv' /\ IdleInv' /\ NextInv'
  BY <1>1, <1>2, <1>3 DEF IInv, RunningIsCurrent, CpuInv, IdleInv, NextInv
<1>7. StartsExclusive' /\ StartInv'
  <2>1. /\ UNCHANGED taskStartLock /\ nextTask' \in {-1, nextTask}
        /\ taskCount' \in Int /\ taskCount' <= taskCount
    BY <1>1, <1>2 DEF IInv, TypeOK
  <2>2. \A j \in Slots : taskCount <= j /\ Tasks[j].stack = Nowhere =>
                       Tasks'[j].stack = Nowhere
    BY <1>1, <1>2 DEF SameOwners
  <2>3. \A d \in Threads : \/ pc'[d] = pc[d] /\ loc'[d] = loc[d]
                           \/ pc[d] \notin InStart /\ pc'[d] \notin InStart
    BY <1>1, <1>2
  <2>4. QED
    BY <2>1, <2>2, <2>3, StartKept
<1>8. NewInv' /\ BootInv' /\ WaitInv'
  BY <1>1, <1>2 DEF IInv, NewInv, BootInv, WaitInv, SameOwners
<1>9. FreeInv'
  BY <1>1, <1>2, FreeKept
<1>10. QED
  BY <1>4, <1>5, <1>6, <1>7, <1>8, <1>9 DEF IInv

\* A sleeper is counted down and may become Idle.
LEMMA VisitSleepingStep == ASSUME IInv, VisitSleeping PROVE IInv'
<1>1. Slot \in Slots /\ Tasks[Slot].State = "Sleeping" /\ visit' \in 1 .. MaxTasks + 1
  BY SlotRange, MaxTasksAssumption DEF IInv, TypeOK, VisitSleeping, Visit
<1>2. /\ scheduling
      /\ UNCHANGED <<taskCount, currentTask, idCounter, idle, locks, cpu, irqOn, scheduling,
                     nextTask, thread>>
  BY DEF VisitSleeping, Visit
<1>3. /\ Tasks' \in [Slots -> Task] /\ SameOwners
      /\ \A j \in Slots : \/ Tasks'[j].State = Tasks[j].State
                          \/ Tasks[j].State = "Sleeping" /\ Tasks'[j].State = "Idle"
  <2>1. Tasks' = [Tasks EXCEPT ![Slot] = Slept(Tasks[Slot])]
    BY DEF VisitSleeping
  <2>2. Tasks[Slot] \in Task
    BY <1>1 DEF IInv, TypeOK
  <2>3. Dec(Tasks[Slot].SleepTicks) \in 0 .. TickMod - 1
    BY <2>2, TickAssumption DEF Dec, Task
  <2>4. /\ Slept(Tasks[Slot]) \in Task
        /\ Slept(Tasks[Slot]).State \in {Tasks[Slot].State, "Idle"}
        /\ Slept(Tasks[Slot]).stack = Tasks[Slot].stack
        /\ Slept(Tasks[Slot]).CpuState = Tasks[Slot].CpuState
        /\ Slept(Tasks[Slot]).ID = Tasks[Slot].ID
    BY <2>2, <2>3 DEF Slept, Task, States
  <2>5. \A j \in Slots : Tasks'[j] = IF j = Slot THEN Slept(Tasks[Slot]) ELSE Tasks[j]
    BY <1>1, <2>1 DEF IInv, TypeOK
  <2>6. Tasks' \in [Slots -> Task]
    BY <1>1, <2>1, <2>4 DEF IInv, TypeOK
  <2>7. QED
    <3>1. SameOwners
      BY <2>4, <2>5 DEF SameOwners
    <3>2. \A j \in Slots : \/ Tasks'[j].State = Tasks[j].State
                           \/ Tasks[j].State = "Sleeping" /\ Tasks'[j].State = "Idle"
      BY <1>1, <2>4, <2>5
    <3>3. QED
      BY <2>6, <3>1, <3>2
<1>4. TypeOK'
  BY <1>1, <1>2, <1>3 DEF IInv, TypeOK
<1>5. FrameInOwnStack' /\ NoSharedStack' /\ IdInv'
  BY <1>2, <1>3, OwnersKept
<1>6. RunningIsCurrent' /\ CpuInv' /\ IdleInv' /\ NextInv'
  BY <1>2, <1>3 DEF IInv, TypeOK, RunningIsCurrent, CpuInv, IdleInv, NextInv, SameOwners
<1>7. StartsExclusive' /\ StartInv'
  <2>1. /\ UNCHANGED taskStartLock /\ nextTask' \in {-1, nextTask}
        /\ taskCount' \in Int /\ taskCount' <= taskCount
    BY <1>2, <1>3 DEF IInv, TypeOK
  <2>2. \A j \in Slots : taskCount <= j /\ Tasks[j].stack = Nowhere =>
                       Tasks'[j].stack = Nowhere
    BY <1>2, <1>3 DEF SameOwners
  <2>3. \A d \in Threads : \/ pc'[d] = pc[d] /\ loc'[d] = loc[d]
                           \/ pc[d] \notin InStart /\ pc'[d] \notin InStart
    BY <1>2, <1>3
  <2>4. QED
    BY <2>1, <2>2, <2>3, StartKept
<1>8. NewInv' /\ BootInv' /\ WaitInv'
  BY <1>2, <1>3 DEF IInv, NewInv, BootInv, WaitInv, SameOwners
<1>9. FreeInv'
  BY <1>2, <1>3, FreeKept
<1>10. QED
  BY <1>4, <1>5, <1>6, <1>7, <1>8, <1>9 DEF IInv

\* The last slot moves: its owner stays the owner of one slot only, and no task
\* that is inside Wait goes on with the old one, as it is Stopped.
LEMMA VisitStoppingStep == ASSUME IInv, VisitStopping PROVE IInv'
<1>. DEFINE last == taskCount - 1
<1>1. /\ Slot \in Slots /\ last \in Slots /\ Tasks[Slot].State = "Stopping"
      /\ visit' \in 1 .. MaxTasks + 1 /\ taskCount' = last /\ taskCount' \in 0 .. MaxTasks
  BY SlotRange, MaxTasksAssumption DEF IInv, TypeOK, VisitStopping, Visit, Slots
<1>2. /\ scheduling
      /\ UNCHANGED <<currentTask, idCounter, idle, locks, cpu, irqOn, scheduling, nextTask, thread>>
  BY DEF VisitStopping, Visit
<1>3. \A j \in Slots :
        Tasks'[j] = IF j = last THEN NoTask
                    ELSE IF j = Slot THEN [Tasks[last] EXCEPT !.State = "Stopped"]
                    ELSE Tasks[j]
  BY DEF VisitStopping, Reaped
<1>4. \A j \in Slots : Tasks'[j] \in Task
  <2>1. NoTask \in Task
    BY TickAssumption DEF NoTask, Task, States
  <2>2. [Tasks[last] EXCEPT !.State = "Stopped"] \in Task
    BY <1>1 DEF IInv, TypeOK, Task, States
  <2>3. QED
    BY <1>3, <2>1, <2>2 DEF IInv, TypeOK
<1>5. TypeOK'
  <2>1. Tasks' \in [Slots -> Task]
    BY <1>4 DEF VisitStopping, Reaped
  <2>2. QED
    BY <1>1, <1>2, <2>1 DEF IInv, TypeOK
\* Where the owner of each slot comes from.
<1>6. \A j \in Slots :
        LET from == IF j = Slot THEN last ELSE j IN
        \/ /\ j = last /\ Tasks'[j].stack = Nowhere /\ Tasks'[j].CpuState = Nowhere
           /\ Tasks'[j].ID = -1 /\ Tasks'[j].State = "Stopped"
        \/ /\ j # last /\ from \in Slots
           /\ Tasks'[j].stack = Tasks[from].stack
           /\ Tasks'[j].CpuState = Tasks[from].CpuState
           /\ Tasks'[j].ID = Tasks[from].ID
           /\ Tasks'[j].State = IF j = Slot THEN "Stopped" ELSE Tasks[j].State
  BY <1>1, <1>3 DEF IInv, TypeOK, Task, NoTask
<1>7. FrameInOwnStack' /\ IdInv'
  BY <1>1, <1>2, <1>6 DEF IInv, TypeOK, FrameInOwnStack, IdInv
<1>8. NoSharedStack'
  BY <1>1, <1>6 DEF IInv, NoSharedStack
<1>9. RunningIsCurrent' /\ CpuInv' /\ IdleInv' /\ NextInv'
  <2>1. Tasks[Slot].State # "Idle" /\ Tasks[Slot].State # "Stopped"
    BY <1>1
  <2>2. QED
    BY <1>1, <1>2, <1>6, <2>1 DEF IInv, TypeOK, RunningIsCurrent, CpuInv, IdleInv, NextInv
<1>10. StartsExclusive' /\ StartInv'
  <2>1. /\ UNCHANGED taskStartLock /\ nextTask' \in {-1, nextTask}
        /\ taskCount' \in Int /\ taskCount' <= taskCount
    BY <1>1, <1>2, <1>6 DEF IInv, TypeOK
  <2>2. \A j \in Slots : taskCount <= j /\ Tasks[j].stack = Nowhere =>
                       Tasks'[j].stack = Nowhere
    <3>1. Slot < taskCount
      BY SlotRange DEF IInv, TypeOK, VisitStopping, Visit
    <3>2. QED
      BY <1>1, <1>6, <3>1 DEF IInv, TypeOK, Slots
  <2>3. \A d \in Threads : \/ pc'[d] = pc[d] /\ loc'[d] = loc[d]
                           \/ pc[d] \notin InStart /\ pc'[d] \notin InStart
    BY <1>1, <1>2, <1>6
  <2>4. QED
    BY <2>1, <2>2, <2>3, StartKept
<1>11. NewInv' /\ BootInv' /\ WaitInv'
  <2>1. NewInv' /\ BootInv'
    BY <1>1, <1>2, <1>6, ContextAssumption DEF IInv, NewInv, BootInv
  <2>2. WaitInv'
    BY <1>1, <1>2, <1>6, ContextAssumption DEF IInv, WaitInv
  <2>3. QED
    BY <2>1, <2>2
<1>12. FreeInv'
  BY <1>1, <1>6, SlotRange DEF IInv, TypeOK, FreeInv, Slots, VisitStopping, Visit
<1>13. QED
  BY <1>5, <1>7, <1>8, <1>9, <1>10, <1>11, <1>12 DEF IInv

\* The task that gets the CPU is the one in the new current slot.
LEMMA DispatchStep == ASSUME IInv, Dispatch PROVE IInv'
<1>1. /\ scheduling /\ scheduling' = FALSE /\ visit' = 1 /\ nextTask' = -1
      /\ currentTask' = nextTask
      /\ UNCHANGED <<taskCount, idCounter, idle, locks, irqOn, thread>>
  BY DEF Dispatch
<1>2. CASE nextTask = -1
  <2>1. Tasks' = Tasks /\ cpu' = idle.CpuState /\ cpu' \in {IdleStack, Nowhere} /\ SameOwners
    BY <1>2, TableKept DEF IInv, TypeOK, Dispatch, NextFrame
  <2>2. TypeOK'
    <3>1. currentTask' \in Slots \cup {-1} /\ nextTask' \in Slots \cup {-1}
      BY <1>1 DEF IInv, TypeOK
    <3>2. visit' \in 1 .. MaxTasks + 1
      BY <1>1, MaxTasksAssumption
    <3>3. cpu' \in Stack \cup {Boot, IdleStack, Nowhere}
      BY <2>1
    <3>4. QED
      BY <1>1, <2>1, <3>1, <3>2, <3>3 DEF IInv, TypeOK
  <2>3. FrameInOwnStack' /\ NoSharedStack' /\ IdInv'
    BY <1>1, <2>1, OwnersKept
  <2>4. RunningIsCurrent' /\ CpuInv' /\ IdleInv' /\ NextInv'
    BY <1>1, <1>2, <2>1, ContextAssumption DEF IInv, RunningIsCurrent, CpuInv, IdleInv, NextInv
  <2>5. StartsExclusive' /\ StartInv' /\ NewInv' /\ BootInv' /\ WaitInv'
    <3>1. StartsExclusive' /\ StartInv' /\ NewInv' /\ BootInv'
      BY <1>1, <1>2, <2>1 DEF IInv, StartsExclusive, StartInv, NewInv, BootInv
    <3>2. WaitInv'
      BY <1>1, <1>2, <2>1 DEF IInv, WaitInv, Slots
    <3>3. QED
      BY <3>1, <3>2
  <2>6. FreeInv'
    BY <1>1, <2>1, FreeKept
  <2>7. QED
    BY <2>2, <2>3, <2>4, <2>5, <2>6 DEF IInv
<1>3. CASE nextTask # -1
  <2>1. nextTask \in Slots
    BY <1>3 DEF IInv, TypeOK
  <2>2. /\ Tasks' \in [Slots -> Task] /\ SameOwners
        /\ \A j \in Slots :
             Tasks'[j].State = IF j = nextTask THEN "Running" ELSE Tasks[j].State
    BY <1>3, <2>1, StateWritten DEF IInv, Dispatch, States
  <2>3. /\ cpu' = Tasks[nextTask].stack /\ cpu' \in Stack \cup {Nowhere}
    BY <1>3, <2>1 DEF IInv, TypeOK, FrameInOwnStack, Task, Dispatch, NextFrame
  <2>4. TypeOK'
    <3>1. currentTask' \in Slots \cup {-1} /\ nextTask' \in Slots \cup {-1}
      BY <1>1 DEF IInv, TypeOK
    <3>2. visit' \in 1 .. MaxTasks + 1
      BY <1>1, MaxTasksAssumption
    <3>3. cpu' \in Stack \cup {Boot, IdleStack, Nowhere}
      BY <2>3
    <3>4. QED
      BY <1>1, <2>2, <3>1, <3>2, <3>3 DEF IInv, TypeOK
  <2>5. FrameInOwnStack' /\ NoSharedStack' /\ IdInv'
    BY <1>1, <2>2, OwnersKept
  <2>6. RunningIsCurrent' /\ CpuInv' /\ IdleInv' /\ NextInv'
    <3>1. \A j \in Slots : Tasks[j].State # "Running"
      BY <1>1 DEF IInv, RunningIsCurrent
    <3>2. nextTask # -1 /\ cpu' # Boot
      BY <1>3, <2>3, ContextAssumption
    <3>3. QED
      BY <1>1, <2>1, <2>2, <2>3, <3>1, <3>2
         DEF RunningIsCurrent, CpuInv, IdleInv, NextInv, SameOwners
  <2>7. StartsExclusive' /\ StartInv' /\ NewInv' /\ BootInv' /\ WaitInv'
    <3>1. StartsExclusive'
      BY <1>1 DEF IInv, StartsExclusive
    <3>2. StartInv'
      <4>1. \A c \in Threads : pc[c] = "fill" => loc[c] \in Slots
        BY MaxTasksAssumption DEF IInv, TypeOK, StartInv, Slots
      <4>2. \A c \in Threads : pc[c] \in InStart => -1 < loc[c]
        BY DEF IInv, TypeOK
      <4>3. QED
        BY <1>1, <2>2, <4>1, <4>2 DEF IInv, StartInv, SameOwners, InStart
    <3>3. NewInv' /\ BootInv'
      BY <1>1, <2>2 DEF IInv, NewInv, BootInv, SameOwners
    <3>4. WaitInv'
      BY <1>1, <1>3, <2>1, <2>2, ContextAssumption DEF IInv, WaitInv, NextInv, SameOwners
    <3>5. QED
      BY <3>1, <3>2, <3>3, <3>4
  <2>8. FreeInv'
    BY <1>1, <2>2, FreeKept
  <2>9. QED
    BY <2>4, <2>5, <2>6, <2>7, <2>8 DEF IInv
<1>4. QED
  BY <1>2, <1>3

-----------------------------------------------------------------------------
(* The theorems.                                                            *)

\* The kernel starts with the inductive invariant.
LEMMA InitIInv == Init => IInv
<1>. SUFFICES ASSUME Init PROVE IInv
  OBVIOUS
<1>1. NoTask \in Task
  BY TickAssumption DEF NoTask, Task, States
<1>2. \A k \in Slots : Tasks[k] = NoTask
  BY DEF Init
<1>3. TypeOK
  <2>1. Tasks \in [Slots -> Task]
    BY <1>1 DEF Init
  <2>2. pc \in [Threads -> Places] /\ loc \in [Threads -> 0 .. MaxTasks]
    BY MaxTasksAssumption DEF Init, Places
  <2>3. idle \in [IsAlive : BOOLEAN, CpuState : {IdleStack, Nowhere}]
    BY DEF Init
  <2>4. taskCount \in 0 .. MaxTasks /\ visit \in 1 .. MaxTasks + 1
    BY MaxTasksAssumption DEF Init
  <2>5. QED
    BY <2>1, <2>2, <2>3, <2>4 DEF Init, TypeOK
<1>4. RunningIsCurrent /\ FrameInOwnStack /\ NoSharedStack /\ IdInv
  BY <1>2 DEF Init, RunningIsCurrent, FrameInOwnStack, NoSharedStack, IdInv, NoTask
<1>5. StartsExclusive /\ StartInv
  BY DEF Init, StartsExclusive, StartInv, InStart
<1>6. CpuInv /\ IdleInv /\ NextInv
  BY DEF Init, CpuInv, IdleInv, NextInv
<1>7. NewInv /\ WaitInv /\ BootInv /\ FreeInv
  BY <1>2, ContextAssumption DEF Init, NewInv, WaitInv, BootInv, FreeInv, NoTask
<1>8. QED
  BY <1>3, <1>4, <1>5, <1>6, <1>7 DEF IInv

\* Every step of the kernel keeps the inductive invariant.
LEMMA NextIInv == IInv /\ [Next]_vars => IInv'
<1>. SUFFICES ASSUME IInv, [Next]_vars PROVE IInv'
  OBVIOUS
<1>1. ASSUME NEW c \in Threads, Call(c) PROVE IInv'
  BY <1>1, StartAcquireStep, WaitCallStep, HeapAcquireStep, StopStep, ExitStep, ExitResumesStep
     DEF Call
<1>2. ASSUME NEW c \in Threads, Carry(c) PROVE IInv'
  BY <1>2, StartProbeStep, StartFullStep, StartFillStep, StartCountStep, StartStoreStep,
     SleepTicksWrittenStep, SleepStateWrittenStep, WaitReturnStep, HeapUnlockStep
     DEF Carry
<1>3. CASE Schedule
  BY <1>3, VisitIdleStep, VisitSleepingStep, VisitStoppingStep, VisitOtherStep, DispatchStep
     DEF Schedule
<1>4. CASE UNCHANGED vars
  BY <1>4 DEF vars, IInv, TypeOK, RunningIsCurrent, FrameInOwnStack, NoSharedStack,
     StartsExclusive, CpuInv, IdleInv, NewInv, IdInv, StartInv, FreeInv, WaitInv, BootInv, NextInv
<1>5. QED
  BY <1>1, <1>2, <1>3, <1>4, EnableInterruptsStep, IdleSetsAliveStep, TickEnterStep DEF Next

\* The inductive invariant holds in every behaviour.
LEMMA Invariance == Spec => []IInv
  BY InitIInv, NextIInv, PTL DEF Spec

\* The variables keep their types; in particular no count, index or local
\* variable leaves the task table, whatever order contexts and ticks run in.
THEOREM Typing == Spec => []TypeOK
<1>1. IInv => TypeOK
  BY DEF IInv
<1>2. QED
  BY <1>1, Invariance, PTL

\* Schedule has at most one task Running, the one that has the CPU.
THEOREM OneRunning == Spec => []RunningIsCurrent
<1>1. IInv => RunningIsCurrent
  BY DEF IInv
<1>2. QED
  BY <1>1, Invariance, PTL

\* A tick saves the frame of the task it interrupts in that task's slot.
THEOREM CurrentHasCpu == Spec => []CpuRunsCurrent
<1>1. IInv => CpuRunsCurrent
  BY ContextAssumption DEF IInv, CpuInv, CpuRunsCurrent
<1>2. QED
  BY <1>1, Invariance, PTL

\* Schedule resumes a task on its own stack only.
THEOREM OwnFrames == Spec => []FrameInOwnStack
<1>1. IInv => FrameInOwnStack
  BY DEF IInv
<1>2. QED
  BY <1>1, Invariance, PTL

\* StartTask and the moves of Schedule leave no two slots with one stack or ID.
THEOREM OwnStacks == Spec => []NoSharedStack
<1>1. IInv => NoSharedStack
  BY DEF IInv
<1>2. QED
  BY <1>1, Invariance, PTL

\* taskStartLock keeps two calls of StartTask apart.
THEOREM StartMutex == Spec => []StartsExclusive
<1>1. IInv => StartsExclusive
  BY DEF IInv
<1>2. QED
  BY <1>1, Invariance, PTL

\* The slot pointer of Task::Wait is never stale when it is used, although
\* Schedule moves slots.
THEOREM WaitPointer == Spec => []WaitOnOwnSlot
<1>1. IInv => WaitOnOwnSlot
  <2>. SUFFICES ASSUME IInv, NEW c \in Threads, ~scheduling, cpu = c,
                       pc[c] \in {"wait", "doze", "spin"}
                PROVE  Tasks[loc[c]].stack = c
    BY DEF WaitOnOwnSlot
  <2>1. c \in Stack /\ loc[c] = currentTask
    BY WaitSlot
  <2>2. QED
    BY <2>1, ContextAssumption DEF IInv, CpuInv
<1>2. QED
  BY <1>1, Invariance, PTL

\* What StopIsFinal says of one slot and one step.
LEMMA StopKept ==
  ASSUME IInv, Next, NEW k \in Slots,
         Tasks[k].State = "Stopping", Tasks[k].stack # Nowhere
  PROVE  \/ Tasks'[k].State \in {"Stopping", "Stopped"}
         \/ Tasks'[k].State = "Sleeping" /\ ~scheduling /\ Tasks[k].stack = cpu
<1>. DEFINE Kept == \/ Tasks'[k].State \in {"Stopping", "Stopped"}
                    \/ Tasks'[k].State = "Sleeping" /\ ~scheduling /\ Tasks[k].stack = cpu
<1>1. CASE Tasks' = Tasks
  BY <1>1
<1>2. ASSUME NEW c \in Threads, StartFill(c) PROVE Kept
  <2>1. loc[c] # k
    BY <1>2 DEF IInv, StartInv, StartFill, At
  <2>2. QED
    BY <1>2, <2>1 DEF IInv, TypeOK, StartFill
<1>3. ASSUME NEW c \in Threads, SleepTicksWritten(c) PROVE Kept
  BY <1>3 DEF IInv, TypeOK, Task, SleepTicksWritten
<1>4. ASSUME NEW c \in Threads, SleepStateWritten(c) PROVE Kept
  <2>1. loc[c] = currentTask /\ c \in Stack /\ cpu = c /\ ~scheduling /\ currentTask \in Slots
    BY <1>4, WaitSlot DEF SleepStateWritten, At
  <2>2. Tasks[currentTask].stack = c
    BY <2>1, ContextAssumption DEF IInv, CpuInv
  <2>3. QED
    BY <1>4, <2>1, <2>2 DEF IInv, TypeOK, SleepStateWritten
<1>5. ASSUME NEW c \in Threads, NEW j \in Slots, Stop(c, j) PROVE Kept
  BY <1>5 DEF IInv, TypeOK, Task, Stop
<1>6. ASSUME NEW c \in Threads, Exit(c) PROVE Kept
  BY <1>6 DEF IInv, TypeOK, Task, Exit
<1>7. CASE TickEnter
  <2>1. CASE currentTask = -1
    BY <1>7, <2>1 DEF TickEnter
  <2>2. CASE currentTask = k
    <3>1. Tasks' = [Tasks EXCEPT ![k] = Interrupted(@)]
      BY <1>7, <2>2 DEF TickEnter, Slots
    <3>2. Tasks[k] \in Task
      BY DEF IInv, TypeOK
    <3>3. QED
      BY <3>1, <3>2 DEF IInv, TypeOK, Task, Interrupted
  <2>3. CASE currentTask # k /\ currentTask # -1
    BY <1>7, <2>3 DEF IInv, TypeOK, TickEnter
  <2>4. QED
    BY <2>1, <2>2, <2>3
<1>8. CASE VisitSleeping
  BY <1>8 DEF IInv, TypeOK, VisitSleeping, Visit
<1>9. CASE VisitStopping
  BY <1>9 DEF IInv, TypeOK, Task, VisitStopping, Reaped, NoTask
<1>10. CASE Dispatch
  BY <1>10 DEF IInv, TypeOK, NextInv, Dispatch
<1>11. CASE VisitIdle \/ VisitOther \/ EnableInterrupts \/ IdleSetsAlive
  BY <1>1, <1>11 DEF VisitIdle, VisitOther, EnableInterrupts, IdleSetsAlive
<1>12. ASSUME NEW c \in Threads, Call(c) PROVE Kept
  BY <1>1, <1>5, <1>6, <1>12 DEF Call, StartAcquire, WaitCall, HeapAcquire, ExitResumes
<1>13. ASSUME NEW c \in Threads, Carry(c) PROVE Kept
  BY <1>1, <1>2, <1>3, <1>4, <1>13
     DEF Carry, StartProbe, StartFull, StartCount, StartStore, WaitReturn, HeapUnlock
<1>14. QED
  BY <1>7, <1>8, <1>9, <1>10, <1>11, <1>12, <1>13 DEF Next, Schedule

\* Only the task itself can undo a request to stop it: no step of Schedule, of
\* StartTask or of another task does, a second Stop included.
THEOREM StopRequestsLast == Spec => StopIsFinal
<1>. DEFINE Final == \A k \in Slots : Tasks[k].State = "Stopping" /\ Tasks[k].stack # Nowhere =>
       \/ Tasks'[k].State \in {"Stopping", "Stopped"}
       \/ Tasks'[k].State = "Sleeping" /\ ~scheduling /\ Tasks[k].stack = cpu
<1>1. IInv /\ [Next]_vars => [Final]_vars
  BY StopKept DEF vars
<1>2. QED
  BY <1>1, Invariance, PTL DEF Spec, StopIsFinal

-----------------------------------------------------------------------------
(* Where the machine can hang.  CanGoOn lists the guards of the steps that  *)
(* do not depend on what a context chooses to call: those of Schedule, of   *)
(* the timer, of the idle task, and of the boot code before it turns        *)
(* interrupts on.                                                           *)

ScheduleGoesOn ==
  /\ scheduling
  /\ \/ visit > taskCount
     \/ visit <= taskCount /\ Tasks[Slot].State \in {"Idle", "Sleeping", "Stopped", "Running"}
     \/ visit <= taskCount /\ Tasks[Slot].State = "Stopping" /\ ~heapLock

TimerTicks == irqOn /\ ~scheduling /\ cpu # Nowhere

IdleGoesOn == cpu = IdleStack /\ ~scheduling /\ ~idle.IsAlive

BootGoesOn ==
  \/ At(Boot, "run") /\ ~irqOn
  \/ At(Boot, "probe") /\ loc[Boot] <= MaxTasks
  \/ At(Boot, "fill") /\ \E s \in Stack : pc[s] = "new"
  \/ \E p \in {"count", "store", "heap"} : At(Boot, p)

CanGoOn == ScheduleGoesOn \/ TimerTicks \/ IdleGoesOn \/ BootGoesOn

\* Before the boot code turns interrupts on, nothing else runs.
BootFirst == ~irqOn => cpu = Boot /\ ~scheduling

\* A starter that has no slot yet has a task to put in it.
SupplyInv ==
  \A c \in Threads : pc[c] \in {"probe", "fill"} => \E s \in Stack : pc[s] = "new"

\* Whoever holds heapLock is in malloc or free.
HolderInv == heapLock => \E c \in Threads : pc[c] = "heap"

GInv == IInv /\ BootFirst /\ SupplyInv /\ HolderInv

GoesOnKept == BootFirst' /\ SupplyInv' /\ HolderInv'

\* The steps of Schedule and of the timer, which no context takes.
LEMMA KernelKeepsGoing ==
  ASSUME GInv, TickEnter \/ Schedule \/ IdleSetsAlive \/ UNCHANGED vars
  PROVE  GoesOnKept
<1>1. UNCHANGED <<pc, heapLock, irqOn>>
  BY DEF vars, TickEnter, IdleSetsAlive, Schedule, Visit, VisitIdle, VisitSleeping, VisitStopping,
       VisitOther, Dispatch
<1>2. irqOn \/ (scheduling' = scheduling /\ cpu' = cpu)
  BY ContextAssumption DEF GInv, BootFirst, vars, TickEnter, IdleSetsAlive, Schedule, Visit,
       VisitIdle, VisitSleeping, VisitStopping, VisitOther, Dispatch
<1>3. QED
  BY <1>1, <1>2 DEF GInv, GoesOnKept, BootFirst, SupplyInv, HolderInv

\* What a context does that neither starts a task nor takes or gives a lock of
\* the heap.
LEMMA CallKeepsGoing ==
  ASSUME GInv, NEW c \in Threads, pc[c] \notin {"new", "heap"},
         UNCHANGED <<cpu, irqOn, scheduling, heapLock>>,
         NEW p \in Places, pc' = [pc EXCEPT ![c] = p], p # "new",
         p \in {"probe", "fill"} => \E s \in Stack : pc[s] = "new"
  PROVE  GoesOnKept
<1>1. /\ pc'[c] = p
      /\ \A d \in Threads : d # c => pc'[d] = pc[d]
      /\ \A s \in Stack : pc[s] = "new" => pc'[s] = "new"
  BY DEF GInv, IInv, TypeOK
<1>2. BootFirst'
  BY DEF GInv, BootFirst
<1>3. SupplyInv'
  BY <1>1 DEF GInv, SupplyInv
<1>4. HolderInv'
  BY <1>1 DEF GInv, HolderInv
<1>5. QED
  BY <1>2, <1>3, <1>4 DEF GoesOnKept

\* Taking and giving back heapLock.
LEMMA HeapKeepsGoing ==
  ASSUME GInv, NEW c \in Threads, HeapAcquire(c) \/ HeapUnlock(c)
  PROVE  GoesOnKept
<1>1. /\ UNCHANGED <<cpu, irqOn, scheduling>>
      /\ pc[c] \in {"run", "heap"} /\ pc'[c] = (IF HeapAcquire(c) THEN "heap" ELSE "run")
      /\ \A d \in Threads : d # c => pc'[d] = pc[d]
  BY DEF GInv, IInv, TypeOK, HeapAcquire, HeapUnlock, Calls, At, Goto
<1>2. heapLock' = HeapAcquire(c)
  BY DEF HeapAcquire, HeapUnlock, Calls, At
<1>3. BootFirst'
  BY <1>1 DEF GInv, BootFirst
<1>4. SupplyInv'
  BY <1>1 DEF GInv, SupplyInv
<1>5. HolderInv'
  BY <1>1, <1>2 DEF HolderInv
<1>6. QED
  BY <1>3, <1>4, <1>5 DEF GoesOnKept

\* A task is taken by the only starter.
LEMMA FillKeepsGoing == ASSUME GInv, NEW c \in Threads, StartFill(c) PROVE GoesOnKept
<1>1. PICK s \in Stack : pc[s] = "new" /\ pc' = [pc EXCEPT ![c] = "count", ![s] = "run"]
  BY DEF StartFill
<1>2. /\ UNCHANGED <<cpu, irqOn, scheduling, heapLock>>
      /\ pc[c] = "fill" /\ c # s /\ pc'[c] = "count" /\ pc'[s] = "run"
      /\ \A d \in Threads : d # c /\ d # s => pc'[d] = pc[d]
  BY <1>1 DEF GInv, IInv, TypeOK, StartFill, At
<1>3. \A d \in Threads : d # c => pc[d] \notin {"probe", "fill"}
  BY <1>2 DEF GInv, IInv, StartsExclusive, InStart
<1>4. BootFirst'
  BY <1>2 DEF GInv, BootFirst
<1>5. SupplyInv'
  BY <1>1, <1>2, <1>3 DEF SupplyInv
<1>6. HolderInv'
  BY <1>1, <1>2 DEF GInv, HolderInv
<1>7. QED
  BY <1>4, <1>5, <1>6 DEF GoesOnKept

\* The invariant holds in every behaviour.
LEMMA GInvariance == Spec => []GInv
<1>1. Init => GInv
  <2>1. ASSUME Init PROVE BootFirst /\ SupplyInv /\ HolderInv
    BY <2>1 DEF Init, BootFirst, SupplyInv, HolderInv
  <2>2. QED
    BY <2>1, InitIInv DEF GInv
<1>2. GInv /\ [Next]_vars => GInv'
  <2>. SUFFICES ASSUME GInv, [Next]_vars PROVE GInv'
    OBVIOUS
  <2>1. IInv'
    BY NextIInv DEF GInv
  <2>2. ASSUME NEW c \in Threads, Call(c) PROVE GoesOnKept
    <3>1. CASE StartAcquire(c) \/ WaitCall(c) \/ Exit(c) \/ ExitResumes(c)
      <4>1. \E p \in Places : /\ pc' = [pc EXCEPT ![c] = p] /\ p # "new"
                              /\ p \in {"probe", "fill"} => \E s \in Stack : pc[s] = "new"
        BY <3>1 DEF Places, StartAcquire, WaitCall, Exit, ExitResumes, Goto
      <4>2. pc[c] \notin {"new", "heap"} /\ UNCHANGED <<cpu, irqOn, scheduling, heapLock>>
        BY <3>1 DEF StartAcquire, WaitCall, Exit, ExitResumes, Calls, At
      <4>3. QED
        BY <4>1, <4>2, CallKeepsGoing
    <3>2. CASE HeapAcquire(c)
      BY <3>2, HeapKeepsGoing
    <3>3. ASSUME NEW k \in Slots, Stop(c, k) PROVE GoesOnKept
      BY <3>3 DEF Stop, GInv, GoesOnKept, BootFirst, SupplyInv, HolderInv
    <3>4. QED
      BY <2>2, <3>1, <3>2, <3>3 DEF Call
  <2>3. ASSUME NEW c \in Threads, Carry(c) PROVE GoesOnKept
    <3>1. CASE \/ StartProbe(c) \/ StartFull(c) \/ StartCount(c) \/ StartStore(c)
               \/ SleepTicksWritten(c) \/ SleepStateWritten(c) \/ WaitReturn(c)
      <4>1. \E p \in Places : /\ pc' = [pc EXCEPT ![c] = p] /\ p # "new"
                              /\ p \in {"probe", "fill"} => \E s \in Stack : pc[s] = "new"
        BY <3>1 DEF GInv, SupplyInv, Places, StartProbe, StartFull, StartCount, StartStore,
             SleepTicksWritten, SleepStateWritten, WaitReturn, At, Goto
      <4>2. pc[c] \notin {"new", "heap"} /\ UNCHANGED <<cpu, irqOn, scheduling, heapLock>>
        BY <3>1 DEF StartProbe, StartFull, StartCount, StartStore,
             SleepTicksWritten, SleepStateWritten, WaitReturn, At
      <4>3. QED
        BY <4>1, <4>2, CallKeepsGoing
    <3>2. QED
      BY <2>3, <3>1, HeapKeepsGoing, FillKeepsGoing DEF Carry
  <2>4. ASSUME EnableInterrupts PROVE GoesOnKept
    BY <2>4 DEF EnableInterrupts, GInv, GoesOnKept, BootFirst, SupplyInv, HolderInv
  <2>5. GoesOnKept
    BY <2>2, <2>3, <2>4, KernelKeepsGoing DEF Next
  <2>6. QED
    BY <2>1, <2>5 DEF GInv, GoesOnKept
<1>3. QED
  BY <1>1, <1>2, PTL DEF Spec

\* What the machine can always do, unless it hangs.
LEMMA GoesOn == ASSUME GInv PROVE CanGoOn \/ cpu = Nowhere \/ WaitsForHeap
<1>1. CASE scheduling
  <2>1. visit \in Int /\ taskCount \in Int
    BY <1>1 DEF GInv, IInv, TypeOK
  <2>2. CASE visit > taskCount
    BY <1>1, <2>2 DEF CanGoOn, ScheduleGoesOn
  <2>3. CASE visit <= taskCount
    <3>1. Tasks[Slot].State \in States
      BY <2>3, SlotRange DEF GInv, IInv, TypeOK, Task
    <3>2. QED
      BY <1>1, <2>3, <3>1 DEF CanGoOn, ScheduleGoesOn, WaitsForHeap, GInv, HolderInv, States
  <2>4. QED
    BY <2>1, <2>2, <2>3
<1>2. CASE ~scheduling /\ irqOn
  BY <1>2 DEF CanGoOn, TimerTicks, IdleGoesOn
<1>3. CASE ~scheduling /\ ~irqOn
  <2>1. cpu = Boot /\ pc[Boot] \in {"run", "probe", "fill", "count", "store", "heap"}
    BY <1>3 DEF GInv, IInv, TypeOK, BootFirst, BootInv, Places
  <2>2. /\ loc[Boot] <= MaxTasks
        /\ pc[Boot] = "fill" => \E s \in Stack : pc[s] = "new"
    BY MaxTasksAssumption DEF GInv, IInv, TypeOK, SupplyInv
  <2>3. QED
    BY <1>3, <2>1, <2>2 DEF CanGoOn, BootGoesOn, At
<1>4. QED
  BY <1>1, <1>2, <1>3

\* No order of locks and ticks stops the machine, whatever the contexts call, but
\* one: Schedule spins on heapLock, with interrupts off, for the stack that
\* clearing a slot allocates, and the call of malloc or free it has interrupted
\* never gives the lock back.  (Or the CPU has been sent to a frame that leads
\* nowhere.)
THEOREM MachineGoesOn == Spec => [](CanGoOn \/ cpu = Nowhere \/ WaitsForHeap)
<1>1. GInv => CanGoOn \/ cpu = Nowhere \/ WaitsForHeap
  BY GoesOn
<1>2. QED
  BY <1>1, GInvariance, PTL

-----------------------------------------------------------------------------
(* As long as nobody stops a task, StartTask loses none and the CPU goes    *)
(* nowhere only by way of an idle task that is not yet alive: NoLostStart   *)
(* and NowhereOnlyByIdle, for every table size, every set of tasks and      *)
(* every Delays.                                                            *)

\* The slots in use are those below taskCount, and the one in between for a
\* starter that has filled it and not yet counted it.
TableInv ==
  \A k \in Slots :
    /\ k < taskCount => Tasks[k].State # "Stopped"
    /\ Tasks[k].State # "Stopped" => Tasks[k].State # "Stopping" /\ Tasks[k].stack \in Stack

\* A starter works on the first slot after those in use, and has filled it
\* before it counts it.
StarterInv ==
  \A c \in Threads :
    /\ pc[c] \in InStart => loc[c] = taskCount
    /\ pc[c] \in {"count", "store"} => Tasks[loc[c]].State # "Stopped"

\* Schedule chooses a slot in use.
ChosenInv == nextTask < taskCount

\* The idle task executes on the frame it is dispatched with.
IdleFrameInv == ~scheduling /\ cpu = IdleStack => idle.CpuState = IdleStack

IdleSafe == NowhereOnlyByIdle /\ IdleFrameInv

SInv == IInv /\ NoLostStart /\ IdleSafe /\ TableInv /\ StarterInv /\ ChosenInv

-----------------------------------------------------------------------------
(* Steps that use no new slot.                                              *)

\* A step that frees and fills no slot keeps what is said of the table.
LEMMA TableSteady ==
  ASSUME SInv, SameOwners, UNCHANGED taskCount,
         \A j \in Slots : /\ Tasks'[j].State # "Stopping"
                          /\ Tasks'[j].State = "Stopped" <=> Tasks[j].State = "Stopped",
         \A d \in Threads : \/ pc'[d] = pc[d] /\ loc'[d] = loc[d]
                            \/ pc[d] \notin InStart /\ pc'[d] \notin InStart
  PROVE  NoLostStart' /\ TableInv' /\ StarterInv'
<1>1. TableInv'
  BY DEF SInv, TableInv, SameOwners
<1>2. StarterInv'
  <2>1. \A c \in Threads : pc[c] \in {"count", "store"} => loc[c] \in Slots
    BY MaxTasksAssumption DEF SInv, IInv, TypeOK, StartInv, Slots
  <2>2. QED
    BY <2>1 DEF SInv, StarterInv, InStart
<1>3. ASSUME NEW k \in Slots, Tasks'[k].State # "Stopped", ~(k < taskCount)
      PROVE  \E c \in Threads : pc'[c] \in {"count", "store"} /\ k = taskCount
  <2>1. PICK c \in Threads : pc[c] \in {"count", "store"} /\ k = taskCount
    BY <1>3 DEF SInv, NoLostStart
  <2>2. pc'[c] = pc[c]
    BY <2>1 DEF InStart
  <2>3. QED
    BY <2>1, <2>2
<1>4. NoLostStart'
  BY <1>3 DEF NoLostStart
<1>5. QED
  BY <1>1, <1>2, <1>4

\* Steps that leave the table alone and go neither into nor on in StartTask.
LEMMA OtherCalls ==
  ASSUME SInv, UNCHANGED <<Tasks, taskCount, currentTask, nextTask, cpu, scheduling>>,
         idle'.CpuState = idle.CpuState,
         idle'.IsAlive => idle.IsAlive \/ (cpu = IdleStack /\ ~scheduling),
         \A d \in Threads : \/ pc'[d] = pc[d] /\ loc'[d] = loc[d]
                            \/ pc[d] \notin InStart /\ pc'[d] \notin InStart
  PROVE  NoLostStart' /\ IdleSafe' /\ TableInv' /\ StarterInv' /\ ChosenInv'
<1>1. SameOwners
  BY TableKept
<1>2. \A j \in Slots : Tasks[j].State # "Stopping"
  BY DEF SInv, TableInv
<1>3. QED
  BY <1>1, <1>2, TableSteady DEF SInv, IdleSafe, NowhereOnlyByIdle, IdleFrameInv, ChosenInv

\* The steps of the calls that do not write the table.
LEMMA QuietSteps ==
  ASSUME SInv, NEW c \in Threads,
         \/ WaitCall(c) \/ WaitReturn(c) \/ HeapAcquire(c) \/ HeapUnlock(c) \/ ExitResumes(c)
         \/ EnableInterrupts \/ IdleSetsAlive
  PROVE  NoLostStart' /\ IdleSafe' /\ TableInv' /\ StarterInv' /\ ChosenInv'
<1>1. pc \in [Threads -> Places] /\ idle \in [IsAlive : BOOLEAN, CpuState : {IdleStack, Nowhere}]
  BY DEF SInv, IInv, TypeOK
<1>2. /\ UNCHANGED <<Tasks, taskCount, currentTask, nextTask, cpu, scheduling>>
      /\ idle'.CpuState = idle.CpuState
      /\ idle'.IsAlive => idle.IsAlive \/ (cpu = IdleStack /\ ~scheduling)
  BY <1>1 DEF WaitCall, WaitReturn, HeapAcquire, HeapUnlock, ExitResumes, EnableInterrupts,
              IdleSetsAlive
<1>3. \A d \in Threads : \/ pc'[d] = pc[d] /\ loc'[d] = loc[d]
                         \/ pc[d] \notin InStart /\ pc'[d] \notin InStart
  <2>1. loc \in [Threads -> 0 .. MaxTasks]
    BY DEF SInv, IInv, TypeOK
  <2>2. QED
    BY <1>1, <2>1 DEF WaitCall, WaitReturn, HeapAcquire, HeapUnlock, ExitResumes,
              EnableInterrupts, IdleSetsAlive, InStart, Calls, At, Goto
<1>4. QED
  BY <1>2, <1>3, OtherCalls

\* A task that goes to sleep keeps its slot.
LEMMA SleepSteps ==
  ASSUME SInv, NEW c \in Threads, SleepTicksWritten(c) \/ SleepStateWritten(c)
  PROVE  NoLostStart' /\ IdleSafe' /\ TableInv' /\ StarterInv' /\ ChosenInv'
<1>1. /\ c \in Stack /\ loc[c] = currentTask /\ loc[c] \in Slots /\ ~scheduling
      /\ Tasks[loc[c]].State # "Stopped"
  <2>1. cpu = c /\ ~scheduling /\ pc[c] \in {"wait", "doze", "spin"}
    BY DEF SleepTicksWritten, SleepStateWritten, At
  <2>2. c \in Stack /\ loc[c] = currentTask /\ loc[c] \in Slots
    BY <2>1, WaitSlot DEF SInv
  <2>3. QED
    BY <2>1, <2>2 DEF SInv, IInv, CpuInv, Slots
<1>2. Tasks \in [Slots -> Task] /\ pc \in [Threads -> Places] /\ loc \in [Threads -> 0 .. MaxTasks]
  BY DEF SInv, IInv, TypeOK
<1>3. SameOwners /\ \A j \in Slots : \/ Tasks'[j].State = Tasks[j].State
                                     \/ j = loc[c] /\ Tasks'[j].State = "Sleeping"
  <2>1. CASE SleepTicksWritten(c)
    BY <1>1, <1>2, <2>1 DEF SleepTicksWritten, SameOwners, Task
  <2>2. CASE SleepStateWritten(c)
    BY <1>1, <1>2, <2>2 DEF SleepStateWritten, SameOwners, Task
  <2>3. QED
    BY <2>1, <2>2
<1>4. /\ UNCHANGED <<taskCount, currentTask, nextTask, cpu, scheduling, idle>>
      /\ pc[c] \notin InStart
      /\ \E p \in {"doze", "spin"} : Goto(c, p, loc[c])
  BY DEF SleepTicksWritten, SleepStateWritten, At, InStart
<1>5. \A d \in Threads : \/ pc'[d] = pc[d] /\ loc'[d] = loc[d]
                         \/ pc[d] \notin InStart /\ pc'[d] \notin InStart
  BY <1>2, <1>4 DEF Goto, InStart
<1>6. \A j \in Slots : /\ Tasks'[j].State # "Stopping"
                       /\ Tasks'[j].State = "Stopped" <=> Tasks[j].State = "Stopped"
  BY <1>1, <1>3 DEF SInv, TableInv
<1>7. QED
  BY <1>3, <1>4, <1>5, <1>6, TableSteady
     DEF SInv, IdleSafe, NowhereOnlyByIdle, IdleFrameInv, ChosenInv

-----------------------------------------------------------------------------
(* The steps of StartTask.                                                  *)

\* The first slot after those in use is free while a starter looks for one.
LEMMA FirstFree ==
  ASSUME SInv, NEW c \in Threads, pc[c] \in {"probe", "fill"}, taskCount < MaxTasks
  PROVE  taskCount \in Slots /\ Tasks[taskCount].State = "Stopped"
<1>1. taskCount \in Slots
  BY MaxTasksAssumption DEF SInv, IInv, TypeOK, Slots
<1>2. \A d \in Threads : pc[d] \notin {"count", "store"}
  BY DEF SInv, IInv, StartsExclusive, InStart
<1>3. ~(taskCount < taskCount)
  BY <1>1 DEF Slots
<1>4. QED
  BY <1>1, <1>2, <1>3 DEF SInv, NoLostStart

\* That is the slot it fills.
LEMMA FillsFirstFree ==
  ASSUME SInv, NEW c \in Threads, pc[c] = "fill"
  PROVE  loc[c] = taskCount /\ loc[c] \in Slots /\ Tasks[loc[c]].State = "Stopped"
<1>1. loc[c] = taskCount /\ loc[c] < MaxTasks
  BY DEF SInv, IInv, StartInv, StarterInv, InStart
<1>2. QED
  BY <1>1, FirstFree

\* StartTask up to the slot it fills: without stops that is slot taskCount.
LEMMA StartCalls ==
  ASSUME SInv, NEW c \in Threads,
         StartAcquire(c) \/ StartProbe(c) \/ StartFull(c) \/ StartCount(c)
  PROVE  NoLostStart' /\ IdleSafe' /\ TableInv' /\ StarterInv' /\ ChosenInv'
<1>1. UNCHANGED <<Tasks, taskCount, currentTask, nextTask, cpu, scheduling, idle>>
  BY DEF StartAcquire, StartProbe, StartFull, StartCount
<1>2. pc \in [Threads -> Places] /\ loc \in [Threads -> 0 .. MaxTasks]
  BY DEF SInv, IInv, TypeOK
<1>3. TableInv' /\ IdleSafe' /\ ChosenInv'
  BY <1>1 DEF SInv, TableInv, IdleSafe, NowhereOnlyByIdle, IdleFrameInv, ChosenInv
<1>4. StarterInv'
  <2>1. CASE StartProbe(c)
    <3>1. pc[c] = "probe" /\ loc[c] = taskCount /\ taskCount < MaxTasks
      BY <2>1 DEF SInv, StarterInv, InStart, StartProbe, At
    <3>2. Tasks[loc[c]].State = "Stopped"
      BY <3>1, FirstFree
    <3>3. QED
      BY <1>1, <1>2, <2>1, <3>1, <3>2 DEF SInv, StarterInv, InStart, StartProbe, Goto
  <2>2. CASE StartAcquire(c)
    BY <1>1, <1>2, <2>2 DEF SInv, StarterInv, InStart, StartAcquire, Goto
  <2>3. CASE StartFull(c)
    BY <1>1, <1>2, <2>3 DEF SInv, StarterInv, InStart, StartFull, Goto
  <2>4. CASE StartCount(c)
    BY <1>1, <1>2, <2>4 DEF SInv, StarterInv, InStart, StartCount, At, Goto
  <2>5. QED
    BY <2>1, <2>2, <2>3, <2>4
<1>5. NoLostStart'
  <2>1. \A d \in Threads : pc[d] \in {"count", "store"} => pc'[d] \in {"count", "store"}
    BY <1>2 DEF StartAcquire, StartProbe, StartFull, StartCount, Calls, At, Goto
  <2>2. QED
    BY <1>1, <2>1 DEF SInv, NoLostStart
<1>6. QED
  BY <1>3, <1>4, <1>5

\* The slot filled becomes the starter's own, and is not yet counted.
LEMMA FillsFree ==
  ASSUME SInv, NEW c \in Threads, StartFill(c)
  PROVE  NoLostStart' /\ IdleSafe' /\ TableInv' /\ StarterInv' /\ ChosenInv'
<1>1. PICK s \in Stack :
        /\ pc[s] = "new"
        /\ Tasks' = [Tasks EXCEPT ![loc[c]] = NewTask(s, idCounter)]
        /\ pc' = [pc EXCEPT ![c] = "count", ![s] = "run"]
  BY DEF StartFill
<1>2. pc[c] = "fill" /\ c # s /\ UNCHANGED <<taskCount, currentTask, nextTask, cpu, scheduling, idle, loc>>
  BY <1>1 DEF StartFill, At
<1>3. loc[c] = taskCount /\ loc[c] \in Slots
  BY <1>2, MaxTasksAssumption DEF SInv, IInv, TypeOK, StartInv, StarterInv, InStart, Slots
<1>4. \A j \in Slots : Tasks'[j] = IF j = loc[c] THEN NewTask(s, idCounter) ELSE Tasks[j]
  BY <1>1 DEF SInv, IInv, TypeOK
<1>5. pc'[c] = "count" /\ \A d \in Threads : pc'[d] \in InStart => pc[d] \in InStart
  BY <1>1, <1>2 DEF SInv, IInv, TypeOK, InStart
<1>6. TableInv'
  BY <1>2, <1>3, <1>4 DEF SInv, TableInv, NewTask
<1>7. StarterInv'
  <2>1. \A d \in Threads : pc'[d] \in InStart => d = c
    BY <1>2, <1>5 DEF SInv, IInv, StartsExclusive, InStart
  <2>2. QED
    BY <1>2, <1>3, <1>4, <2>1 DEF SInv, StarterInv, NewTask, InStart
<1>8. NoLostStart'
  <2>1. \A d \in Threads : pc[d] \notin {"count", "store"}
    BY <1>2 DEF SInv, IInv, StartsExclusive, InStart
  <2>2. QED
    BY <1>2, <1>3, <1>4, <1>5, <2>1 DEF SInv, NoLostStart
<1>9. QED
  BY <1>2, <1>6, <1>7, <1>8
     DEF SInv, IdleSafe, NowhereOnlyByIdle, IdleFrameInv, ChosenInv

\* taskCount++ counts the slot just filled and no other.
LEMMA StoreCounts ==
  ASSUME SInv, IInv', NEW c \in Threads, StartStore(c)
  PROVE  NoLostStart' /\ IdleSafe' /\ TableInv' /\ StarterInv' /\ ChosenInv'
<1>1. /\ pc[c] = "store" /\ taskCount' = loc[c] + 1 /\ Goto(c, "run", 0)
      /\ UNCHANGED <<Tasks, currentTask, nextTask, cpu, scheduling, idle>>
  BY DEF StartStore, At
<1>2. loc[c] = taskCount /\ loc[c] \in Slots /\ taskCount \in Int /\ nextTask \in Int
  BY <1>1, MaxTasksAssumption DEF SInv, IInv, TypeOK, StartInv, StarterInv, InStart, Slots
<1>3. \A d \in Threads : d # c => pc[d] \notin InStart
  BY <1>1 DEF SInv, IInv, StartsExclusive, InStart
<1>4. StarterInv'
  BY <1>1, <1>3 DEF SInv, IInv, TypeOK, StarterInv, InStart, Goto
<1>5. NoLostStart'
  BY <1>1, <1>2 DEF SInv, NoLostStart, Slots
<1>6. Tasks[taskCount].State # "Stopped"
  BY <1>1, <1>2 DEF SInv, StarterInv
<1>7. TableInv'
  BY <1>1, <1>2, <1>6 DEF SInv, TableInv, Slots
<1>8. QED
  BY <1>1, <1>2, <1>4, <1>5, <1>7
     DEF SInv, IdleSafe, NowhereOnlyByIdle, IdleFrameInv, ChosenInv

-----------------------------------------------------------------------------
(* The steps of the timer interrupt.                                        *)

\* A tick saves a frame of a task, or of the idle task once it is alive; before,
\* it leaves the idle task's prepared frame alone or destroys it.
LEMMA TickKeepsAll ==
  ASSUME SInv, TickEnter
  PROVE  NoLostStart' /\ IdleSafe' /\ TableInv' /\ StarterInv' /\ ChosenInv'
<1>1. /\ UNCHANGED <<taskCount, currentTask, cpu, thread>>
      /\ nextTask' = -1 /\ ~scheduling /\ scheduling' /\ cpu # Nowhere
  BY DEF TickEnter
<1>2. SameOwners /\ \A j \in Slots : \/ Tasks'[j].State = Tasks[j].State
                                     \/ Tasks[j].State = "Running" /\ Tasks'[j].State = "Idle"
  <2>1. CASE currentTask = -1
    BY <2>1 DEF TickEnter, SameOwners
  <2>2. CASE currentTask # -1
    <3>1. Tasks' = [Tasks EXCEPT ![currentTask] = Interrupted(@)]
      BY <2>2 DEF TickEnter
    <3>2. currentTask \in Slots /\ Tasks[currentTask].CpuState = cpu
      BY <1>1, <2>2 DEF SInv, IInv, TypeOK, CpuInv, FrameInOwnStack
    <3>3. \A j \in Slots :
            Tasks[j] \in Task /\ Tasks'[j] = IF j # currentTask THEN Tasks[j] ELSE Interrupted(Tasks[j])
      BY <3>1, <3>2 DEF SInv, IInv, TypeOK
    <3>4. SameOwners
      <4>1. \A t \in Task : /\ Interrupted(t).stack = t.stack /\ Interrupted(t).ID = t.ID
                            /\ Interrupted(t).CpuState = cpu
        BY DEF Interrupted, Task
      <4>2. QED
        BY <3>2, <3>3, <4>1 DEF SameOwners
    <3>5. QED
      BY <3>3, <3>4 DEF Interrupted, Task
  <2>3. QED
    BY <2>1, <2>2
<1>3. /\ idle'.CpuState \in {IdleStack, Nowhere}
      /\ idle'.IsAlive => idle'.CpuState = IdleStack
  <2>1. CASE currentTask # -1
    BY <2>1 DEF SInv, IdleSafe, NowhereOnlyByIdle, TickEnter
  <2>2. CASE currentTask = -1
    <3>1. PICK f \in IdleFrames : idle' = [idle EXCEPT !.CpuState = f]
      BY <2>2 DEF TickEnter
    <3>2. cpu \in {Boot, IdleStack}
      BY <1>1, <2>2 DEF SInv, IInv, CpuInv
    <3>3. f \in {IdleStack, Nowhere} /\ (idle.IsAlive => f = IdleStack)
      BY <3>2 DEF SInv, IInv, IdleInv, IdleSafe, NowhereOnlyByIdle, IdleFrames
    <3>4. QED
      BY <3>1, <3>3 DEF SInv, IInv, TypeOK
  <2>3. QED
    BY <2>1, <2>2
<1>4. NoLostStart' /\ TableInv' /\ StarterInv'
  <2>1. \A j \in Slots : /\ Tasks'[j].State # "Stopping"
                         /\ Tasks'[j].State = "Stopped" <=> Tasks[j].State = "Stopped"
    BY <1>2 DEF SInv, TableInv
  <2>2. QED
    BY <1>1, <1>2, <2>1, TableSteady
<1>5. ChosenInv'
  BY <1>1 DEF SInv, IInv, TypeOK, ChosenInv
<1>6. QED
  BY <1>1, <1>3, <1>4, <1>5 DEF IdleSafe, NowhereOnlyByIdle, IdleFrameInv

\* The loop chooses slots in use.
LEMMA VisitKeepsAll ==
  ASSUME SInv, VisitIdle \/ VisitSleeping \/ VisitOther
  PROVE  NoLostStart' /\ IdleSafe' /\ TableInv' /\ StarterInv' /\ ChosenInv'
<1>1. UNCHANGED <<taskCount, currentTask, cpu, idle, scheduling, thread>>
  BY DEF VisitIdle, VisitSleeping, VisitOther, Visit
<1>2. Slot \in Slots /\ Slot \in 0 .. taskCount - 1 /\ taskCount \in Int
  BY SlotRange DEF SInv, IInv, TypeOK, VisitIdle, VisitSleeping, VisitOther, Visit
<1>3. ChosenInv'
  BY <1>1, <1>2 DEF SInv, ChosenInv, VisitIdle, VisitSleeping, VisitOther
<1>4. SameOwners /\ \A j \in Slots : \/ Tasks'[j].State = Tasks[j].State
                                     \/ Tasks[j].State = "Sleeping" /\ Tasks'[j].State = "Idle"
  <2>1. CASE VisitIdle \/ VisitOther
    BY <2>1 DEF VisitIdle, VisitOther, SameOwners
  <2>2. CASE VisitSleeping
    <3>1. Tasks[Slot].State = "Sleeping"
      BY <2>2 DEF VisitSleeping, Visit
    <3>2. \A j \in Slots :
            Tasks[j] \in Task /\ Tasks'[j] = IF j = Slot THEN Slept(Tasks[j]) ELSE Tasks[j]
      BY <1>2, <2>2 DEF SInv, IInv, TypeOK, VisitSleeping
    <3>3. SameOwners
      BY <3>2 DEF Slept, SameOwners, Task
    <3>4. QED
      BY <3>1, <3>2, <3>3 DEF Slept, Task
  <2>3. QED
    BY <2>1, <2>2
<1>5. NoLostStart' /\ TableInv' /\ StarterInv'
  <2>1. \A j \in Slots : /\ Tasks'[j].State # "Stopping"
                         /\ Tasks'[j].State = "Stopped" <=> Tasks[j].State = "Stopped"
    BY <1>4 DEF SInv, TableInv
  <2>2. QED
    BY <1>1, <1>4, <2>1, TableSteady
<1>6. QED
  BY <1>1, <1>3, <1>5 DEF SInv, IdleSafe, NowhereOnlyByIdle, IdleFrameInv

\* No slot is Stopping.
LEMMA NothingToReap == ASSUME SInv PROVE ~VisitStopping
<1>1. visit <= taskCount => Slot \in Slots
  BY SlotRange DEF SInv, IInv
<1>2. QED
  BY <1>1 DEF SInv, TableInv, VisitStopping, Visit

\* The frame dispatched is that of a task or the idle task's, destroyed or not.
LEMMA DispatchKeepsAll ==
  ASSUME SInv, Dispatch
  PROVE  NoLostStart' /\ IdleSafe' /\ TableInv' /\ StarterInv' /\ ChosenInv'
<1>1. UNCHANGED <<taskCount, idle, thread>> /\ nextTask' = -1
  BY DEF Dispatch
<1>2. nextTask # -1 => /\ nextTask \in Slots
                       /\ Tasks[nextTask].State # "Stopped" /\ Tasks[nextTask].stack \in Stack
  BY DEF SInv, IInv, TypeOK, TableInv, ChosenInv, Slots
<1>3. SameOwners /\ \A j \in Slots : \/ Tasks'[j].State = Tasks[j].State
                                     \/ j = nextTask /\ Tasks'[j].State = "Running"
  <2>1. CASE nextTask = -1
    BY <2>1 DEF Dispatch, SameOwners
  <2>2. CASE nextTask # -1
    BY <1>2, <2>2, StateWritten DEF SInv, IInv, Dispatch, States
  <2>3. QED
    BY <2>1, <2>2
<1>4. NoLostStart' /\ TableInv' /\ StarterInv'
  <2>1. \A j \in Slots : /\ Tasks'[j].State # "Stopping"
                         /\ Tasks'[j].State = "Stopped" <=> Tasks[j].State = "Stopped"
    BY <1>2, <1>3, MaxTasksAssumption DEF SInv, TableInv, Slots
  <2>2. QED
    BY <1>1, <1>3, <2>1, TableSteady
<1>5. IdleSafe'
  <2>1. CASE nextTask = -1
    BY <1>1, <2>1, ContextAssumption
       DEF SInv, IdleSafe, NowhereOnlyByIdle, IdleFrameInv, Dispatch, NextFrame
  <2>2. CASE nextTask # -1
    <3>1. cpu' \in Stack
      BY <1>2, <2>2 DEF SInv, IInv, FrameInOwnStack, Dispatch, NextFrame
    <3>2. QED
      BY <1>1, <3>1, ContextAssumption DEF SInv, IdleSafe, NowhereOnlyByIdle, IdleFrameInv
  <2>3. QED
    BY <2>1, <2>2
<1>6. ChosenInv'
  BY <1>1 DEF SInv, IInv, TypeOK, ChosenInv
<1>7. QED
  BY <1>4, <1>5, <1>6

-----------------------------------------------------------------------------
(* The theorem.                                                             *)

\* The strengthened invariant holds in every behaviour without stops.
LEMMA SInvariance == ASSUME ~StopCalls PROVE Spec => []SInv
<1>1. Init => SInv
  <2>. SUFFICES ASSUME Init PROVE SInv
    OBVIOUS
  <2>1. IInv
    BY InitIInv
  <2>2. \A k \in Slots : Tasks[k].State = "Stopped" /\ k >= 0
    BY DEF Init, NoTask, Slots
  <2>3. NoLostStart /\ TableInv
    BY <2>2 DEF Init, NoLostStart, TableInv, Slots
  <2>4. IdleSafe /\ StarterInv /\ ChosenInv
    BY ContextAssumption
       DEF Init, IdleSafe, NowhereOnlyByIdle, IdleFrameInv, StarterInv, ChosenInv, InStart
  <2>5. QED
    BY <2>1, <2>3, <2>4 DEF SInv
<1>2. SInv /\ [Next]_vars => SInv'
  <2>. SUFFICES ASSUME SInv, [Next]_vars PROVE SInv'
    OBVIOUS
  <2>. DEFINE Kept == NoLostStart' /\ IdleSafe' /\ TableInv' /\ StarterInv' /\ ChosenInv'
  <2>1. IInv'
    BY NextIInv DEF SInv
  <2>2. ASSUME NEW c \in Threads, Call(c) PROVE Kept
    BY <2>2, StartCalls, QuietSteps DEF Call, Stop, Exit
  <2>3. ASSUME NEW c \in Threads, Carry(c) PROVE Kept
    BY <2>1, <2>3, StartCalls, FillsFree, StoreCounts, SleepSteps, QuietSteps DEF Carry
  <2>4. ASSUME Schedule PROVE Kept
    <3>1. CASE VisitIdle \/ VisitSleeping \/ VisitOther
      BY <3>1, VisitKeepsAll
    <3>2. CASE Dispatch
      BY <3>2, DispatchKeepsAll
    <3>3. QED
      BY <2>4, <3>1, <3>2, NothingToReap DEF Schedule
  <2>5. ASSUME EnableInterrupts \/ IdleSetsAlive PROVE Kept
    <3>1. Boot \in Threads
      OBVIOUS
    <3>2. QED
      BY <2>5, <3>1, QuietSteps
  <2>6. ASSUME UNCHANGED vars PROVE Kept
    BY <2>6 DEF vars, SInv, NoLostStart, IdleSafe, NowhereOnlyByIdle, IdleFrameInv, TableInv,
                StarterInv, ChosenInv
  <2>7. Kept
    BY <2>2, <2>3, <2>4, <2>5, <2>6, TickKeepsAll DEF Next
  <2>8. QED
    BY <2>1, <2>7 DEF SInv
<1>3. QED
  BY <1>1, <1>2, PTL DEF Spec

\* While nobody stops a task, StartTask loses none: a slot in use is one that
\* Schedule looks at, or becomes one when its starter has stored taskCount.
THEOREM StartsArrive == ASSUME ~StopCalls PROVE Spec => []NoLostStart
<1>1. SInv => NoLostStart
  BY DEF SInv
<1>2. QED
  BY <1>1, SInvariance, PTL

\* While nobody stops a task, Schedule only ever loads frames of tasks and of the
\* idle task, and a frame that leads nowhere only after a tick has interrupted the
\* idle task before it could report IsAlive.
THEOREM CpuStays == ASSUME ~StopCalls PROVE Spec => []NowhereOnlyByIdle
<1>1. SInv => NowhereOnlyByIdle
  BY DEF SInv, IdleSafe
<1>2. QED
  BY <1>1, SInvariance, PTL

\* While nobody stops a task no lock hangs the machine: there is nothing to reap,
\* so Schedule takes none.  It goes on unless the CPU has been sent nowhere.
THEOREM NeverHangs == ASSUME ~StopCalls PROVE Spec => [](CanGoOn \/ cpu = Nowhere)
<1>1. GInv /\ SInv => CanGoOn \/ cpu = Nowhere
  <2>. SUFFICES ASSUME GInv, SInv PROVE CanGoOn \/ cpu = Nowhere
    OBVIOUS
  <2>1. ~WaitsForHeap
    BY SlotRange DEF WaitsForHeap, SInv, IInv, TableInv
  <2>2. QED
    BY <2>1, GoesOn
<1>2. QED
  BY <1>1, GInvariance, SInvariance, PTL

-----------------------------------------------------------------------------
(* Schedule takes turns: the invariant the refinement of RoundRobin needs.  *)

\* A sleeping task is one Schedule looks at; it has a tick left to sleep and
\* spins in Wait.
SleeperInv ==
  \A k \in Slots : Tasks[k].State = "Sleeping" =>
    k < taskCount /\ Tasks[k].SleepTicks >= 1 /\ pc[Tasks[k].stack] = "spin"

\* A task inside Wait has its slot in loc; before it sleeps it has asked for one
\* of the Delays.
DozerInv ==
  \A c \in Stack :
    /\ pc[c] \in {"wait", "doze", "spin"} =>
         loc[c] \in Slots /\ Tasks[loc[c]].stack = c /\ Tasks[loc[c]].State # "Stopped"
    /\ pc[c] = "doze" => Tasks[loc[c]].SleepTicks \in Delays

\* The current task is one Schedule looks at, and the one it has chosen is ready.
TurnInv ==
  /\ currentTask < taskCount
  /\ nextTask # -1 => Tasks[nextTask].State = "Idle"

RInv == SInv /\ SleeperInv /\ DozerInv /\ TurnInv


-----------------------------------------------------------------------------
(* The invariant.                                                           *)

LEMMA Types ==
  ASSUME RInv
  PROVE  /\ Tasks \in [Slots -> Task]
         /\ pc \in [Threads -> Places] /\ loc \in [Threads -> 0 .. MaxTasks]
         /\ taskCount \in 0 .. MaxTasks /\ MaxTasks \in Nat \ {0}
         /\ currentTask \in Slots \cup {-1} /\ nextTask \in Slots \cup {-1}
         /\ visit \in 1 .. MaxTasks + 1
         /\ idle \in [IsAlive : BOOLEAN, CpuState : {IdleStack, Nowhere}]
  BY MaxTasksAssumption DEF RInv, SInv, IInv, TypeOK

\* What a step may not disturb.
SleepKept == SleeperInv' /\ DozerInv' /\ TurnInv'

\* Steps that leave the table alone and go neither into nor on in Wait.
LEMMA WaitUntouched ==
  ASSUME RInv, UNCHANGED <<Tasks, currentTask, nextTask>>,
         taskCount' \in Int, taskCount <= taskCount',
         \A d \in Stack : \/ pc'[d] = pc[d] /\ loc'[d] = loc[d]
                          \/ /\ pc[d] \notin {"wait", "doze", "spin"}
                             /\ pc'[d] \notin {"wait", "doze", "spin"}
  PROVE  SleepKept
<1>1. SleeperInv'
  <2>1. \A k \in Slots : k \in Int /\ (Tasks[k].State # "Stopped" => Tasks[k].stack \in Stack)
    BY DEF RInv, SInv, TableInv, Slots
  <2>2. QED
    BY <2>1, Types DEF RInv, SleeperInv
<1>2. DozerInv'
  BY DEF RInv, DozerInv
<1>3. TurnInv'
  BY Types DEF RInv, TurnInv, Slots
<1>4. QED
  BY <1>1, <1>2, <1>3 DEF SleepKept

LEMMA OtherSteps ==
  ASSUME RInv, NEW c \in Threads,
         \/ StartAcquire(c) \/ StartProbe(c) \/ StartFull(c) \/ StartCount(c) \/ StartStore(c)
         \/ HeapAcquire(c) \/ HeapUnlock(c) \/ ExitResumes(c)
         \/ EnableInterrupts \/ IdleSetsAlive
  PROVE  SleepKept
<1>1. UNCHANGED <<Tasks, currentTask, nextTask>>
  BY Types DEF StartAcquire, StartProbe, StartFull, StartCount, StartStore, HeapAcquire, HeapUnlock,
         ExitResumes, EnableInterrupts, IdleSetsAlive
<1>2. taskCount' \in Int /\ taskCount <= taskCount'
  <2>1. CASE StartStore(c)
    <3>1. loc[c] = taskCount /\ taskCount' = loc[c] + 1
      BY <2>1 DEF RInv, SInv, StarterInv, InStart, StartStore, At
    <3>2. QED
      BY <3>1, Types
  <2>2. CASE taskCount' = taskCount
    BY <2>2, Types
  <2>3. QED
    BY Types, <2>1, <2>2 DEF StartAcquire, StartProbe, StartFull, StartCount, HeapAcquire, HeapUnlock,
         ExitResumes, EnableInterrupts, IdleSetsAlive
<1>3. \A d \in Stack : \/ pc'[d] = pc[d] /\ loc'[d] = loc[d]
                       \/ /\ pc[d] \notin {"wait", "doze", "spin"}
                          /\ pc'[d] \notin {"wait", "doze", "spin"}
  BY Types DEF StartAcquire, StartProbe, StartFull, StartCount, StartStore, HeapAcquire, HeapUnlock,
         ExitResumes, EnableInterrupts, IdleSetsAlive, Calls, At, Goto
<1>4. QED
  BY <1>1, <1>2, <1>3, WaitUntouched

\* A task that enters Wait takes the slot it runs in.
LEMMA WaitEnters == ASSUME RInv, NEW c \in Threads, WaitCall(c) PROVE SleepKept
<1>1. /\ c \in Stack /\ pc[c] = "run" /\ cpu = c /\ ~scheduling /\ currentTask # -1
      /\ Goto(c, "wait", currentTask) /\ UNCHANGED <<Tasks, taskCount, currentTask, nextTask>>
  BY DEF WaitCall, Calls, At
<1>2. currentTask \in Slots /\ Tasks[currentTask].stack = c /\ Tasks[currentTask].State # "Stopped"
  BY <1>1, Types DEF RInv, SInv, IInv, CpuInv
<1>3. /\ pc'[c] = "wait" /\ loc'[c] = currentTask
      /\ \A d \in Stack : d # c => pc'[d] = pc[d] /\ loc'[d] = loc[d]
  BY <1>1, Types DEF Goto
<1>4. SleeperInv'
  <2>1. \A k \in Slots : Tasks[k].State # "Stopped" => Tasks[k].stack \in Stack
    BY DEF RInv, SInv, TableInv
  <2>2. QED
    BY <1>1, <1>3, <2>1 DEF RInv, SleeperInv
<1>5. DozerInv'
  BY <1>1, <1>2, <1>3 DEF RInv, DozerInv
<1>6. TurnInv'
  BY <1>1 DEF RInv, TurnInv
<1>7. QED
  BY <1>4, <1>5, <1>6 DEF SleepKept

\* A task inside Wait is awake in its own slot only.
LEMMA OwnSlot ==
  ASSUME RInv, NEW c \in Stack, pc[c] \in {"wait", "doze", "spin"}
  PROVE  /\ loc[c] \in Slots /\ Tasks[loc[c]].stack = c /\ Tasks[loc[c]].State # "Stopped"
         /\ \A k \in Slots : Tasks[k].stack = c => k = loc[c]
         /\ \A d \in Stack : pc[d] \in {"wait", "doze", "spin"} /\ loc[d] = loc[c] => d = c
<1>1. loc[c] \in Slots /\ Tasks[loc[c]].stack = c /\ Tasks[loc[c]].State # "Stopped"
  BY DEF RInv, DozerInv
<1>2. \A k \in Slots : Tasks[k].stack = c => k = loc[c]
  BY <1>1, ContextAssumption DEF RInv, SInv, IInv, NoSharedStack
<1>3. \A d \in Stack : pc[d] \in {"wait", "doze", "spin"} /\ loc[d] = loc[c] => d = c
  BY <1>1 DEF RInv, DozerInv
<1>4. QED
  BY <1>1, <1>2, <1>3

LEMMA WaitLeaves == ASSUME RInv, NEW c \in Threads, WaitReturn(c) PROVE SleepKept
<1>1. /\ pc[c] = "spin" /\ cpu = c /\ ~scheduling /\ Tasks[loc[c]].SleepTicks = 0
      /\ Goto(c, "run", 0) /\ UNCHANGED <<Tasks, taskCount, currentTask, nextTask>>
  BY DEF WaitReturn, At
<1>2. c \in Stack
  BY <1>1, WaitSlot DEF RInv, SInv
<1>3. pc'[c] = "run" /\ \A d \in Stack : d # c => pc'[d] = pc[d] /\ loc'[d] = loc[d]
  BY <1>1, Types DEF Goto
<1>4. SleeperInv'
  <2>1. \A k \in Slots : Tasks[k].State = "Sleeping" => Tasks[k].stack \in Stack \ {c}
    <3>1. \A k \in Slots : Tasks[k].stack = c => k = loc[c]
      BY <1>1, <1>2, OwnSlot
    <3>2. QED
      BY <1>1, <3>1 DEF RInv, SInv, TableInv, SleeperInv
  <2>2. QED
    BY <1>1, <1>3, <2>1 DEF RInv, SleeperInv
<1>5. DozerInv'
  BY <1>1, <1>3 DEF RInv, DozerInv
<1>6. TurnInv'
  BY <1>1 DEF RInv, TurnInv
<1>7. QED
  BY <1>4, <1>5, <1>6 DEF SleepKept

LEMMA TicksWritten == ASSUME RInv, NEW c \in Threads, SleepTicksWritten(c) PROVE SleepKept
<1>1. PICK ms \in Delays : Tasks' = [Tasks EXCEPT ![loc[c]].SleepTicks = ms]
  BY DEF SleepTicksWritten
<1>2. /\ pc[c] = "wait" /\ cpu = c /\ ~scheduling
      /\ Goto(c, "doze", loc[c]) /\ UNCHANGED <<taskCount, currentTask, nextTask>>
  BY DEF SleepTicksWritten, At
<1>3. c \in Stack
  BY <1>2, WaitSlot DEF RInv, SInv
<1>4. /\ pc'[c] = "doze" /\ loc' = loc
      /\ \A d \in Stack : d # c => pc'[d] = pc[d]
  BY <1>2, Types DEF Goto
<1>5. /\ loc[c] \in Slots /\ Tasks[loc[c]].stack = c
      /\ \A k \in Slots : Tasks[k].stack = c => k = loc[c]
      /\ \A d \in Stack : pc[d] \in {"wait", "doze", "spin"} /\ loc[d] = loc[c] => d = c
  BY <1>2, <1>3, OwnSlot
<1>6. /\ Tasks'[loc[c]].SleepTicks = ms
      /\ \A k \in Slots : /\ Tasks'[k].State = Tasks[k].State /\ Tasks'[k].stack = Tasks[k].stack
                          /\ k # loc[c] => Tasks'[k] = Tasks[k]
  BY <1>1, <1>5, Types DEF Task
<1>7. Tasks[loc[c]].State # "Sleeping"
  BY <1>2, <1>5 DEF RInv, SleeperInv
<1>8. SleeperInv'
  <2>1. \A k \in Slots : Tasks[k].State = "Sleeping" => Tasks[k].stack \in Stack \ {c}
    BY <1>5, <1>7 DEF RInv, SInv, TableInv
  <2>2. QED
    BY <1>2, <1>4, <1>6, <1>7, <2>1 DEF RInv, SleeperInv
<1>9. DozerInv'
  BY <1>2, <1>4, <1>5, <1>6 DEF RInv, DozerInv
<1>10. TurnInv'
  BY <1>2, <1>6, Types DEF RInv, TurnInv
<1>11. QED
  BY <1>8, <1>9, <1>10 DEF SleepKept

LEMMA StateSlept ==
  ASSUME RInv, 0 \notin Delays, NEW c \in Threads, SleepStateWritten(c) PROVE SleepKept
<1>1. /\ pc[c] = "doze" /\ cpu = c /\ ~scheduling
      /\ Tasks' = [Tasks EXCEPT ![loc[c]].State = "Sleeping"]
      /\ Goto(c, "spin", loc[c]) /\ UNCHANGED <<taskCount, currentTask, nextTask>>
  BY DEF SleepStateWritten, At
<1>2. c \in Stack /\ loc[c] = currentTask
  BY <1>1, WaitSlot DEF RInv, SInv
<1>3. /\ pc'[c] = "spin" /\ loc' = loc
      /\ \A d \in Stack : d # c => pc'[d] = pc[d]
  BY <1>1, Types DEF Goto
<1>4. /\ loc[c] \in Slots /\ Tasks[loc[c]].stack = c
      /\ \A d \in Stack : pc[d] \in {"wait", "doze", "spin"} /\ loc[d] = loc[c] => d = c
  BY <1>1, <1>2, OwnSlot
<1>5. \A k \in Slots :
        /\ Tasks'[k].SleepTicks = Tasks[k].SleepTicks /\ Tasks'[k].stack = Tasks[k].stack
        /\ Tasks'[k].State = IF k = loc[c] THEN "Sleeping" ELSE Tasks[k].State
  BY <1>1, <1>4, Types DEF Task
<1>6. Tasks[loc[c]].SleepTicks >= 1
  <2>1. Tasks[loc[c]].SleepTicks \in Delays
    BY <1>1, <1>2 DEF RInv, DozerInv
  <2>2. \A d \in Delays : d \in Int /\ d >= 0 /\ d # 0
    BY TickAssumption
  <2>3. QED
    BY <2>1, <2>2
<1>7. SleeperInv'
  <2>1. \A k \in Slots : Tasks[k].State = "Sleeping" => Tasks[k].stack \in Stack
    BY DEF RInv, SInv, TableInv
  <2>2. \A k \in Slots : Tasks[k].State = "Sleeping" => pc'[Tasks[k].stack] = "spin"
    BY <1>3, <2>1 DEF RInv, SleeperInv
  <2>3. QED
    BY <1>1, <1>2, <1>3, <1>4, <1>5, <1>6, <2>2 DEF RInv, SleeperInv, TurnInv
<1>8. DozerInv'
  BY <1>3, <1>4, <1>5 DEF RInv, DozerInv
<1>9. TurnInv'
  <2>1. nextTask = -1
    BY <1>1 DEF RInv, SInv, IInv, NextInv
  <2>2. QED
    BY <1>1, <2>1 DEF RInv, TurnInv
<1>10. QED
  BY <1>7, <1>8, <1>9 DEF SleepKept

\* A slot that is filled was nobody's.
LEMMA FillDisturbsNone == ASSUME RInv, NEW c \in Threads, StartFill(c) PROVE SleepKept
<1>1. PICK s \in Stack :
        /\ pc[s] = "new"
        /\ Tasks' = [Tasks EXCEPT ![loc[c]] = NewTask(s, idCounter)]
        /\ pc' = [pc EXCEPT ![c] = "count", ![s] = "run"]
  BY DEF StartFill
<1>2. pc[c] = "fill" /\ ~scheduling /\ UNCHANGED <<taskCount, currentTask, nextTask, loc>>
  BY DEF StartFill, At
<1>3. loc[c] \in Slots /\ Tasks[loc[c]].State = "Stopped"
  BY <1>2, FillsFirstFree, Types DEF RInv
<1>4. \A k \in Slots : Tasks'[k] = IF k = loc[c] THEN NewTask(s, idCounter) ELSE Tasks[k]
  BY <1>1, Types
<1>5. \A d \in Threads :
        /\ pc'[d] \in {"wait", "doze", "spin"} => pc'[d] = pc[d]
        /\ pc[d] \in {"wait", "doze", "spin"} => pc'[d] = pc[d]
  BY <1>1, <1>2, Types
<1>6. SleeperInv'
  <2>1. \A k \in Slots : Tasks[k].State = "Sleeping" => Tasks[k].stack \in Stack
    BY DEF RInv, SInv, TableInv
  <2>2. QED
    BY <1>2, <1>4, <1>5, <2>1 DEF RInv, SleeperInv, NewTask
<1>7. DozerInv'
  BY <1>2, <1>3, <1>4, <1>5 DEF RInv, DozerInv
<1>8. TurnInv'
  <2>1. nextTask = -1
    BY <1>2 DEF RInv, SInv, IInv, NextInv
  <2>2. QED
    BY <1>2, <2>1 DEF RInv, TurnInv
<1>9. QED
  BY <1>6, <1>7, <1>8 DEF SleepKept

\* What a tick does to the table: a Running task is Idle again.
LEMMA TickTable ==
  ASSUME RInv, TickEnter
  PROVE  \A k \in Slots :
           /\ Tasks'[k].SleepTicks = Tasks[k].SleepTicks /\ Tasks'[k].stack = Tasks[k].stack
           /\ \/ Tasks'[k].State = Tasks[k].State
              \/ Tasks[k].State = "Running" /\ Tasks'[k].State = "Idle"
<1>1. CASE currentTask = -1
  BY <1>1, Types DEF TickEnter
<1>2. CASE currentTask # -1
  <2>1. currentTask \in Slots /\ Tasks' = [Tasks EXCEPT ![currentTask] = Interrupted(@)]
    BY <1>2, Types DEF TickEnter
  <2>2. \A k \in Slots : /\ Tasks[k] \in Task
                         /\ Tasks'[k] = IF k = currentTask THEN Interrupted(Tasks[k]) ELSE Tasks[k]
    BY <2>1, Types
  <2>3. \A t \in Task :
          /\ Interrupted(t).SleepTicks = t.SleepTicks /\ Interrupted(t).stack = t.stack
          /\ Interrupted(t).State = IF t.State = "Running" THEN "Idle" ELSE t.State
    BY DEF Interrupted, Task
  <2>4. QED
    BY <2>2, <2>3
<1>3. QED
  BY <1>1, <1>2

LEMMA TickKeepsSleep == ASSUME RInv, TickEnter PROVE SleepKept
<1>1. UNCHANGED <<taskCount, currentTask, pc, loc>> /\ nextTask' = -1
  BY DEF TickEnter
<1>2. SleeperInv'
  BY <1>1, TickTable DEF RInv, SleeperInv
<1>3. DozerInv'
  BY <1>1, TickTable DEF RInv, DozerInv
<1>4. TurnInv'
  BY <1>1 DEF RInv, TurnInv
<1>5. QED
  BY <1>2, <1>3, <1>4 DEF SleepKept

LEMMA IdleKeepsSleep == ASSUME RInv, VisitIdle PROVE SleepKept
<1>1. /\ UNCHANGED <<Tasks, taskCount, currentTask, pc, loc>>
      /\ Tasks[Slot].State = "Idle" /\ nextTask' \in {Slot, nextTask}
  BY DEF VisitIdle, Visit
<1>2. QED
  BY <1>1 DEF RInv, SleeperInv, DozerInv, TurnInv, SleepKept

\* What a visit does to a sleeper: one tick less, and awake with the last.
LEMMA SleeperVisited ==
  ASSUME RInv, VisitSleeping
  PROVE  /\ visit <= taskCount /\ scheduling /\ visit' = visit + 1
         /\ UNCHANGED <<taskCount, currentTask, nextTask, scheduling, pc, loc>>
         /\ Slot \in Slots /\ Slot < taskCount /\ Tasks[Slot].State = "Sleeping"
         /\ \A k \in Slots : /\ Tasks'[k].stack = Tasks[k].stack
                             /\ k # Slot => Tasks'[k] = Tasks[k]
         /\ Tasks'[Slot].SleepTicks = Tasks[Slot].SleepTicks - 1
         /\ Tasks'[Slot].State = IF Tasks[Slot].SleepTicks = 1 THEN "Idle" ELSE "Sleeping"
<1>1. /\ visit <= taskCount /\ scheduling /\ visit' = visit + 1
      /\ UNCHANGED <<taskCount, currentTask, nextTask, scheduling, pc, loc>>
      /\ Tasks[Slot].State = "Sleeping" /\ Tasks' = [Tasks EXCEPT ![Slot] = Slept(@)]
  BY DEF VisitSleeping, Visit
<1>2. Slot \in Slots /\ Slot < taskCount
  BY <1>1, SlotRange, Types DEF RInv, SInv, IInv
<1>3. \A k \in Slots : /\ Tasks[k] \in Task
                       /\ Tasks'[k] = IF k = Slot THEN Slept(Tasks[k]) ELSE Tasks[k]
  BY <1>1, <1>2, Types
<1>4. Tasks[Slot].SleepTicks >= 1 /\ Tasks[Slot].SleepTicks \in Int
  BY <1>1, <1>2, <1>3, TickAssumption DEF RInv, SleeperInv, Task
<1>5. \A t \in Task : /\ Slept(t).stack = t.stack /\ Slept(t).SleepTicks = Dec(t.SleepTicks)
                      /\ Slept(t).State = IF t.SleepTicks = 1 THEN "Idle" ELSE t.State
  BY DEF Slept, Task
<1>6. Dec(Tasks[Slot].SleepTicks) = Tasks[Slot].SleepTicks - 1
  BY <1>4 DEF Dec
<1>7. QED
  BY <1>1, <1>2, <1>3, <1>5, <1>6

LEMMA SleepingKeepsSleep == ASSUME RInv, VisitSleeping PROVE SleepKept
<1>1. SleeperInv'
  <2>1. Tasks[Slot].SleepTicks \in Int
    BY SleeperVisited, Types, TickAssumption DEF Task
  <2>2. QED
    BY <2>1, SleeperVisited DEF RInv, SleeperInv
<1>2. DozerInv'
  <2>1. \A c \in Stack : pc[c] = "doze" => loc[c] # Slot
    BY SleeperVisited DEF RInv, DozerInv, SleeperInv
  <2>2. QED
    BY <2>1, SleeperVisited DEF RInv, DozerInv
<1>3. TurnInv'
  BY SleeperVisited, Types DEF RInv, TurnInv
<1>4. QED
  BY <1>1, <1>2, <1>3 DEF SleepKept

\* The slot dispatched was Idle and is Running; no other changes.
LEMMA Dispatched ==
  ASSUME RInv, Dispatch
  PROVE  /\ ~scheduling' /\ scheduling /\ visit > taskCount
         /\ currentTask' = nextTask /\ nextTask' = -1 /\ UNCHANGED <<taskCount, pc, loc>>
         /\ \A k \in Slots :
              /\ Tasks'[k].stack = Tasks[k].stack /\ Tasks'[k].SleepTicks = Tasks[k].SleepTicks
              /\ \/ Tasks'[k].State = Tasks[k].State
                 \/ Tasks[k].State = "Idle" /\ Tasks'[k].State = "Running"
<1>1. /\ ~scheduling' /\ scheduling /\ visit > taskCount
      /\ currentTask' = nextTask /\ nextTask' = -1 /\ UNCHANGED <<taskCount, pc, loc>>
      /\ Tasks' = IF nextTask = -1 THEN Tasks ELSE [Tasks EXCEPT ![nextTask].State = "Running"]
  BY DEF Dispatch
<1>2. CASE nextTask = -1
  BY <1>1, <1>2
<1>3. CASE nextTask # -1
  <2>1. nextTask \in Slots /\ Tasks[nextTask].State = "Idle"
    BY <1>3, Types DEF RInv, TurnInv
  <2>2. \A k \in Slots : 
          /\ Tasks'[k].stack = Tasks[k].stack /\ Tasks'[k].SleepTicks = Tasks[k].SleepTicks
          /\ Tasks'[k].State = IF k = nextTask THEN "Running" ELSE Tasks[k].State
    BY <1>1, <1>3, <2>1, Types DEF Task
  <2>3. QED
    BY <1>1, <2>1, <2>2
<1>4. QED
  BY <1>2, <1>3

LEMMA DispatchKeepsSleep == ASSUME RInv, Dispatch PROVE SleepKept
<1>1. SleeperInv'
  BY Dispatched DEF RInv, SleeperInv
<1>2. DozerInv'
  BY Dispatched DEF RInv, DozerInv
<1>3. TurnInv'
  BY Dispatched DEF RInv, SInv, ChosenInv, TurnInv
<1>4. QED
  BY <1>1, <1>2, <1>3 DEF SleepKept

\* A slot Schedule looks at is Idle or Sleeping: VisitOther finds none.
LEMMA NoOther == ASSUME RInv PROVE ~VisitOther
<1>1. visit <= taskCount => Slot \in Slots /\ Slot < taskCount
  BY SlotRange, Types DEF RInv, SInv, IInv
<1>2. QED
  BY <1>1 DEF RInv, SInv, IInv, TableInv, RunningIsCurrent, VisitOther, Visit

\* The strengthened invariant, started from SInv of SchedulerProofs.
LEMMA RStep ==
  ASSUME ~StopCalls, 0 \notin Delays, RInv, [Next]_vars PROVE SleepKept
<1>1. ASSUME NEW c \in Threads, Call(c) PROVE SleepKept
  <2>1. ~Exit(c) /\ \A k \in Slots : ~Stop(c, k)
    BY DEF Exit, Stop
  <2>2. QED
    BY <1>1, <2>1, OtherSteps, WaitEnters DEF Call
<1>2. ASSUME NEW c \in Threads, Carry(c) PROVE SleepKept
  BY <1>2, OtherSteps, FillDisturbsNone, TicksWritten, StateSlept, WaitLeaves DEF Carry
<1>3. ASSUME Schedule PROVE SleepKept
  <2>1. ~VisitStopping
    BY NothingToReap DEF RInv
  <2>2. QED
    BY <1>3, <2>1, IdleKeepsSleep, SleepingKeepsSleep, DispatchKeepsSleep, NoOther DEF Schedule
<1>4. ASSUME EnableInterrupts \/ IdleSetsAlive PROVE SleepKept
  <2>1. Boot \in Threads
    OBVIOUS
  <2>2. QED
    BY <1>4, <2>1, OtherSteps
<1>5. ASSUME UNCHANGED vars PROVE SleepKept
  BY <1>5 DEF vars, RInv, SleepKept, SleeperInv, DozerInv, TurnInv
<1>6. QED
  BY <1>1, <1>2, <1>3, <1>4, <1>5, TickKeepsSleep DEF Next

LEMMA RInvariance ==
  ASSUME ~StopCalls, 0 \notin Delays PROVE Spec => []RInv
<1>1. Init => SleeperInv /\ DozerInv /\ TurnInv
  <2>. SUFFICES ASSUME Init PROVE SleeperInv /\ DozerInv /\ TurnInv
    OBVIOUS
  <2>1. SleeperInv
    BY DEF Init, NoTask, SleeperInv
  <2>2. \A c \in Stack : pc[c] = "new"
    BY ContextAssumption DEF Init
  <2>3. QED
    BY <2>1, <2>2 DEF Init, DozerInv, TurnInv
<1>2. SInv /\ SInv' /\ SleeperInv /\ DozerInv /\ TurnInv /\ [Next]_vars
        => (SleeperInv /\ DozerInv /\ TurnInv)'
  BY RStep DEF RInv, SleepKept
<1>3. QED
  BY <1>1, <1>2, SInvariance, PTL DEF Spec, RInv

-----------------------------------------------------------------------------
(* The turns of the tasks: (currentTask + i) % taskCount for 1 <= i <=      *)
(* taskCount visits every task once.                                        *)

Turn(i) == (currentTask + i) % taskCount

LEMMA BelowModulus == ASSUME NEW n \in Nat \ {0}, NEW a \in 0 .. n - 1 PROVE a % n = a
  OBVIOUS

LEMMA AboveModulus ==
  ASSUME NEW n \in Nat \ {0}, NEW a \in n .. n + n - 1 PROVE a % n = a - n
  OBVIOUS

LEMMA TurnIs ==
  ASSUME RInv, NEW i \in 1 .. taskCount
  PROVE  /\ Turn(i) = IF currentTask + i < taskCount THEN currentTask + i
                      ELSE currentTask + i - taskCount
         /\ Turn(i) \in 0 .. taskCount - 1 /\ Turn(i) \in Slots
<1>1. /\ taskCount \in Nat \ {0} /\ currentTask \in Int /\ i \in Int
      /\ -1 <= currentTask /\ currentTask < taskCount /\ taskCount <= MaxTasks
  BY Types DEF RInv, TurnInv, Slots
<1>2. CASE currentTask + i < taskCount
  <2>1. currentTask + i \in 0 .. taskCount - 1
    BY <1>1, <1>2
  <2>2. Turn(i) = currentTask + i
    BY <1>1, <2>1, BelowModulus DEF Turn
  <2>3. QED
    BY <1>1, <1>2, <2>1, <2>2, Types DEF Slots
<1>3. CASE ~(currentTask + i < taskCount)
  <2>1. currentTask + i \in taskCount .. taskCount + taskCount - 1
    BY <1>1, <1>3
  <2>2. Turn(i) = currentTask + i - taskCount
    BY <1>1, <2>1, AboveModulus DEF Turn
  <2>3. currentTask + i - taskCount \in 0 .. taskCount - 1
    BY <1>1, <2>1
  <2>4. QED
    BY <1>1, <1>3, <2>2, <2>3, Types DEF Slots
<1>4. QED
  BY <1>2, <1>3

LEMMA TurnsDiffer ==
  ASSUME RInv, NEW i \in 1 .. taskCount, NEW j \in 1 .. taskCount, Turn(i) = Turn(j)
  PROVE  i = j
<1>1. taskCount \in Int /\ currentTask \in Int /\ i \in Int /\ j \in Int
  BY Types DEF Slots
<1>2. /\ Turn(i) = currentTask + i \/ Turn(i) = currentTask + i - taskCount
      /\ Turn(j) = currentTask + j \/ Turn(j) = currentTask + j - taskCount
  BY TurnIs
<1>3. i >= 1 /\ i <= taskCount /\ j >= 1 /\ j <= taskCount
  OBVIOUS
<1>4. i = j \/ i = j + taskCount \/ j = i + taskCount
  BY <1>1, <1>2
<1>5. QED
  BY <1>1, <1>3, <1>4

LEMMA TurnsReach ==
  ASSUME RInv, NEW k \in 0 .. taskCount - 1
  PROVE  \E i \in 1 .. taskCount : Turn(i) = k
<1>1. taskCount \in Int /\ currentTask \in Int /\ -1 <= currentTask /\ currentTask < taskCount
  BY Types DEF RInv, TurnInv, Slots
<1>2. CASE k > currentTask
  <2>1. k - currentTask \in 1 .. taskCount /\ currentTask + (k - currentTask) = k
    BY <1>1, <1>2
  <2>2. Turn(k - currentTask) = k
    BY <1>1, <2>1, TurnIs
  <2>3. QED
    BY <2>1, <2>2
<1>3. CASE ~(k > currentTask)
  <2>1. /\ k - currentTask + taskCount \in 1 .. taskCount
        /\ currentTask + (k - currentTask + taskCount) = k + taskCount
    BY <1>1, <1>3
  <2>2. Turn(k - currentTask + taskCount) = k
    BY <1>1, <2>1, TurnIs
  <2>3. QED
    BY <2>1, <2>2
<1>4. QED
  BY <1>2, <1>3

-----------------------------------------------------------------------------
(* The refinement.                                                          *)

\* The ticks task k still has to sleep, as RoundRobin counts them.
AsleepOf(k) == IF Tasks[k].State # "Sleeping" THEN 0
               ELSE IF Pending(k) THEN Tasks[k].SleepTicks - 1
               ELSE Tasks[k].SleepTicks

LEMMA Stutters ==
  ASSUME UNCHANGED <<taskCount, Chosen>>, \A k \in Slots : AsleepOf(k)' = AsleepOf(k)
  PROVE  UNCHANGED RR!vars
  BY DEF RR!vars, AsleepOf

\* Outside Schedule a sleeper's ticks are all there, and the task chosen has the
\* CPU.
LEMMA Outside ==
  ASSUME ~scheduling
  PROVE  /\ Chosen = currentTask
         /\ \A k \in Slots : AsleepOf(k) = IF Tasks[k].State = "Sleeping"
                                           THEN Tasks[k].SleepTicks ELSE 0
  BY DEF Chosen, AsleepOf, Pending

LEMMA Smallest ==
  ASSUME NEW T \in SUBSET Nat, T # {}
  PROVE  \E n \in T : \A m \in T : n <= m
<1> DEFINE R == {p \in Nat \X Nat : p[1] < p[2]}
<1>1. IsWellFoundedOn(R, Nat)
  BY NatLessThanWellFounded DEF OpToRel
<1> HIDE DEF R
<1>2. PICK n \in T : \A m \in T : <<m, n>> \notin R
  BY <1>1, WFMin
<1>3. ASSUME NEW m \in T, m < n PROVE FALSE
  <2>1. <<m, n>> \in R
    BY <1>3 DEF R
  <2>2. QED
    BY <1>2, <2>1
<1>4. QED
  BY <1>3

LEMMA LeastIs ==
  ASSUME NEW T \in SUBSET Int, NEW n \in T, \A m \in T : n <= m
  PROVE  (CHOOSE i \in T : \A j \in T : i <= j) = n
<1> DEFINE c == CHOOSE i \in T : \A j \in T : i <= j
<1>1. c \in T /\ \A j \in T : c <= j
  OBVIOUS
<1> HIDE DEF c
<1>2. c = n
  BY <1>1
<1>3. QED
  BY <1>2 DEF c

\* The tick of Schedule begins as one of RoundRobin: every sleeper loses a tick,
\* and the first ready task in turn is the one chosen.
LEMMA TickTicks == ASSUME RInv, RInv', TickEnter PROVE RR!Tick
<1>1. /\ ~scheduling /\ scheduling' /\ visit' = 1 /\ nextTask' = -1
      /\ UNCHANGED <<taskCount, currentTask>>
  BY DEF TickEnter
<1>2. /\ Chosen = currentTask
      /\ \A k \in Slots : AsleepOf(k) = IF Tasks[k].State = "Sleeping"
                                        THEN Tasks[k].SleepTicks ELSE 0
  BY <1>1, Outside
<1>3. \A k \in Slots : AsleepOf(k)' = IF Tasks[k].State = "Sleeping"
                                      THEN Tasks[k].SleepTicks - 1 ELSE 0
  <2>1. ASSUME NEW k \in Slots, Tasks[k].State = "Sleeping" PROVE Pending(k)'
    <3>1. k \in 0 .. taskCount - 1
      BY <2>1, Types DEF RInv, SleeperInv, Slots
    <3>2. PICK i \in 1 .. taskCount : Turn(i) = k
      BY <3>1, TurnsReach
    <3>3. QED
      BY <1>1, <3>2 DEF Pending, Turn
  <2>2. QED
    BY <2>1, TickTable DEF AsleepOf
<1>4. \A k \in Slots : /\ AsleepOf(k) > 0 <=> Tasks[k].State = "Sleeping"
                       /\ AsleepOf(k)' = IF AsleepOf(k) > 0 THEN AsleepOf(k) - 1 ELSE 0
                       /\ AsleepOf(k) \in Nat
  <2>1. \A k \in Slots : Tasks[k].SleepTicks \in Int
    BY Types, TickAssumption DEF Task
  <2>2. QED
    BY <1>2, <1>3, <2>1 DEF RInv, SleeperInv
<1>5. \A k \in 0 .. taskCount - 1 : /\ k \in Slots
                                    /\ Tasks'[k].State = "Idle" <=> AsleepOf(k) = 0
  <2>1. 0 .. taskCount - 1 \subseteq Slots
    BY Types DEF Slots
  <2>2. \A k \in 0 .. taskCount - 1 : Tasks'[k].State \in {"Idle", "Sleeping"}
    <3>1. \A k \in 0 .. taskCount - 1 : Tasks'[k].State \in States
      BY <2>1 DEF RInv, SInv, IInv, TypeOK, Task
    <3>2. QED
      BY <1>1, <2>1, <3>1, Types DEF RInv, SInv, IInv, TableInv, RunningIsCurrent, States
  <2>3. QED
    BY <1>4, <2>1, <2>2, TickTable
<1> DEFINE R == {i \in 1 .. taskCount : AsleepOf(Turn(i)) = 0}
<1>6. ReadyTurns' = R
  <2>1. ReadyTurns' = {i \in 1 .. taskCount : Tasks'[Turn(i)].State = "Idle"}
    BY <1>1 DEF ReadyTurns, Turn
  <2>2. QED
    BY <1>5, <2>1, TurnIs
<1> HIDE DEF R
<1>7. /\ R = {} => Chosen' = -1
      /\ \A n \in R : (\A m \in R : n <= m) => Chosen' = Turn(n)
  <2>1. R = {} => Chosen' = -1
    BY <1>1, <1>6 DEF Chosen
  <2>2. ASSUME NEW n \in R, \A m \in R : n <= m PROVE Chosen' = Turn(n)
    <3>1. R \in SUBSET Int
      BY DEF R
    <3>2. (CHOOSE i \in R : \A j \in R : i <= j) = n
      BY <2>2, <3>1, LeastIs
    <3>3. (CHOOSE i \in ReadyTurns' : \A j \in ReadyTurns' : i <= j) = n
      BY <1>6, <3>2
    <3>4. Chosen' = (currentTask' + n) % taskCount'
      BY <1>1, <1>6, <2>2, <3>3 DEF Chosen
    <3>5. QED
      BY <1>1, <3>4 DEF Turn
  <2>3. QED
    BY <2>1, <2>2
<1> DEFINE Succ(k) ==
      \/ \E i \in 1 .. taskCount : /\ k = Turn(i) /\ AsleepOf(k) = 0
                                   /\ \A j \in 1 .. i - 1 : AsleepOf(Turn(j)) > 0
      \/ k = -1 /\ \A j \in 0 .. taskCount - 1 : AsleepOf(j) > 0
<1>8. Chosen' \in -1 .. taskCount - 1 /\ Succ(Chosen')
  <2>1. CASE R = {}
    <3>1. ASSUME NEW j \in 0 .. taskCount - 1 PROVE AsleepOf(j) > 0
      <4>1. PICK i \in 1 .. taskCount : Turn(i) = j
        BY TurnsReach
      <4>2. QED
        BY <1>4, <1>5, <2>1, <4>1 DEF R
    <3>2. QED
      BY <1>7, <2>1, <3>1, Types
  <2>2. CASE R # {}
    <3>1. PICK n \in R : \A m \in R : n <= m
      <4>1. R \in SUBSET Nat
        BY DEF R
      <4>2. QED
        BY <2>2, <4>1, Smallest
    <3>2. Chosen' = Turn(n) /\ AsleepOf(Turn(n)) = 0 /\ n \in 1 .. taskCount
      BY <1>7, <3>1 DEF R
    <3>3. ASSUME NEW j \in 1 .. n - 1 PROVE AsleepOf(Turn(j)) > 0
      <4>1. j \in 1 .. taskCount /\ j \notin R
        BY <3>1, <3>2, Types
      <4>2. QED
        BY <1>4, <4>1, TurnIs DEF R
    <3>4. Turn(n) \in -1 .. taskCount - 1
      BY <3>2, TurnIs, Types
    <3>5. QED
      BY <3>2, <3>3, <3>4
  <2>3. QED
    BY <2>1, <2>2
<1>9. \A i \in Int : RR!After(i) = Turn(i)
  BY <1>2 DEF RR!After, Turn
<1> HIDE DEF Succ
<1>10. \A k \in -1 .. taskCount - 1 : Succ(k) => RR!Successor(k)
  <2>1. \A i \in 1 .. taskCount : Turn(i) \in Slots
    BY TurnIs
  <2>2. \A i \in 1 .. taskCount : i \in Int /\ \A j \in 1 .. i - 1 : j \in 1 .. taskCount
    BY Types
  <2>3. QED
    BY <1>5, <1>9, <2>1, <2>2 DEF Succ, RR!Successor, AsleepOf
<1>11. [k \in Slots |-> AsleepOf(k)]'
         = [k \in Slots |-> IF AsleepOf(k) > 0 THEN AsleepOf(k) - 1 ELSE 0]
  BY <1>4
<1>12. QED
  BY <1>1, <1>8, <1>10, <1>11 DEF RR!Tick, AsleepOf

\* Within Schedule: what is pending, and what is chosen.
LEMMA Within ==
  ASSUME RInv, scheduling
  PROVE  /\ \A k \in Slots : Pending(k) <=> \E i \in visit .. taskCount : k = Turn(i)
         /\ ReadyTurns = {i \in visit .. taskCount : Tasks[Turn(i)].State = "Idle"}
         /\ nextTask # -1 \/ ReadyTurns = {} => Chosen = nextTask
  BY DEF Pending, ReadyTurns, Turn, Chosen

\* The loop chooses the first Idle slot it comes to.
LEMMA IdleStutters == ASSUME RInv, VisitIdle PROVE UNCHANGED RR!vars
<1>1. /\ scheduling /\ scheduling' /\ visit <= taskCount /\ visit' = visit + 1
      /\ Tasks[Slot].State = "Idle" /\ UNCHANGED <<Tasks, taskCount, currentTask>>
      /\ nextTask' = IF nextTask = -1 THEN Slot ELSE nextTask
  BY DEF VisitIdle, Visit
<1>2. visit \in 1 .. taskCount /\ Slot = Turn(visit) /\ Slot \in Slots /\ Slot # -1
  <2>1. visit \in 1 .. taskCount
    BY <1>1, Types
  <2>2. QED
    BY <2>1, TurnIs, Types DEF Slot, Turn, Slots
<1>3. Chosen' = Chosen
  <2>1. Chosen' = nextTask'
    BY <1>1, <1>2 DEF Chosen
  <2>2. CASE nextTask # -1
    BY <1>1, <2>1, <2>2, Within
  <2>3. CASE nextTask = -1
    <3>1. visit \in ReadyTurns /\ ReadyTurns \in SUBSET Int /\ \A m \in ReadyTurns : visit <= m
      BY <1>1, <1>2, Within, Types
    <3>2. (CHOOSE i \in ReadyTurns : \A j \in ReadyTurns : i <= j) = visit
      BY <3>1, LeastIs
    <3>3. Chosen = Turn(visit)
      BY <1>1, <2>3, <3>1, <3>2 DEF Chosen, Turn
    <3>4. QED
      BY <1>1, <1>2, <2>1, <2>3, <3>3
  <2>4. QED
    BY <2>2, <2>3
<1>4. \A k \in Slots : AsleepOf(k)' = AsleepOf(k)
  <2>1. ASSUME NEW k \in Slots, k # Slot PROVE Pending(k)' <=> Pending(k)
    <3>1. \A i \in visit .. taskCount : k = Turn(i) => i \in visit + 1 .. taskCount
      BY <1>2, <2>1, Types
    <3>2. \A i \in visit + 1 .. taskCount : i \in visit .. taskCount
      BY Types
    <3>3. QED
      BY <1>1, <3>1, <3>2 DEF Pending, Turn
  <2>2. QED
    BY <1>1, <2>1 DEF AsleepOf
<1>5. QED
  BY <1>1, <1>3, <1>4, Stutters

\* What a visit takes off a sleeper had been taken off with the tick.
LEMMA SleepingStutters == ASSUME RInv, VisitSleeping PROVE UNCHANGED RR!vars
<1>1. /\ scheduling /\ scheduling' /\ visit <= taskCount /\ visit' = visit + 1
      /\ Slot \in Slots /\ Tasks[Slot].State = "Sleeping"
      /\ UNCHANGED <<taskCount, currentTask, nextTask>>
      /\ \A k \in Slots : k # Slot => Tasks'[k] = Tasks[k]
      /\ Tasks'[Slot].SleepTicks = Tasks[Slot].SleepTicks - 1
      /\ Tasks'[Slot].State = IF Tasks[Slot].SleepTicks = 1 THEN "Idle" ELSE "Sleeping"
  BY SleeperVisited
<1>2. visit \in 1 .. taskCount /\ Slot = Turn(visit)
  BY <1>1, Types DEF Slot, Turn
<1>3. \A i \in visit + 1 .. taskCount : i \in visit .. taskCount /\ Turn(i) \in Slots /\ Turn(i) # Slot
  <2>1. ASSUME NEW i \in visit + 1 .. taskCount
        PROVE  i \in visit .. taskCount /\ Turn(i) \in Slots /\ Turn(i) # Slot
    <3>1. i \in 1 .. taskCount /\ i # visit /\ i \in visit .. taskCount
      BY Types
    <3>2. QED
      BY <1>2, <3>1, TurnIs, TurnsDiffer
  <2>2. QED
    BY <2>1
<1>4. \A i \in visit .. taskCount : i = visit \/ i \in visit + 1 .. taskCount
  BY Types
<1>5. Chosen' = Chosen
  <2>1. ReadyTurns' = ReadyTurns
    <3>1. ReadyTurns' = {i \in visit + 1 .. taskCount : Tasks'[Turn(i)].State = "Idle"}
      BY <1>1 DEF ReadyTurns, Turn
    <3>2. ReadyTurns = {i \in visit + 1 .. taskCount : Tasks[Turn(i)].State = "Idle"}
      BY <1>1, <1>2, <1>3, <1>4, Within
    <3>3. QED
      BY <1>1, <1>3, <3>1, <3>2
  <2>2. QED
    BY <1>1, <2>1 DEF Chosen
<1>6. \A k \in Slots : AsleepOf(k)' = AsleepOf(k)
  <2>1. ASSUME NEW k \in Slots, k # Slot PROVE Pending(k)' <=> Pending(k)
    BY <1>1, <1>2, <1>3, <1>4, <2>1 DEF Pending, Turn
  <2>2. ASSUME NEW k \in Slots, k = Slot PROVE AsleepOf(k)' = AsleepOf(k)
    <3>1. Pending(k) /\ ~Pending(k)'
      BY <1>1, <1>2, <1>3, <1>4, <2>2 DEF Pending, Turn
    <3>2. Tasks[k].SleepTicks \in Int
      BY Types, TickAssumption DEF Task
    <3>3. QED
      BY <1>1, <2>2, <3>1, <3>2 DEF AsleepOf
  <2>3. QED
    BY <1>1, <2>1, <2>2 DEF AsleepOf
<1>7. QED
  BY <1>1, <1>5, <1>6, Stutters

\* The task the loop has chosen is the one that gets the CPU.
LEMMA DispatchStutters == ASSUME RInv, Dispatch PROVE UNCHANGED RR!vars
<1>1. visit .. taskCount = {}
  BY Dispatched, Types
<1>2. ReadyTurns = {} /\ \A k \in Slots : ~Pending(k)
  BY <1>1 DEF ReadyTurns, Pending
<1>3. Chosen = nextTask /\ Chosen' = currentTask' /\ \A k \in Slots : ~Pending(k)'
  BY <1>2, Dispatched DEF Chosen, Pending
<1>4. \A k \in Slots : AsleepOf(k)' = AsleepOf(k)
  BY <1>2, <1>3, Dispatched DEF AsleepOf
<1>5. QED
  BY <1>3, <1>4, Dispatched, Stutters

\* Outside Schedule, a step that leaves the current task and every sleeper alone.
LEMMA OutsideStutters ==
  ASSUME ~scheduling, ~scheduling', UNCHANGED <<taskCount, currentTask>>,
         \A k \in Slots :
           /\ Tasks'[k].State = "Sleeping" <=> Tasks[k].State = "Sleeping"
           /\ Tasks[k].State = "Sleeping" => Tasks'[k].SleepTicks = Tasks[k].SleepTicks
  PROVE  UNCHANGED RR!vars
<1>1. Chosen' = Chosen
  BY DEF Chosen
<1>2. \A k \in Slots : AsleepOf(k)' = AsleepOf(k)
  BY DEF AsleepOf, Pending
<1>3. QED
  BY <1>1, <1>2, Stutters

\* The store of taskCount++ is the moment a task joins.
LEMMA StoreJoins == ASSUME RInv, NEW c \in Threads, StartStore(c) PROVE RR!Join
<1>1. /\ pc[c] = "store" /\ taskCount' = loc[c] + 1 /\ ~scheduling
      /\ UNCHANGED <<Tasks, currentTask, scheduling>>
  BY DEF StartStore, At
<1>2. taskCount' = taskCount + 1 /\ taskCount < MaxTasks
  BY <1>1, Types DEF RInv, SInv, IInv, StartInv, StarterInv, InStart
<1>3. Chosen' = Chosen
  BY <1>1 DEF Chosen
<1>4. \A k \in Slots : AsleepOf(k)' = AsleepOf(k)
  BY <1>1 DEF AsleepOf, Pending
<1>5. QED
  BY <1>2, <1>3, <1>4 DEF RR!Join, AsleepOf

\* The write of the state is the moment the current task goes to sleep, for as
\* long as it has asked: nobody else has written its ticks since.
LEMMA StateSleeps ==
  ASSUME RInv, 0 \notin Delays, NEW c \in Threads, SleepStateWritten(c) PROVE RR!Sleep
<1>1. /\ pc[c] = "doze" /\ cpu = c /\ ~scheduling
      /\ Tasks' = [Tasks EXCEPT ![loc[c]].State = "Sleeping"]
      /\ UNCHANGED <<taskCount, currentTask, scheduling>>
  BY DEF SleepStateWritten, At
<1>2. c \in Stack /\ loc[c] = currentTask /\ currentTask \in Slots
  BY <1>1, WaitSlot DEF RInv, SInv
<1>3. Tasks[currentTask].SleepTicks \in Delays \ {0}
  BY <1>1, <1>2 DEF RInv, DozerInv
<1>4. \A k \in Slots :
        /\ Tasks'[k].SleepTicks = Tasks[k].SleepTicks
        /\ Tasks'[k].State = IF k = currentTask THEN "Sleeping" ELSE Tasks[k].State
  BY <1>1, <1>2, Types DEF Task
<1>5. Chosen = currentTask /\ Chosen' = Chosen /\ currentTask # -1
  BY <1>1, <1>2 DEF Chosen, Slots
<1>6. \A k \in Slots : AsleepOf(k)' = IF k = currentTask THEN Tasks[currentTask].SleepTicks
                                      ELSE AsleepOf(k)
  BY <1>1, <1>4 DEF AsleepOf, Pending
<1>7. [k \in Slots |-> AsleepOf(k)]'
        = [[k \in Slots |-> AsleepOf(k)] EXCEPT ![currentTask] = Tasks[currentTask].SleepTicks]
  BY <1>2, <1>6
<1>8. QED
  BY <1>1, <1>3, <1>5, <1>7 DEF RR!Sleep, AsleepOf

\* The other steps of the contexts.
LEMMA OtherStutters ==
  ASSUME RInv, NEW c \in Threads,
         \/ StartAcquire(c) \/ StartProbe(c) \/ StartFull(c) \/ StartFill(c) \/ StartCount(c)
         \/ WaitCall(c) \/ SleepTicksWritten(c) \/ WaitReturn(c)
         \/ HeapAcquire(c) \/ HeapUnlock(c) \/ ExitResumes(c)
         \/ EnableInterrupts \/ IdleSetsAlive
  PROVE  UNCHANGED RR!vars
<1>1. ~scheduling /\ UNCHANGED <<taskCount, currentTask, scheduling>>
  BY Types DEF StartAcquire, StartProbe, StartFull, StartFill, StartCount, WaitCall,
         SleepTicksWritten, WaitReturn, HeapAcquire, HeapUnlock, ExitResumes,
         EnableInterrupts, IdleSetsAlive, Calls, At
<1>2. \A k \in Slots :
        /\ Tasks'[k].State = "Sleeping" <=> Tasks[k].State = "Sleeping"
        /\ Tasks[k].State = "Sleeping" => Tasks'[k].SleepTicks = Tasks[k].SleepTicks
  <2>1. CASE StartFill(c)
    <3>1. PICK s \in Stack : Tasks' = [Tasks EXCEPT ![loc[c]] = NewTask(s, idCounter)]
      BY <2>1 DEF StartFill
    <3>2. loc[c] \in Slots /\ Tasks[loc[c]].State = "Stopped"
      BY <2>1, FillsFirstFree DEF RInv, StartFill, At
    <3>3. \A k \in Slots : Tasks'[k] = IF k = loc[c] THEN NewTask(s, idCounter) ELSE Tasks[k]
      BY <3>1, Types
    <3>4. QED
      BY <3>2, <3>3 DEF NewTask
  <2>2. CASE SleepTicksWritten(c)
    <3>1. PICK ms \in Delays : Tasks' = [Tasks EXCEPT ![loc[c]].SleepTicks = ms]
      BY <2>2 DEF SleepTicksWritten
    <3>2. pc[c] = "wait" /\ c \in Stack
      BY <2>2, WaitSlot DEF RInv, SInv, SleepTicksWritten, At
    <3>3. loc[c] \in Slots /\ Tasks[loc[c]].State # "Sleeping"
      BY <3>2, OwnSlot DEF RInv, SleeperInv
    <3>4. \A k \in Slots : /\ Tasks'[k].State = Tasks[k].State
                           /\ k # loc[c] => Tasks'[k] = Tasks[k]
      BY <3>1, <3>3, Types DEF Task
    <3>5. QED
      BY <3>3, <3>4
  <2>3. CASE UNCHANGED Tasks
    BY <2>3
  <2>4. QED
    BY Types, <2>1, <2>2, <2>3 DEF StartAcquire, StartProbe, StartFull, StartCount, WaitCall,
         WaitReturn, HeapAcquire, HeapUnlock, ExitResumes, EnableInterrupts, IdleSetsAlive
<1>3. QED
  BY <1>1, <1>2, OutsideStutters

\* Every step of the scheduler is one of RoundRobin, or none of its business.
LEMMA RefinesStep ==
  ASSUME ~StopCalls, 0 \notin Delays, RInv, RInv', [Next]_vars
  PROVE  [RR!Next]_(RR!vars)
<1>1. ASSUME NEW c \in Threads, Call(c) PROVE [RR!Next]_(RR!vars)
  <2>1. ~Exit(c) /\ \A k \in Slots : ~Stop(c, k)
    BY DEF Exit, Stop
  <2>2. QED
    BY <1>1, <2>1, OtherStutters DEF Call
<1>2. ASSUME NEW c \in Threads, Carry(c) PROVE [RR!Next]_(RR!vars)
  BY <1>2, OtherStutters, StoreJoins, StateSleeps DEF Carry, RR!Next
<1>3. ASSUME Schedule PROVE [RR!Next]_(RR!vars)
  <2>1. ~VisitStopping
    BY NothingToReap DEF RInv
  <2>2. QED
    BY <1>3, <2>1, IdleStutters, SleepingStutters, DispatchStutters, NoOther DEF Schedule
<1>4. ASSUME EnableInterrupts \/ IdleSetsAlive PROVE [RR!Next]_(RR!vars)
  <2>1. Boot \in Threads
    OBVIOUS
  <2>2. QED
    BY <1>4, <2>1, OtherStutters
<1>5. ASSUME UNCHANGED vars PROVE [RR!Next]_(RR!vars)
  <2>1. Chosen' = Chosen
    BY <1>5 DEF vars, Chosen, ReadyTurns
  <2>2. \A k \in Slots : AsleepOf(k)' = AsleepOf(k)
    BY <1>5 DEF vars, AsleepOf, Pending
  <2>3. QED
    BY <1>5, <2>1, <2>2, Stutters DEF vars
<1>6. QED
  BY <1>1, <1>2, <1>3, <1>4, <1>5, TickTicks DEF Next, RR!Next

\* As long as nobody stops a task and nobody waits for 0 ms, Schedule is a round
\* robin: every tick counts once for every sleeper and for nobody else, and nobody
\* ready is passed over.
THEOREM ImplementsRoundRobin ==
  ASSUME ~StopCalls, 0 \notin Delays PROVE Spec => RoundRobinSpec
<1>1. Init => RR!Init
  <2>. SUFFICES ASSUME Init PROVE RR!Init
    OBVIOUS
  <2>1. Chosen = -1 /\ taskCount = 0
    BY DEF Init, Chosen
  <2>2. \A k \in Slots : AsleepOf(k) = 0
    BY DEF Init, NoTask, AsleepOf
  <2>3. QED
    BY <2>1, <2>2 DEF RR!Init, AsleepOf, Slots
<1>2. RInv /\ RInv' /\ [Next]_vars => [RR!Next]_(RR!vars)
  BY RefinesStep
<1>3. QED
  BY <1>1, <1>2, RInvariance, PTL DEF Spec, RoundRobinSpec, RR!Spec
=============================================================================
