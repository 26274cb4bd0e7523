------------------------------ MODULE RoundRobin ------------------------------
(****************************************************************************)
(* What the scheduler promises while nobody stops a task: a fixed table of  *)
(* tasks, each ready or asleep for a number of ticks; on every tick all     *)
(* sleepers get one tick closer to waking, and the CPU goes to the first    *)
(* task after the current one that was ready before the tick.               *)
(****************************************************************************)
EXTENDS Integers

CONSTANTS MaxTasks,   \* how many tasks there may be
          Delays      \* for how many ticks a task may ask to sleep

VARIABLES count,      \* the tasks are 0 .. count - 1, in the order they joined
          current,    \* the task that has the CPU, -1 if none has
          asleep      \* ticks each task still has to sleep, 0 if it is ready

vars == <<count, current, asleep>>

Init == /\ count = 0
        /\ current = -1
        /\ asleep = [k \in 0 .. MaxTasks - 1 |-> 0]

Join == /\ count < MaxTasks
        /\ count' = count + 1
        /\ UNCHANGED <<current, asleep>>

\* The current task asks to sleep; it keeps the CPU until the tick.
Sleep == /\ current # -1
         /\ \E ms \in Delays \ {0} : asleep' = [asleep EXCEPT ![current] = ms]
         /\ UNCHANGED <<count, current>>

\* The tasks in the order in which a tick offers them the CPU.
After(i) == (current + i) % count

Successor(k) ==
  \/ \E i \in 1 .. count : /\ k = After(i) /\ asleep[k] = 0
                           /\ \A j \in 1 .. i - 1 : asleep[After(j)] > 0
  \/ k = -1 /\ \A j \in 0 .. count - 1 : asleep[j] > 0

Tick == /\ \E k \in -1 .. count - 1 : Successor(k) /\ current' = k
        /\ asleep' = [k \in DOMAIN asleep |->
                        IF asleep[k] > 0 THEN asleep[k] - 1 ELSE 0]
        /\ UNCHANGED count

Next == Join \/ Sleep \/ Tick

Spec == Init /\ [][Next]_vars
=============================================================================
