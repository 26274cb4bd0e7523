----------------------------- MODULE DesktopProofs -----------------------------
(****************************************************************************)
(* Proof that, for any number of tasks, slots and rows, Update never meets  *)
(* a hole in the table, although it takes no lock: CreateWindow is the only *)
(* writer, its lock admits one task at a time, and the slot it finds is     *)
(* always the first one that windowCount does not cover.                    *)
(****************************************************************************)
EXTENDS DesktopProperties, TLAPS

\* The tasks inside CreateWindow's lock.
Holds(c) == pc[c] \in {"search", "publish", "count"}

\* Only one task is inside, and the lock is set as long as it is.
OneHolder == \A c \in Client : Holds(c) => windowLock /\ \A d \in Client : Holds(d) => d = c

\* The counter of a task: the first free slot, or a row of its window.
Counters ==
  /\ row \in [Client -> Nat]
  /\ \A c \in Client :
       /\ pc[c] \in {"publish", "count"} => row[c] = windowCount /\ windowCount < MaxWindows
       /\ pc[c] = "draw" => row[c] \in 1 .. Rows + 1

\* A task has put its window into the table and not counted it yet.
Uncounted == \E c \in Client : pc[c] = "count"

\* The slots in use are those that are counted, and the one that is about to be.
NoHoles ==
  /\ \A k \in Slots : windows[k] # nullptr <=> k < windowCount \/ (k = windowCount /\ Uncounted)
  /\ \A c \in Client : pc[c] = "count" => windows[windowCount] = c

\* A window that CreateWindow has returned is counted.
Placed == \A c \in Client : pc[c] \in {"draw", "wait"} =>
            \E k \in Slots : k < windowCount /\ windows[k] = c

\* Update is at a slot that is counted.
Visited == i <= windowCount /\ (window # nullptr => i < windowCount)

IInv == TypeOK /\ OneHolder /\ Counters /\ NoHoles /\ Placed /\ Visited

LEMMA IInvInit == Init => IInv
<1> SUFFICES ASSUME Init PROVE IInv
  OBVIOUS
<1>1. windowCount \in 0 .. MaxWindows /\ i \in 0 .. MaxWindows /\ y \in 1 .. Rows + 1
  BY DesktopAssumption DEF Init
<1>2. [r \in 1 .. Rows |-> 0] \in [1 .. Rows -> Drawings]
  BY DesktopAssumption DEF Drawings
<1>3. TypeOK
  BY <1>1, <1>2 DEF Init, TypeOK
<1>4. OneHolder /\ Counters
  BY DEF Init, OneHolder, Holds, Counters
<1>5. NoHoles /\ Placed /\ Visited
  BY DEF Init, NoHoles, Uncounted, Placed, Visited, Slots
<1>6. QED BY <1>3, <1>4, <1>5 DEF IInv

\* The free slot that CreateWindow finds, when no other task is in there, is the
\* first one that is not counted.
LEMMA FirstFree ==
  ASSUME IInv, NEW c \in Client, pc[c] = "search", \E k \in Slots : windows[k] = nullptr
  PROVE  windowCount < MaxWindows /\ Min({k \in Slots : windows[k] = nullptr}) = windowCount
<1> DEFINE S == {k \in Slots : windows[k] = nullptr}
<1>1. ~Uncounted
  BY DEF IInv, OneHolder, Holds, Uncounted
<1>2. windowCount \in Nat /\ MaxWindows \in Nat
  BY DesktopAssumption DEF IInv, TypeOK
<1>3. \A k \in Slots : k \in S <=> windowCount <= k
  BY <1>1, <1>2 DEF IInv, NoHoles, Slots
<1>4. windowCount \in S /\ windowCount < MaxWindows
  BY <1>2, <1>3 DEF Slots
<1>5. \A k \in S : k \in Int /\ windowCount <= k
  BY <1>3 DEF Slots
<1> HIDE DEF S
<1>6. /\ Min(S) \in S /\ \A k \in S : Min(S) <= k
  BY <1>4, <1>5 DEF Min
<1>7. Min(S) = windowCount
  <2>1. Min(S) \in Int /\ windowCount <= Min(S)
    BY <1>5, <1>6
  <2>2. Min(S) <= windowCount
    BY <1>4, <1>6
  <2>3. QED BY <1>2, <2>1, <2>2
<1>8. QED BY <1>4, <1>7 DEF S

\* Each step of a task keeps the invariant.
LEMMA IInvClient ==
  ASSUME IInv, NEW c \in Client,
         Create(c) \/ Search(c) \/ Publish(c) \/ Count(c) \/ Draw(c) \/ Dirty(c) \/ Wakes(c)
  PROVE  IInv'
<1> USE DEF IInv, Step
<1> DEFINE Places == {"start", "search", "publish", "count", "draw", "wait", "refused"}
<1>1. pc \in [Client -> Places] /\ row \in [Client -> Nat]
  BY DEF TypeOK, Counters
<1>2. /\ windowCount \in Nat /\ windowCount <= MaxWindows /\ MaxWindows \in Nat
      /\ Rows \in Nat \ {0} /\ MaxDraws \in Nat
  BY DesktopAssumption DEF TypeOK
<1>3. CASE Create(c)
  <2>1. TypeOK'
    BY <1>3 DEF Create, table, loop, TypeOK, Slots
  <2>2. OneHolder'
    BY <1>1, <1>3 DEF Create, OneHolder, Holds
  <2>3. Counters'
    BY <1>1, <1>3 DEF Create, table, Counters
  <2>4. NoHoles' /\ Placed'
    BY <1>1, <1>3 DEF Create, table, NoHoles, Placed, Uncounted, Slots
  <2>5. Visited'
    BY <1>3 DEF Create, table, loop, Visited
  <2>6. QED BY <2>1, <2>2, <2>3, <2>4, <2>5
<1>4. CASE Search(c)
  <2>1. CASE \E k \in Slots : windows[k] = nullptr
    <3>1. /\ Step(c, "search", "publish") /\ row' = [row EXCEPT ![c] = windowCount]
          /\ IsDirty' = [IsDirty EXCEPT ![c] = TRUE] /\ windowCount < MaxWindows
          /\ UNCHANGED <<table, windowLock, buffer, screen, loop>>
      BY <1>4, <2>1, FirstFree DEF Search
    <3>2. TypeOK'
      BY <3>1 DEF table, loop, TypeOK, Slots
    <3>3. OneHolder'
      BY <1>1, <3>1 DEF OneHolder, Holds
    <3>4. Counters'
      BY <1>1, <1>2, <3>1 DEF table, Counters
    <3>5. NoHoles' /\ Placed'
      BY <1>1, <3>1 DEF table, NoHoles, Placed, Uncounted, Slots
    <3>6. Visited'
      BY <3>1 DEF table, loop, Visited
    <3>7. QED BY <3>2, <3>3, <3>4, <3>5, <3>6
  <2>2. CASE ~ \E k \in Slots : windows[k] = nullptr
    <3>1. /\ Step(c, "search", "refused") /\ windowLock' = FALSE
          /\ UNCHANGED <<table, IsDirty, row, buffer, screen, loop>>
      BY <1>4, <2>2 DEF Search
    <3>2. TypeOK'
      BY <3>1 DEF table, loop, TypeOK, Slots
    <3>3. OneHolder'
      BY <1>1, <3>1 DEF OneHolder, Holds
    <3>4. Counters'
      BY <1>1, <3>1 DEF table, Counters
    <3>5. NoHoles' /\ Placed'
      BY <1>1, <3>1 DEF table, NoHoles, Placed, Uncounted, Slots
    <3>6. Visited'
      BY <3>1 DEF table, loop, Visited
    <3>7. QED BY <3>2, <3>3, <3>4, <3>5, <3>6
  <2>3. QED BY <2>1, <2>2
<1>5. CASE Publish(c)
  <2>1. /\ row[c] = windowCount /\ windowCount < MaxWindows /\ windowCount \in Slots
        /\ windows' = [windows EXCEPT ![windowCount] = c]
    <3>1. row[c] = windowCount /\ windowCount < MaxWindows
      BY <1>5 DEF Publish, Counters
    <3>2. windowCount \in Slots
      BY <1>2, <3>1 DEF Slots
    <3>3. QED BY <1>5, <3>1, <3>2 DEF Publish
  <2>2. c # nullptr
    BY DesktopAssumption
  <2>3. TypeOK'
    BY <1>5, <2>1 DEF Publish, loop, TypeOK, Slots
  <2>4. OneHolder'
    BY <1>1, <1>5 DEF Publish, OneHolder, Holds
  <2>5. Counters'
    BY <1>1, <1>5 DEF Publish, Counters
  <2>6. ~Uncounted /\ Uncounted'
    BY <1>1, <1>5 DEF Publish, OneHolder, Holds, Uncounted
  <2>7. NoHoles'
    <3>1. windows \in [Slots -> Client \cup {nullptr}]
      BY DEF TypeOK
    <3>2. ASSUME NEW k \in Slots
          PROVE  windows'[k] # nullptr <=> k < windowCount \/ k = windowCount
      BY <2>1, <2>2, <2>6, <3>1 DEF NoHoles
    <3>3. ASSUME NEW d \in Client, pc'[d] = "count" PROVE d = c
      BY <1>1, <1>5, <2>6, <3>3 DEF Publish, Uncounted
    <3>4. windows'[windowCount] = c /\ windowCount' = windowCount
      BY <1>5, <2>1, <3>1 DEF Publish
    <3>5. QED BY <2>6, <3>2, <3>3, <3>4 DEF NoHoles, Slots
  <2>8. Placed'
    <3>1. \A k \in Slots : k < windowCount => windows'[k] = windows[k]
      BY <1>2, <2>1 DEF TypeOK, Slots
    <3>2. QED BY <1>1, <1>5, <3>1 DEF Publish, Placed, Slots
  <2>9. Visited'
    BY <1>5 DEF Publish, loop, Visited
  <2>10. QED BY <2>3, <2>4, <2>5, <2>7, <2>8, <2>9
<1>6. CASE Count(c)
  <2>1. /\ windowCount < MaxWindows /\ windowCount \in Slots /\ windowCount' = windowCount + 1
        /\ windows[windowCount] = c
    BY <1>2, <1>6 DEF Count, Counters, NoHoles, Slots
  <2>2. \A d \in Client : Holds(d) => d = c
    BY <1>6 DEF Count, OneHolder, Holds
  <2>3. \A d \in Client : ~Holds(d)'
    BY <1>1, <1>6, <2>2 DEF Count, Holds
  <2>4. TypeOK'
    <3>1. windowCount + 1 \in 0 .. MaxWindows
      BY <1>2, <2>1
    <3>2. pc' \in [Client -> Places]
      BY <1>1, <1>6 DEF Count
    <3>3. windowCount' \in 0 .. MaxWindows
      BY <2>1, <3>1
    <3>4. QED BY <1>6, <3>2, <3>3 DEF Count, loop, TypeOK, Slots
  <2>5. OneHolder'
    BY <2>3 DEF OneHolder
  <2>6. Counters'
    BY <1>1, <1>2, <1>6, <2>3 DEF Count, Counters, Holds
  <2>7. NoHoles'
    <3>1. ~Uncounted' /\ Uncounted
      BY <1>6, <2>3 DEF Count, Uncounted, Holds
    <3>2. ASSUME NEW k \in Slots PROVE windows[k] # nullptr <=> k < windowCount + 1
      BY <1>2, <3>1 DEF NoHoles, Slots
    <3>3. QED BY <1>6, <2>1, <2>3, <3>1, <3>2 DEF Count, NoHoles, Holds, Slots
  <2>8. Placed'
    <3>1. ASSUME NEW d \in Client, pc'[d] \in {"draw", "wait"}
          PROVE  \E k \in Slots : k < windowCount + 1 /\ windows[k] = d
      <4>1. CASE d = c
        BY <1>2, <2>1, <4>1
      <4>2. CASE d # c
        <5>1. pc[d] \in {"draw", "wait"}
          BY <1>1, <1>6, <3>1, <4>2 DEF Count
        <5>2. QED BY <1>2, <5>1 DEF Placed, Slots
      <4>3. QED BY <4>1, <4>2
    <3>2. QED BY <1>6, <2>1, <3>1 DEF Count, Placed, Slots
  <2>9. Visited'
    BY <1>2, <1>6, <2>1 DEF Count, loop, Visited, TypeOK
  <2>10. QED BY <2>4, <2>5, <2>6, <2>7, <2>8, <2>9
<1>7. CASE Draw(c)
  <2>1. row[c] \in 1 .. Rows
    BY <1>2, <1>7 DEF Draw, Counters
  <2>2. pc' = pc
    BY <1>1, <1>7 DEF Draw
  <2>3. buffer' \in [Client -> [1 .. Rows -> Drawings]]
    <3>1. buffer \in [Client -> [1 .. Rows -> Drawings]]
      BY DEF TypeOK
    <3>2. buffer[c] \in [1 .. Rows -> Drawings] /\ buffer[c][row[c]] \in 0 .. MaxDraws
      BY <2>1, <3>1 DEF Drawings
    <3>3. buffer[c][row[c]] + 1 \in Drawings
      BY <1>2, <1>7, <3>2 DEF Draw, Drawings
    <3>4. [buffer[c] EXCEPT ![row[c]] = buffer[c][row[c]] + 1] \in [1 .. Rows -> Drawings]
      BY <2>1, <3>2, <3>3
    <3>5. buffer' = [buffer EXCEPT ![c] = [buffer[c] EXCEPT ![row[c]] = buffer[c][row[c]] + 1]]
      BY <1>7, <3>1 DEF Draw
    <3>6. QED BY <3>1, <3>4, <3>5
  <2>4. TypeOK'
    BY <1>7, <2>2, <2>3 DEF Draw, table, loop, TypeOK, Slots
  <2>5. OneHolder'
    BY <1>7, <2>2 DEF Draw, OneHolder, Holds
  <2>6. Counters'
    BY <1>1, <1>2, <1>7, <2>1, <2>2 DEF Draw, table, Counters
  <2>7. NoHoles' /\ Placed'
    BY <1>7, <2>2 DEF Draw, table, NoHoles, Placed, Uncounted, Slots
  <2>8. Visited'
    BY <1>7 DEF Draw, table, loop, Visited
  <2>9. QED BY <2>4, <2>5, <2>6, <2>7, <2>8
<1>8. CASE Dirty(c)
  <2>1. TypeOK'
    BY <1>8 DEF Dirty, table, loop, TypeOK, Slots
  <2>2. OneHolder'
    BY <1>1, <1>8 DEF Dirty, OneHolder, Holds
  <2>3. Counters'
    BY <1>1, <1>8 DEF Dirty, table, Counters
  <2>4. NoHoles' /\ Placed'
    BY <1>1, <1>8 DEF Dirty, table, NoHoles, Placed, Uncounted, Slots
  <2>5. Visited'
    BY <1>8 DEF Dirty, table, loop, Visited
  <2>6. QED BY <2>1, <2>2, <2>3, <2>4, <2>5
<1>9. CASE Wakes(c)
  <2>1. TypeOK'
    BY <1>9 DEF Wakes, table, loop, TypeOK, Slots
  <2>2. OneHolder'
    BY <1>1, <1>9 DEF Wakes, OneHolder, Holds
  <2>3. Counters'
    BY <1>1, <1>2, <1>9 DEF Wakes, table, Counters
  <2>4. NoHoles' /\ Placed'
    BY <1>1, <1>9 DEF Wakes, table, NoHoles, Placed, Uncounted, Slots
  <2>5. Visited'
    BY <1>9 DEF Wakes, table, loop, Visited
  <2>6. QED BY <2>1, <2>2, <2>3, <2>4, <2>5
<1>10. QED BY <1>3, <1>4, <1>5, <1>6, <1>7, <1>8, <1>9

\* A step of Update changes the screen, the dirty marks and its own loop only.
LEMMA IInvUpdate ==
  ASSUME IInv, Update \/ UNCHANGED vars
  PROVE  IInv'
<1> USE DEF IInv
<1>1. /\ UNCHANGED <<windows, windowCount, windowLock, buffer, pc, row>>
      /\ windowCount \in 0 .. MaxWindows /\ MaxWindows \in Nat /\ Rows \in Nat \ {0}
      /\ i \in 0 .. MaxWindows /\ y \in 1 .. Rows + 1 /\ window \in Client \cup {nullptr}
  BY DesktopAssumption DEF Update, Visit, CopyRow, Clean, Again, vars, table, task, loop, TypeOK
<1>2. OneHolder' /\ Counters' /\ NoHoles' /\ Placed'
  BY <1>1 DEF OneHolder, Holds, Counters, NoHoles, Uncounted, Placed, Slots
<1>3. CASE Visit
  <2>1. windows[i] \in Client
    BY <1>1, <1>3 DEF Visit, NoHoles, TypeOK, Slots
  <2>2. TypeOK'
    BY <1>1, <1>3, <2>1 DEF Visit, TypeOK, Slots
  <2>3. Visited'
    BY <1>1, <1>3 DEF Visit, Visited
  <2>4. QED BY <1>2, <2>2, <2>3
<1>4. CASE CopyRow
  <2>1. window \in Client /\ y \in 1 .. Rows
    BY <1>1, <1>4 DEF CopyRow
  <2>2. screen' \in [Client -> [1 .. Rows -> Drawings]]
    <3>1. {buffer, screen} \subseteq [Client -> [1 .. Rows -> Drawings]]
      BY DEF TypeOK
    <3>2. [screen[window] EXCEPT ![y] = buffer[window][y]] \in [1 .. Rows -> Drawings]
      BY <2>1, <3>1
    <3>3. screen' = [screen EXCEPT ![window] = [screen[window] EXCEPT ![y] = buffer[window][y]]]
      BY <1>4 DEF CopyRow
    <3>4. QED BY <2>1, <3>1, <3>2, <3>3
  <2>3. TypeOK'
    BY <1>1, <1>4, <2>1, <2>2 DEF CopyRow, TypeOK, Slots
  <2>4. Visited'
    BY <1>1, <1>4 DEF CopyRow, Visited
  <2>5. QED BY <1>2, <2>3, <2>4
<1>5. CASE Clean
  <2>1. i < windowCount
    BY <1>5 DEF Clean, Visited
  <2>2. TypeOK'
    BY <1>1, <1>5, <2>1 DEF Clean, TypeOK, Slots
  <2>3. Visited'
    BY <1>1, <1>5, <2>1 DEF Clean, Visited
  <2>4. QED BY <1>2, <2>2, <2>3
<1>6. CASE Again
  <2>1. TypeOK'
    BY <1>1, <1>6 DEF Again, TypeOK, Slots
  <2>2. Visited'
    BY <1>1, <1>6 DEF Again, Visited
  <2>3. QED BY <1>2, <2>1, <2>2
<1>7. CASE UNCHANGED vars
  <2>1. TypeOK' /\ Visited'
    BY <1>7 DEF vars, table, task, loop, TypeOK, Visited, Slots
  <2>2. QED BY <1>2, <2>1
<1>8. QED BY <1>3, <1>4, <1>5, <1>6, <1>7 DEF Update

LEMMA Invariant == Spec => []IInv
<1>1. IInv /\ [Next]_vars => IInv'
  BY IInvClient, IInvUpdate DEF Next
<1>2. QED BY IInvInit, <1>1, PTL DEF Spec

\* The variables keep their types: the counters of Update never leave the table,
\* although it reads windowCount again at every turn.
THEOREM TypesCorrect == Spec => []TypeOK
<1>1. IInv => TypeOK
  BY DEF IInv
<1>2. QED BY Invariant, <1>1, PTL

\* Update, which takes no lock, never finds nullptr in a slot that windowCount
\* covers, and every window that CreateWindow has returned is in such a slot.
THEOREM EveryWindowIsCounted == Spec => []EveryWindowCounts
<1>1. ASSUME IInv PROVE EveryWindowCounts
  <2>1. windowCount \in 0 .. MaxWindows /\ MaxWindows \in Nat
    BY <1>1, DesktopAssumption DEF IInv, TypeOK
  <2>2. \A k \in 0 .. windowCount - 1 : windows[k] # nullptr
    BY <1>1, <2>1 DEF IInv, NoHoles, Slots
  <2>3. ASSUME NEW c \in Client, pc[c] \in {"draw", "wait"}
        PROVE  \E k \in 0 .. windowCount - 1 : windows[k] = c
    <3>1. PICK k \in Slots : k < windowCount /\ windows[k] = c
      BY <1>1, <2>3 DEF IInv, Placed
    <3>2. k \in 0 .. windowCount - 1
      BY <2>1, <3>1 DEF Slots
    <3>3. QED BY <3>1, <3>2
  <2>4. QED BY <2>2, <2>3 DEF EveryWindowCounts
<1>2. QED BY Invariant, <1>1, PTL
================================================================================
