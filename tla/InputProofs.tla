------------------------------ MODULE InputProofs ------------------------------
(****************************************************************************)
(* Proof that, however many bytes the devices send and whenever they do,    *)
(* every interrupt is ended exactly when its handler is over, the input     *)
(* line gets the bytes in their order, and the interrupted code gets its    *)
(* registers back.                                                          *)
(****************************************************************************)
EXTENDS InputProperties, TLAPS, SequenceTheorems

KeyPlaces   == {"key_read", "key_apply", "key_status", "key_drain"}
MousePlaces == {"mouse_status", "mouse_read", "mouse_full", "mouse_drain", "mouse_end"}

\* What is in service at each place, as a function of the place alone: the two
\* ends of interrupt of the mouse leave nothing for the one at the end.
InService ==
  /\ at \in {"task", "timer", "end"} \cup KeyPlaces \cup MousePlaces
  /\ at = "task" => pic1 = {} /\ pic2 = {}
  /\ at = "timer" => pic1 = {0} /\ pic2 = {}
  /\ at \in KeyPlaces => pic1 = {1} /\ pic2 = {}
  /\ at \in MousePlaces => pic1 = {2} /\ pic2 = {12}
  /\ at = "end" => pic1 \in {{}, {1}} /\ pic2 = {}

\* An end of interrupt with nothing in service does nothing.
LEMMA EOINone == EOI({}) = {}
BY DEF EOI

\* With one interrupt in service it ends that one.
LEMMA EOIOne == EOI({0}) = {} /\ EOI({1}) = {} /\ EOI({2}) = {} /\ EOI({12}) = {}
<1>1. ASSUME NEW n \in Int PROVE EOI({n}) = {}
  <2>1. Min({n}) = n BY DEF Min
  <2>2. {n} # {} OBVIOUS
  <2>3. QED BY <2>1, <2>2 DEF EOI
<1>2. QED BY <1>1

LEMMA InServiceInit == Init => InService
BY DEF Init, InService, KeyPlaces, MousePlaces

LEMMA InServiceStep == InService /\ [Next]_vars => InService'
<1> SUFFICES ASSUME InService, [Next]_vars PROVE InService'
  OBVIOUS
<1> USE DEF InService, Step, KeyPlaces, MousePlaces
<1>1. CASE DeviceSends
  BY <1>1 DEF DeviceSends
<1>2. CASE TimerFires
  BY <1>2 DEF TimerFires
<1>3. ASSUME NEW l \in Unmasked, Accept(l) PROVE InService'
  <2>1. /\ at = "task" /\ pic1' = pic1 \cup {Level(l)} /\ at' = HandlerOf(l)
        /\ pic2' = IF l = Mouse THEN pic2 \cup {Mouse} ELSE pic2
    BY <1>3 DEF Accept
  <2>2. CASE l = Timer
    BY <2>1, <2>2 DEF Timer, Keyboard, Mouse, Level, HandlerOf
  <2>3. CASE l = Keyboard
    BY <2>1, <2>3 DEF Keyboard, Mouse, Timer, Level, HandlerOf
  <2>4. CASE l = Mouse
    BY <2>1, <2>4 DEF Keyboard, Mouse, Timer, Cascade, Level, HandlerOf
  <2>5. QED
    BY <2>2, <2>3, <2>4 DEF Unmasked
<1>4. CASE Tick
  BY <1>4, EOIOne DEF Tick
<1>5. CASE KeyRead
  BY <1>5 DEF KeyRead, ReadData
<1>6. CASE KeyApply
  BY <1>6 DEF KeyApply, pics
<1>7. CASE KeyStatus
  BY <1>7 DEF KeyStatus, pics
<1>8. CASE KeyDrain
  BY <1>8 DEF KeyDrain, ReadData
<1>9. CASE MouseStatus
  BY <1>9 DEF MouseStatus, pics
<1>10. CASE MouseRead
  BY <1>10 DEF MouseRead, ReadData
<1>11. CASE MouseFull
  BY <1>11 DEF MouseFull, pics
<1>12. CASE MouseDrain
  BY <1>12 DEF MouseDrain, ReadData
<1>13. CASE MouseEnd
  BY <1>13, EOIOne DEF MouseEnd
<1>14. CASE HandleInterruptEnds
  <2>1. at = "end" /\ at' = "task"
    BY <1>14 DEF HandleInterruptEnds
  <2>2. pic1' = {}
    BY <1>14, <2>1, EOINone, EOIOne DEF HandleInterruptEnds
  <2>3. pic2' = {}
    BY <1>14, <2>1, EOINone DEF HandleInterruptEnds
  <2>4. QED
    BY <2>1, <2>2, <2>3
<1>15. CASE UNCHANGED vars
  BY <1>15 DEF vars, pics
<1>16. QED
  BY <1>1, <1>2, <1>3, <1>4, <1>5, <1>6, <1>7, <1>8, <1>9, <1>10, <1>11, <1>12, <1>13, <1>14,
     <1>15 DEF Next, Handler

\* Whatever the devices send, an interrupt is in service exactly as long as its
\* handler runs: none is left behind when HandleInterrupt returns, and the mouse
\* handler's own ends of interrupt do not end another's.
THEOREM InterruptsEnd == Spec => []InServiceIsHandled
<1>1. InService => InServiceIsHandled
  <2> SUFFICES ASSUME InService PROVE InServiceIsHandled
    OBVIOUS
  <2>1. CASE at = "timer"
    <3>1. at \in PlacesOf(Timer) /\ Level(Timer) = 0 /\ Timer \in Unmasked
      BY <2>1 DEF PlacesOf, Level, Unmasked, Timer, Keyboard, Mouse
    <3>2. QED
      BY <2>1, <3>1 DEF InService, InServiceIsHandled
  <2>2. CASE at \in KeyPlaces
    <3>1. at \in PlacesOf(Keyboard) /\ Level(Keyboard) = 1 /\ Keyboard \in Unmasked
      BY <2>2 DEF KeyPlaces, PlacesOf, Level, Unmasked, Timer, Keyboard, Mouse
    <3>2. QED
      BY <2>2, <3>1 DEF InService, InServiceIsHandled, KeyPlaces
  <2>3. CASE at \in MousePlaces
    <3>1. at \in PlacesOf(Mouse) /\ Level(Mouse) = 2 /\ Mouse \in Unmasked
      BY <2>3 DEF MousePlaces, PlacesOf, Level, Unmasked, Timer, Keyboard, Mouse, Cascade
    <3>2. QED
      BY <2>3, <3>1 DEF InService, InServiceIsHandled, MousePlaces
  <2>4. QED
    BY <2>1, <2>2, <2>3 DEF InService, InServiceIsHandled
<1>2. QED
  BY InServiceInit, InServiceStep, <1>1, PTL DEF Spec

-----------------------------------------------------------------------------
(* The input line.                                                          *)

Msg == [from : {Keyboard, Mouse}, n : 0 .. MaxBytes, kind : Kinds]

LEMMA Numbered == \A b \in Msg : b.n \in Nat
BY InputAssumption DEF Msg

KeyTypes ==
  /\ queue \in Seq(Msg) /\ {last, read} \subseteq Msg /\ inputStr \in Seq(Msg)
  /\ sent \in 0 .. MaxBytes

\* First the bytes of the line were sent, then the one the port holds, then
\* those of the queue.
Ordered ==
  /\ last.n <= sent
  /\ \A k \in 1 .. Len(queue) : last.n < queue[k].n /\ queue[k].n <= sent
  /\ \A j, k \in 1 .. Len(queue) : j < k => queue[j].n < queue[k].n
  /\ \A k \in 1 .. Len(inputStr) : inputStr[k].n <= last.n
  /\ \A j, k \in 1 .. Len(inputStr) : j < k => inputStr[j].n <= inputStr[k].n
  /\ at = "key_apply" => read = last

\* The keyboard handler is going to apply the byte the port holds: not again, and
\* at most once.
NotAgain == /\ at # "key_apply"
            /\ queue = <<>> => Keyboard \notin irr /\ at # "key_read"
OnceMore == queue = <<>> /\ Keyboard \in irr => at \notin {"key_apply", "key_read"}

\* The byte at position i of the line is the one the port holds.
Holds(i) == i \in 1 .. Len(inputStr) /\ inputStr[i].n = last.n

\* What is on the line twice is not applied again.
Twice ==
  /\ Holds(Len(inputStr)) => OnceMore
  /\ Holds(Len(inputStr) - 1) => NotAgain
  /\ \A i \in 1 .. Len(inputStr) : i > 2 => inputStr[i].n # inputStr[i - 2].n

LineInv == KeyTypes /\ Ordered /\ Twice

LEMMA LineInvInit == Init => LineInv
<1> SUFFICES ASSUME Init PROVE LineInv
  OBVIOUS
<1>1. 0 \in 0 .. MaxBytes
  BY InputAssumption
<1>2. Blank \in Msg /\ Blank.n = 0
  BY <1>1 DEF Blank, Msg, Kinds
<1>3. KeyTypes /\ Ordered
  BY <1>1, <1>2 DEF Init, KeyTypes, Ordered
<1>4. Twice
  BY DEF Init, Twice, Holds, OnceMore, NotAgain
<1>5. QED BY <1>3, <1>4 DEF LineInv

\* A byte taken from the port was sent after all that were taken before; an empty
\* port gives the last one again.
LEMMA ReadDataIs ==
  ASSUME KeyTypes, Ordered, ReadData
  PROVE  /\ queue' \in Seq(Msg) /\ Data \in Msg /\ last' = Data /\ Data.n <= sent
         /\ queue = <<>> => queue' = <<>> /\ last' = last /\ irr' = irr
         /\ queue # <<>> => last.n < Data.n
         /\ \A k \in 1 .. Len(queue') : Data.n < queue'[k].n /\ queue'[k].n <= sent
         /\ \A j, k \in 1 .. Len(queue') : j < k => queue'[j].n < queue'[k].n
<1>1. CASE queue = <<>>
  BY <1>1 DEF KeyTypes, Ordered, ReadData, Data
<1>2. CASE queue # <<>>
  <2>1. /\ queue' = Tail(queue) /\ Data = Head(queue) /\ last' = Data
    BY <1>2 DEF ReadData, Data
  <2>2. queue \in Seq(Msg) /\ Len(queue) \in Nat /\ 1 \in 1 .. Len(queue)
    BY <1>2, EmptySeq DEF KeyTypes
  <2>3. /\ Data = queue[1] /\ queue' \in Seq(Msg) /\ Len(queue') = Len(queue) - 1
        /\ \A k \in 1 .. Len(queue') : queue'[k] = queue[k + 1]
    BY <1>2, <2>1, <2>2, HeadTailProperties
  <2>4. Data \in Msg
    BY <2>2, <2>3
  <2>5. ASSUME NEW k \in 1 .. Len(queue')
        PROVE  Data.n < queue'[k].n /\ queue'[k].n <= sent
    <3>1. k + 1 \in 1 .. Len(queue) /\ 1 < k + 1
      BY <2>2, <2>3
    <3>2. QED BY <2>2, <2>3, <3>1 DEF Ordered
  <2>6. ASSUME NEW j \in 1 .. Len(queue'), NEW k \in 1 .. Len(queue'), j < k
        PROVE  queue'[j].n < queue'[k].n
    <3>1. j + 1 \in 1 .. Len(queue) /\ k + 1 \in 1 .. Len(queue) /\ j + 1 < k + 1
      BY <2>2, <2>3, <2>6
    <3>2. QED BY <2>3, <3>1 DEF Ordered
  <2>7. last.n < Data.n /\ Data.n <= sent
    BY <2>2, <2>3 DEF Ordered
  <2>8. QED BY <1>2, <2>1, <2>3, <2>4, <2>5, <2>6, <2>7
<1>3. QED BY <1>1, <1>2

\* A step that takes a byte from the port, and leaves the line alone.
LEMMA LineInvRead ==
  ASSUME LineInv, ReadData, UNCHANGED <<inputStr, sent>>, read' \in Msg,
         at \notin {"key_apply"}, at' # "key_read",
         at' = "key_apply" => at = "key_read" /\ read' = Data
  PROVE  LineInv'
<1> DEFINE n == Len(inputStr)
<1>1. /\ queue' \in Seq(Msg) /\ Data \in Msg /\ last' = Data /\ Data.n <= sent
      /\ queue = <<>> => queue' = <<>> /\ last' = last /\ irr' = irr
      /\ queue # <<>> => last.n < Data.n
      /\ \A k \in 1 .. Len(queue') : Data.n < queue'[k].n /\ queue'[k].n <= sent
      /\ \A j, k \in 1 .. Len(queue') : j < k => queue'[j].n < queue'[k].n
  BY ReadDataIs DEF LineInv
<1>2. KeyTypes'
  BY <1>1 DEF LineInv, KeyTypes
<1>3. /\ \A k \in 1 .. n : inputStr[k].n \in Nat /\ inputStr[k].n <= last.n
      /\ last.n \in Nat /\ Data.n \in Nat
  <2>1. inputStr \in Seq(Msg) /\ \A k \in 1 .. n : inputStr[k] \in Msg
    BY DEF LineInv, KeyTypes
  <2>2. last \in Msg /\ Data \in Msg
    BY <1>1 DEF LineInv, KeyTypes
  <2>3. QED BY <2>1, <2>2, Numbered DEF LineInv, Ordered
<1>4. \A k \in 1 .. n : inputStr[k].n <= Data.n /\ (queue # <<>> => inputStr[k].n # Data.n)
  BY <1>1, <1>3
<1>5. Ordered'
  BY <1>1, <1>4 DEF LineInv, Ordered
<1>6. CASE queue = <<>>
  <2>1. UNCHANGED <<queue, last, irr, inputStr>>
    BY <1>1, <1>6
  <2>2. OnceMore => OnceMore'
    BY <2>1 DEF OnceMore
  <2>3. NotAgain => NotAgain'
    BY <2>1, <1>6 DEF NotAgain
  <2>4. Twice'
    BY <2>1, <2>2, <2>3 DEF LineInv, Twice, Holds
  <2>5. QED BY <1>2, <1>5, <2>4 DEF LineInv
<1>7. CASE queue # <<>>
  <2>1. \A i \in Int : ~Holds(i)'
    BY <1>1, <1>4, <1>7 DEF Holds
  <2>2. n \in Nat
    BY DEF LineInv, KeyTypes
  <2>3. Twice'
    BY <2>1, <2>2 DEF LineInv, Twice
  <2>4. QED BY <1>2, <1>5, <2>3 DEF LineInv
<1>8. QED BY <1>2, <1>5, <1>6, <1>7 DEF LineInv

\* A step that leaves port and line alone, and asks for no application of a byte.
LEMMA LineInvIdle ==
  ASSUME LineInv, UNCHANGED <<port, inputStr, sent>>, read' \in Msg,
         at' \notin {"key_apply", "key_read"}, Keyboard \in irr' => Keyboard \in irr
  PROVE  LineInv'
<1>1. KeyTypes' /\ Ordered'
  BY DEF LineInv, KeyTypes, Ordered, port
<1>2. Twice'
  BY DEF LineInv, Twice, Holds, OnceMore, NotAgain, port
<1>3. QED BY <1>1, <1>2 DEF LineInv

LEMMA LineInvApply ==
  ASSUME LineInv, KeyApply
  PROVE  LineInv'
<1> DEFINE n == Len(inputStr)
<1>1. /\ at = "key_apply" /\ at' = "key_status" /\ read = last
      /\ UNCHANGED <<queue, last, sent, irr, read>>
  BY DEF KeyApply, Step, port, pics, locals, LineInv, Ordered
<1>2. /\ inputStr \in Seq(Msg) /\ n \in Nat /\ last \in Msg /\ last.n \in Nat
      /\ \A k \in 1 .. n : inputStr[k] \in Msg
  BY Numbered DEF LineInv, KeyTypes
<1>3. \A k \in 1 .. n : inputStr[k].n \in Nat /\ inputStr[k].n <= last.n
  BY <1>2, Numbered DEF LineInv, Ordered
<1>4. ~Holds(n - 1) /\ (Holds(n) => OnceMore)
  BY <1>1 DEF LineInv, Twice, NotAgain
<1>5. n >= 2 => inputStr[n - 1].n # last.n
  BY <1>2, <1>4 DEF Holds
<1>6. (\E k \in 1 .. n : inputStr[k].n = last.n) => Holds(n)
  BY <1>2, <1>3 DEF LineInv, Ordered, Holds
<1>7. OnceMore'
  BY <1>1 DEF OnceMore
<1>8. CASE read.kind = "char"
  <2>1. /\ inputStr' \in Seq(Msg) /\ Len(inputStr') = n + 1 /\ inputStr'[n + 1] = last
        /\ \A k \in 1 .. n : inputStr'[k] = inputStr[k]
    BY <1>1, <1>2, <1>8, AppendProperties DEF KeyApply, AddInputCharacter
  <2> HIDE DEF n
  <2>2. ASSUME NEW k \in 1 .. n + 1 PROVE inputStr'[k].n <= last.n
    BY <1>2, <1>3, <2>1
  <2>3. ASSUME NEW j \in 1 .. n + 1, NEW k \in 1 .. n + 1, j < k
        PROVE  inputStr'[j].n <= inputStr'[k].n
    <3>1. CASE k = n + 1
      BY <2>1, <2>2, <3>1
    <3>2. CASE k # n + 1
      <4>1. j \in 1 .. n /\ k \in 1 .. n
        BY <1>2, <2>3, <3>2
      <4>2. QED BY <2>1, <2>3, <4>1 DEF LineInv, Ordered, n
    <3>3. QED BY <3>1, <3>2
  <2>4. KeyTypes' /\ Ordered'
    BY <1>1, <2>1, <2>2, <2>3 DEF LineInv, KeyTypes, Ordered
  <2>5. Holds(Len(inputStr) - 1)' => NotAgain'
    <3>1. ASSUME Holds(Len(inputStr) - 1)' PROVE Holds(n)
      <4>1. n \in 1 .. n /\ inputStr[n].n = last.n
        BY <1>1, <1>2, <2>1, <3>1 DEF Holds
      <4>2. QED BY <4>1 DEF Holds, n
    <3>2. QED BY <1>1, <1>4, <3>1 DEF NotAgain, OnceMore
  <2>6. ASSUME NEW i \in 1 .. n + 1, i > 2
        PROVE  inputStr'[i].n # inputStr'[i - 2].n
    <3>1. CASE i = n + 1
      <4>1. i - 2 = n - 1 /\ n - 1 \in 1 .. n /\ n >= 2
        BY <1>2, <2>6, <3>1
      <4>2. QED BY <1>5, <2>1, <3>1, <4>1
    <3>2. CASE i # n + 1
      <4>1. i \in 1 .. n /\ i - 2 \in 1 .. n
        BY <1>2, <2>6, <3>2
      <4>2. QED BY <2>1, <2>6, <4>1 DEF LineInv, Twice, n
    <3>3. QED BY <3>1, <3>2
  <2>7. QED BY <1>7, <2>1, <2>4, <2>5, <2>6 DEF LineInv, Twice
<1>9. CASE read.kind = "backspace"
  <2>1. inputStr' = SubSeq(inputStr, 1, n - 1)
    BY <1>9 DEF KeyApply, RemoveInputCharacter
  <2>2. CASE n = 0
    <3>1. inputStr' = <<>>
      BY <2>1, <2>2, SubSeqEmpty
    <3>2. KeyTypes' /\ Ordered'
      BY <1>1, <3>1 DEF LineInv, KeyTypes, Ordered
    <3>3. QED BY <1>7, <3>1, <3>2 DEF LineInv, Twice, Holds
  <2>3. CASE n # 0
    <3>1. /\ inputStr' \in Seq(Msg) /\ Len(inputStr') = n - 1
          /\ \A k \in 1 .. n - 1 : inputStr'[k] = inputStr[k]
      <4>1. \A k \in 1 .. n - 1 : inputStr[k] \in Msg
        BY <1>2
      <4>2. 1 \in Int /\ n - 1 \in Int
        BY <1>2
      <4>3. Len(inputStr') = IF 1 <= n - 1 THEN n - 1 - 1 + 1 ELSE 0
        BY <2>1, <4>1, <4>2, SubSeqProperties
      <4>4. /\ inputStr' \in Seq(Msg)
            /\ \A k \in 1 .. n - 1 - 1 + 1 : inputStr'[k] = inputStr[1 + k - 1]
        BY <2>1, <4>1, <4>2, SubSeqProperties
      <4> HIDE DEF n
      <4>5. QED BY <1>2, <2>3, <4>3, <4>4
    <3> HIDE DEF n
    <3>2. \A k \in 1 .. n - 1 : k \in 1 .. n
      BY <1>2
    <3>3. KeyTypes' /\ Ordered'
      <4>1. \A k \in 1 .. n - 1 : inputStr'[k].n <= last.n
        BY <1>3, <3>1, <3>2
      <4>2. \A j, k \in 1 .. n : j < k => inputStr[j].n <= inputStr[k].n
        BY DEF LineInv, Ordered, n
      <4>3. \A j, k \in 1 .. n - 1 : j < k => inputStr'[j].n <= inputStr'[k].n
        BY <3>1, <3>2, <4>2
      <4>4. KeyTypes'
        BY <1>1, <3>1 DEF LineInv, KeyTypes
      <4>5. QED BY <1>1, <3>1, <4>1, <4>3, <4>4 DEF LineInv, Ordered
    <3>4. ~Holds(Len(inputStr))'
      BY <1>1, <1>2, <1>5, <3>1 DEF Holds
    <3>5. ~Holds(Len(inputStr) - 1)'
      <4>1. ASSUME Holds(Len(inputStr) - 1)' PROVE FALSE
        <5>1. n - 2 \in 1 .. n - 1 /\ inputStr[n - 2].n = last.n /\ n - 2 \in 1 .. n
          <6>1. /\ Len(inputStr') - 1 \in 1 .. Len(inputStr')
                /\ inputStr'[Len(inputStr') - 1].n = last.n
            BY <1>1, <4>1 DEF Holds
          <6>2. Len(inputStr') - 1 = n - 2 /\ Len(inputStr') = n - 1
            BY <1>2, <3>1
          <6>3. n - 2 \in 1 .. n - 1 /\ inputStr'[n - 2].n = last.n
            BY <6>1, <6>2
          <6>4. inputStr'[n - 2] = inputStr[n - 2]
            BY <3>1, <6>3
          <6>5. n - 2 \in 1 .. n
            BY <3>2, <6>3
          <6>6. QED BY <6>3, <6>4, <6>5
        <5>2. n - 1 \in 1 .. n /\ n - 2 < n - 1 /\ n >= 2
          BY <1>2, <5>1
        <5>3. inputStr[n - 2].n <= inputStr[n - 1].n
          BY <5>1, <5>2 DEF LineInv, Ordered, n
        <5>4. inputStr[n - 1].n = last.n
          BY <1>2, <1>3, <5>1, <5>2, <5>3
        <5>5. QED BY <1>5, <5>2, <5>4
      <4>2. QED BY <4>1
    <3>6. ASSUME NEW i \in 1 .. n - 1, i > 2
          PROVE  inputStr'[i].n # inputStr'[i - 2].n
      <4>1. i \in 1 .. n /\ i - 2 \in 1 .. n - 1
        BY <1>2, <3>6
      <4>2. QED BY <3>1, <3>6, <4>1 DEF LineInv, Twice, n
    <3>7. QED BY <3>1, <3>3, <3>4, <3>5, <3>6 DEF LineInv, Twice
  <2>4. QED BY <2>2, <2>3
<1>10. CASE read.kind = "none"
  <2>1. inputStr' = inputStr
    BY <1>10 DEF KeyApply
  <2>2. KeyTypes' /\ Ordered'
    BY <1>1, <2>1 DEF LineInv, KeyTypes, Ordered
  <2>3. Twice'
    BY <1>1, <1>4, <1>7, <2>1 DEF LineInv, Twice, Holds
  <2>4. QED BY <2>2, <2>3 DEF LineInv
<1>11. read.kind \in {"char", "backspace", "none"}
  BY DEF LineInv, KeyTypes, Msg, Kinds
<1>12. QED BY <1>8, <1>9, <1>10, <1>11

LEMMA LineInvAccept ==
  ASSUME LineInv, NEW l \in Unmasked, Accept(l)
  PROVE  LineInv'
<1>1. /\ UNCHANGED <<queue, last, sent, read, inputStr>>
      /\ at = "task" /\ at' = HandlerOf(l) /\ irr' = irr \ {l} /\ l \in irr
  BY DEF Accept, Offered, port
<1>2. at' \in {"timer", "key_read", "mouse_status"} /\ (at' = "key_read" => l = Keyboard)
  BY <1>1 DEF HandlerOf, Unmasked, Timer, Keyboard, Mouse
<1>3. KeyTypes' /\ Ordered'
  BY <1>1, <1>2 DEF LineInv, KeyTypes, Ordered
<1>4. CASE l = Keyboard
  BY <1>1, <1>2, <1>3, <1>4 DEF LineInv, Twice, Holds, OnceMore, NotAgain
<1>5. CASE l # Keyboard
  BY <1>1, <1>2, <1>3, <1>5 DEF LineInv, Twice, Holds, OnceMore, NotAgain
<1>6. QED BY <1>4, <1>5

LEMMA LineInvSent ==
  ASSUME LineInv, DeviceSends
  PROVE  LineInv'
<1> DEFINE n == Len(queue)
<1>1. PICK d \in {Keyboard, Mouse}, k \in Kinds :
        queue' = Append(queue, [from |-> d, n |-> sent + 1, kind |-> k])
  BY DEF DeviceSends
<1>2. UNCHANGED <<last, read, inputStr, at>> /\ sent' = sent + 1 /\ sent < MaxBytes
  BY DEF DeviceSends, locals
<1>3. sent \in Nat /\ sent + 1 \in 0 .. MaxBytes /\ queue \in Seq(Msg) /\ n \in Nat
      /\ last.n \in Nat /\ \A j \in 1 .. n : queue[j] \in Msg
  BY <1>2, InputAssumption, Numbered DEF LineInv, KeyTypes
<1> DEFINE new == [from |-> d, n |-> sent + 1, kind |-> k]
<1>4. new \in Msg /\ new.n = sent + 1
  BY <1>3 DEF Msg
<1> HIDE DEF new
<1>5. queue' = Append(queue, new)
  BY <1>1 DEF new
<1>6. /\ queue' \in Seq(Msg) /\ Len(queue') = n + 1 /\ queue'[n + 1] = new /\ queue' # <<>>
      /\ \A j \in 1 .. n : queue'[j] = queue[j]
  BY <1>3, <1>4, <1>5, AppendProperties
<1> HIDE DEF n
<1>7. \A j \in 1 .. n : queue[j].n \in Nat /\ last.n < queue[j].n /\ queue[j].n <= sent
  BY <1>3, Numbered DEF LineInv, Ordered, n
<1>8. last.n <= sent
  BY DEF LineInv, Ordered
<1>9. ASSUME NEW j \in 1 .. n + 1
      PROVE  last.n < queue'[j].n /\ queue'[j].n <= sent + 1 /\ (j # n + 1 => queue'[j].n <= sent)
  BY <1>3, <1>4, <1>6, <1>7, <1>8
<1>10. ASSUME NEW i \in 1 .. n + 1, NEW j \in 1 .. n + 1, i < j
       PROVE  queue'[i].n < queue'[j].n
  <2>1. i \in 1 .. n
    BY <1>3, <1>10
  <2>2. CASE j = n + 1
    BY <1>3, <1>4, <1>6, <1>7, <2>1, <2>2
  <2>3. CASE j # n + 1
    <3>1. j \in 1 .. n
      BY <1>3, <2>3
    <3>2. QED BY <1>6, <1>10, <2>1, <3>1 DEF LineInv, Ordered, n
  <2>4. QED BY <2>2, <2>3
<1>11. KeyTypes'
  BY <1>2, <1>3, <1>6 DEF LineInv, KeyTypes
<1>12. last'.n <= sent'
  BY <1>2, <1>3, <1>8
<1>13. Ordered'
  BY <1>2, <1>6, <1>9, <1>10, <1>12 DEF LineInv, Ordered
<1>14. Twice'
  BY <1>2, <1>6 DEF LineInv, Twice, Holds, OnceMore, NotAgain
<1>15. QED BY <1>11, <1>13, <1>14 DEF LineInv

LEMMA LineInvStep == LineInv /\ [Next]_vars => LineInv'
<1> SUFFICES ASSUME LineInv, [Next]_vars PROVE LineInv'
  OBVIOUS
<1>1. read \in Msg /\ queue \in Seq(Msg) /\ (queue # <<>> => Head(queue) \in Msg)
  BY HeadTailProperties DEF LineInv, KeyTypes
<1> USE DEF Step, locals, pics
<1>2. CASE DeviceSends
  BY <1>2, LineInvSent
<1>3. ASSUME NEW l \in Unmasked, Accept(l) PROVE LineInv'
  BY <1>3, LineInvAccept
<1>4. CASE KeyApply
  BY <1>4, LineInvApply
<1>5. CASE TimerFires
  <2>1. UNCHANGED <<queue, last, sent, read, inputStr, at>> /\ irr' = irr \cup {Timer}
    BY <1>5 DEF TimerFires, port
  <2>2. Keyboard \in irr' <=> Keyboard \in irr
    BY <2>1 DEF Timer, Keyboard
  <2>3. KeyTypes' /\ Ordered'
    BY <2>1 DEF LineInv, KeyTypes, Ordered
  <2>4. Twice'
    BY <2>1, <2>2 DEF LineInv, Twice, Holds, OnceMore, NotAgain
  <2>5. QED BY <2>3, <2>4 DEF LineInv
<1>6. CASE Tick
  BY <1>1, <1>6, LineInvIdle DEF Tick
<1>7. CASE KeyRead
  <2>1. KeyTypes /\ Ordered /\ ReadData
    BY <1>7 DEF KeyRead, LineInv
  <2>2. Data \in Msg
    BY <2>1, ReadDataIs
  <2>3. QED BY <1>7, <2>2, LineInvRead DEF KeyRead
<1>8. CASE KeyStatus
  BY <1>1, <1>8, LineInvIdle DEF KeyStatus
<1>9. CASE KeyDrain
  BY <1>1, <1>9, LineInvRead DEF KeyDrain
<1>10. CASE MouseStatus
  BY <1>1, <1>10, LineInvIdle DEF MouseStatus
<1>11. CASE MouseRead
  BY <1>1, <1>11, LineInvRead DEF MouseRead
<1>12. CASE MouseFull
  BY <1>1, <1>12, LineInvIdle DEF MouseFull
<1>13. CASE MouseDrain
  BY <1>1, <1>13, LineInvRead DEF MouseDrain
<1>14. CASE MouseEnd
  BY <1>1, <1>14, LineInvIdle DEF MouseEnd
<1>15. CASE HandleInterruptEnds
  BY <1>1, <1>15, LineInvIdle DEF HandleInterruptEnds
<1>16. CASE UNCHANGED vars
  <2>1. UNCHANGED <<queue, last, sent, irr, read, inputStr, at>>
    BY <1>16 DEF vars, port
  <2>2. KeyTypes' /\ Ordered'
    BY <2>1 DEF LineInv, KeyTypes, Ordered
  <2>3. Twice'
    BY <2>1 DEF LineInv, Twice, Holds, OnceMore, NotAgain
  <2>4. QED BY <2>2, <2>3 DEF LineInv
<1>17. QED
  BY <1>2, <1>3, <1>4, <1>5, <1>6, <1>7, <1>8, <1>9, <1>10, <1>11, <1>12, <1>13, <1>14, <1>15,
     <1>16 DEF Next, Handler

\* Whatever the devices send and whenever they do, the line never holds a byte
\* before one that was sent earlier, nor three times the same one, although the
\* keyboard handler reads its port without asking for a byte.
THEOREM LineInOrder == Spec => []KeysInOrder
<1>1. ASSUME LineInv PROVE KeysInOrder
  <2>1. DOMAIN inputStr = 1 .. Len(inputStr)
    BY <1>1, LenProperties DEF LineInv, KeyTypes
  <2>2. QED BY <1>1, <2>1 DEF LineInv, Ordered, Twice, KeysInOrder
<1>2. QED BY LineInvInit, LineInvStep, <1>1, PTL DEF Spec

-----------------------------------------------------------------------------
(* The registers.                                                           *)

\* What a register or a word of a frame can hold.
Word == Register \cup {"rsp", "handler's", "other's"} \cup Unmasked

\* The registers as the interrupted code must find them again.
Kept(r) == /\ r \in [Register -> Word]
           /\ \A x \in Register \ {"r12", "xmm0"} : r[x] = x

\* In a handler the frame holds the registers its stub has found.
Saved ==
  /\ at = "task" => Kept(regs)
  /\ at = "timer" => /\ regs \in [Register -> Word]
                     /\ \E r : Kept(r) /\ frame = Pushed(PUSH_CPUSTATE, r, <<>>)
  /\ at \notin {"task", "timer"} =>
       \E r, l : Kept(r) /\ l \in Unmasked /\ frame = Entered(l, r) /\ regs = InHandler(r)

\* The words of a frame, from the top.
LEMMA PushedIs ==
  ASSUME NEW registers \in Seq(Register), NEW r \in [Register -> Word], NEW stack \in Seq(Word)
  PROVE  \A i \in 1 .. Len(registers) :
           Pushed(registers, r, stack)[i] = r[registers[Len(registers) + 1 - i]]
<1> DEFINE n   == Len(registers)
           top == [i \in 1 .. n |-> r[registers[n + 1 - i]]]
<1>1. n \in Nat /\ DOMAIN registers = 1 .. n /\ \A i \in 1 .. n : registers[i] \in Register
  BY LenProperties
<1>2. top \in [1 .. n -> Word]
  <2>1. ASSUME NEW i \in 1 .. n PROVE r[registers[n + 1 - i]] \in Word
    <3>1. n + 1 - i \in 1 .. n
      BY <1>1
    <3>2. QED BY <1>1, <3>1
  <2>2. QED BY <2>1
<1>3. top \in Seq(Word)
  BY <1>1, <1>2, SeqDef
<1>4. Len(top) = n
  BY <1>1, <1>2, <1>3, LenProperties
<1>5. Pushed(registers, r, stack) = top \o stack
  BY <1>1 DEF Pushed
<1>6. \A i \in 1 .. n : top[i] = r[registers[n + 1 - i]]
  OBVIOUS
<1> HIDE DEF top, n
<1>7. \A i \in 1 .. n : (top \o stack)[i] = top[i]
  <2>1. Len(stack) \in Nat
    BY LenProperties
  <2>2. \A i \in 1 .. n : i \in 1 .. Len(top) + Len(stack) /\ i <= Len(top)
    BY <1>1, <1>4, <2>1
  <2>3. QED BY <1>3, <2>2, ConcatProperties
<1>8. QED BY <1>5, <1>6, <1>7 DEF n

Mirrors(pop, push) ==
  /\ push \in Seq(Register) /\ pop \in Seq(Register) /\ Len(pop) = Len(push)
  /\ \A i \in 1 .. Len(push) : pop[i] = push[Len(push) + 1 - i]

\* Popping in the reverse order gives every register its own word back.
LEMMA PoppedIs ==
  ASSUME NEW pop, NEW push, Mirrors(pop, push),
         NEW r \in [Register -> Word], NEW stack \in Seq(Word), NEW now, NEW x \in Register
  PROVE  Popped(pop, Pushed(push, r, stack), now)[x] =
           IF Contains(pop, x) THEN r[x] ELSE now[x]
<1> DEFINE n     == Len(push)
           frm   == Pushed(push, r, stack)
           place == CHOOSE i \in DOMAIN pop : pop[i] = x
<1>1. n \in Nat /\ DOMAIN pop = 1 .. n /\ push \in Seq(Register)
  BY LenProperties DEF Mirrors
<1>2. Contains(pop, x) <=> \E i \in 1 .. n : pop[i] = x
  BY DEF Contains, Mirrors
<1>3. Popped(pop, frm, now)[x] = IF Contains(pop, x) THEN frm[place] ELSE now[x]
  BY DEF Popped
<1>4. CASE \E i \in 1 .. n : pop[i] = x
  <2>1. place \in 1 .. n /\ pop[place] = x
    BY <1>1, <1>4
  <2> HIDE DEF place
  <2>2. frm[place] = r[push[n + 1 - place]]
    BY <1>1, <2>1, PushedIs
  <2>3. r[push[n + 1 - place]] = r[x]
    BY <2>1 DEF Mirrors
  <2>4. QED BY <1>2, <1>3, <1>4, <2>2, <2>3
<1>5. CASE ~ \E i \in 1 .. n : pop[i] = x
  BY <1>2, <1>3, <1>5
<1>6. QED BY <1>4, <1>5

LEMMA OtherRange ==
  ASSUME NEW S, NEW T, NEW s \in Seq(S), \A i \in 1 .. Len(s) : s[i] \in T
  PROVE  s \in Seq(T)
<1>1. Len(s) \in Nat /\ s \in [1 .. Len(s) -> S]
  BY LenProperties
<1>2. s \in [1 .. Len(s) -> T]
  BY <1>1
<1>3. QED BY <1>1, <1>2, SeqDef

\* The stubs pop in the reverse order of their pushes, the short ones all that
\* C++ code may change, the long ones all but the floating point registers.
LEMMA Stubs ==
  /\ Mirrors(POP_INTFRAME, PUSH_INTFRAME) /\ Mirrors(POP_CPUSTATE, PUSH_CPUSTATE)
  /\ \A x \in Clobbered : Contains(POP_INTFRAME, x)
  /\ \A x \in Register \ {"xmm0"} : Contains(POP_CPUSTATE, x)
<1> DEFINE more == <<"r12", "r13", "r14", "r15", "rbx">>
           less == <<"rbx", "r15", "r14", "r13", "r12">>
           Name == Clobbered \cup {"rbp", "r12", "r13", "r14", "r15", "rbx"}
<1>1. /\ \A x \in {"rax", "rcx", "rdx", "rbp", "rsi", "rdi", "r8", "r9", "r10", "r11"} : x \in Name
      /\ \A x \in {"r12", "r13", "r14", "r15", "rbx"} : x \in Name
  BY DEF Clobbered
<1>2. /\ Len(PUSH_INTFRAME) = 10 /\ Len(POP_INTFRAME) = 10
      /\ Len(more) = 5 /\ Len(less) = 5
  BY DEF PUSH_INTFRAME, POP_INTFRAME
<1>3. \A i \in 1 .. 10 : POP_INTFRAME[i] = PUSH_INTFRAME[11 - i]
  BY DEF PUSH_INTFRAME, POP_INTFRAME
<1>4. \A i \in 1 .. 5 : less[i] = more[6 - i]
  OBVIOUS
<1>5. PUSH_CPUSTATE = PUSH_INTFRAME \o more /\ POP_CPUSTATE = less \o POP_INTFRAME
  BY DEF PUSH_CPUSTATE, POP_CPUSTATE
<1>6. \A x \in Clobbered : \E i \in 1 .. 10 : POP_INTFRAME[i] = x
  BY DEF Clobbered, POP_INTFRAME
<1> HIDE DEF Name
<1>7. PUSH_INTFRAME \in Seq(Name) /\ POP_INTFRAME \in Seq(Name)
  BY <1>1 DEF PUSH_INTFRAME, POP_INTFRAME
<1>8. more \in Seq(Name) /\ less \in Seq(Name)
  BY <1>1
<1> HIDE DEF more, less
<1>9. /\ PUSH_CPUSTATE \in Seq(Name) /\ Len(PUSH_CPUSTATE) = 15
      /\ \A i \in 1 .. 15 : PUSH_CPUSTATE[i] =
                              IF i <= 10 THEN PUSH_INTFRAME[i] ELSE more[i - 10]
  <2>1. /\ PUSH_INTFRAME \o more \in Seq(Name) /\ Len(PUSH_INTFRAME \o more) = Len(PUSH_INTFRAME) + Len(more)
        /\ \A i \in 1 .. Len(PUSH_INTFRAME) + Len(more) :
             (PUSH_INTFRAME \o more)[i] = IF i <= Len(PUSH_INTFRAME) THEN PUSH_INTFRAME[i] ELSE more[i - Len(PUSH_INTFRAME)]
    BY <1>7, <1>8, ConcatProperties
  <2>2. Len(PUSH_INTFRAME) + Len(more) = 15
    BY <1>2
  <2>3. \A i \in 1 .. 15 :
          (PUSH_INTFRAME \o more)[i] = IF i <= 10 THEN PUSH_INTFRAME[i] ELSE more[i - 10]
    BY <1>2, <2>1, <2>2
  <2>4. QED BY <1>5, <2>1, <2>2, <2>3
<1>10. /\ POP_CPUSTATE \in Seq(Name) /\ Len(POP_CPUSTATE) = 15
       /\ \A i \in 1 .. 15 : POP_CPUSTATE[i] = IF i <= 5 THEN less[i] ELSE POP_INTFRAME[i - 5]
  <2>1. /\ less \o POP_INTFRAME \in Seq(Name) /\ Len(less \o POP_INTFRAME) = Len(less) + Len(POP_INTFRAME)
        /\ \A i \in 1 .. Len(less) + Len(POP_INTFRAME) :
             (less \o POP_INTFRAME)[i] = IF i <= Len(less) THEN less[i] ELSE POP_INTFRAME[i - Len(less)]
    BY <1>7, <1>8, ConcatProperties
  <2>2. Len(less) + Len(POP_INTFRAME) = 15
    BY <1>2
  <2>3. \A i \in 1 .. 15 :
          (less \o POP_INTFRAME)[i] = IF i <= 5 THEN less[i] ELSE POP_INTFRAME[i - 5]
    BY <1>2, <2>1, <2>2
  <2>4. QED BY <1>5, <2>1, <2>2, <2>3
<1>11. ASSUME NEW i \in 1 .. 15 PROVE POP_CPUSTATE[i] = PUSH_CPUSTATE[16 - i]
  <2>1. 16 - i \in 1 .. 15
    OBVIOUS
  <2>2. CASE i <= 5
    <3>1. i \in 1 .. 5 /\ ~(16 - i <= 10) /\ 16 - i - 10 = 6 - i
      BY <2>2
    <3>2. PUSH_CPUSTATE[16 - i] = more[16 - i - 10]
      BY <1>9, <2>1, <3>1
    <3>3. POP_CPUSTATE[i] = less[i]
      BY <1>10, <2>2
    <3>4. QED BY <1>4, <3>1, <3>2, <3>3
  <2>3. CASE ~(i <= 5)
    <3>1. i - 5 \in 1 .. 10 /\ 16 - i <= 10 /\ 11 - (i - 5) = 16 - i
      BY <2>3
    <3>2. PUSH_CPUSTATE[16 - i] = PUSH_INTFRAME[16 - i]
      BY <1>9, <2>1, <3>1
    <3>3. POP_CPUSTATE[i] = POP_INTFRAME[i - 5]
      BY <1>10, <2>3
    <3>4. POP_INTFRAME[i - 5] = PUSH_INTFRAME[11 - (i - 5)]
      BY <1>3, <3>1
    <3>5. QED BY <3>1, <3>2, <3>3, <3>4
  <2>4. QED BY <2>2, <2>3
<1>12. \A x : x \in Register <=> x = "xmm0" \/ \E i \in 1 .. 15 : PUSH_CPUSTATE[i] = x
  <2>1. DOMAIN PUSH_CPUSTATE = 1 .. 15
    BY <1>9, LenProperties
  <2>2. QED BY <2>1 DEF Register, ToSet
<1>13. PUSH_CPUSTATE \in Seq(Register)
  <2>1. \A i \in 1 .. Len(PUSH_CPUSTATE) : PUSH_CPUSTATE[i] \in Register
    BY <1>9, <1>12
  <2>2. QED BY <1>9, <2>1, OtherRange
<1>14. POP_CPUSTATE \in Seq(Register)
  <2>1. \A i \in 1 .. 15 : 16 - i \in 1 .. 15
    OBVIOUS
  <2>2. \A i \in 1 .. Len(POP_CPUSTATE) : POP_CPUSTATE[i] \in Register
    <3>1. \A i \in 1 .. 15 : PUSH_CPUSTATE[i] \in Register
      BY <1>12
    <3>2. QED BY <1>10, <1>11, <2>1, <3>1
  <2>3. QED BY <1>10, <2>2, OtherRange
<1>15. PUSH_INTFRAME \in Seq(Register)
  <2>1. \A i \in 1 .. 10 : i \in 1 .. 15 /\ i <= 10
    OBVIOUS
  <2>2. \A i \in 1 .. Len(PUSH_INTFRAME) : PUSH_INTFRAME[i] \in Register
    BY <1>2, <1>9, <1>12, <2>1
  <2>3. QED BY <1>7, <2>2, OtherRange
<1>16. POP_INTFRAME \in Seq(Register)
  <2>1. \A i \in 1 .. 10 : 11 - i \in 1 .. 10
    OBVIOUS
  <2>2. \A i \in 1 .. Len(POP_INTFRAME) : POP_INTFRAME[i] \in Register
    <3>1. \A i \in 1 .. Len(PUSH_INTFRAME) : PUSH_INTFRAME[i] \in Register
      BY <1>15, LenProperties
    <3>2. QED BY <1>2, <1>3, <2>1, <3>1
  <2>3. QED BY <1>7, <2>2, OtherRange
<1>17. Mirrors(POP_INTFRAME, PUSH_INTFRAME)
  BY <1>2, <1>3, <1>15, <1>16 DEF Mirrors
<1>18. Mirrors(POP_CPUSTATE, PUSH_CPUSTATE)
  BY <1>9, <1>10, <1>11, <1>13, <1>14 DEF Mirrors
<1>19. \A x \in Clobbered : Contains(POP_INTFRAME, x)
  BY <1>2, <1>6 DEF Contains
<1>20. ASSUME NEW x \in Register \ {"xmm0"} PROVE Contains(POP_CPUSTATE, x)
  <2>1. PICK i \in 1 .. 15 : PUSH_CPUSTATE[i] = x
    BY <1>12
  <2>2. 16 - i \in 1 .. 15 /\ 16 - (16 - i) = i
    OBVIOUS
  <2>3. QED BY <1>10, <1>11, <2>1, <2>2 DEF Contains
<1>21. QED BY <1>17, <1>18, <1>19, <1>20

LEMMA SavedInit == Init => Saved
BY DEF Init, Saved, Kept, Word

\* A tick: all registers but the floating point ones come from the frame.
LEMMA SavedTick ==
  ASSUME Saved, Tick
  PROVE  Saved'
<1> DEFINE popped == Popped(POP_CPUSTATE, frame, regs)
<1> DEFINE none == <<>>
<1>1. /\ at = "timer" /\ at' = "task"
      /\ regs' = [popped EXCEPT !["xmm0"] = "other's"]
  BY DEF Tick, Step
<1>2. PICK r : Kept(r) /\ frame = Pushed(PUSH_CPUSTATE, r, none)
  BY <1>1 DEF Saved
<1>3. regs \in [Register -> Word] /\ r \in [Register -> Word] /\ none \in Seq(Word)
  BY <1>1, <1>2 DEF Saved, Kept
<1> HIDE DEF none
<1>4. ASSUME NEW x \in Register
      PROVE  popped[x] = IF Contains(POP_CPUSTATE, x) THEN r[x] ELSE regs[x]
  <2>1. Mirrors(POP_CPUSTATE, PUSH_CPUSTATE)
    BY Stubs
  <2>2. Popped(POP_CPUSTATE, Pushed(PUSH_CPUSTATE, r, none), regs)[x] =
          IF Contains(POP_CPUSTATE, x) THEN r[x] ELSE regs[x]
    BY <1>3, <2>1, PoppedIs
  <2>3. QED BY <1>2, <2>2
<1>5. DOMAIN popped = Register
  BY DEF Popped
<1>6. popped = [x \in Register |-> popped[x]]
  BY DEF Popped
<1> HIDE DEF popped
<1>7. popped \in [Register -> Word]
  BY <1>3, <1>4, <1>6
<1>8. "other's" \in Word
  BY DEF Word
<1>9. regs' \in [Register -> Word]
  BY <1>1, <1>7, <1>8
<1>10. ASSUME NEW x \in Register \ {"r12", "xmm0"} PROVE regs'[x] = x
  <2>1. regs'[x] = popped[x]
    BY <1>1, <1>7
  <2>2. popped[x] = r[x]
    BY <1>4, Stubs
  <2>3. QED BY <1>2, <2>1, <2>2 DEF Kept
<1>11. QED BY <1>1, <1>9, <1>10 DEF Saved, Kept

\* The end of another handler: what C++ code may change comes from the frame, and
\* the rest has been kept by the handler, save for r12.
LEMMA SavedEnd ==
  ASSUME Saved, HandleInterruptEnds
  PROVE  Saved'
<1>1. at = "end" /\ at' = "task" /\ regs' = Left(frame, regs)
  BY DEF HandleInterruptEnds, Step
<1> DEFINE bottom(l) == <<l>>
<1>2. PICK r, l : Kept(r) /\ l \in Unmasked /\ frame = Entered(l, r) /\ regs = InHandler(r)
  BY <1>1 DEF Saved
<1>3. r \in [Register -> Word] /\ bottom(l) \in Seq(Word)
  BY <1>2 DEF Kept, Word
<1>4. frame = Pushed(PUSH_INTFRAME, r, bottom(l))
  BY <1>2 DEF Entered
<1> HIDE DEF bottom
<1>5. ASSUME NEW x \in Register
      PROVE  regs'[x] = IF Contains(POP_INTFRAME, x) THEN r[x] ELSE regs[x]
  <2>1. regs' = Popped(POP_INTFRAME, Pushed(PUSH_INTFRAME, r, bottom(l)), regs)
    BY <1>1, <1>4 DEF Left
  <2>2. Mirrors(POP_INTFRAME, PUSH_INTFRAME)
    BY Stubs
  <2>3. Popped(POP_INTFRAME, Pushed(PUSH_INTFRAME, r, bottom(l)), regs)[x] =
          IF Contains(POP_INTFRAME, x) THEN r[x] ELSE regs[x]
    BY <1>3, <2>2, PoppedIs
  <2>4. QED BY <2>1, <2>3
<1>6. regs' = [x \in Register |-> regs'[x]]
  BY <1>1 DEF Left, Popped
<1>7. \A x \in Register : regs[x] \in Word
  BY <1>2, <1>3 DEF InHandler, Word
<1>8. regs' \in [Register -> Word]
  BY <1>3, <1>5, <1>6, <1>7
<1>9. ASSUME NEW x \in Register \ {"r12", "xmm0"} PROVE regs'[x] = x
  <2>1. r[x] = x
    BY <1>2 DEF Kept
  <2>2. CASE Contains(POP_INTFRAME, x)
    BY <1>5, <2>1, <2>2
  <2>3. CASE ~Contains(POP_INTFRAME, x)
    <3>1. x \notin Clobbered
      BY <2>3, Stubs
    <3>2. regs[x] = x
      BY <1>2, <2>1, <3>1 DEF InHandler
    <3>3. QED BY <1>5, <2>3, <3>2
  <2>4. QED BY <2>2, <2>3
<1>10. QED BY <1>1, <1>8, <1>9 DEF Saved, Kept

LEMMA SavedAccept ==
  ASSUME Saved, NEW l \in Unmasked, Accept(l)
  PROVE  Saved'
<1>1. /\ at = "task" /\ at' = HandlerOf(l) /\ regs' = InHandler(regs)
      /\ frame' = IF l = Timer THEN Pushed(PUSH_CPUSTATE, regs, <<>>) ELSE Entered(l, regs)
  BY DEF Accept
<1>2. Kept(regs)
  BY <1>1 DEF Saved
<1>3. CASE l = Timer
  <2>1. at' = "timer"
    BY <1>1, <1>3 DEF HandlerOf, Timer, Keyboard, Mouse
  <2>2. \A x \in Register : InHandler(regs)[x] \in Word
    BY <1>2 DEF InHandler, Kept, Word
  <2>3. InHandler(regs) = [x \in Register |-> InHandler(regs)[x]]
    BY DEF InHandler
  <2>4. regs' \in [Register -> Word]
    BY <1>1, <2>2, <2>3
  <2>5. QED BY <1>1, <1>2, <1>3, <2>1, <2>4 DEF Saved
<1>4. CASE l # Timer
  <2>1. at' \in {"key_read", "mouse_status"}
    BY <1>1, <1>4 DEF HandlerOf, Unmasked, Timer, Keyboard, Mouse
  <2>2. QED BY <1>1, <1>2, <1>4, <2>1 DEF Saved
<1>5. QED BY <1>3, <1>4

LEMMA SavedStep == Saved /\ [Next]_vars => Saved'
<1> SUFFICES ASSUME Saved, [Next]_vars PROVE Saved'
  OBVIOUS
<1> USE DEF Step, locals, state, pics
<1>1. ASSUME UNCHANGED state, at' = at PROVE Saved'
  BY <1>1 DEF Saved
<1>2. ASSUME UNCHANGED state, {at, at'} \cap {"task", "timer"} = {} PROVE Saved'
  BY <1>2 DEF Saved
<1>3. CASE DeviceSends \/ TimerFires \/ UNCHANGED vars
  BY <1>1, <1>3 DEF DeviceSends, TimerFires, vars
<1>4. CASE KeyRead \/ KeyApply \/ KeyStatus \/ KeyDrain
  BY <1>2, <1>4 DEF KeyRead, KeyApply, KeyStatus, KeyDrain
<1>5. CASE MouseStatus \/ MouseRead \/ MouseFull \/ MouseDrain \/ MouseEnd
  BY <1>2, <1>5 DEF MouseStatus, MouseRead, MouseFull, MouseDrain, MouseEnd
<1>6. QED
  BY <1>3, <1>4, <1>5, SavedTick, SavedEnd, SavedAccept DEF Next, Handler

\* The code that an interrupt, a tick included, has interrupted goes on with the
\* registers it had, however many interrupts follow each other: the stubs push
\* and pop in opposite orders all that C++ code may change.
THEOREM RegistersAreKept == Spec => []RegistersSurvive
<1>1. Saved => RegistersSurvive
  BY DEF Saved, Kept, RegistersSurvive
<1>2. QED BY SavedInit, SavedStep, <1>1, PTL DEF Spec
================================================================================
