--------------------------------- MODULE Input ---------------------------------
(****************************************************************************)
(* Interrupt handling and input: InterruptManager::HandleInterrupt, the     *)
(* keyboard and mouse drivers and the input line of the terminal.  The two  *)
(* interrupt controllers and the keyboard controller, whose one output port *)
(* serves keyboard and mouse, are external: they are modelled from the port *)
(* reads and writes of the drivers.  Handlers run with interrupts off; each *)
(* port access is a step, and the devices may send a byte between any two.  *)
(****************************************************************************)
EXTENDS Frames, FiniteSetsExt

CONSTANTS
  MaxBytes    \* bound: the bytes the devices send

ASSUME InputAssumption == MaxBytes \in Nat

\* The interrupt lines that RemapPIC leaves unmasked, and the line of the first
\* controller behind which the second one sits.
Timer    == 0
Keyboard == 1
Mouse    == 12
Unmasked == {Timer, Keyboard, Mouse}
Cascade  == 2

VARIABLES
  queue,         \* the bytes the keyboard controller has not given away
  last,          \* what its port holds when there is none
  sent,          \* how many bytes the devices have sent
  irr,           \* the lines that ask for an interrupt
  pic1, pic2,    \* the interrupts each controller has in service
  at,            \* where the CPU is: in a task or at a place in a handler
  regs, frame,   \* the CPU's registers, and what the handler's stub has pushed
  read,          \* scanCode of the keyboard handler, status of the mouse's
  packetNumber,
  inputStr       \* the first inputIndex characters of the input line

pics    == <<irr, pic1, pic2>>
port    == <<queue, last>>
state   == <<regs, frame>>
locals  == <<state, read, packetNumber>>
vars    == <<port, sent, pics, at, locals, inputStr>>

Kinds == {"char", "backspace", "none"}   \* what FromScanCode makes of a byte
Byte  == [from : {Keyboard, Mouse}, n : 1 .. MaxBytes, kind : Kinds]
Blank == [from |-> Keyboard, n |-> 0, kind |-> "none"]

Init ==
  /\ queue = <<>> /\ last = Blank /\ sent = 0
  /\ irr = {} /\ pic1 = {} /\ pic2 = {}
  /\ at = "task" /\ read = Blank /\ packetNumber = 0
  /\ regs = [r \in Register |-> r] /\ frame = <<>>
  /\ inputStr = <<>>

-----------------------------------------------------------------------------
(* The hardware.                                                            *)

\* A byte arrives; the first one of the queue raises the line of its device.
DeviceSends ==
  /\ sent < MaxBytes /\ sent' = sent + 1
  /\ \E d \in {Keyboard, Mouse}, k \in Kinds :
       /\ queue' = Append(queue, [from |-> d, n |-> sent + 1, kind |-> k])
       /\ irr' = IF queue = <<>> THEN irr \cup {d} ELSE irr
  /\ UNCHANGED <<last, pic1, pic2, at, locals, inputStr>>

\* Once a millisecond, which is longer than a handler takes.
TimerFires ==
  /\ at = "task" /\ irr' = irr \cup {Timer}
  /\ UNCHANGED <<port, sent, pic1, pic2, at, locals, inputStr>>

\* What reading the data port yields; the next byte raises its line.
Data == IF queue = <<>> THEN last ELSE Head(queue)

ReadData ==
  /\ queue' = IF queue = <<>> THEN queue ELSE Tail(queue)
  /\ last' = Data
  /\ irr' = IF Len(queue) > 1 THEN irr \cup {queue[2].from} ELSE irr

\* A controller offers a line only if nothing as urgent is in service.
Level(l) == IF l = Mouse THEN Cascade ELSE l
Offered(l) == /\ l \in irr
              /\ \A m \in irr : Level(l) <= Level(m)
              /\ \A s \in pic1 : Level(l) < s
              /\ l = Mouse => pic2 = {}

\* The unspecific end of interrupt ends the most urgent one in service.
EOI(inService) == IF inService = {} THEN {} ELSE inService \ {Min(inService)}

-----------------------------------------------------------------------------
(* The handlers.                                                            *)

Step(p, q) == at = p /\ at' = q

\* The first place of a line's handler, as the IDT and SetHandler have it.
HandlerOf(l) == CASE l = Timer    -> "timer"
                  [] l = Keyboard -> "key_read"
                  [] l = Mouse    -> "mouse_status"

\* The CPU takes an interrupt; the gate keeps others out until the handler is
\* left.  Its stub pushes the registers.
Accept(l) ==
  /\ at = "task" /\ Offered(l)
  /\ at' = HandlerOf(l)
  /\ irr' = irr \ {l}
  /\ pic1' = pic1 \cup {Level(l)}
  /\ pic2' = IF l = Mouse THEN pic2 \cup {Mouse} ELSE pic2
  /\ frame' = IF l = Timer THEN Pushed(PUSH_CPUSTATE, regs, <<>>) ELSE Entered(l, regs)
  /\ regs' = InHandler(regs)
  /\ packetNumber' = 0
  /\ UNCHANGED <<port, sent, read, inputStr>>

\* PitHandler: the end of interrupt is sent before Schedule picks a task.  The
\* task interrupted goes on, sooner or later, with the state that was pushed; the
\* floating point registers are those the tasks in between have left.
Tick ==
  /\ Step("timer", "task")
  /\ pic1' = EOI(pic1)
  /\ regs' = [Popped(POP_CPUSTATE, frame, regs) EXCEPT !["xmm0"] = "other's"]
  /\ frame' = <<>>
  /\ UNCHANGED <<port, sent, irr, pic2, read, packetNumber, inputStr>>

KeyRead ==
  /\ Step("key_read", "key_apply")
  /\ ReadData /\ read' = Data
  /\ UNCHANGED <<sent, pic1, pic2, state, packetNumber, inputStr>>

AddInputCharacter(c) == Append(inputStr, c)
RemoveInputCharacter == SubSeq(inputStr, 1, Len(inputStr) - 1)

\* A release code, or a key without a character, changes nothing.
KeyApply ==
  /\ Step("key_apply", "key_status")
  /\ inputStr' = CASE read.kind = "char"      -> AddInputCharacter(read)
                   [] read.kind = "backspace" -> RemoveInputCharacter
                   [] read.kind = "none"      -> inputStr
  /\ UNCHANGED <<port, sent, pics, locals>>

\* The handler throws away whatever else the controller holds.
KeyStatus ==
  /\ Step("key_status", IF queue = <<>> THEN "end" ELSE "key_drain")
  /\ UNCHANGED <<port, sent, pics, locals, inputStr>>

\* MUTANT: the loop goes back too far.
KeyDrainReapplies ==
  /\ Step("key_drain", "key_apply")
  /\ ReadData
  /\ UNCHANGED <<sent, pic1, pic2, locals, inputStr>>

KeyDrain ==
  /\ Step("key_drain", "key_status")
  /\ ReadData
  /\ UNCHANGED <<sent, pic1, pic2, locals, inputStr>>

\* The status tells of a byte and of its device.
MouseStatus ==
  /\ IF queue = <<>> THEN Step("mouse_status", "mouse_end") /\ UNCHANGED read
                     ELSE Step("mouse_status", "mouse_read") /\ read' = Head(queue)
  /\ UNCHANGED <<port, sent, pics, state, packetNumber, inputStr>>

NextPacket == (packetNumber + 1) % 3

\* A byte of the mouse goes into the packet, one of the keyboard is lost.  The
\* movement of a complete packet has no effect yet.
MouseRead ==
  /\ ReadData
  /\ IF read.from = Mouse
       THEN /\ packetNumber' = NextPacket
            /\ Step("mouse_read", IF NextPacket = 0 THEN "mouse_full" ELSE "mouse_status")
       ELSE UNCHANGED packetNumber /\ Step("mouse_read", "mouse_status")
  /\ UNCHANGED <<sent, pic1, pic2, state, read, inputStr>>

MouseFull ==
  /\ Step("mouse_full", IF queue = <<>> THEN "mouse_end" ELSE "mouse_drain")
  /\ UNCHANGED <<port, sent, pics, locals, inputStr>>

MouseDrain ==
  /\ Step("mouse_drain", "mouse_full")
  /\ ReadData
  /\ UNCHANGED <<sent, pic1, pic2, locals, inputStr>>

\* The mouse handler ends the interrupt itself, and then HandleInterrupt does
\* so once more.
MouseEnd ==
  /\ Step("mouse_end", "end")
  /\ pic1' = EOI(pic1) /\ pic2' = EOI(pic2)
  /\ UNCHANGED <<port, sent, irr, locals, inputStr>>

\* MUTANT: only the controller the interrupt came from is told.
HandleInterruptEndsOne ==
  /\ Step("end", "task")
  /\ pic1' = pic1
  /\ pic2' = EOI(pic2)
  /\ regs' = Left(frame, regs) /\ frame' = <<>>
  /\ UNCHANGED <<port, sent, irr, read, packetNumber, inputStr>>

\* HandleInterrupt asks the frame for the number, and the stub pops the rest.
HandleInterruptEnds ==
  /\ Step("end", "task")
  /\ pic1' = EOI(pic1)
  /\ pic2' = IF int_number(frame) >= 10 THEN EOI(pic2) ELSE pic2
  /\ regs' = Left(frame, regs) /\ frame' = <<>>
  /\ UNCHANGED <<port, sent, irr, read, packetNumber, inputStr>>

Handler == \/ Tick
           \/ KeyRead \/ KeyApply \/ KeyStatus \/ KeyDrain
           \/ MouseStatus \/ MouseRead \/ MouseFull \/ MouseDrain \/ MouseEnd
           \/ HandleInterruptEnds

Next == \/ DeviceSends \/ TimerFires
        \/ \E l \in Unmasked : Accept(l)
        \/ Handler

\* The CPU works on, and is not kept from the devices by ticks alone.
Fairness == WF_vars(Handler) /\ \A l \in Unmasked : SF_vars(Accept(l))

Spec == Init /\ [][Next]_vars /\ Fairness
================================================================================
