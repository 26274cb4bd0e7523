-------------------------------- MODULE Frames --------------------------------
(****************************************************************************)
(* What the assembly stubs put on the stack of the code they interrupt and  *)
(* take from it again.  A stack is the sequence of its words, the top one   *)
(* first; a register holds a value that is named after the register, until  *)
(* something else has been written to it.                                   *)
(****************************************************************************)
EXTENDS Integers, SequencesExt

PUSH_INTFRAME == <<"rax", "rcx", "rdx", "rbp", "rsi", "rdi", "r8", "r9", "r10", "r11">>
PUSH_CPUSTATE == PUSH_INTFRAME \o <<"r12", "r13", "r14", "r15", "rbx">>

\* MUTANT: two registers in the order in which they were pushed.
POP_INTFRAMESwapped == <<"r11", "r10", "r9", "r8", "rdi", "rsi", "rbp", "rcx", "rdx", "rax">>

POP_INTFRAME == <<"r11", "r10", "r9", "r8", "rdi", "rsi", "rbp", "rdx", "rcx", "rax">>
POP_CPUSTATE == <<"rbx", "r15", "r14", "r13", "r12">> \o POP_INTFRAME

\* All registers; of the floating point ones, which no stub saves, one.
Register == ToSet(PUSH_CPUSTATE) \cup {"xmm0"}

\* The register that was pushed last is on top.
Pushed(registers, regs, stack) ==
  [i \in DOMAIN registers |-> regs[registers[Len(registers) + 1 - i]]] \o stack

\* The registers after a sequence of pops.
Popped(registers, stack, regs) ==
  [r \in Register |-> IF Contains(registers, r) THEN stack[CHOOSE i \in DOMAIN registers : registers[i] = r]
                                                ELSE regs[r]]

\* A C++ function keeps what its caller may rely on, and nothing else.
Clobbered == {"rax", "rcx", "rdx", "rsi", "rdi", "r8", "r9", "r10", "r11"}

\* The stubs keep the stack pointer in r12 while it is aligned for the call.
InHandler(regs) ==
  [r \in Register |-> CASE r = "r12"      -> "rsp"
                        [] r \in Clobbered -> "handler's"
                        [] OTHER           -> regs[r]]

\* ISR_NOERR and isr_wrapper: the number is on the stack below the registers.
\* The frame of the CPU lies further below and is given back by iretq.
Entered(number, regs) == Pushed(PUSH_INTFRAME, regs, <<number>>)

\* The word of int_frame_t that holds the number.
int_number(frame) == frame[Len(PUSH_INTFRAME) + 1]

Left(frame, regs) == Popped(POP_INTFRAME, frame, regs)
===============================================================================
