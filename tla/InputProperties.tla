---------------------------- MODULE InputProperties ----------------------------
(****************************************************************************)
(* What interrupt handling and the drivers keep true.                       *)
(****************************************************************************)
EXTENDS Input

PlacesOf(l) == CASE l = Timer    -> {"timer"}
                 [] l = Keyboard -> {"key_read", "key_apply", "key_status", "key_drain"}
                 [] l = Mouse    -> {"mouse_status", "mouse_read", "mouse_full", "mouse_drain",
                                     "mouse_end"}

\* Interrupted code goes on with the registers it had.  Two are left out, which the
\* code does not save: r12, in which isr_wrapper keeps the stack pointer, and the
\* floating point registers.
RegistersSurvive ==
  at = "task" => \A r \in Register \ {"r12", "xmm0"} : regs[r] = r

\* No interrupt is left in service when its handler has returned (it would keep
\* its line, and the less urgent ones, quiet for good), and none is ended while
\* its handler still runs, although the mouse handler and HandleInterrupt both
\* send the end of interrupt.
InServiceIsHandled ==
  /\ at = "task" => pic1 = {} /\ pic2 = {}
  /\ at \notin {"task", "end"} =>
       \E l \in Unmasked : at \in PlacesOf(l) /\ pic1 = {Level(l)}

\* The input line holds bytes in the order in which they were sent, and none more
\* than twice: a handler that reads a port the other one has emptied, and throws
\* away what it finds beyond the first byte, may lose or repeat a key but brings
\* none back later.
KeysInOrder ==
  /\ \A i, j \in DOMAIN inputStr : i < j => inputStr[i].n <= inputStr[j].n
  /\ \A i \in DOMAIN inputStr : i > 2 => inputStr[i].n # inputStr[i - 2].n

\* The controller's port does not stay occupied, which would keep both devices
\* silent: bytes that wait are read, used or not.
BytesAreRead == queue # <<>> ~> queue = <<>>
================================================================================
