--------------------------- MODULE DesktopProperties ---------------------------
(****************************************************************************)
(* What the desktop service keeps true.                                     *)
(****************************************************************************)
EXTENDS Desktop

\* The types of the variables.
TypeOK ==
  /\ windows \in [Slots -> Client \cup {nullptr}] /\ windowCount \in 0 .. MaxWindows
  /\ windowLock \in BOOLEAN /\ IsDirty \in [Client -> BOOLEAN]
  /\ {buffer, screen} \subseteq [Client -> [1 .. Rows -> Drawings]]
  /\ pc \in [Client -> {"start", "search", "publish", "count", "draw", "wait", "refused"}]
  /\ i \in 0 .. MaxWindows /\ y \in 1 .. Rows + 1
  /\ window \in Client \cup {nullptr}

\* Update, which takes no lock, never finds a hole below windowCount, and every
\* window that CreateWindow has returned is below it, in a slot of its own.
EveryWindowCounts ==
  /\ \A k \in 0 .. windowCount - 1 : windows[k] # nullptr
  /\ \A c \in Client : pc[c] \in {"draw", "wait"} =>
       \E k \in 0 .. windowCount - 1 : windows[k] = c

\* A drawing whose Window::Update does not fall into the copying of the very
\* window reaches the screen, unless the task begins the next one before.
UpdatesAreShown ==
  \A c \in Client :
    IsDirty[c] /\ pc[c] = "wait" /\ window # c ~> screen[c] = buffer[c] \/ pc[c] # "wait"
================================================================================
