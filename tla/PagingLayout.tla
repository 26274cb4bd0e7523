----------------------------- MODULE PagingLayout -----------------------------
(****************************************************************************)
(* What the proofs about the boot and the page managers assume: of what the *)
(* boot loader reports, and of how it fits the layout of the address space. *)
(****************************************************************************)
EXTENDS PagingProperties

\* The available sections of a memory map that are as large as any.
LargestOf(entries) ==
  LET free == {e \in ToSet(entries) : e.available}
  IN  {[first |-> e.first, count |-> e.count] :
         e \in {f \in free : \A g \in free : f.count >= g.count}}

MemoryMaps(list) == {i \in DOMAIN list : list[i].type = "mmap"}
ScreenTags(list) == {i \in DOMAIN list : list[i].type = "framebuffer"}

\* A sequence of tags, of which one is a memory map.
Reported(list) ==
  /\ Len(list) \in Nat /\ DOMAIN list = 1 .. Len(list)
  /\ \A i, j \in MemoryMaps(list) : i = j
  /\ \A i \in MemoryMaps(list) :
       /\ Len(list[i].entries) \in Nat /\ DOMAIN list[i].entries = 1 .. Len(list[i].entries)
       /\ \A k \in 1 .. Len(list[i].entries) :
            list[i].entries[k].count \in Nat /\ list[i].entries[k].available \in BOOLEAN

\* What the walk over the tags may end with.
Areas(list)   == {None} \cup UNION {LargestOf(list[i].entries) : i \in MemoryMaps(list)}
Screens(list) == {None, Misread} \cup
  {[first |-> list[i].first, count |-> list[i].count] : i \in ScreenTags(list)}

\* The section begins at 0, where PMM::Initialize locks the kernel's pages; what it
\* has besides those fits between HeapStart and FrameBuffer; the screen fits before
\* and behind BackBuffer; and it is neither memory nor the kernel's.
Fits(a, s) ==
  /\ a.first = 0 /\ {a.count, s.first, s.count} \subseteq Nat
  /\ 0 .. a.count - 1 \subseteq Physical /\ {0, s.first} \subseteq Physical
  /\ s.first .. s.first + s.count - 1 \subseteq Physical
  /\ \A q \in s.first .. s.first + s.count - 1 : q >= a.count /\ q >= KernelPages
  /\ HeapStart + a.count <= FrameBuffer + KernelPages
  /\ FrameBuffer + s.count <= BackBuffer
  /\ BackBuffer + s.count <= Entries * Entries * Entries

\* The kernel's addresses come first; all from there on share one entry of the
\* topmost table, as the last 512 GB do.
Layout ==
  /\ \A list \in TagLists :
       Reported(list) /\ \A a \in Areas(list), s \in Screens(list) : Fits(a, s)
  /\ 0 .. KernelPages - 1 \subseteq Physical /\ TableCounts \subseteq Nat \ {0}
  /\ KernelOffset < HeapStart /\ HeapStart <= FrameBuffer /\ FrameBuffer <= BackBuffer
  /\ \A v \in KernelOffset .. Entries * Entries * Entries - 1 : P4INDEX(v) = P4INDEX(KernelOffset)

ASSUME LayoutAssumption == Layout
===============================================================================
