--------------------------- MODULE PagingProperties ---------------------------
(****************************************************************************)
(* What the boot and SBRK keep true of physical pages and page tables.      *)
(****************************************************************************)
EXTENDS Paging

Virtual   == 0 .. Entries * Entries * Entries - 1
HeapPages == HeapStart .. KernelHeapEnd - 1

\* The types, and PMM's counters.
TypeOK ==
  /\ area.first \in Physical /\ screen.first \in Physical /\ tableCount \in TableCounts
  /\ phase \in {"tags", "paging", "graphics", "back", "run"}
  /\ drawn \in 0 .. screen.count
  /\ bitmap \subseteq Physical
  /\ memory.used = Cardinality(bitmap) /\ (phase # "tags" => memory.used + memory.free = area.count)
  /\ tables \in [Tables -> [0 .. Entries - 1 ->
                   [present : BOOLEAN, to : Physical \cup Tables \cup {NoPage}]]]
  /\ pool \subseteq 0 .. tableCount - 1
  /\ KernelHeapEnd \in Virtual
  /\ moving \in -MaxMove .. MaxMove /\ halted \in BOOLEAN

\* Of the memory map the kernel takes an available section, and no available one
\* is larger.
SectionIsLargest ==
  phase = "tags" => \A i \in 1 .. tag - 1 : tags[i].type = "mmap" =>
    LET available == {e \in ToSet(tags[i].entries) : e.available}
    IN  /\ \E e \in available : area = [first |-> e.first, count |-> e.count]
        /\ \A e \in available : area.count >= e.count

\* The screen is the one the boot loader reports, if it does so after the memory
\* map: the case that falls through has misread the map before that.
ScreenIsReported ==
  phase = "tags" => \A i \in 1 .. tag - 1 :
    /\ tags[i].type = "framebuffer"
    /\ \A j \in i + 1 .. Len(tags) : tags[j].type = "other"
    => screen = [first |-> tags[i].first, count |-> tags[i].count]

\* No physical page is behind two virtual ones: not two pages of the heap, nor
\* one of the heap and the kernel, the screen or its back buffer.
OnePageOneUse ==
  \A v, w \in Virtual :
    v # w /\ GetPhysAddr(v) # NoPage => GetPhysAddr(v) # GetPhysAddr(w)

\* What is mapped of the pages PMM manages is locked, so that AllocatePage does not
\* hand it out again; and what is locked is mapped, so that no page gets lost.
LockedIsMapped ==
  LET InUse == (0 .. KernelPages - 1) \cup ({GetPhysAddr(v) : v \in Virtual} \ {NoPage})
  IN  phase = "run" /\ ~halted => InUse \cap Managed \subseteq bitmap /\ bitmap \subseteq InUse

\* The heap is mapped without a hole from its start to the break, and nothing is
\* beyond it.
HeapIsMapped ==
  \A v \in HeapStart .. FrameBuffer - 1 : GetPhysAddr(v) # NoPage <=> v \in HeapPages

\* No two entries of the tables lead to the same table, and exactly the tables
\* taken from the pool are in use.
TablesAreATree ==
  LET Used == {e \in {P4Table} \X (0 .. Entries - 1) : tables[e[1]][e[2]].present}
      Inner == {e \in {tables[d[1]][d[2]].to : d \in Used} \X (0 .. Entries - 1) :
                  tables[e[1]][e[2]].present}
      To(e) == tables[e[1]][e[2]].to
  IN  ~halted =>
        /\ \A d, e \in Used \cup Inner : To(d) = To(e) => d = e
        /\ {To(e) : e \in Used \cup Inner} \ {P3Table, P2Table} = {PoolTable(i) : i \in pool \ {0}}

\* SBRK never touches what the boot has mapped: the kernel, screen, back buffer.
BootMappingsStay ==
  [][phase = "run" =>
       \A v \in {KernelOffset} \cup FrameBuffer .. Entries * Entries * Entries - 1 :
         GetPhysAddr(v)' = GetPhysAddr(v)]_vars

\* Every SBRK returns, also when the pages run out or the heap is empty, unless it
\* ends in a page fault: the page tables run out, or the next free page is at 2 GB.
SBRKReturns == \A n \in 1 .. MaxMove :
  /\ moving = n  ~> halted \/ moving = 0
  /\ moving = -n ~> halted \/ moving = 0

\* `Lock both the kernel region and boot sector', pmm.cpp:27: no page of the
\* kernel is left for AllocatePage.
KernelIsLocked == phase # "tags" => 0 .. KernelPages - 1 \subseteq bitmap
===============================================================================
