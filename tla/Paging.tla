-------------------------------- MODULE Paging --------------------------------
(****************************************************************************)
(* The two page managers: PMM, a bitmap over the 2 MB pages of physical     *)
(* memory, and VMM, the page tables and SBRK.  prekernel sets both up,      *)
(* Graphics::Setup maps the framebuffer and its back buffer, and from then  *)
(* on only the allocator calls them, through SBRK and under heapLock.  The  *)
(* loops are one step per page.  Addresses are counted in pages.            *)
(****************************************************************************)
EXTENDS Boot, FiniteSetsExt

CONSTANTS
  Physical,        \* the physical pages
  TableCounts,     \* how many page tables may fit behind the kernel
  KernelPages,     \* the kernel's physical pages are 0 .. KernelPages - 1
  Entries,         \* entries of a page table
  KernelOffset, HeapStart, FrameBuffer, BackBuffer,   \* virtual pages
  IntPages,        \* the pages whose address is an int: those below 2 GB
  MaxMove          \* bound: the pages one SBRK moves the break by

ASSUME PagingAssumption ==
  /\ Physical \subseteq Nat /\ KernelPages \in Nat \ {0}
  /\ TableCounts \subseteq Nat /\ Entries \in Nat \ {0} /\ MaxMove \in Nat /\ IntPages \in Nat
  /\ {KernelOffset, HeapStart, FrameBuffer, BackBuffer} \subseteq 0 .. Entries * Entries * Entries - 1

VARIABLES
  tableCount,  \* the page tables that fit behind the kernel
  phase,       \* "tags", "paging", "graphics", "back" or "run"
  drawn,       \* frameBufferPagesMapped of Graphics::Setup
  bitmap,      \* PMM::bitmap, the pages whose bit LockPages has set
  memory,      \* usedMemory and freeMemory, in pages
  tables,      \* the contents of the page tables
  pool,        \* VMM::bitmap, the tables whose bit is set
  KernelHeapEnd,
  moving,      \* the pages the SBRK under way has still to move the break by
  halted       \* a page fault: its handler halts with interrupts off

boot == <<bootInformation, info, tableCount>>
pmm  == <<bitmap, memory>>
vmm  == <<tables, pool>>
vars == <<boot, phase, drawn, pmm, vmm, KernelHeapEnd, moving, halted>>

NoPage == -1

-----------------------------------------------------------------------------
(* PMM.                                                                     *)

\* bitmap.Count: the bits are those of the pages from address 0 on.
Managed == 0 .. area.count - 1

\* The bits of the bytes Initialize clears.  Nothing checks an index: behind them,
\* where the pages of the framebuffer have theirs, a bit is what it happens to be.
Cleared == 0 .. 8 * (area.count \div 8 + 1) - 1
Uncleared(p, n) == (p .. p + n - 1) \ Cleared

\* LockPages and FreePages stop at the first page that is as wanted already; set
\* holds the bits that are set.
Lockable(p, n, set) == {q \in p .. p + n - 1 : \A r \in p .. q : r \notin set}
Freeable(p, n)      == {q \in p .. p + n - 1 : \A r \in p .. q : r \in bitmap}

LockPages(p, n) == \E stray \in SUBSET Uncleared(p, n) :
  LET locked == Lockable(p, n, bitmap \cup stray)
  IN  /\ bitmap' = bitmap \cup locked
      /\ memory' = [used |-> memory.used + Cardinality(locked),
                    free |-> memory.free - Cardinality(locked)]

\* MUTANT: the counters are not told.
FreePagesUncounted(p, n) == bitmap' = bitmap \ Freeable(p, n) /\ UNCHANGED memory

FreePages(p, n) ==
  /\ bitmap' = bitmap \ Freeable(p, n)
  /\ memory' = [used |-> memory.used - Cardinality(Freeable(p, n)),
                free |-> memory.free + Cardinality(Freeable(p, n))]

\* The page AllocatePage finds, -1 if all are locked.
FirstFree == IF Managed \subseteq bitmap THEN NoPage ELSE Min(Managed \ bitmap)

\* MUTANT: the page found is not locked.
AllocatePageUnlocked == UNCHANGED <<bitmap, memory>>

AllocatePage == IF FirstFree = NoPage THEN UNCHANGED pmm ELSE LockPages(FirstFree, 1)

-----------------------------------------------------------------------------
(* VMM.                                                                     *)

P4INDEX(v) == v \div (Entries * Entries)
P3INDEX(v) == (v \div Entries) % Entries
P2INDEX(v) == v % Entries

\* The tables SetupPaging lays out, and those of the pool behind them.
P4Table == 0
P3Table == 1
P2Table == 2
PoolTable(i) == 3 + i
Tables == 0 .. 2 + tableCount

Absent == [present |-> FALSE, to |-> NoPage]
Present(x) == [present |-> TRUE, to |-> x]

\* MUTANT: the bit of the table found has not been set.
FreshReused(p) == IF tableCount > 1 THEN 1 ELSE NoPage

\* The table AllocatePageTable finds, -1 if the pool is empty.
Fresh(p) == IF 0 .. tableCount - 1 \subseteq p THEN NoPage
            ELSE Min((0 .. tableCount - 1) \ p)

\* The table entry i of table t leads to in s; MapPage allocates a missing one,
\* and does not ask whether that worked: nullptr has no physical address.
Below(s, t, i) ==
  LET k == Fresh(s.pool)
  IN  IF s.tables[t][i].present THEN [s EXCEPT !.at = s.tables[t][i].to]
      ELSE IF k = NoPage
        THEN [s EXCEPT !.at = NoPage, !.tables[t][i] = Present(NoPage)]
        ELSE [tables |-> [s.tables EXCEPT ![t][i] = Present(PoolTable(k)),
                                          ![PoolTable(k)] = [j \in 0 .. Entries - 1 |-> Absent]],
              pool   |-> s.pool \cup {k},
              at     |-> PoolTable(k)]

\* MapPage: down to the P2 table of v, whose entry is overwritten; a write
\* through a missing table is a page fault.
MapPage(v, p) ==
  LET root == [tables |-> tables, pool |-> pool, at |-> P4Table]
      p3   == Below(root, P4Table, P4INDEX(v))
      p2   == IF p3.at = NoPage THEN p3 ELSE Below(p3, p3.at, P3INDEX(v))
  IN  /\ pool' = p2.pool
      /\ halted' = (p2.at = NoPage)
      /\ tables' = IF p2.at = NoPage THEN p2.tables
                   ELSE [p2.tables EXCEPT ![p2.at][P2INDEX(v)] = Present(p)]

\* The P2 table of v, and the physical page behind v.
TableOf(v) ==
  LET e4 == tables[P4Table][P4INDEX(v)]
      e3 == tables[e4.to][P3INDEX(v)]
  IN  IF e4.present /\ e3.present THEN e3.to ELSE NoPage

GetPhysAddr(v) ==
  IF TableOf(v) # NoPage /\ tables[TableOf(v)][P2INDEX(v)].present
    THEN tables[TableOf(v)][P2INDEX(v)].to
    ELSE NoPage

\* MUTANT: the page table is left as it is.
UnmapPageStays(v) == UNCHANGED tables

UnmapPage(v) ==
  tables' = IF TableOf(v) = NoPage THEN tables
            ELSE [tables EXCEPT ![TableOf(v)][P2INDEX(v)].present = FALSE]

\* AllocatePage, and MapPage of what it returns.  The address it computes from i
\* is an int: at 2 GB it turns negative, and LockPages faults on its bit.
MapAllocated(v) ==
  IF FirstFree < IntPages THEN AllocatePage /\ MapPage(v, FirstFree)
                          ELSE halted' = TRUE /\ UNCHANGED <<pmm, vmm>>

-----------------------------------------------------------------------------
(* The boot.                                                                *)

Init ==
  /\ BootInit /\ tableCount \in TableCounts
  /\ phase = "tags" /\ drawn = 0
  /\ bitmap = {} /\ memory = [used |-> 0, free |-> 0]
  /\ tables = [t \in Tables |-> [i \in 0 .. Entries - 1 |-> Absent]]
  /\ pool = {}
  /\ KernelHeapEnd = HeapStart /\ moving = 0 /\ halted = FALSE

ReadTag ==
  /\ phase = "tags"
  /\ ScreenTag \/ MemoryTag \/ OtherTag
  /\ UNCHANGED <<tableCount, phase, drawn, pmm, vmm, KernelHeapEnd, moving, halted>>

\* PMM::Initialize locks as many pages as the kernel has, from freeRegion on.
PMMInitialize ==
  /\ phase = "tags" /\ EndOfTags /\ phase' = "paging"
  /\ \E stray \in SUBSET Uncleared(area.first, KernelPages) :
       LET locked == Lockable(area.first, KernelPages, stray)
       IN  /\ bitmap' = locked
           /\ memory' = [used |-> Cardinality(locked), free |-> area.count - Cardinality(locked)]
  /\ Discard
  /\ UNCHANGED <<info, tableCount, drawn, vmm, KernelHeapEnd, moving, halted>>

\* SetupPaging(.., 1): one page of the kernel is mapped, and the bits of the
\* tables the bitmap itself lies on are set.
SetupPaging ==
  /\ phase = "paging" /\ phase' = "graphics"
  /\ tables' = [tables EXCEPT ![P4Table][P4INDEX(KernelOffset)] = Present(P3Table),
                              ![P3Table][P3INDEX(KernelOffset)] = Present(P2Table),
                              ![P2Table][P2INDEX(KernelOffset)] = Present(0)]
  /\ pool' = {0}
  /\ KernelHeapEnd' = HeapStart
  /\ UNCHANGED <<boot, drawn, pmm, moving, halted>>

Running(p) == phase = p /\ ~halted

\* A turn of the loop of Graphics::Setup: the page of the framebuffer ...
MapScreen ==
  /\ Running("graphics") /\ drawn < screen.count
  /\ phase' = "back"
  /\ MapPage(FrameBuffer + drawn, screen.first + drawn)
  /\ LockPages(screen.first + drawn, 1)
  /\ UNCHANGED <<boot, drawn, KernelHeapEnd, moving>>

\* ... and one of the back buffer; nobody asks whether there was one.
MapBack ==
  /\ Running("back")
  /\ phase' = "graphics" /\ drawn' = drawn + 1
  /\ MapAllocated(BackBuffer + drawn)
  /\ UNCHANGED <<boot, KernelHeapEnd, moving>>

SetupDone ==
  /\ Running("graphics") /\ drawn = screen.count
  /\ phase' = "run"
  /\ UNCHANGED <<boot, drawn, pmm, vmm, KernelHeapEnd, moving, halted>>

-----------------------------------------------------------------------------
(* SBRK, called by malloc with what it needs and by free with whole pages.  *)

Call(n) ==
  /\ Running("run") /\ moving = 0
  /\ moving' = n
  /\ UNCHANGED <<boot, phase, drawn, pmm, vmm, KernelHeapEnd, halted>>

Up ==
  /\ Running("run") /\ moving > 0 /\ FirstFree # NoPage
  /\ MapAllocated(KernelHeapEnd)
  /\ IF halted' THEN UNCHANGED <<KernelHeapEnd, moving>>
                ELSE KernelHeapEnd' = KernelHeapEnd + 1 /\ moving' = moving - 1
  /\ UNCHANGED <<boot, phase, drawn>>

\* MUTANT: waits for a page instead of giving up.
OutOfPagesRetries ==
  /\ Running("run") /\ moving > 0 /\ FirstFree = NoPage
  /\ UNCHANGED vars

\* Returns -1; the pages it has got stay mapped.
OutOfPages ==
  /\ Running("run") /\ moving > 0 /\ FirstFree = NoPage
  /\ moving' = 0
  /\ UNCHANGED <<boot, phase, drawn, pmm, vmm, KernelHeapEnd, halted>>

\* MUTANT: the page above the break is the one that goes.
TopIsBreak == KernelHeapEnd

\* The page SBRK gives back, moving the break down.
Top == KernelHeapEnd - 1

Down ==
  /\ Running("run") /\ moving < 0 /\ KernelHeapEnd # HeapStart
  /\ KernelHeapEnd' = KernelHeapEnd - 1
  /\ UnmapPage(Top)
  /\ FreePages(GetPhysAddr(Top), 1)
  /\ moving' = moving + 1
  /\ UNCHANGED <<boot, phase, drawn, pool, halted>>

Empty ==
  /\ Running("run") /\ moving < 0 /\ KernelHeapEnd = HeapStart
  /\ moving' = 0
  /\ UNCHANGED <<boot, phase, drawn, pmm, vmm, KernelHeapEnd, halted>>

SBRK == Up \/ OutOfPages \/ Down \/ Empty

Next == \/ ReadTag \/ PMMInitialize \/ SetupPaging
        \/ MapScreen \/ MapBack \/ SetupDone
        \/ \E n \in (-MaxMove .. MaxMove) \ {0} : Call(n)
        \/ SBRK

Spec == Init /\ [][Next]_vars /\ WF_vars(SBRK)
===============================================================================
