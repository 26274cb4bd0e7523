# DjidOS in TLA+

DjidOS is a 64-bit higher-half hobby kernel in C++ with a little assembly
(`src/`). This directory models the parts of it that keep state: the task
scheduler, the kernel heap, the boot with physical and virtual memory, interrupt
dispatch with the keyboard and mouse drivers, the terminal on its framebuffer,
and the desktop service. It model-checks them with TLC and proves with TLAPS, for
every value of the parameters, what it says of scheduler, heap, boot and paging,
desktop, interrupt handling and the terminal (liveness excepted). Paths such as
`scheduler.cpp:139` are relative to `src/kernel/scheduling/`,
`src/kernel/memory/`, `src/kernel/`, `src/drivers/` and `src/interface/` of the
repository; `PROJECT.json` has, for each definition, the exact lines it models.

## The system

| component | code | state | operations |
|---|---|---|---|
| Boot | `main.cpp`, `boot.asm` | the boot loader's tags, `info` | `prekernel`, `kernel_main` |
| Physical memory (PMM) | `pmm.cpp`, `bitmap.cpp` | `bitmap`, `usedMemory`, `freeMemory` | `Initialize`, `AllocatePage`, `LockPages`, `FreePages` |
| Virtual memory (VMM) | `vmm.cpp` | page tables, the pool's `bitmap`, `KernelHeapEnd` | `SetupPaging`, `MapPage`, `UnmapPage`, `GetPhysAddr`, `AllocatePageTable`, `SBRK` |
| Heap | `alloc.cpp` | `freeList`, `freesSinceMerge`, `heapLock` | `malloc`, `free`, `realloc`, `merge` |
| Scheduler | `scheduler.cpp`, `locking.cpp`, `time.cpp` | `Tasks`, `taskCount`, `currentTask`, `idle`, `taskStartLock` | `StartTask`, `Stop`, `Sleep`, `Wait`, `Exit`, `Schedule` |
| Interrupts | `interrupt.cpp`, `interrupts_assembly.asm` | `handlers`, the controllers, the frame a stub pushes | `HandleInterrupt`, `SetHandler`, `RemapPIC`, the stubs |
| Drivers | `keyboard.cpp`, `mouse.cpp` | - (each call starts afresh) | `HandleInterrupt` |
| Terminal | `terminal.cpp` | `inputStr`, `inputIndex` | `AddInputCharacter`, `RemoveInputCharacter`, `Print`, `Println` |
| Desktop | `desktop_service.cpp` | `windows`, `windowCount`, `IsDirty`, buffers | `CreateWindow`, `Window::Update`, `Update` |
| Graphics | `interface_graphics.cpp`, `memory.cpp` | framebuffer, back buffer | `Setup`, `DrawBox`, `DrawString`, `memcpy`, `memset` |

How they interact:

* `malloc` and `free` call `VMM::SBRK` under `heapLock`; `SBRK` calls
  `PMM::AllocatePage`/`FreePages` and `MapPage`/`UnmapPage` page by page (a page
  has 2 MB). `Graphics::Setup` maps the framebuffer with the same functions.
* The timer (1000 Hz) interrupts whatever executes; `PitHandler` pushes a frame
  and `Schedule` saves it, ages the sleepers, reaps stopped tasks and loads the
  frame of the next ready one. There is one CPU. Handlers run behind interrupt
  gates with interrupts off; everything else can be preempted between any two
  instructions, also while it holds a spinlock.
* `Task`'s constructor calls `malloc` for the stack. `Schedule` does so, too, when
  it clears a slot with `Tasks[..] = nullptr`: inside the interrupt handler.
* A keyboard or mouse interrupt goes through `HandleInterrupt` to the driver,
  which reads the one data port both devices share and edits the input line.
* Tasks print and draw on the framebuffer with interrupts on and without a lock;
  `Schedule` prints there from within a tick (`Stopped task %ld`), and the keyboard
  handler redraws the input line, the last line of the screen.
* Window tasks and the desktop task share the window table and the `IsDirty`
  flags; only `CreateWindow` takes a lock. (`kernel_main` starts the three tasks
  of `main.cpp:78-145`; the starts of the window tasks and `DesktopTask`'s call of
  `Update` are in comments at present, the service is modelled as they use it.)

What is hard: preemption inside `StartTask`, `Wait` and `CreateWindow`; pointers
into `Tasks` kept over ticks while the table is compacted; a loop whose modulus
changes while it runs; locks held by preempted tasks; `realloc`, which is two
critical sections; a break that moves page by page and fails half-way; a shared
data port that other handlers drain; scrolling that is torn by others who scroll;
registers that a handler or another task overwrites. `PROJECT.json` lists these
hazards one by one, at their lines, with the properties that would catch them.

## Modules

`X.tla` models, `XProperties.tla` states what is expected, `MCX.tla` makes the
instance that the `.cfg` files give to TLC, `XProofs.tla` holds proofs. (Those about the
terminal are in three modules, each building on the one before: `NumeralProofs`,
`PrintoutProofs`, `TerminalProofs`.)
Definitions whose comment begins with `MUTANT` are faulty variants of the
definition after them; nothing uses them except the test that each property can
fail.

### Scheduler, RoundRobin

`Scheduler` names a task by its stack. `Tasks`, `taskCount`, `currentTask`,
`idle` and the locks are the code's variables; `cpu` is the context that executes,
`pc` and `loc` say where in which call each context is and what that call's local
variable holds, and `scheduling`, `visit`, `nextTask` are the locals of
`Schedule`. A call is broken into the steps between which a tick makes a
difference: `StartTask` into acquiring the lock, each probe of the search, filling
the slot, and the load and the store of `taskCount++`; `Wait` into fetching the
slot, the two writes of `Sleep`, and the spinning. `TickEnter` saves the frame,
`VisitIdle/Sleeping/Stopping/Other` are one turn of the loop each, `Dispatch` is
what follows it. `VisitStopping` needs `heapLock` free because clearing a slot
calls `malloc`. `ExitResumes` is the device interrupt that ends Exit's `hlt`. `Stop`
writes to any slot in any state: `StartTask` returns pointers into the table, and they
stay with the callers when the slots have been moved, cleared or filled again. The idle
task may be interrupted before it has set `IsAlive` (`IdleFrames`).
Abstracted: `CpuTime` and `ShouldStop` (nothing depends on them); a frame is the
stack it lies on, or `Nowhere` for one that leads to no code of a task. The
filling of a slot (`scheduler.cpp:84-87`) is one step, as nothing else looks at
that slot before it is counted; `malloc` by a task is a critical section only.

`RoundRobin` is what the scheduler promises while nobody stops a task: on a tick
every sleeper comes one tick closer to waking, and the CPU goes to the first task
after the current one that was ready. `Scheduler` refines it: the mapping
anticipates, from the first step of `Schedule`, what the rest of the loop will do.

### Heap, HeapCalls, Allocator

Memory is counted in units of 8 bytes; a block is its header's address and the
size behind the one-unit header (`sizeof(used_block)` is 8). `freeList` is the
list as a sequence, `used` the blocks handed out, `brk` the break and `frames`
what PMM has left. `malloc` and `free` are atomic (they run under `heapLock`), and
each is a disjunction of its paths: from the list, from a new batch, by extending
the last block, failing; keeping, merging, merging and trimming. A failing ASSERT
hangs with the lock taken; `failed` records which one and everything stops.
`HeapCalls` adds the callers, `realloc` in its two halves (`ZeroSpec` with
`realloc(ptr, 0)`, which has three). `Allocator` is an allocator in three actions,
refined by `HeapCalls`.

### Boot, Paging

`Boot` is the first loop of `prekernel`: the tags the boot loader has left, one per
step, and what `info` holds of them. The case of the memory map has no break, so it
also reads the map as a framebuffer; of that only matters that the result has no
pixels. The tags are forgotten after the walk, as the code allows.

`Paging` extends `Boot` and goes on from `PMM::Initialize` over `SetupPaging` and
`Graphics::Setup` to any sequence of `SBRK` calls, one page per step. Page tables are functions with three levels like
the code's; `Entries` (512) is a parameter, so that addresses are small numbers.
`pool` is the bitmap of the page tables, whose first bit covers the bitmap itself.
`halted` is a page fault: of a write through a table that could not be had, or of
`AllocatePage` when the next free page is at 2 GB, where its `int` product overflows
(`MapAllocated`; `IntPages` is 1024 in the code). Nothing compares an index with the size
of the bitmap: the bits of the framebuffer's pages lie behind the bytes `Initialize`
clears, and `LockPages` may find them set (`stray`); `bitmap` holds those it has set.
Setting such a bit writes to memory the bitmap does not own, the gap before the page
tables or, if `_KernelEnd` lies in the last bytes of 4 KB, a page table; that write is not
modelled.
Atomic per page, because all callers are either the boot or under `heapLock`.
`PagingLayout` states what the proofs assume of the boot loader's report and of the
layout of the address space; `MCPaging` is an instance of it, `MCPagingHigh` is not.

### Frames, Input

`Frames` has the assembly stubs as operators on stacks, which are sequences of words:
what `PUSH_INTFRAME` and `PUSH_CPUSTATE` push, what the pops take off again, and
where `HandleInterrupt` finds the number. A register holds a value named after it
until something writes to it; the handlers overwrite every register a C++ function
may. `Input` uses it: `Accept` pushes, `Tick` and `HandleInterruptEnds` pop.

The 8042's queue and data port and the two 8259A controllers are external,
modelled from how the drivers use them: reading the port with nothing in it
returns the last byte again; an end of interrupt ends the most urgent one in
service. Each port access of a handler is a step and a device may send between
any two. Scan codes are what the handler does with them (a character, backspace,
nothing); bytes carry their number so that order and repetition can be seen.

### Canvas, Terminal

`Canvas` is the framebuffer as linear memory and the four routines that write to it,
each a sequence of writes: a pixel row of a block, or a glyph. Between two writes
their context may be preempted. (A real preemption may split a pixel row or a glyph,
too; the properties that hold at any time speak of pixel rows and of the input line,
which only handlers write to, so a finer grain adds nothing to them.) A pixel shows
the background, or which row of which glyph it belongs to; the glyphs' bitmaps and
the colours are left out.

`Terminal` has `Print` as an operator from a format, already cut into items, to the
writes it makes; `Println` scrolls first. `Begin` fixes what a call writes, which
depends on its arguments only, and `Draw` performs one write. `ScheduleReports`, the
`Println` in `Schedule`, and `AddInputCharacter`/`RemoveInputCharacter`, called by the
keyboard handler, run with interrupts off and are one step each. `since` records the
last call and the screen it found, for the property that compares both. What a call
shall show is defined without the model's loops and writes: `Spelled` picks the shortest
numeral from the powers of the base, `Page` sets the items in lines, and `Printout` says of
each pixel which character stands over it or how far what was there has scrolled.
`TerminalLayout` states what the proofs assume of the programs that print, which the
code does not check; `MCTerminal` is an instance of it.

### Desktop

`CreateWindow` is broken into lock, search with construction, writing the slot, and
counting; drawing and copying go row by row; `Clean` clears `IsDirty` after the
last row. `Update` reads `windowCount` and `windows` without the lock, as the code
does. Geometry is left out; every window has the same height.

## Runs

| run | what it checks | bounds | result |
|---|---|---|---|
| `scheduler_api` | consistency of table, CPU and stacks, whatever is called and whichever slot is stopped; the machine hangs in the two known ways only | 3 slots, 3 tasks, waits of 0 and 1 ms, counter modulo 3, the idle task may be slow | holds |
| `scheduler_nostop` | no lost start, the CPU goes nowhere in the one known way only, refinement of `RoundRobin` | 4 slots, 5 tasks (the table overflows), waits of 1 and 2 ms, the idle task may be slow | holds |
| `scheduler_live` | ready tasks run, waits end, locks are released, unless the CPU was sent nowhere | 3 slots, 3 tasks, waits of 2 ms, the idle task may be slow | holds |
| `scheduler_stop` | only tasks that were asked to stop are stopped | 3 slots | **violated** |
| `heap` | blocks disjoint, list sorted, nothing lost, merge complete, refinement | 3 pages of 4 units, 2 callers, merge after 3 frees | holds |
| `heap_trim` | the ASSERT after trimming | as above, 1 caller | **violated** |
| `heap_realloc` | the ASSERT of `free` in `realloc(ptr, 0)` | as above, 1 caller | **violated** |
| `paging` | largest section and screen found; pages, tables, break and boot mappings agree | 4 entries per table, 14 physical pages, 2 or 5-9 pages of memory, screens of 0-2 pages, pools of 3 and 4 tables, an `int` that overflows at page 8, moves of up to 3 pages | holds |
| `paging_high` | the kernel's pages are locked | memory section that does not begin at 0 | **violated** |
| `input` | interrupts ended exactly when handled, keys in order, no byte stuck, registers survive | 4 bytes | holds |
| `terminal` | input line shown, no glyph smeared, undisturbed calls show their text | 12x8 pixels, font 2x2, 2 tasks, 12 programs, 2 keys on the line, 1 report | holds |
| `desktop` | no hole, no missed window, updates shown | 3 tasks for 2 slots, 2 rows, 1 redraw each | holds |

Why the bounds suffice. Three slots are the fewest with a first, a middle and a
last one for the compaction; four, with a fifth task, show the round robin passing
over sleepers and a full table. `Delays` of 0 makes `SleepTicks` wrap, hence the
small `TickMod`. Three pages of four units give blocks that begin at a page and
inside one, batches of one and of several pages, exhaustion, and a trim that takes
one page or two; the code's threshold of 10 frees is a parameter so that several
merges fit. Four bytes are enough for one to wait in the queue, one to be drained,
one read twice, and one to start over. A screen of four lines has two that scroll,
one that is cleared and the input line; a glyph of two pixel rows can be torn. The
programs of `Together` preempt scrolling by scrolling, and drawing by both; those of
`Alone` have the numerals at each side of a new digit. Two pages of memory are too
few for a back buffer; nine are one more than the `int` can address. Symmetry is declared only in runs without
liveness properties. `CHECK_DEADLOCK FALSE` stands where the system may stop: a
failed ASSERT, a crash or spinning interrupt handler, a page fault, memory or
draws used up.

Bounds on counters: `idCounter` grows only with starts, of which there are as many
as `Stack` has members; bytes by `MaxBytes`; drawings by `MaxDraws` and `Plans`;
reports and keys on the line by `MaxStopped` and `LineLength`.

Fairness. `Scheduler`: the timer goes on ticking and `Schedule` runs to its end (weak
fairness on both); a call under way goes on when its context is given the CPU again
and again (strong fairness on `Carry`: the CPU is taken away between, a millisecond
is many instructions). Nothing makes a task begin a call. The idle task is given no
fairness and no deadline: a tick may come between its dispatch and `IsAlive = true`, as
one does that was pending while a slow handler ran. Its frame is then destroyed, the next
dispatch of the idle task leads nowhere, and the liveness properties except that case
explicitly. `Paging`: `SBRK` is a
loop that is carried on. `Input`: a handler runs to its end; an interrupt that the
controller offers again and again is taken (the timer's period is far longer
than a handler). `Desktop`: the desktop task goes on; the window tasks need not.
`Terminal` has safety properties only and assumes none.

### What the violations show

* `scheduler_stop`. `scheduler.cpp:137` moves the last task into the slot of the
  stopped one and line 139 then writes `Stopped` through `t`, which by now is the
  moved task. It is never run again, and line 141 logs its ID as the stopped one.
  If the stopped task is itself last, nobody suffers.
* `heap_trim`. `alloc.cpp:197` assumes that the last free block begins on a page
  boundary. If it does not, the ASSERT in line 199 fails and loops for ever with
  `heapLock` taken.
* `heap_realloc`. `realloc(ptr, 0)` (`alloc.cpp:210`) frees `ptr`, goes on, and frees
  it again; the ASSERT in line 181 fails the same way.
* `paging_high`. `pmm.cpp:29` locks pages from the section's address on, while the
  comment above it promises the kernel's. With the largest section above 2 MB the
  kernel's own page is the first that `AllocatePage` returns.

Hazards that are real, and that no run reports because no doc says otherwise: a
`Window::Update` while the window is being copied is lost (`UpdatesAreShown`
excludes it); the keyboard handler may apply a key twice or take a mouse byte for a
key (`KeysInOrder` bounds the damage); a task that a device interrupt lets out of the
`hlt` of its `Exit` revokes its own stop with its next `Wait` (`StopIsFinal` allows
exactly that); a `Stop` through an old pointer, on a slot that holds no task, is
overwritten by `StartTask` or makes it leave out the slot (`StopIsFinal` speaks of slots
that hold a task, `NoLostStart` is stated without stops); a tick before the idle task has
set `IsAlive` destroys its frame (`NowhereOnlyByIdle` states that without stops nothing
else sends the CPU nowhere); a task stopped while it holds a lock never gives it back
(`LocksReleased` is checked without stops); a failed `realloc` loses the block; reaping
while the interrupted task holds `heapLock` hangs, and a cleared slot may be dispatched (`HangsOnlyOnHeapLock`
states that the machine hangs in no third way); `isr_wrapper` overwrites `r12` of the
code it interrupts, and no switch saves the floating point registers
(`RegistersSurvive` leaves these out); a page at 2 GB ends in a page fault (`SBRKReturns`
allows it); a memory map reported after the framebuffer leaves a screen without pixels
(`ScreenIsReported` asks for the other order); a line wider than the screen runs into the next pixel row (the programs keep within it), and
a `%s` is drawn wider than `Print` counts; `%f` shows 5.07 as 5.7.

## Proofs

`SchedulerProofs` proves, for any number of slots and tasks, any delays and any
counter width, with stops and with a slow idle task: `Typing`, `OneRunning`,
`CurrentHasCpu`, `OwnFrames`, `OwnStacks`, `StartMutex`, `WaitPointer` (all
`Spec => []P`) and `StopRequestsLast` (an action property); further
`StartsArrive` and `CpuStays` for `~StopCalls`. A slow idle task is nowhere assumed away. The
assumptions are those of `Scheduler`: at least one slot, a positive modulus above
the delays, and distinct names for the contexts.

The argument. None of the properties is inductive alone. `IInv` adds:

* `CpuInv`: the CPU executes on the stack of the current slot, and that slot is
  not Stopped. This makes the frame saved by a tick the slot's own (`FrameInOwnStack`)
  and makes the slot `Wait` fetches its own.
* `NextInv`: the slot `Schedule` has chosen is Idle, or has been cleared since
  (the last slot, moved by a later turn of the loop).
* `StartInv`: who is in `StartTask` holds the lock and works on a slot that no tick
  looks at and that holds no task: `StopIsFinal` speaks of slots that do, so filling
  the slot breaks no promise, also when it has been stopped since the probe.
  `FreeInv`: above `taskCount` a Stopped slot holds no task, which is why what the
  probe finds is free. `NewInv` and `IdInv`: what is put there is in no other slot.
* `WaitInv`: a task inside `Wait` is in the slot it fetched, or has been marked
  Stopped, perhaps stopped once more, and will not have the CPU. This is where the bug of `scheduler_stop` carries the proof: a moved
  task would go on with a stale pointer were it not stopped by mistake. (The
  mutant `ReapedAlive`, which repairs only the state, breaks `WaitOnOwnSlot`.)

There is one lemma per action (`StartAcquireStep` ... `DispatchStep`); `NextIInv`
combines them. `SInv` strengthens `IInv` for behaviours without
stops: the slots in use are exactly those below `taskCount`, but for the one a
starter has filled and not yet counted; and the idle task, while it executes, has a
frame that leads to it (`IdleFrameInv`), so that only a tick that interrupts it too early
can send the CPU nowhere (`IdleSafe`). TLC checked each invariant before it was
proved.

Where the machine can hang. `CanGoOn` lists, as a formula on states, the guards of the steps
that no context has to choose: those of `Schedule`, of the timer, of the idle task, and of the
boot code before it turns interrupts on. `MachineGoesOn` proves, whatever the contexts call,
that one of them holds unless the CPU was sent nowhere or `WaitsForHeap`: `Schedule` needs a
stack while an interrupted call of `malloc` or `free` holds the lock. `NeverHangs` proves that
without stops one always holds unless the CPU was sent nowhere. `GInv` adds to `IInv`
that nothing but the boot code runs before interrupts are on (`BootFirst`), that a starter
has a task to put into its slot until it does (`SupplyInv`), and that whoever holds `heapLock` is
in `malloc` or `free` (`HolderInv`). `HangsOnlyOnHeapLock` itself says `ENABLED Next`, which the
provers do not know; that a guard of `CanGoOn` enables its step is to be read off the actions,
and TLC, for which `ENABLED` is computed, checks the property on an instance.

Turns. `ImplementsRoundRobin`: with `~StopCalls` and
no wait of 0 ms, `Spec => RoundRobinSpec`. (A wait of 0 ms is
left out because the code does not sleep 0 ticks then: `SleepTicks` wraps.) `RInv`
adds to `SInv` what the mapping needs of sleepers: whoever is Sleeping is a slot the
loop looks at, has a tick left and spins in `Wait`; the ticks written by `Sleep` are
still there when the state is. `TurnIs`, `TurnsDiffer` and `TurnsReach` say that
`(currentTask + i) % taskCount` visits each slot once. Then, step by step:
`TickEnter` is the abstract tick (`TickTicks`: the mapping counts what the loop is going
to do, and the task it is going to choose is the least turn that is Idle), the store of
`taskCount++` a task that joins, the write of `Sleeping` a task that goes to sleep;
every turn of the loop and every other step is a stutter.

`HeapProofs` proves, for any page size, number of frames, sizes, callers and merge
threshold, what the run `heap` checks: `TypesCorrect`, `BlocksNeverOverlap`,
`FreeListAscends`, `NoMemoryLost`, `MergesAll` and `ImplementsAllocator`. It speaks of cells,
not of list positions: `Covers(list, u)` says that a free block has cell `u`.
Its first part has the lemmas about lists that do not know the heap, one for each thing
the code does to one: serving a request from a block splits what the list covers
into the block and the rest; inserting adds the block; the merging loop changes
nothing that is covered and leaves no two neighbours that touch; a new batch adds the
cells up to the new break; trimming takes off those from the new break on. The inductive invariant `IInv` has
the blocks in use apart from each other and from what the list covers, the cells that
are lost to whole pages, and, of the callers, that the block a `realloc` has still to
free is in use and nobody else's to free: that is what makes `realloc` in two critical
sections implement an allocator. After a failed ASSERT only the types are left.

`PagingProofs` proves, for any number of entries of a page table, any memory map, screen
and pool, what the run `paging` checks but for liveness: `TypesCorrect`, `PagesHaveOneUse`,
`LockedMeansMapped`, `HeapHasNoHole`, `TablesFormATree`, `SBRKKeepsToTheHeap` (an action
property), `LargestIsTaken` and `ReportedScreenIsUsed`.

* The assumption, `Layout`, is of two kinds. Of the tags: there is one memory map, and
  whatever of its largest sections and of the screens the walk may end with fits. Of the
  constants: kernel, heap, framebuffer and back buffer lie in this order behind one entry
  of the topmost table, as they do in the code (`KERNEL_OFFSET` begins the last 512 GB).
  A section fits (`Fits`) if it begins at 0 and has no more pages than lie between
  `KERNEL_HEAP_START` and `FRAMEBUFFER` (256 GB of addresses; of physical memory no page
  at or above 2 GB is ever handed out, since `AllocatePage` faults there), a screen if it fits between
  `FRAMEBUFFER` and `BACKBUFFER` (16 MB; `header.asm` asks for 5.5 MB) and is neither memory
  nor the kernel's. A section that begins elsewhere is the case of `paging_high`, where
  `PMM::Initialize` does not lock the kernel's pages and `OnePageOneUse` fails.
* The inductive invariant `IInv` speaks of the tables in two ways. `IsTree` is about their
  entries: the topmost table leads to one table only, and that one to tables of the pool,
  each by one entry. `Data` is about `Mapping`, what is behind each address: the kernel,
  the heap up to the break, the part of screen and back buffer that is mapped so far
  (`Places`), no page twice (`Injective`), and of the bitmap that its pages are some of the
  kernel's and those mapped, and all of these that PMM manages (`Locked`): `ManagedIsCleared`
  says that their bits have been cleared, so `LockPages` cannot take one for locked.
* `MapCases` says what `MapPage` can do: write into a table that is there, into a fresh one
  of the pool, or fault. `Rewritten`, `Opened` and `Blinded` say of each what it does to the
  tree and to what is behind the addresses, which `MapPageMaps` and `UnmapPageUnmaps` sum up:
  one address changes. The fault at 2 GB changes nothing (`FaultKeeps`). `HeapGrows`, `HeapShrinks`, `ScreenGrows` and `BackGrows` go on from
  there without tables. After a fault the tree has an entry that leads nowhere; what is
  mapped is as before.
* No code compares the break with `FRAMEBUFFER`. `HeapHasRoom` shows that it need not: the
  pages of the heap are distinct, managed and none of the kernel's, and `SBRK` has found
  one more, so there are fewer than the addresses up to `FRAMEBUFFER`.
* `LargestIsTaken` is a statement about a loop over a list of any length. `TurnsExist` builds
  the function that the fold of the community modules chooses, `LargestUnrolled` reads the
  turns off it, and `LargestAreaIs` goes through them by induction.

`DesktopProofs` proves `TypesCorrect` and `EveryWindowIsCounted` for any number of slots,
tasks and rows. `Update` takes no lock; it meets no hole because `CreateWindow` is the
only writer, its lock admits one task at a time (`OneHolder`), and the slot it finds is
the first one that `windowCount` does not cover (`NoHoles`, `FirstFree`).

`InputProofs` proves `InterruptsEnd`, that `InServiceIsHandled` always holds, for any
number of bytes. Its invariant `InService` says for each place in a handler which
interrupts are in service there. It is stronger than the property in one point: at
the common end, after the mouse handler has sent both ends of interrupt, nothing is in
service, after the keyboard's only its own is, so that the end sent there never hits
another interrupt. `EOIOne` and `EOINone` are the facts about the controller it uses.

`LineInOrder` is `KeysInOrder` for any number of bytes: the bytes of the input line were
sent before the one the port holds, and those before the ones in the queue (`Ordered`);
`Twice` says when a byte that is on the line a second time can no longer be applied.
`RegistersAreKept` is `RegistersSurvive`: in a handler the frame holds the registers its
stub has found (`Saved`), and popping is the inverse of pushing (`PushedIs`), whatever
the handler has written to the registers in between.

`TerminalProofs` proves `InputLineIsShown`, `GlyphsAreAligned` and `UndisturbedCallsShow`, for
any screen of whole lines of text, any font, tasks and programs that keep to the lines of text.

* The assumption, `TextLayout`: `Print` is given one of the lines above the input line, no
  line is wider than the screen, a box ends above the input line and neither left of the
  screen nor above it (its end would wrap in the `uint16_t`), and the input line has room
  for the keys. Where `Println` prints, what scrolling moves and clears, and where the
  handler draws is not assumed but follows from the code.
* The invariant has that whatever a task has still to write is `Safe`: a copy of pixel rows
  from one line of text further down, a fill that ends above the input line, or a glyph in
  a line above it. This does not depend on what the others have drawn since the call began,
  which is why preemption does no harm. `WritesAreSafe` shows it of each call: `NewLineIsSafe`
  and `BoxIsSafe` by arithmetic, `ArgsArePrinted` and `PiecesAreDrawn` by going through the two
  loops of `Print`, over the format and over the strings of a conversion.
* `Typed(fb, str, k, n)` says that the input line shows the first `k` characters of `str` and
  is black where none of `n` is. `LineTypedAgain` draws one after the other; `LineExtended`
  starts from the shorter line, which `AddInputCharacter` does not clear, `LineRedrawn` from
  the cleared one. The glyphs do not touch (`GlyphsApart`), so none spoils an earlier one.

`UndisturbedCallsShow` is a statement about one call over many steps, and about everything
`Print` does. It has three parts, one in each module.

* `NumeralProofs`: `NumberIsSpelled`. `printNumber` divides until one digit is left and draws
  on its way back. The recursive function is shown to exist and to be the only one
  (`RecursionExists`, `RecursionIsOne`); a number of `j + 1` digits has the digits of the number
  divided by the base, and one more (`MoreDigits`); so what is drawn is the shortest numeral, for
  every number and every base from 2 to 16. `ConversionSpells` goes on to what `%d`, `%x`, `%f`
  and `%s` draw, in the pieces the code draws them in.
* `PrintoutProofs`: `CallAppears`. Whatever is on a screen, the writes of one call, made in
  their order, leave on it what `Expected` says. One write at a time: a glyph puts its character
  on the page and covers what stood there (`GlyphShows`); a line break copies upwards, row by
  row, each row read before it is written (`RowsScrolled`), and moves the whole page
  (`LineBreakOnPage`); a box fills its rows (`BoxShows`). Then by induction over the characters of a string (`StringShows`), the pieces of a
  conversion (`ConversionShows`) and the items of a format (`ItemsMatch`). `Matches` says at each
  place of that loop that the column and row the code keeps are those of the page.
* `TerminalProofs`: what the other contexts do meanwhile. `Continues(call, found, left, fb)` says
  that there is a list `done` of writes, that the call is `done` followed by `left`, and that
  the text shows what `done` makes of the screen the call found. Beginning
  a call establishes it, each of its draws moves a write from `left` to `done` (`CallGoesOn`),
  keys draw below the text only (`LineSparesText`, `ClearingSparesText`), and whoever else draws
  ends the call's claim. This rests on `Safe`: no
  write reads below the text, so that the text after it depends on the text before it
  alone (`TextFollows`).

Induction. The library's induction theorems take an operator, which the provers cannot
instantiate; what these proofs need of it comes from the smallest element of a set of
numbers (`Smallest`, by the well-foundedness of `<`, and `Induction` as a statement about
sets). In this way the folds that are `merge`, `largestArea`, `AllWritten` and `Print` are
shown to exist (`TurnsExist`, `FoldExists`) and unrolled (`MergeUnrolled`, `LargestUnrolled`,
`WritesUnrolled`, `FoldStays`), and are reasoned about for lists of every length.

The same goes for recursive functions: `RecursionExists` builds the function that `printNumber`
and `Power` choose from its restrictions to `0 .. n`.

Only model-checked: `HangsOnlyOnHeapLock`, of which `MachineGoesOn` is the part without ENABLED;
and the liveness properties (`ReadyRuns`, `WaitEnds`, `LocksReleased`, `SBRKReturns`, `BytesAreRead`,
`UpdatesAreShown`), which are out of the prover's reach. The properties that a run finds violated
are of course not proved.

## Not modelled

Colours, `%c` and the conversion from HSV: functions of floating point numbers, which
TLA+ has no counterpart of. Glyph bitmaps and the transparent background;
`DrawPixel`, `DrawBitmap`, and `DrawString` at a pixel position, which is the same
loop; `Swap`, which nothing calls. Exceptions, which print and halt, with `DrawBSOD`
and the stubs with an error code. The unused VGA text interface; port I/O
instructions, whose effect `Input` has; the mode switch and GDT in `boot.asm`; the
programming of the mouse; the tables of `KeyCode`, abstracted to kinds of keys;
`calloc` (empty), `FreePageTable` and `save_cpu_state` (never called); vectors and
`strlen`. `multiboot2.h` is third-party.

## Plan

Done: scheduler, heap, paging, input and desktop; then the boot's tags, the frames of
the stubs, the terminal; then the proofs above, which by now cover every invariant and
action property of the passing runs but `HangsOnlyOnHeapLock`. What is left to do is a
composition of scheduler and heap: task stacks as blocks, the lock shared, reaping that
allocates in the handler; leaks of stopped tasks.
