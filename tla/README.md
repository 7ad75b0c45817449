# lambdaOS in TLA+

This directory is a TLA+ development of lambdaOS, a small x86_64 kernel in
Rust: its boot sequence with the devices it finds, its scheduler, its
preemption by the timer, its physical and virtual memory, and its console.
Modules are translated from the code under `src/`, not from its comments. TLC
checks them on small instances; TLAPS proves the safety properties of the
scheduler, of preemption, of the frame allocator and of the boot sequence, and
what the paging operations do, for every value of the constants.

    tlc -config MCScheduler.cfg MCScheduler      # a run; all are in PROJECT.json
    tlapm SchedulerProofs.tla                    # proofs; the other *Proofs modules too

`PROJECT.json` lists the runs, the properties, the source lines behind every
definition, the hazards the properties are aimed at, and the disagreements
between code and documentation that were met. For every property it also names
a mutant: a changed definition (a dropped guard, an off-by-one) that breaks it.

## Inventory

Paths are relative to `src/src/`; `x86` stands for `arch/x86_64`.

| Component | State | Operations | What makes it correct |
|---|---|---|---|
| process list, `task/proc_list.rs` | `procs`, `next` | `add`, `remove`, `get` | PIDs in range, never twice; a free PID is found |
| scheduler, `task/coop_sched.rs`, `task/process.rs`, `syscall/process.rs` | task table, `ready_list`, `current_pid` | `create`, `ready`, `resched`, `kill`, `process_return` | one process runs, none is lost or revived, round robin |
| context switch, `task/context.rs` | `Context` per process | `switch_to` | contexts are not mixed, no switch to a freed stack |
| interrupts, `x86/interrupts/{irq,utils}.rs`, `device/pic.rs` | IF, PIC masks, `PIT_TICKS` | `timer_handler`, `disable_interrupts`, `restore_interrupts` | critical sections stay closed, the handler meets no held lock |
| frame allocator, `x86/memory/area_frame_allocator.rs` | `next_free_frame`, `current_area` | `new`, `allocate_frame`, `free_frames` | usable frames, each once, few of them lost |
| page tables, `x86/memory/paging/` | physical memory, CR3, TLB | `map_to`, `unmap`, `translate`, `with`, `switch`, `init` | sound accesses, coherent TLB, only the intended pages change |
| kernel memory, `x86/memory/mod.rs`, `stack_allocator.rs` | heap range, stack range | `memory::init`, `alloc_stack` | disjoint guarded stacks, one use per frame |
| heap, `x86/memory/heap_allocator.rs` | external allocator | `alloc`, `dealloc` in a critical section | usable inside other critical sections |
| ACPI, `acpi/` | none after boot | `init`, `get_sdt`, `find_sdt` | tables are mapped before they are read, never twice |
| MADT and APIC, `acpi/madt.rs`, `device/apic.rs` | `APIC_MANAGER`, `CPUS` | `Madt::init`, `apic::init`, `eoi` | the walk ends, the manager knows what the table lists |
| boot, `x86/init.rs`, `lib.rs`, `device/mod.rs`, `x86/interrupts/mod.rs` | IDT, IF, PIC masks | `init`, `kmain` | no interrupt before what its handler needs; booting ends, or says why not |
| PCI, `device/pci.rs` | configuration registers, `DEVICES`, `AHCI_BASE` | `probe`, `load_bars`, `init` | every function once, sizing leaves no trace |
| keyboard, `device/keyboard/`, `ps2_8042.rs` | modifiers | `parse_key`, `retrieve_bytes` | what is typed is printed, in order and in the right case |
| VGA, `device/vga/` | `SCREEN`, `TTYS`, VGA memory, cursor | `write_byte`, `delete_byte`, `switch`, `sync` | a scrolling text terminal |
| serial, PIT, ports, GDT, exceptions, AHCI types, panic | device registers | I/O | - |

How they interact. The timer interrupt enters `timer_handler`, which prints
(lock COM1), acknowledges (`APIC_MANAGER`) and, when the slice is over, calls
`resched` inside a critical section; `resched` changes table and list under
three kinds of spin locks and switches stacks. Processes enter the kernel
through `syscall::create`, through every allocation, and by returning into
`process_return`, which kills them. There is one CPU, so a lock is contended
only by an interrupt handler and the code it interrupted, and then for ever.
At boot, `memory::init` gets frames from the frame allocator, builds a second
set of page tables through a temporary page and the recursive entry, switches
to it, and goes on to map the heap, what ACPI names and the stacks. ACPI leads
to the MADT, whose walk leaves the `APIC_MANAGER` and opens the PICs that `init`
had masked; then the IDT is loaded and the devices are set up. The PCI scan
pushes to a vector, and as every allocation ends in `sti` interrupts are on from
its first device, not only from the `sti` of `init`.

What is hard: interrupts between any two instructions, nested critical
sections, a context switch in the middle of one, a killed process that frees
the stack it runs on, tables that are only reachable through themselves, stale
translations, memory that runs out in between, boundaries of areas and ranges,
interrupts that come earlier in the boot than the code suggests, tables and
devices as the firmware left them, keyboard bytes that come late.

## Modules

**ProcessList** - the table of PIDs and the search of `add()`, with `usize`
bounded by the table's size. `added` is the result of the last `add()`.

**Scheduler** extends it with the state and the stack of every process, the
ready list and the running PID. Each method of the trait is one atomic action
(`Create`, `Ready`, `Resched`, `Kill`). The callers are the code's:
`syscall::create` readies each new PID once, the timer calls `resched`, a
process that returns kills itself.

**RoundRobin** is what the scheduler promises: a ring of processes whose first
one runs; a switch moves it to the end, a death takes it out. `Scheduler`
implements it with the ring `<<current_pid>> \o ready_list`.

**Preemption** extends `Scheduler` to the machine: interrupt flag, PIC masks,
locks, one stack of calls per process, saved contexts. The methods are split
wherever an interrupt could come in, and `MethodsAreAtomic` shows that, seen
through the table, the list and the PID, the result still takes `Scheduler`'s
steps. An allocation inside a critical section is the action `HeapOp`: a nested
save and restore that ends in `sti`. The bodies of processes are arbitrary
users of the heap, of `println!` and of `syscall::create`, and may return or run
for ever; the repository itself has no such process yet, and `kmain` ends in
`loop {}`. `KInit` is the state after `init()`: the PICs are unmasked because
`Madt::init` initialises them again (`acpi/madt.rs:99`) after `init()` masked
them.

**FrameAllocator** - `allocate_frame` calls itself until it has an answer; one
action is one round. Areas, kernel and multiboot structure are given in bytes,
not necessarily at frame boundaries, and overlap in every way. Their ends are
exclusive, as `memory::init` computes them. `new()` discards the first frame, as
the code does.

**Paging** - physical memory is a function from frames to tables of
`ENTRY_COUNT` entries. The code reaches tables only at virtual addresses built
from the recursive index, so every access is translated from CR3 first: a table
that is not there is a page fault, a translation used before and changed since
is a stale access. `map_to`, `map`, `unmap`, `translate_page`, the temporary
page, `InactivePageTable::new`, `with` and `switch` are operators from one state
of the machine to the next; `PagingInit` makes the calls of `paging::init` one
per step, from the huge-page tables that `boot.asm` leaves.

**KernelMemory** extends `Paging` with the rest of `memory::init` and with
`alloc_stack`. What the firmware says decides the calls that follow; they wait
in `plan`.

**AddressSpace** is what the page tables promise: two maps from pages to
entries, of which one step adds or removes one page. `KernelMemory`
implements it, with the maps read off by walking from CR3 and from the root of
the inactive table.

**Madt** - the walk of `Madt::init` over the entries by their offsets, one entry
per step, with the bounds of `MadtIter::next`, the fixed capacity of the four
vectors and the early return at an entry it does not know; then the manager, the
PICs, and what `apic::init` does to the redirection table. `apic.rs` writes
registers through references to local variables; `IoApicRead`, `IoApicWrite` say
what that does.

**Pci** - the scan of every bus, device and function below the maxima. A base
address register is what a device decodes: `base`, a multiple of `size`, over
wired `flags`. `StartSizing` and `EndSizing` are the two halves of `load_bars`
between which the register holds all ones.

**Boot** composes both into `init()`, with the interrupt flag, the IDT, the COM1
lock and two interrupt lines that the world may raise at any time. A step runs to
its end unless an interrupt can come in. The initialisation of the PS/2 controller
is one step with three outcomes: it succeeds, one of its assertions fails, or it
polls for ever for a byte that does not come. The page tables that are built
meanwhile are `KernelMemory`'s subject.

**Keyboard** - the keys that are down, the bytes they have sent and nobody has
read, and the `ModifierState`. The second byte of an extended key may or may not
be there when `retrieve_bytes` looks. `owed` records what the user expects.

**TextBuffer** - `SCREEN`, the six `TTYS`, the VGA memory and the cursor.

**Terminal** is what a text screen promises: rows that scroll up, a line being
written, a display that shows both after each byte. `TextBuffer` implements it.

**Console** composes `Keyboard` and `TextBuffer`: `keyboard_handler` may switch
terminals while the kernel writes. The handler has no gate in the IDT (`Boot`
shows the consequence) and `print!` goes to the serial port, so `Console` checks
the component as its interface offers it, not as today's kernel uses it.

**SchedulerProofs**, **FrameAllocatorProofs**, **BootProofs**,
**PreemptionProofs** and **PagingProofs** hold the theorems. `PreemptionProofs`
rests on **PreemptionInvariant** (the inductive invariant `KInv` and that each
step keeps it) and adds the table, the list and the PID in the middle of a method.
`PagingProofs` (what each function of the paging code does to a machine) rests on
**PagingTables** (what tables are, what the MMU finds in them, and what a write to
one changes).

The `MC*` modules give constants their values for TLC.

## Runs

| Run | Instance | Shows |
|---|---|---|
| `process_list` | 5 PIDs | the search stays in the table; one retry after an error finds a free PID |
| `scheduler` | 4 processes beside the null process | one process runs; the list is exact; the null process is available; dead stay dead; FIFO; refinement of `RoundRobin` |
| `preemption` | 3 processes, slices of 2 ticks, handlers nested twice | no interrupt under a lock; critical sections stay masked; contexts are not mixed; no switch to a freed stack; the idle process leaves the timer open; methods are atomic; every lock is released |
| `frame_allocator` | up to 6 frames, one or two areas, 504 layouts | usable frames only, each once, none lost but the discarded one and those at the ends of kernel and multiboot structure; `None` only when no other is left, and `free_frames` is then 0; calls return |
| `kernel_memory` | tables of 3 entries, 0 to 27 free frames, five firmwares, two boot maps, stacks of 0 to 2 pages | sound accesses, coherent TLB, `translate_page` agrees with the MMU, one use per frame, guarded stacks, assertions fail only on overlap, refinement of `AddressSpace` |
| `boot` | every MADT of up to 3 entries of 6 sorts, whole or cut short, with and without an APIC; the usual one with every set of up to 2 PCI functions of 5 sorts; 2 entries of each kind at most | a manager knows exactly what the table lists; the scan is complete and leaves no trace; interrupts find their handlers ready; unless it waits for the PS/2 controller or for COM1, booting ends in `kmain`'s loop or in a reported panic or exception, never in a triple fault |
| `console` | 2 x 3 cells, four users, 3 bytes on the wire | what is typed is printed; refinement of `Terminal` |

Why the bounds are enough. Three processes beside the null process make every
position in the ready list occur: front, middle, back. PIDs are never reused,
so the table also fills up, which on the real machine memory would not
allow; `usize` shrinks with it, so that the edges keep their distance. A slice of two ticks has a tick that counts and one
that switches. Two nested handlers are the least at which a handler interrupts
another; deeper ones repeat that. Tables of three entries have an ordinary
entry, one for the temporary page and the recursive one, and the kernel's pages
lie under several P1 tables, so new tables are needed on every level; the
allocator may run out before each frame. Seven stack pages hold three stacks
and one request that does not fit. Three MADT entries overfill a vector of two,
put an unknown, a wrongly sized or an empty entry first, last or in between, and
end the table inside one. Two PCI functions lie at both ends of the ranges and
outside of them, with base address registers of memory, of ports, with 64 bits,
unused, and one that ignores writes; two AHCI controllers may follow one another.
Words of 8 bits instead of 32 keep the four low bits that the code masks off
apart from the rest. A screen of three rows has a first, a middle and the last
one, and a tab of four cells wraps once or twice. Three bytes on the wire let an extended
key wait behind, or in front of, an ordinary one; four users divide the keys
(letters with both shifts and CapsLock; an extended Control with an F key past
the last terminal; terminal switches with text being written; all bytes of
`write_byte`).

Deadlock is checked everywhere. A panic, `kmain`'s loop, an exception handler, a
handler that spins on a lock and the polling of the PS/2 controller are final
states in which the CPU loops (`PanicLoop`, `Halted`, `Loop`, `Panicked`). They
are not all taken for good ends: `BootEnds` accepts `kmain`'s loop and what has
been reported, not the two waits (`Waiting`) and not a triple fault.

Fairness. `Scheduler` has none: that `resched` is called again and again is up to
the timer, which, as `timer_eoi` shows, does not do it. `Preemption`: weak
fairness of the kernel's steps (the CPU executes) and of
`TimerInterrupt` (an interrupt that stays enabled is taken); nothing is assumed
of process bodies, so no process is promised a turn. `LocksAreReleased`, that
whoever holds a lock lets go of it, needs only the first of the two, and holds
with `NEEDS_EOI = TRUE` as well. `FrameAllocator`: of the rounds of a call. `Boot`: of
the steps of `init` and of a handler (the CPU executes); the runs `typing` and
`boot_message` add that the PIT ticks and that the CPU takes what the PIC
presents. `Console` has none. The passing
run of `Preemption` lets the timer tick again without an end of interrupt
(`NEEDS_EOI = FALSE`): with it the timer ticks once and every behaviour is,
apart from `in_service`, one of those checked, so the safety properties carry over; `timer_eoi` shows what
becomes of the slices.

Runs that end in a violation show where code and documentation disagree.

| Run | What happens |
|---|---|
| `boot_message` | a tick while `init` prints (also the messages of `pci::init`) waits for ever on COM1 |
| `timer_eoi` | no end of interrupt reaches the PIC: only one tick arrives, so no slice ends |
| `typing` | after "you may now type" a key raises #NP, as its gate is commented out, and the handler loops; or it waits for ever behind an unacknowledged tick |
| `redirects` | no redirection entry is written: `get_max_redirect` reads a temporary and is always 0 |
| `stack_writable` | `alloc_stack` maps stacks read-only, with CR0.WP set |

Other things met in the code and not the subject of a run.

- Scheduler: `kill` of a process that waits in the ready list leaves its PID
  there, and `resched` would run it without a stack; only `process_return` calls
  `kill`, for the running process. `ready()` leaves the state at Suspended.
- Interrupts: an allocation inside a critical section enables interrupts at the
  CPU for the rest of it (only the masks keep the timer out). A process starts
  with the masks closed and is never preempted: one that does not return keeps the
  CPU from all others, whatever becomes of the end of interrupt.
- PS/2: `wait_then_read` polls without a limit, so without a controller the kernel
  does not get past `device::init`; `wait_then_write` compares a masked bit 1 with
  1 and never waits.
- Frame allocator: a request for several frames advances `next_free_frame` by
  one, so consecutive answers overlap; one that straddles the end of the last
  area is never answered; a multiboot structure inside the range is not noticed.
  The kernel only asks for one frame (`LayoutAssumption`). The allocator takes the
  ends of kernel and multiboot structure for inclusive
  (`x86/memory/area_frame_allocator.rs:9`), `memory::init` passes
  exclusive ones (`x86/memory/mod.rs:34-39`): when such an end lies at a frame
  boundary the frame behind it is never handed out. `NoFrameLost` and
  `NoneMeansExhausted` except these (`SkippedInVain`). Frames only partly
  inside an area are handed out (on a PC the lowest area often ends at 0x9fc00);
  `free_frames` counts the frames of the multiboot structure still ahead.
- ACPI: `find_sdt` reads tables on pages nobody mapped if the firmware puts them
  away from the RSDT (with such a firmware `AccessesAreSound` fails); revision 2
  of the RSDP names an XSDT, on which `Rsdt::new` panics. The page that
  `paging::init` turns into a guard page is not adjacent to the kernel stack, as
  two more tables lie between them in `boot.asm`.
- MADT: an unknown entry (a local x2APIC, an address override) leaves the kernel
  without a manager and with the PICs masked, so the timer never ticks. The boot
  processor is counted among the APs: its id is compared with bit 8 of an MSR.
  An override without a local APIC panics on `local_apics[0]`. No local APIC
  register is written either.
- PCI: the ranges exclude bus 255, device 31 and function 7. A base address
  register that ignores writes and reads as less than 16 makes the checked
  addition overflow and the kernel panics with the register still to be restored.
- Keyboard: extended keys are never recognised (`retrieve_bytes` shifts by one
  bit, and no entry of `match_scancode` matches); a second byte that comes late is
  taken for a key of its own. `is_special_key` lists 0x97 where 0xC7 is meant.
  Function keys are never released in the state; ScrollLock assigns `num_lock`.
- VGA: `switch` copies the list of terminals, so what was written to one is lost
  when it is left, and the display is not updated before the next byte. F7 to F12
  index past the six terminals and panic. With a full row the cursor is set one
  cell past the screen.

## Proofs

`SchedulerProofs` proves, for every `MAX_PROCS` of at least 2
(`MaxProcsAssumption`; the code has `usize::max_value() - 1`), that every behaviour of
`Spec` satisfies

- `TypeOK`, `OneCurrent`, `ReadyListExact`, `NullProcessAvailable` (always);
- `DeadStaysDead`, `NobodyOvertakes` (every step);
- `RoundRobinSteps`, the refinement of `RoundRobin`.

None of the invariants is inductive alone. That the running process owns a
stack needs that every process that `resched` may pick does, which is a
conjunct of `ReadyListExact`; that one in turn needs that new processes have
one (`LiveHasStack`), that no PID is queued twice, and that PIDs are handed out
once (`SearchStaysInTable` and the shape of the table in `TypeOK`). `IInv` is
the conjunction. The proof has a lemma per action (`CreateIInv`,
`ReadyNewIInv`, `ReschedIInv`, `ProcessReturnIInv`), which rest on lemmas about
what a rotation does to a sequence (`RotatedList`, `ShortenedList`) and about
the effect of `resched` and `process_return` (`ReschedEffect`, `ReturnEffect`).
The step properties follow from the effects; the refinement from the shape of
the ring (`RingShape`, `HeadThenTail`, `RingFacts`, `StepRing`).

It also proves `SearchStaysInTable` of `ProcessList` on its own, with `remove`
(`PidsStayInTable`).

`FrameAllocatorProofs` proves, for every page size and every set of layouts
(`LayoutAssumption`: natural addresses, areas, a kernel and a multiboot structure
that are not empty, requests for at most one frame), `FATypeOK`,
`HandsOutUsable`, `NeverTwice`, `NoFrameLost`, and that when a call returns `None`
no usable frame is left (`NoneMeansNoneLeft`), the last two with the exceptions
named above. A frame is in use if a byte of the kernel or of the multiboot
structure lies in it; that the allocator passes over all of these, and over no
more than the frame at either end besides, is `InUseFrames`. The invariant `FAInv`
adds that frames are handed out in
ascending order below `next_free_frame`, from which `NeverTwice` follows, and
that the current area begins at or below it while without one every area ends
below it (`Progress`). What `choose_next_area` returns is a lemma; every round has
one of its own.

`PreemptionProofs` proves, for every table size, slice and depth of nested
handlers (`MaxProcsAssumption`, `SliceAssumption`), `KTypeOK`,
`NotInterruptedUnderLock`, `ClosuresStayMasked`, `ContextsNotMixed` and
`IdleIsInterruptible`. The argument: the masks are open only while the null
process runs outside of every critical section. A process starts inside the
critical section of a timer handler on the null process's stack and leaves the
CPU only by returning, so while it runs that section is still open, and every
pair of masks saved meanwhile is `MASKED`. `KInv` says this of the shape of the
stacks (`NullShape`, `OtherShape`), of the masks, of a switch in progress, and of
which locks a call in progress may hold.

It also proves `SwitchesToLiveStack` and `MethodsAreAtomic`. Both need to know
what the table, the list and the PID look like in the middle of a method, which
is `LInv`: the current process is alive except between the
store in `kill` that frees its stack and the choice of `resched`, where it is the
one running these very lines; what waits in the list is alive, in the table and
there once; the null process runs or waits; and a PID between `add` and `ready` is
nobody else's. `LInv` is inductive relative to `KInv`, which says that no
interrupt comes in there. In the refinement `CreateAdd` is `Scheduler`'s `Create`,
`CreateReady` its `ReadyNew`, the `resched` of a time slice its `Resched`, the
`resched` of a kill its whole `ProcessReturn`, and nothing else changes what is
seen: `KillMark` is hidden by the mapping, for which a process lives until it has
been switched away from.

`BootProofs` proves, for every firmware, the five invariants of the boot. It
assumes of the constants (`PciAssumption`, `CapacityAssumption`) that the bounds
of the scan and the capacities are numbers, and of the machine
(`FirmwareAssumption`) that the entries of a MADT lie one behind the other and
reach the end of the table (`IsMadt`), that the functions have addresses (`Bus`),
and that a base address register that is written what it reads keeps it and does
not lose address bits to its flags (`Decodes`).

- `TimerHandlerIsReady`, and that no interrupt ends in a triple fault or in the
  panic of `apic::eoi` (`HandlersFindTheirState`): both from `ReadyInv`, after
  `init` has masked them the PICs are open only if the manager is set.
- `EnumerationIsExact` (`EnumerationExact`): from `SizingInv`, while a register is
  sized the `Device` keeps what it held and every other register is as it was, and
  `ScanInv`, the list holds exactly the functions at addresses the scan has
  passed, in the order of the addresses, and `AHCI_BASE` comes from the last
  controller among those identified. That the counters of `init_dev` visit
  every address below the limits once is `FollowingCovers` and `PastTheBuses`.
- `ManagerIsExact` (`ManagerKnowsTheTable`): from `WalkInv`, before every round the
  offset is that of some entry `n + 1`, the entries up to `n` are known and fit,
  and the lists hold those and no others, each at the position given by the number
  of entries of its kind before it (`Lists`).
- `BootTypeOK` (`BootTypeCorrect`).

`PagingProofs` proves what the operations of `Paging` do to a machine, for tables
of any number of entries from 2 on and for every memory (`PagingAssumption`). The
core is a use for each frame: free, a table of level 1 to 4, backing a page,
other. `Tree` says that entries of tables lead one level down, that no two lead to
the same table, and that only P2 tables hold huge pages; a machine is `Sound` if
its tables are a tree, the recursive entry names a root and nothing is stale.

- `TranslateIsWalk` (on `RecursiveWalks`, `SeenTables`): at the addresses that
  `next_table` computes the MMU finds the tables of the root that the recursive
  entry names, inside of `with()` those of the inactive one, so `translate_page`
  finds what the MMU finds.
- `LinkTree`, `LinkLeaf`, `MapLeaf`, `NewRoot`: linking an empty table changes no
  page; a write to a P1 entry changes one page; a zeroed frame is a root.
- `MapToSound`, `UnmapSound`, `NewTableSound`, `WithBeginSound`, `WithEndSound`:
  from a sound machine each function either stops, out of memory or at an assertion
  with a mapped page as its cause, with every page as it was, or returns a sound
  machine in which just the page it is for has changed.

Only model-checked: that the calls of `memory::init` and `alloc_stack`, made in
their order from the tables of `boot.asm`, keep the invariants of `KernelMemory`
(`KMTypeOK`, `AccessesAreSound`, `TlbCoherent`, `TranslationsAgree`,
`OneUsePerFrame`, `StacksAreGuarded`), fail no assertion but on an overlap, and
refine `AddressSpace`; `Console` with its refinement of `Terminal`; the part of
`NoneMeansExhausted` about `free_frames`; and all liveness (`LocksAreReleased`,
`CallsReturn`, `RetryFindsFreePid`, `BootEnds`), which is out of the prover's reach.

## Not modelled

- Descriptor encoding, exception handlers other than the one a missing gate
  raises, ports, PIT and UART programming, AHCI types, the `int 0x80` wrappers
  and `Device::set_flag` (no callers): device access or data without control flow
  worth checking.
- Registers other than the stack pointer and the flag are one value.
- The TLB holds the translations the code has used; speculative fills by the
  CPU, for instance while a new table is linked but not yet zeroed
  (`paging/table.rs:64-65`), are not modelled. A header of an ACPI table lies in
  one page.
- PCI functions have a header of type 0. In the header of a bridge four of the six
  words that `load_bars` sizes are not base address registers (bus numbers, windows);
  what sizing does to them is not described.
- `print` holds `SCREEN` for all of its bytes. In `Console` a byte is a step and
  `keyboard_handler` finishes in between; with a gate it would wait for the lock for
  ever, as `boot_message` shows for COM1.
- A PCI access is one step, although address and data register are accessed under
  two acquisitions of a lock: only the boot code uses PCI.
- What characters the layouts assign to keys; the colours of the screen; the
  shift codes some keyboards send around extended keys; the spurious interrupt of
  a key whose byte `Ps2::init` reads away; a panic while COM1 is held, whose
  message waits for the lock.
- There is no fault model of storage or messages: nothing is persisted and
  nothing is sent.

## Plan

1. From what `PagingProofs` proves of each operation to the invariants of
   `KernelMemory`, phase by phase of `memory::init`.
2. When the keyboard gets its gate, `Boot` and `Console` can be composed.
