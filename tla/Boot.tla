--------------------------------- MODULE Boot --------------------------------
(***************************************************************************)
(* The boot sequence: init() of src/arch/x86_64/init.rs with what it calls *)
(* in the order of the code - the PICs masked, the interrupt controllers   *)
(* found (Madt), the IDT loaded, the devices set up (Pci) - and the two    *)
(* interrupt lines that may be raised all the while, the timer's and the   *)
(* keyboard's.  A step of init() runs to its end unless an interrupt can   *)
(* come in; there is one CPU, so a handler that waits for a lock waits for *)
(* the code it interrupted.                                                *)
(***************************************************************************)
EXTENDS Madt, Pci

CONSTANT Firmwares   \* what the machine may be: its MADT (NoMadt without
                     \* one), its PCI functions, CPUID's answer

\* The MADT and the registers of the PCI functions are as ACPI and PCI have
\* them.
ASSUME FirmwareAssumption ==
  \A f \in Firmwares :
    /\ IsMadt(f.madt)
    /\ Bus(f.machine)
    /\ \A a \in DOMAIN f.machine, b \in 0 .. BARS - 1 : Decodes(f.machine[a].bars[b])

VARIABLES
  phase,        \* where init() is
  iflag,        \* RFLAGS.IF
  idt,          \* the IDT has been loaded
  com1,         \* COM1 is locked by the code of init()
  in_service,   \* the PIC waits for the EOI of an interrupt
  key,          \* IRQ 1 is raised: a key was pressed
  handler       \* the interrupt handler that is running, or "none"

cpuVars == <<iflag, idt, com1, in_service, key, handler>>
bootVars == <<madtVars, pciVars, phase, cpuVars>>

NoMadt == [entries |-> <<>>, length |-> 0]

\* Vectors with a gate in the IDT.  The keyboard's two are commented out.
Gates == {32, 48} \cup (144 .. 150) \cup {255}

\* PICS: the master's lines start at vector 0x20.
Vector(irq) == 32 + irq

-----------------------------------------------------------------------------
\* The boot loader enters with interrupts off and the BIOS's PIC masks.
BootInit ==
  /\ \E f \in Firmwares :
       madt = f.madt /\ machine = f.machine /\ has_apic = f.has_apic
  /\ MadtInit
  /\ PciInit
  /\ imr = OPEN
  /\ phase = "mask"
  /\ iflag = FALSE
  /\ idt = FALSE
  /\ com1 = FALSE
  /\ in_service = FALSE
  /\ key = FALSE
  /\ handler = "none"

\* No handler runs and init() is at p.
At(p) == handler = "none" /\ phase = p

\* Mutant: the PICs are left as the BIOS set them up.
MaskNothing ==
  /\ At("mask")
  /\ phase' = "acpi"
  /\ UNCHANGED <<madtVars, pciVars, cpuVars>>

\* disable_8259_pic, serial::init and cli.
MaskPics ==
  /\ At("mask")
  /\ imr' = MASKED
  /\ phase' = "acpi"
  /\ UNCHANGED <<madt, has_apic, i, lists, cpus, manager, redirtbl, madt_pc,
                 pciVars, cpuVars>>

\* memory::init ends in acpi::init, which calls Madt::init if there is a MADT.
WalkMadt ==
  /\ At("acpi") /\ madt # NoMadt
  /\ MadtStep
  /\ phase' = IF madt_pc' \in {"done", "panic"}
              THEN (IF madt_pc' = "done" THEN "idt" ELSE "panic")
              ELSE phase
  /\ UNCHANGED <<pciVars, cpuVars>>

NoMadtFound ==
  /\ At("acpi") /\ madt = NoMadt
  /\ phase' = "idt"
  /\ UNCHANGED <<madtVars, pciVars, cpuVars>>

\* interrupts::init.
LoadIdt ==
  /\ At("idt")
  /\ idt' = TRUE
  /\ phase' = "devices"
  /\ UNCHANGED <<madtVars, pciVars, iflag, com1, in_service, key, handler>>

\* vga::init, pit::init and the PS/2 controller's init: a key that was
\* pressed earlier is read away, the two tests are asserted, and four times
\* wait_then_read polls until the controller has a byte, for ever ("ps2") if
\* it has none.  (wait_then_write masks bit 1 and compares with 1: no wait.)
InitDevices ==
  /\ At("devices")
  /\ key' = FALSE
  /\ phase' \in {"pci", "panic", "ps2"}
  /\ UNCHANGED <<madtVars, pciVars, iflag, idt, com1, in_service, handler>>

ScanPci ==
  /\ At("pci")
  /\ PciStep
  /\ phase' = IF pci_pc' = "done" THEN "sti" ELSE IF pci_pc' = "panic" THEN "panic" ELSE phase
  /\ UNCHANGED <<madtVars, cpuVars>>

\* DEVICES.push: the first one allocates, later ones when the vector is full.
\* An allocation saves the PIC masks, restores them and ends in `sti`.
PushToDevices ==
  /\ At("pci")
  /\ PushDevice
  /\ \/ iflag' = TRUE
     \/ devices # <<>> /\ UNCHANGED iflag
  /\ UNCHANGED <<madtVars, phase, idt, com1, in_service, key, handler>>

Sti ==
  /\ At("sti")
  /\ iflag' = TRUE
  /\ phase' = "message"
  /\ UNCHANGED <<madtVars, pciVars, idt, com1, in_service, key, handler>>

\* println! where interrupts may be on: two messages of pci::init, the last
\* of init().
Printing ==
  /\ handler = "none"
  /\ phase = "message" \/ (phase = "pci" /\ pci_pc \in {"discovered", "found"})

PrintLock ==
  /\ Printing /\ ~com1
  /\ com1' = TRUE
  /\ UNCHANGED <<madtVars, pciVars, phase, iflag, idt, in_service, key, handler>>

PrintDone ==
  /\ Printing /\ com1
  /\ com1' = FALSE
  /\ IF phase = "message"
     THEN phase' = "idle" /\ UNCHANGED pci_pc
     ELSE pci_pc' = "identify" /\ UNCHANGED phase
  /\ UNCHANGED <<madtVars, machine, config, at, dev, bar, devices, seen, ahci_base,
                 iflag, idt, in_service, key, handler>>

-----------------------------------------------------------------------------
KeyPress ==
  /\ ~key
  /\ key' = TRUE
  /\ UNCHANGED <<madtVars, pciVars, phase, iflag, idt, com1, in_service, handler>>

\* The PIC presents nothing while an interrupt of the same or a higher
\* priority is in service; neither handler sends it an EOI.
Deliverable == handler = "none" /\ iflag /\ imr = OPEN /\ ~in_service

\* Through a gate the flag is cleared; without one the CPU raises #NP, which
\* ends in seg_not_present_handler.
Enter(irq, name) ==
  /\ iflag' = FALSE
  /\ in_service' = TRUE
  /\ handler' = IF ~idt THEN "triple_fault"
                ELSE IF Vector(irq) \in Gates THEN name ELSE "exception"

TimerInterrupt ==
  /\ Deliverable
  /\ Enter(0, "timer")
  /\ UNCHANGED <<madtVars, pciVars, phase, idt, com1, key>>

KeyboardInterrupt ==
  /\ Deliverable /\ key
  /\ Enter(1, "keyboard")
  /\ key' = FALSE
  /\ UNCHANGED <<madtVars, pciVars, phase, idt, com1>>

\* timer_handler: println! waits for COM1, apic::eoi panics without a
\* manager; its store goes to a temporary.  The slice is not over.
TimerHandler ==
  /\ handler = "timer" /\ ~com1
  /\ IF manager = None
     THEN handler' = "panic" /\ UNCHANGED iflag
     ELSE handler' = "none" /\ iflag' = TRUE
  /\ UNCHANGED <<madtVars, pciVars, phase, idt, com1, in_service, key>>

\* seg_not_present_handler masks the PICs and prints, if COM1 is free; like
\* every exception handler but breakpoint's it does not return.
ExceptionHandler ==
  /\ handler = "exception" /\ ~com1
  /\ imr' = MASKED
  /\ handler' = "loop"
  /\ UNCHANGED <<madt, has_apic, i, lists, cpus, manager, redirtbl, madt_pc,
                 pciVars, phase, iflag, idt, com1, in_service, key>>

-----------------------------------------------------------------------------
\* panic_fmt or an exception handler has printed its message and loops.
Reported == phase = "panic" \/ handler \in {"loop", "panic"}

\* The two waits that nobody may end: for a byte of the PS/2 controller, and
\* of a handler's println! for the COM1 of the code it interrupted.
Waiting == phase = "ps2" \/ (handler \in {"timer", "exception"} /\ com1)

\* States in which the CPU only loops, kmain's `loop {}` among them, or, after
\* a triple fault, stops.
Looping == phase = "idle" \/ Reported \/ Waiting \/ handler = "triple_fault"

Loop == Looping /\ UNCHANGED bootVars

BootStep ==
  \/ MaskPics \/ WalkMadt \/ NoMadtFound \/ LoadIdt \/ InitDevices
  \/ ScanPci \/ PushToDevices \/ Sti \/ PrintLock \/ PrintDone
  \/ TimerHandler \/ ExceptionHandler

BootNext == BootStep \/ KeyPress \/ TimerInterrupt \/ KeyboardInterrupt \/ Loop

\* The CPU executes; nothing is assumed of interrupts.
BootSpec == BootInit /\ [][BootNext]_bootVars /\ WF_bootVars(BootStep)

\* With a PIT that ticks, and a CPU that accepts what the PIC presents.
InterruptSpec ==
  BootSpec /\ WF_bootVars(TimerInterrupt) /\ WF_bootVars(KeyboardInterrupt)

-----------------------------------------------------------------------------
BootTypeOK ==
  /\ i \in Nat /\ cpus \in Nat
  /\ \A k \in KINDS : Len(lists[k]) <= CAPACITY[k]
  /\ manager \in {None, lists}
  /\ imr \in {OPEN, MASKED}
  /\ madt_pc \in {"walk", "pics", "apic", "done", "panic"}
  /\ DOMAIN config = DOMAIN machine
  /\ \A a \in DOMAIN config : \A b \in 0 .. BARS - 1 : ReadBar(config, a, b) \in 0 .. ONES
  /\ \A k \in DOMAIN devices : \A b \in 0 .. BARS - 1 : devices[k].bars[b] \in 0 .. ONES
  /\ bar \in 0 .. BARS /\ seen \in 0 .. Len(devices) /\ ahci_base \in 0 .. ONES
  /\ pci_pc \in {"probe", "bar", "sizing", "discovered", "identify", "found", "done", "panic"}
  /\ phase \in {"mask", "acpi", "idt", "devices", "ps2", "pci", "sti", "message", "idle", "panic"}
  /\ {iflag, idt, com1, in_service, key} \subseteq BOOLEAN
  /\ handler \in {"none", "timer", "exception", "panic", "loop", "triple_fault"}

\* Whenever the timer can interrupt, its handler finds what it needs: the
\* IDT, and the APIC_MANAGER without which apic::eoi panics.  Interrupts are
\* on from the first device that pci::init pushes, not from the `sti` of
\* init(); the masks make up for it: the PICs are opened only by a walk that
\* has set the manager (init.rs:10-33, madt.rs:82-103).
TimerHandlerIsReady == Deliverable => idt /\ manager # None

\* Unless a handler waits for the COM1 of the code it interrupted or the PS/2
\* controller does not answer, init() reaches kmain's loop or an error that is
\* reported, whatever the MADT and the PCI functions are: the walk over the
\* entries advances or stops, the scan visits every function once, and no
\* interrupt on the way ends in a triple fault.
BootEnds == ([]~Waiting) => <>(phase = "idle" \/ Reported)

-----------------------------------------------------------------------------
\* interrupts/irq.rs:8-9: the timer handler "checks the tick counter" each
\* time it is entered; so it gets past its println!.
TimerHandlerCompletes == (handler = "timer") ~> (handler # "timer")

\* init.rs:35, "you may now type": a key that is pressed in kmain's loop is
\* taken notice of, and the kernel goes on.
YouMayType == (phase = "idle" /\ key) ~> (~key /\ handler = "none")
=============================================================================
