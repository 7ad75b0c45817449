------------------------------ MODULE BootProofs -----------------------------
(***************************************************************************)
(* What holds while the kernel boots, for every firmware.                  *)
(***************************************************************************)
EXTENDS Boot, FiniteSetTheorems, TLAPS

-----------------------------------------------------------------------------
\* Interrupts can be on only with an IDT, which init() has loaded in every
\* phase after "idt"; a handler runs only then.  The PICs are opened by the
\* BIOS, before MaskPics, or by InitPics, which comes after SetManager.
ReadyInv ==
  /\ DOMAIN lists = KINDS
  /\ imr = OPEN => phase = "mask" \/ manager # None
  /\ madt_pc = "pics" => manager # None
  /\ iflag => idt /\ phase # "mask"
  /\ phase \in {"devices", "ps2", "pci", "sti", "message", "idle"} => idt
  /\ handler # "none" => idt /\ phase # "mask"
  /\ handler = "timer" => manager # None

\* The boot loader's state satisfies it: the PICs are open, interrupts off.
LEMMA InitReady == BootInit => ReadyInv
  BY Zenon DEF BootInit, MadtInit, ReadyInv

\* A table of four lists is not None.
LEMMA ListsAreSome == DOMAIN lists = KINDS => lists # None
<1>1. LAPIC \in KINDS
  BY DEF KINDS
<1>2. DOMAIN None = {}
  BY DEF None
<1> QED
  BY <1>1, <1>2

\* The walk over the MADT: only SetManager touches the manager, and it comes
\* before the step that opens the PICs.
LEMMA WalkReady == ReadyInv /\ WalkMadt => ReadyInv'
<1> SUFFICES ASSUME ReadyInv, WalkMadt PROVE ReadyInv'
  OBVIOUS
<1>0. /\ phase = "acpi" /\ phase' \in {"acpi", "idt", "panic"}
      /\ UNCHANGED <<iflag, idt, handler>>
  BY DEF WalkMadt, At, cpuVars
<1>1. CASE TakeEntry
  <2>1. DOMAIN lists' = KINDS
    BY <1>1 DEF TakeEntry, PushEntry, ReadyInv
  <2>2. madt_pc' # "pics" /\ UNCHANGED <<imr, manager>>
    BY <1>1 DEF TakeEntry, PushEntry
  <2> QED
    BY <1>0, <2>1, <2>2 DEF ReadyInv
<1>2. CASE StopAtUnknown
  BY <1>0, <1>2 DEF StopAtUnknown, ReadyInv
<1>3. CASE SetManager
  BY <1>0, <1>3, ListsAreSome DEF SetManager, ReadyInv
<1>4. CASE InitPics
  BY <1>0, <1>4 DEF InitPics, ReadyInv
<1>5. CASE ApicInit
  BY <1>0, <1>5 DEF ApicInit, ReadyInv
<1> QED
  BY <1>1, <1>2, <1>3, <1>4, <1>5 DEF WalkMadt, MadtStep

\* One step per action of the boot sequence.
LEMMA StepReady == ReadyInv /\ [BootNext]_bootVars => ReadyInv'
<1> SUFFICES ASSUME ReadyInv, [BootNext]_bootVars PROVE ReadyInv'
  OBVIOUS
<1> USE DEF At, madtVars, pciVars, cpuVars
<1>1. CASE MaskPics
  BY <1>1 DEF MaskPics, ReadyInv, OPEN, MASKED
<1>2. CASE WalkMadt
  BY <1>2, WalkReady
<1>3. CASE NoMadtFound
  BY <1>3 DEF NoMadtFound, ReadyInv
<1>4. CASE LoadIdt
  BY <1>4 DEF LoadIdt, ReadyInv
<1>5. CASE InitDevices
  BY <1>5 DEF InitDevices, ReadyInv
<1>6. CASE ScanPci
  BY <1>6 DEF ScanPci, ReadyInv
<1>7. CASE PushToDevices
  BY <1>7 DEF PushToDevices, ReadyInv
<1>8. CASE Sti
  BY <1>8 DEF Sti, ReadyInv
<1>9. CASE PrintLock \/ PrintDone
  BY <1>9 DEF PrintLock, PrintDone, Printing, ReadyInv
<1>10. CASE TimerHandler
  BY <1>10 DEF TimerHandler, ReadyInv
<1>11. CASE ExceptionHandler
  BY <1>11 DEF ExceptionHandler, ReadyInv, OPEN, MASKED
<1>12. CASE KeyPress
  BY <1>12 DEF KeyPress, ReadyInv
<1>13. CASE TimerInterrupt \/ KeyboardInterrupt
  BY <1>13 DEF TimerInterrupt, KeyboardInterrupt, Deliverable, Enter, ReadyInv
<1>14. CASE Loop \/ UNCHANGED bootVars
  BY <1>14 DEF Loop, bootVars, ReadyInv
<1> QED
  BY <1>1, <1>2, <1>3, <1>4, <1>5, <1>6, <1>7, <1>8, <1>9, <1>10, <1>11, <1>12,
     <1>13, <1>14 DEF BootNext, BootStep

\* Whatever the firmware: when the timer can interrupt, the IDT is loaded and
\* the APIC_MANAGER that apic::eoi unwraps is set.
THEOREM TimerIsReady == BootSpec => []TimerHandlerIsReady
<1>1. ReadyInv => TimerHandlerIsReady
  BY DEF ReadyInv, TimerHandlerIsReady, Deliverable
<1> QED
  BY <1>1, InitReady, StepReady, PTL DEF BootSpec

\* Whatever the firmware: no interrupt comes before the IDT, so none ends in
\* a triple fault, and the timer handler does not panic in apic::eoi.
THEOREM HandlersFindTheirState ==
  BootSpec => [][ /\ TimerInterrupt \/ KeyboardInterrupt => handler' # "triple_fault"
                  /\ TimerHandler => handler' # "panic" ]_bootVars
<1>1. ReadyInv /\ (TimerInterrupt \/ KeyboardInterrupt) => handler' # "triple_fault"
  BY DEF ReadyInv, TimerInterrupt, KeyboardInterrupt, Deliverable, Enter
<1>2. ReadyInv /\ TimerHandler => handler' # "panic"
  BY DEF ReadyInv, TimerHandler
<1>3. ReadyInv /\ [BootNext]_bootVars =>
        [ /\ TimerInterrupt \/ KeyboardInterrupt => handler' # "triple_fault"
          /\ TimerHandler => handler' # "panic" ]_bootVars
  BY <1>1, <1>2
<1> QED
  BY <1>3, InitReady, StepReady, PTL DEF BootSpec

-----------------------------------------------------------------------------
\* The registers as the firmware set them up; writing back what one of them
\* reads as restores it.
Restorable ==
  \A a \in DOMAIN machine, b \in 0 .. BARS - 1 : Decodes(machine[a].bars[b])

\* At most the BAR that is being sized differs from the firmware's.
NoTrace ==
  \A a \in DOMAIN machine : \A b \in 0 .. BARS - 1 :
    config[a].bars[b] # machine[a].bars[b] =>
      pci_pc \in {"sizing", "panic"} /\ a = at /\ b = bar

\* What a Device is.
DeviceType ==
  [at : Nat \X Nat \X Nat, class : Nat, subclass : Nat, bars : [0 .. BARS - 1 -> 0 .. ONES]]

\* The inductive invariant of load_bars: sizing changes a register's base
\* only, and while it lasts the Device keeps what the register held.
SizingInv ==
  /\ Bus(machine) /\ Restorable
  /\ config \in [DOMAIN machine -> Function]
  /\ at \in Nat \X Nat \X Nat
  /\ dev \in DeviceType
  /\ bar \in 0 .. BARS
  /\ pci_pc \in {"bar", "sizing"} => at \in DOMAIN machine
  /\ \A a \in DOMAIN machine :
       config[a].class = machine[a].class /\ config[a].subclass = machine[a].subclass
  /\ \A a \in DOMAIN machine : \A b \in 0 .. BARS - 1 :
       /\ config[a].bars[b].size = machine[a].bars[b].size
       /\ config[a].bars[b].flags = machine[a].bars[b].flags
       /\ ReadBar(config, a, b) \in 0 .. ONES
  /\ NoTrace
  /\ pci_pc = "sizing" => bar < BARS /\ dev.bars[bar] = ReadBar(machine, at, bar)

\* Rounding down gives an integer.
LEMMA RoundDownInt ==
  ASSUME NEW value \in Int, NEW unit \in Nat \ {0}
  PROVE  RoundDown(value, unit) \in Int
  BY DEF RoundDown

\* The address bits of a word.
LEMMA AddressRange ==
  ASSUME NEW value \in 0 .. ONES
  PROVE  Address(value) \in 0 .. ONES
<1>1. ONES \in Int
  BY PciAssumption DEF ONES
<1>2. value % 16 \in 0 .. 15 /\ value % 16 <= value
  BY <1>1
<1> QED
  BY <1>1, <1>2 DEF Address, RoundDown

\* Device::write changes the base of one BAR and nothing else.
LEMMA WriteBarFacts ==
  ASSUME NEW D, NEW cfg \in [D -> Function], NEW fn \in D, NEW b \in 0 .. BARS - 1,
         NEW value \in Int
  PROVE  /\ WriteBar(cfg, fn, b, value) \in [D -> Function]
         /\ \A a \in D : /\ WriteBar(cfg, fn, b, value)[a].class = cfg[a].class
                         /\ WriteBar(cfg, fn, b, value)[a].subclass = cfg[a].subclass
         /\ \A a \in D, k \in 0 .. BARS - 1 :
              WriteBar(cfg, fn, b, value)[a].bars[k] =
                IF a = fn /\ k = b
                THEN [base |-> RoundDown(value, cfg[fn].bars[b].size),
                      size |-> cfg[fn].bars[b].size, flags |-> cfg[fn].bars[b].flags]
                ELSE cfg[a].bars[k]
<1> DEFINE old == cfg[fn].bars[b]
           new == [old EXCEPT !.base = RoundDown(value, old.size)]
<1>1. old \in Bar /\ old.size \in Nat \ {0}
  BY Zenon DEF Function, Bar
<1>2. RoundDown(value, old.size) \in Int
  BY <1>1, RoundDownInt
<1>3. /\ new = [base |-> RoundDown(value, old.size), size |-> old.size, flags |-> old.flags]
      /\ new \in Bar
  BY <1>1, <1>2 DEF Bar
<1>4. WriteBar(cfg, fn, b, value) =
        [cfg EXCEPT ![fn] = [cfg[fn] EXCEPT !.bars = [cfg[fn].bars EXCEPT ![b] = new]]]
  BY DEF WriteBar
<1> HIDE DEF new
<1> DEFINE bars == [cfg[fn].bars EXCEPT ![b] = new]
           function == [cfg[fn] EXCEPT !.bars = bars]
<1>5. /\ bars \in [0 .. BARS - 1 -> Bar]
      /\ \A k \in 0 .. BARS - 1 : bars[k] = IF k = b THEN new ELSE cfg[fn].bars[k]
  BY Zenon, <1>3 DEF Function
<1> HIDE DEF bars
<1>6. /\ function \in Function /\ function.bars = bars
      /\ function.class = cfg[fn].class /\ function.subclass = cfg[fn].subclass
  BY <1>5 DEF Function
<1> HIDE DEF function
<1>7. WriteBar(cfg, fn, b, value) = [cfg EXCEPT ![fn] = function]
  BY <1>4 DEF function, bars
<1> QED
  BY Zenon, <1>3, <1>5, <1>6, <1>7

\* What a BAR that belongs to a bus reads as.
LEMMA ReadBarInt ==
  ASSUME NEW D, NEW cfg \in [D -> Function], NEW fn \in D, NEW b \in 0 .. BARS - 1
  PROVE  /\ cfg[fn].bars[b] \in Bar
         /\ ReadBar(cfg, fn, b) \in Int
<1>1. cfg[fn].bars[b] \in Bar
  BY Zenon DEF Function
<1> QED
  BY <1>1 DEF Bar, ReadBar

\* The loops stay within the natural numbers.
LEMMA FollowingType == ASSUME NEW a \in Nat \X Nat \X Nat PROVE Following(a) \in Nat \X Nat \X Nat
  BY DEF Following

\* The firmware's registers, before the scan.
LEMMA InitSizing == BootInit => SizingInv
<1> SUFFICES ASSUME BootInit PROVE SizingInv
  OBVIOUS
<1>1. Bus(machine) /\ Restorable /\ config = machine
  BY FirmwareAssumption DEF BootInit, PciInit, Restorable
<1>2. config \in [DOMAIN machine -> Function]
  BY <1>1 DEF Bus
<1>3. dev \in DeviceType
  BY PciAssumption DEF BootInit, PciInit, NoDevice, DeviceType, ONES
<1>4. at \in Nat \X Nat \X Nat /\ bar \in 0 .. BARS /\ pci_pc = "probe"
  BY PciAssumption DEF BootInit, PciInit
<1>5. NoTrace
  BY <1>1 DEF NoTrace
<1>6. \A a \in DOMAIN machine : \A b \in 0 .. BARS - 1 : ReadBar(config, a, b) \in 0 .. ONES
  BY Zenon, <1>1 DEF Restorable, Decodes, ReadBar
<1> QED
  BY <1>1, <1>2, <1>3, <1>4, <1>5, <1>6 DEF SizingInv

\* Writing all ones starts the sizing of a BAR.
LEMMA StartSizingInv == SizingInv /\ StartSizing => SizingInv'
<1> SUFFICES ASSUME SizingInv, StartSizing PROVE SizingInv'
  OBVIOUS
<1> DEFINE D == DOMAIN machine
<1>0. at \in D /\ bar \in 0 .. BARS /\ bar < BARS /\ config \in [D -> Function]
  BY DEF SizingInv, StartSizing
<1>1. at \in D /\ bar \in 0 .. BARS - 1 /\ config \in [D -> Function] /\ ONES \in Int
  BY <1>0, PciAssumption DEF ONES
<1>2. /\ config' = WriteBar(config, at, bar, ONES)
      /\ dev' = [dev EXCEPT !.bars[bar] = ReadBar(config, at, bar)]
      /\ pci_pc = "bar" /\ pci_pc' = "sizing"
      /\ UNCHANGED <<machine, at, bar>>
  BY DEF StartSizing
<1>3. /\ config' \in [D -> Function]
      /\ \A a \in D : config'[a].class = config[a].class /\ config'[a].subclass = config[a].subclass
      /\ \A a \in D, k \in 0 .. BARS - 1 :
           config'[a].bars[k] =
             IF a = at /\ k = bar
             THEN [base |-> RoundDown(ONES, config[at].bars[bar].size),
                   size |-> config[at].bars[bar].size, flags |-> config[at].bars[bar].flags]
             ELSE config[a].bars[k]
  BY <1>1, <1>2, WriteBarFacts
<1>4. \A a \in D, k \in 0 .. BARS - 1 : config[a].bars[k] = machine[a].bars[k]
  BY <1>2 DEF SizingInv, NoTrace
<1>5. ReadBar(config, at, bar) \in 0 .. ONES /\ ReadBar(config, at, bar) = ReadBar(machine, at, bar)
  BY Zenon, <1>1, <1>4 DEF SizingInv, ReadBar
<1>6. /\ dev' \in DeviceType
      /\ dev'.bars[bar] = ReadBar(machine, at, bar)
  BY Zenon, <1>1, <1>2, <1>5 DEF SizingInv, DeviceType
<1>7. \A a \in D, k \in 0 .. BARS - 1 :
        /\ config'[a].bars[k].size = machine[a].bars[k].size
        /\ config'[a].bars[k].flags = machine[a].bars[k].flags
  BY <1>3, <1>4
<1>8. NoTrace'
  BY <1>2, <1>3, <1>4 DEF NoTrace
<1>9. (Bus(machine) /\ Restorable)'
  BY <1>2 DEF SizingInv, Bus, Restorable
<1>10. bar' < BARS /\ (dev.bars[bar] = ReadBar(machine, at, bar))'
  BY <1>0, <1>2, <1>6 DEF ReadBar
<1>11. at' \in Nat \X Nat \X Nat /\ bar' \in 0 .. BARS /\ at' \in DOMAIN machine'
  BY <1>0, <1>2 DEF SizingInv
<1>12. \A a \in D, k \in 0 .. BARS - 1 : ReadBar(config', a, k) \in 0 .. ONES
  <2>1. RoundDown(ONES, config[at].bars[bar].size) + config[at].bars[bar].flags \in 0 .. ONES
    BY Zenon, <1>1, <1>4 DEF SizingInv, Restorable, Decodes
  <2> SUFFICES ASSUME NEW a \in D, NEW k \in 0 .. BARS - 1
               PROVE  ReadBar(config', a, k) \in 0 .. ONES
    OBVIOUS
  <2>2. CASE a = at /\ k = bar
    BY <1>3, <2>1, <2>2 DEF ReadBar
  <2>3. CASE ~(a = at /\ k = bar)
    <3>1. config'[a].bars[k] = config[a].bars[k] /\ ReadBar(config, a, k) \in 0 .. ONES
      BY Zenon, <1>3, <2>3 DEF SizingInv
    <3> QED
      BY Zenon, <3>1 DEF ReadBar
  <2> QED
    BY <2>2, <2>3
<1>13. config' \in [DOMAIN machine' -> Function] /\ dev' \in DeviceType
  BY <1>2, <1>3, <1>6
<1>14. \A a \in D : config'[a].class = machine[a].class /\ config'[a].subclass = machine[a].subclass
  BY Zenon, <1>3 DEF SizingInv
<1> QED
  BY ZenonT(60), <1>2, <1>7, <1>8, <1>9, <1>10, <1>11, <1>12, <1>13, <1>14 DEF SizingInv

\* Writing back what was read ends it.
LEMMA EndSizingInv == SizingInv /\ EndSizing => SizingInv'
<1> SUFFICES ASSUME SizingInv, EndSizing PROVE SizingInv'
  OBVIOUS
<1> DEFINE D == DOMAIN machine
           size == SizeOf(ReadBar(config, at, bar))
<1>0. /\ at \in D /\ bar \in 0 .. BARS /\ bar < BARS /\ config \in [D -> Function]
      /\ machine \in [D -> Function]
      /\ pci_pc = "sizing" /\ UNCHANGED <<machine, at>>
  BY DEF SizingInv, EndSizing, Bus
<1>1. /\ at \in D /\ bar \in 0 .. BARS - 1 /\ config \in [D -> Function]
      /\ machine \in [D -> Function]
      /\ pci_pc = "sizing" /\ UNCHANGED <<machine, at>>
  BY <1>0, PciAssumption
<1>2. (Bus(machine) /\ Restorable)'
  BY <1>1 DEF SizingInv, Bus, Restorable
<1>3. CASE size >= WORD
  <2>1. pci_pc' = "panic" /\ UNCHANGED <<config, dev, bar>>
    BY <1>3 DEF EndSizing
  <2>2. NoTrace'
    BY <1>1, <2>1 DEF SizingInv, NoTrace
  <2> QED
    BY Zenon, <1>1, <1>2, <2>1, <2>2 DEF SizingInv
<1>4. CASE ~(size >= WORD)
  <2>1. /\ config' = WriteBar(config, at, bar, dev.bars[bar])
        /\ dev' = [dev EXCEPT !.bars[bar] = IF size > 0 THEN size ELSE @]
        /\ bar' = bar + 1
        /\ pci_pc' = "bar"
    BY <1>4 DEF EndSizing
  <2>2. dev.bars[bar] \in Int /\ dev.bars[bar] = ReadBar(machine, at, bar)
    <3>1. dev.bars[bar] \in 0 .. ONES
      BY Zenon, <1>1 DEF SizingInv, DeviceType
    <3>2. dev.bars[bar] = ReadBar(machine, at, bar)
      BY <1>1 DEF SizingInv
    <3> QED
      BY <3>1, <3>2, PciAssumption DEF ONES
  <2>3. /\ config' \in [D -> Function]
        /\ \A a \in D : config'[a].class = config[a].class /\ config'[a].subclass = config[a].subclass
        /\ \A a \in D, k \in 0 .. BARS - 1 :
             config'[a].bars[k] =
               IF a = at /\ k = bar
               THEN [base |-> RoundDown(dev.bars[bar], config[at].bars[bar].size),
                     size |-> config[at].bars[bar].size, flags |-> config[at].bars[bar].flags]
               ELSE config[a].bars[k]
    BY <1>1, <2>1, <2>2, WriteBarFacts
  <2>4. RoundDown(dev.bars[bar], config[at].bars[bar].size) = machine[at].bars[bar].base
    BY Zenon, <1>1, <2>2 DEF SizingInv, Restorable, Decodes, ReadBar
  <2>5. config'[at].bars[bar] = machine[at].bars[bar]
    <3>1. /\ machine[at].bars[bar] \in Bar
          /\ config[at].bars[bar].size = machine[at].bars[bar].size
          /\ config[at].bars[bar].flags = machine[at].bars[bar].flags
      BY <1>1, ReadBarInt DEF SizingInv
    <3>2. config'[at].bars[bar] =
            [base |-> machine[at].bars[bar].base, size |-> machine[at].bars[bar].size,
             flags |-> machine[at].bars[bar].flags]
      BY Zenon, <1>1, <2>3, <2>4, <3>1
    <3> QED
      BY Zenon, <3>1, <3>2 DEF Bar
  <2>6. \A a \in D, k \in 0 .. BARS - 1 : config'[a].bars[k] = machine[a].bars[k]
    BY <1>1, <2>3, <2>5 DEF SizingInv, NoTrace
  <2>7. size \in 1 .. ONES
    <3>1. ReadBar(config, at, bar) \in 0 .. ONES
      BY <1>1 DEF SizingInv
    <3>2. Address(ReadBar(config, at, bar)) \in 0 .. ONES
      BY <3>1, AddressRange
    <3> QED
      BY <1>4, <3>2, PciAssumption DEF SizeOf, ONES
  <2>8. dev' \in DeviceType /\ bar' \in 0 .. BARS
    <3> HIDE DEF size
    <3>1. (IF size > 0 THEN size ELSE dev.bars[bar]) \in 0 .. ONES
      BY <2>7, PciAssumption DEF ONES
    <3>2. dev' = [dev EXCEPT !.bars = [dev.bars EXCEPT ![bar] = IF size > 0 THEN size ELSE dev.bars[bar]]]
      BY <1>1, <2>1 DEF SizingInv, DeviceType
    <3>3. [dev.bars EXCEPT ![bar] = IF size > 0 THEN size ELSE dev.bars[bar]]
            \in [0 .. BARS - 1 -> 0 .. ONES]
      BY <1>1, <3>1 DEF SizingInv, DeviceType
    <3>4. dev' \in DeviceType
      BY Zenon, <3>2, <3>3 DEF SizingInv, DeviceType
    <3> QED
      BY <1>0, <2>1, <3>4, PciAssumption
  <2>10. \A a \in D, k \in 0 .. BARS - 1 : ReadBar(config', a, k) \in 0 .. ONES
    BY ZenonT(60), <2>6 DEF SizingInv, Restorable, Decodes, ReadBar
  <2>9. NoTrace'
    BY <1>1, <2>6 DEF NoTrace
  <2>11. \A a \in D :
           config'[a].class = machine[a].class /\ config'[a].subclass = machine[a].subclass
    BY Zenon, <2>3 DEF SizingInv
  <2>12. config' \in [D -> Function]
    BY <2>3
  <2> QED
    BY Zenon, <1>1, <1>2, <2>1, <2>6, <2>8, <2>9, <2>10, <2>11, <2>12 DEF SizingInv
<1> QED
  BY <1>3, <1>4

\* The other steps of the scan write no register.
LEMMA StepSizing == SizingInv /\ [BootNext]_bootVars => SizingInv'
<1> SUFFICES ASSUME SizingInv, [BootNext]_bootVars PROVE SizingInv'
  OBVIOUS
<1>1. CASE StartSizing
  BY <1>1, StartSizingInv
<1>2. CASE EndSizing
  BY <1>2, EndSizingInv
<1>3. ASSUME UNCHANGED <<machine, config>>,
             pci_pc \notin {"sizing", "panic"} \/ UNCHANGED <<at, dev, bar, pci_pc>>,
             pci_pc' = "sizing" => UNCHANGED <<at, dev, bar, pci_pc>>,
             at' \in Nat \X Nat \X Nat, bar' \in 0 .. BARS, dev' \in DeviceType,
             pci_pc' \in {"bar", "sizing"} => at' \in DOMAIN machine
      PROVE  SizingInv'
  <2>1. NoTrace'
    BY ZenonT(60), <1>3 DEF SizingInv, NoTrace
  <2>2. (Bus(machine) /\ Restorable)'
    BY <1>3 DEF SizingInv, Bus, Restorable
  <2>3. (pci_pc = "sizing" => bar < BARS /\ dev.bars[bar] = ReadBar(machine, at, bar))'
    BY Zenon, <1>3 DEF SizingInv, ReadBar
  <2> QED
    BY Zenon, <1>3, <2>1, <2>2, <2>3 DEF SizingInv
<1>4. CASE ProbeNothing
  BY Zenon, <1>3, <1>4, FollowingType DEF ProbeNothing, NextFunction, SizingInv
<1>5. CASE ProbeDevice
  <2>1. at \in DOMAIN machine /\ config[at].class \in Nat /\ config[at].subclass \in Nat
    BY <1>5 DEF ProbeDevice, SizingInv, Function
  <2>2. dev' = [at |-> at, class |-> config[at].class, subclass |-> config[at].subclass,
                bars |-> [b \in 0 .. BARS - 1 |-> 0]]
    BY Zenon, <1>5 DEF ProbeDevice, NoDevice
  <2>3. dev' \in DeviceType
    <3>1. [b \in 0 .. BARS - 1 |-> 0] \in [0 .. BARS - 1 -> 0 .. ONES]
      BY PciAssumption DEF ONES
    <3>2. at \in Nat \X Nat \X Nat
      BY DEF SizingInv
    <3> QED
      BY <2>1, <2>2, <3>1, <3>2 DEF DeviceType
  <2>4. bar' \in 0 .. BARS
    BY <1>5, PciAssumption DEF ProbeDevice
  <2> QED
    BY <1>3, <1>5, <2>1, <2>3, <2>4 DEF ProbeDevice, SizingInv
<1>6. CASE SkipBar
  <2>1. bar' \in 0 .. BARS
    BY <1>6, PciAssumption DEF SkipBar, SizingInv
  <2> QED
    BY Zenon, <1>3, <1>6, <2>1 DEF SkipBar, SizingInv
<1>7. CASE PushDevice
  BY Zenon, <1>3, <1>7, FollowingType DEF PushDevice, NextFunction, SizingInv
<1>8. CASE Identify \/ AllIdentified
  BY Zenon, <1>3, <1>8 DEF Identify, AllIdentified, SizingInv
<1>9. CASE PrintDone
  BY Zenon, <1>3, <1>9 DEF PrintDone, Printing, SizingInv
<1>10. CASE UNCHANGED pciVars
  BY Zenon, <1>3, <1>10 DEF pciVars, SizingInv
<1>11. \/ StartSizing \/ EndSizing \/ ProbeNothing \/ ProbeDevice \/ SkipBar
       \/ PushDevice \/ Identify \/ AllIdentified \/ PrintDone \/ UNCHANGED pciVars
  BY Zenon DEF BootNext, BootStep, MaskPics, WalkMadt, NoMadtFound, LoadIdt, InitDevices, ScanPci,
         PciStep, PushToDevices, Sti, PrintLock, TimerHandler, ExceptionHandler, KeyPress,
         TimerInterrupt, KeyboardInterrupt, Loop, bootVars
<1> QED
  BY <1>1, <1>2, <1>4, <1>5, <1>6, <1>7, <1>8, <1>9, <1>10, <1>11

-----------------------------------------------------------------------------
\* Places of PCI functions.
Place == Nat \X Nat \X Nat

\* The three loops go through the places below the maxima in bus order and
\* leave none out.
LEMMA FollowingCovers ==
  ASSUME NEW a \in Place, Below(a)
  PROVE  /\ \A c \in Place : Below(c) => (Precedes(c, Following(a)) <=> Precedes(c, a) \/ c = a)
         /\ Following(a)[1] < MAX_BUS => Below(Following(a))
<1> USE PciAssumption DEF Place, Below, Precedes, Following
<1>0. PICK b \in Nat, d \in Nat, f \in Nat : a = <<b, d, f>>
  OBVIOUS
<1>1. ASSUME NEW c \in Place, Below(c)
      PROVE  Precedes(c, Following(a)) <=> Precedes(c, a) \/ c = a
  <2>1. PICK x \in Nat, y \in Nat, z \in Nat : c = <<x, y, z>>
    OBVIOUS
  <2>2. c = a <=> x = b /\ y = d /\ z = f
    BY <1>0, <2>1
  <2>3. CASE f + 1 < MAX_FUNCTION
    BY <1>0, <1>1, <2>1, <2>2, <2>3
  <2>4. CASE ~(f + 1 < MAX_FUNCTION) /\ d + 1 < MAX_DEVICE
    BY <1>0, <1>1, <2>1, <2>2, <2>4
  <2>5. CASE ~(f + 1 < MAX_FUNCTION) /\ ~(d + 1 < MAX_DEVICE)
    BY <1>0, <1>1, <2>1, <2>2, <2>5
  <2> QED
    BY Zenon, <2>3, <2>4, <2>5
<1>2. Following(a)[1] < MAX_BUS => Below(Following(a))
  BY <1>0
<1> QED
  BY Zenon, <1>1, <1>2

\* A place past the last bus comes after all of them.
LEMMA PastTheBuses ==
  ASSUME NEW a \in Place, ~(a[1] < MAX_BUS), NEW c \in Place, Below(c)
  PROVE  Precedes(c, a)
  BY PciAssumption DEF Place, Below, Precedes

\* The functions that the loops have passed.
Passed == {a \in DOMAIN machine : Below(a) /\ Precedes(a, at)}

\* The inductive invariant of the scan: DEVICES holds the functions that have
\* been passed, in bus order, and AHCI_BASE comes from the last controller
\* among the devices that have been looked at.
ScanInv ==
  /\ devices \in Seq(DeviceType)
  /\ pci_pc \in {"probe", "bar", "sizing"} => Below(at)
  /\ pci_pc \in {"discovered", "identify", "found", "done"} => ~(at[1] < MAX_BUS)
  /\ pci_pc \in {"bar", "sizing"} => dev.at = at /\ (IsAhci(dev) <=> IsAhci(machine[at]))
  /\ {devices[k].at : k \in DOMAIN devices} = Passed
  /\ \A k \in DOMAIN devices : IsAhci(devices[k]) <=> IsAhci(machine[devices[k].at])
  /\ \A j, k \in DOMAIN devices : j < k => Precedes(devices[j].at, devices[k].at)
  /\ seen \in 0 .. Len(devices) /\ ahci_base \in 0 .. ONES
  /\ pci_pc \in {"probe", "bar", "sizing", "discovered"} => seen = 0
  /\ pci_pc = "done" => seen = Len(devices)
  /\ (\A k \in 1 .. seen : ~IsAhci(devices[k])) => ahci_base = 0
  /\ \A k \in 1 .. seen :
       IsAhci(devices[k]) /\ (\A j \in k + 1 .. seen : ~IsAhci(devices[j])) =>
         ahci_base = Address(machine[devices[k].at].bars[ABAR].base)

\* Nothing has been found before the scan.
LEMMA InitScan == BootInit => ScanInv
<1> SUFFICES ASSUME BootInit PROVE ScanInv
  OBVIOUS
<1>1. /\ at = <<0, 0, 0>> /\ devices = <<>> /\ seen = 0 /\ ahci_base = 0 /\ pci_pc = "probe"
      /\ Bus(machine)
  BY FirmwareAssumption DEF BootInit, PciInit
<1>2. Below(at)
  BY <1>1, PciAssumption DEF Below
<1>3. Passed = {}
  BY <1>1 DEF Passed, Precedes, Bus
<1>4. ahci_base \in 0 .. ONES /\ seen \in 0 .. Len(devices)
  BY <1>1, PciAssumption DEF ONES
<1>5. {devices[k].at : k \in DOMAIN devices} = Passed
  BY <1>1, <1>3
<1>6. 1 .. seen = {} /\ DOMAIN devices = {} /\ devices \in Seq(DeviceType)
  BY <1>1
<1> QED
  BY <1>1, <1>2, <1>4, <1>5, <1>6 DEF ScanInv

\* The loops move on from a place at which there is no function.
LEMMA ProbeNothingScan == SizingInv /\ ScanInv /\ ProbeNothing => ScanInv'
<1> SUFFICES ASSUME SizingInv, ScanInv, ProbeNothing PROVE ScanInv'
  OBVIOUS
<1>1. /\ at \in Place /\ Below(at) /\ at' = Following(at) /\ at \notin DOMAIN machine
      /\ DOMAIN machine \subseteq Place /\ seen = 0
      /\ UNCHANGED <<machine, devices, seen, ahci_base>>
      /\ pci_pc' = IF Following(at)[1] < MAX_BUS THEN "probe" ELSE "discovered"
  BY Zenon DEF SizingInv, ScanInv, ProbeNothing, NextFunction, Bus, Place
<1>2. Passed' = Passed
  BY <1>1, FollowingCovers DEF Passed
<1>3. /\ pci_pc' = "probe" => Below(at')
      /\ pci_pc' = "discovered" => ~(at'[1] < MAX_BUS)
      /\ pci_pc' \in {"probe", "discovered"}
  BY <1>1, FollowingCovers
<1> QED
  BY Zenon, <1>1, <1>2, <1>3 DEF ScanInv

\* DEVICES.push of the function at which the loops are.
LEMMA PushScan == SizingInv /\ ScanInv /\ PushDevice => ScanInv'
<1> SUFFICES ASSUME SizingInv, ScanInv, PushDevice PROVE ScanInv'
  OBVIOUS
<1>1. /\ at \in Place /\ Below(at) /\ at' = Following(at) /\ at \in DOMAIN machine
      /\ DOMAIN machine \subseteq Place /\ seen = 0 /\ dev \in DeviceType
      /\ dev.at = at /\ (IsAhci(dev) <=> IsAhci(machine[at]))
      /\ devices \in Seq(DeviceType) /\ devices' = Append(devices, dev)
      /\ UNCHANGED <<machine, seen, ahci_base>>
      /\ pci_pc' = IF Following(at)[1] < MAX_BUS THEN "probe" ELSE "discovered"
  BY Zenon DEF SizingInv, ScanInv, PushDevice, NextFunction, Bus, Place
<1>2. Passed' = Passed \cup {at}
  BY Zenon, <1>1, FollowingCovers DEF Passed
<1>3. /\ pci_pc' = "probe" => Below(at')
      /\ pci_pc' = "discovered" => ~(at'[1] < MAX_BUS)
      /\ pci_pc' \in {"probe", "discovered"}
  BY Zenon, <1>1, FollowingCovers
<1>4. /\ devices' \in Seq(DeviceType)
      /\ Len(devices) \in Nat /\ Len(devices') = Len(devices) + 1
      /\ DOMAIN devices = 1 .. Len(devices) /\ DOMAIN devices' = 1 .. Len(devices) + 1
      /\ \A k \in 1 .. Len(devices) : devices'[k] = devices[k]
      /\ devices'[Len(devices) + 1] = dev
  BY <1>1
<1>5. \A k \in 1 .. Len(devices) + 1 : k \in 1 .. Len(devices) \/ k = Len(devices) + 1
  BY <1>4
<1>6. {devices'[k].at : k \in DOMAIN devices'} = {devices[k].at : k \in DOMAIN devices} \cup {at}
  <2>1. Len(devices) + 1 \in 1 .. Len(devices) + 1 /\ 1 .. Len(devices) \subseteq 1 .. Len(devices) + 1
    BY <1>4
  <2> QED
    BY ZenonT(60), <1>1, <1>4, <1>5, <2>1
<1>7. {devices'[k].at : k \in DOMAIN devices'} = Passed'
  BY Zenon, <1>2, <1>6 DEF ScanInv
<1>8. \A k \in DOMAIN devices' : IsAhci(devices'[k]) <=> IsAhci(machine'[devices'[k].at])
  BY ZenonT(60), <1>1, <1>4, <1>5 DEF ScanInv
<1>9. \A k \in DOMAIN devices : Precedes(devices[k].at, at)
  BY Zenon DEF ScanInv, Passed
<1>10. ASSUME NEW j \in DOMAIN devices', NEW k \in DOMAIN devices', j < k
       PROVE  Precedes(devices'[j].at, devices'[k].at)
  <2>1. j \in 1 .. Len(devices)
    BY <1>4, <1>10
  <2>2. CASE k = Len(devices) + 1
    BY Zenon, <1>1, <1>4, <1>9, <2>1, <2>2
  <2>3. CASE k \in 1 .. Len(devices)
    BY Zenon, <1>4, <1>10, <2>1, <2>3 DEF ScanInv
  <2> QED
    BY <1>4, <1>5, <2>2, <2>3
<1>11. 1 .. seen = {} /\ seen' \in 0 .. Len(devices')
  BY <1>1, <1>4
<1> QED
  BY Zenon, <1>1, <1>3, <1>4, <1>7, <1>8, <1>10, <1>11 DEF ScanInv

\* The loop over DEVICES looks at the next one, when no BAR is being sized.
LEMMA IdentifyScan == SizingInv /\ ScanInv /\ Identify => ScanInv'
<1> SUFFICES ASSUME SizingInv, ScanInv, Identify PROVE ScanInv'
  OBVIOUS
<1> DEFINE d == devices[seen + 1]
<1>1. /\ pci_pc = "identify" /\ seen \in 0 .. Len(devices) /\ seen < Len(devices)
      /\ devices \in Seq(DeviceType) /\ ~(at[1] < MAX_BUS)
      /\ seen' = seen + 1 /\ UNCHANGED <<machine, config, at, dev, devices>>
      /\ IF IsAhci(d) THEN ahci_base' = Address(ReadBar(config, d.at, ABAR)) /\ pci_pc' = "found"
         ELSE UNCHANGED <<ahci_base, pci_pc>>
  BY Zenon DEF ScanInv, Identify
<1>2. /\ Len(devices) \in Nat /\ DOMAIN devices = 1 .. Len(devices)
      /\ seen \in Nat /\ seen + 1 \in 1 .. Len(devices) /\ seen' \in 0 .. Len(devices)
  BY <1>1
<1>3. d.at \in DOMAIN machine
  BY Zenon, <1>2 DEF ScanInv, Passed
<1>4. Address(ReadBar(config, d.at, ABAR)) = Address(machine[d.at].bars[ABAR].base)
  <2>1. ABAR \in 0 .. BARS - 1
    BY PciAssumption DEF ABAR
  <2>2. config[d.at].bars[ABAR] = machine[d.at].bars[ABAR]
    BY Zenon, <1>1, <1>3, <2>1 DEF SizingInv, NoTrace
  <2>3. Decodes(machine[d.at].bars[ABAR])
    BY Zenon, <1>3, <2>1 DEF SizingInv, Restorable
  <2> QED
    BY Zenon, <2>2, <2>3 DEF Decodes, ReadBar
<1>5. Address(ReadBar(config, d.at, ABAR)) \in 0 .. ONES
  <2>1. ABAR \in 0 .. BARS - 1
    BY PciAssumption DEF ABAR
  <2>2. ReadBar(config, d.at, ABAR) \in 0 .. ONES
    BY <1>3, <2>1 DEF SizingInv
  <2> QED
    BY <2>2, AddressRange
<1>6. Passed' = Passed
  BY <1>1 DEF Passed
<1>7. /\ ahci_base' \in 0 .. ONES
      /\ pci_pc' \in {"identify", "found"}
  BY Zenon, <1>1, <1>5 DEF ScanInv
<1>8. (\A k \in 1 .. seen : ~IsAhci(devices[k])) => ahci_base = 0
  BY Zenon DEF ScanInv
<1>9. (\A k \in 1 .. seen' : ~IsAhci(devices[k])) => ahci_base' = 0
  <2> SUFFICES ASSUME \A k \in 1 .. seen' : ~IsAhci(devices[k]) PROVE ahci_base' = 0
    OBVIOUS
  <2>1. 1 .. seen \subseteq 1 .. seen' /\ seen + 1 \in 1 .. seen'
    BY <1>1, <1>2
  <2> QED
    BY <1>1, <1>8, <2>1
<1>10. ASSUME NEW k \in 1 .. seen', IsAhci(devices[k]),
              \A j \in k + 1 .. seen' : ~IsAhci(devices[j])
       PROVE  ahci_base' = Address(machine[devices[k].at].bars[ABAR].base)
  <2>1. CASE k = seen + 1
    BY Zenon, <1>1, <1>4, <1>10, <2>1
  <2>2. CASE k # seen + 1
    <3>1. k \in 1 .. seen /\ seen + 1 \in k + 1 .. seen' /\ k + 1 .. seen \subseteq k + 1 .. seen'
      BY <1>1, <1>2, <2>2
    <3>2. ~IsAhci(d)
      BY <1>10, <3>1
    <3>3. ahci_base = Address(machine[devices[k].at].bars[ABAR].base)
      BY Zenon, <1>10, <3>1 DEF ScanInv
    <3> QED
      BY Zenon, <1>1, <3>2, <3>3
  <2> QED
    BY Zenon, <2>1, <2>2
<1>11. {devices'[k].at : k \in DOMAIN devices'} = Passed'
  BY Zenon, <1>1, <1>6 DEF ScanInv
<1> HIDE DEF d
<1> QED
  BY Zenon, <1>1, <1>2, <1>7, <1>9, <1>10, <1>11 DEF ScanInv

\* The other steps move neither the loops nor the list.
LEMMA StepScan == SizingInv /\ ScanInv /\ [BootNext]_bootVars => ScanInv'
<1> SUFFICES ASSUME SizingInv, ScanInv, [BootNext]_bootVars PROVE ScanInv'
  OBVIOUS
<1>1. ASSUME UNCHANGED <<machine, at, devices, seen, ahci_base>>,
             pci_pc' \in {"probe", "bar", "sizing"} => pci_pc \in {"probe", "bar", "sizing"},
             pci_pc' \in {"discovered", "identify", "found", "done"} =>
               pci_pc \in {"discovered", "identify", "found", "done"},
             pci_pc' = "discovered" => pci_pc = "discovered",
             pci_pc' = "done" => seen = Len(devices),
             pci_pc' \in {"bar", "sizing"} =>
               dev'.at = at /\ (IsAhci(dev') <=> IsAhci(machine[at]))
      PROVE  ScanInv'
  <2>1. Passed' = Passed
    BY Zenon, <1>1 DEF Passed
  <2>2. {devices'[k].at : k \in DOMAIN devices'} = Passed'
    BY Zenon, <1>1, <2>1 DEF ScanInv
  <2>3. (pci_pc \in {"probe", "bar", "sizing", "discovered"} => seen = 0)'
    BY Zenon, <1>1 DEF ScanInv
  <2> QED
    BY Zenon, <1>1, <2>2, <2>3 DEF ScanInv
<1>2. CASE ProbeNothing
  BY <1>2, ProbeNothingScan
<1>3. CASE PushDevice
  BY <1>3, PushScan
<1>4. CASE Identify
  BY <1>4, IdentifyScan
<1>5. CASE ProbeDevice
  <2>1. at \in DOMAIN machine /\ config[at] \in Function /\ machine[at] \in Function
    BY <1>5 DEF ProbeDevice, SizingInv, Bus
  <2>2. dev' = [at |-> at, class |-> config[at].class, subclass |-> config[at].subclass,
                bars |-> [b \in 0 .. BARS - 1 |-> 0]]
    BY Zenon, <1>5 DEF ProbeDevice, NoDevice
  <2>3. config[at].class = machine[at].class /\ config[at].subclass = machine[at].subclass
    BY <2>1 DEF SizingInv
  <2>4. dev'.at = at /\ (IsAhci(dev') <=> IsAhci(machine[at]))
    BY <2>2, <2>3 DEF IsAhci
  <2> QED
    BY <1>1, <1>5, <2>4 DEF ProbeDevice
<1>6. CASE SkipBar
  BY Zenon, <1>1, <1>6 DEF SkipBar, ScanInv
<1>7. CASE StartSizing \/ EndSizing
  <2>1. /\ UNCHANGED <<machine, at, devices, seen, ahci_base>>
        /\ pci_pc \in {"bar", "sizing"} /\ pci_pc' \in {"bar", "sizing", "panic"}
    BY <1>7 DEF StartSizing, EndSizing
  <2>2. dev'.at = dev.at /\ dev'.class = dev.class /\ dev'.subclass = dev.subclass
    BY Zenon, <1>7 DEF StartSizing, EndSizing, SizingInv, DeviceType
  <2> QED
    BY Zenon, <1>1, <2>1, <2>2 DEF ScanInv, IsAhci
<1>8. CASE AllIdentified
  BY Zenon, <1>1, <1>8 DEF AllIdentified
<1>9. CASE PrintDone
  BY Zenon, <1>1, <1>9 DEF PrintDone, Printing, ScanInv
<1>10. CASE UNCHANGED pciVars
  BY Zenon, <1>1, <1>10 DEF pciVars, ScanInv
<1>11. \/ StartSizing \/ EndSizing \/ ProbeNothing \/ ProbeDevice \/ SkipBar
       \/ PushDevice \/ Identify \/ AllIdentified \/ PrintDone \/ UNCHANGED pciVars
  BY Zenon DEF BootNext, BootStep, MaskPics, WalkMadt, NoMadtFound, LoadIdt, InitDevices, ScanPci,
         PciStep, PushToDevices, Sti, PrintLock, TimerHandler, ExceptionHandler, KeyPress,
         TimerInterrupt, KeyboardInterrupt, Loop, bootVars
<1> QED
  BY <1>2, <1>3, <1>4, <1>5, <1>6, <1>7, <1>8, <1>9, <1>10, <1>11

\* Whatever functions the machine has: DEVICES lists each of them once, in
\* bus order, no BAR but the one being sized is disturbed, and AHCI_BASE is
\* the last controller's address.
THEOREM EnumerationExact == BootSpec => []EnumerationIsExact
<1>1. SizingInv /\ ScanInv => EnumerationIsExact
  <2> SUFFICES ASSUME SizingInv, ScanInv PROVE EnumerationIsExact
    OBVIOUS
  <2>0. /\ Len(devices) \in Nat /\ DOMAIN devices = 1 .. Len(devices)
        /\ at \in Place /\ DOMAIN machine \subseteq Place
    BY DEF SizingInv, ScanInv, Bus, Place
  <2>1. \A k \in 1 .. Len(devices) - 1 : Precedes(devices[k].at, devices[k + 1].at)
    <3> SUFFICES ASSUME NEW k \in 1 .. Len(devices) - 1
                 PROVE  Precedes(devices[k].at, devices[k + 1].at)
      OBVIOUS
    <3>1. k \in DOMAIN devices /\ k + 1 \in DOMAIN devices /\ k < k + 1
      BY <2>0
    <3> QED
      BY Zenon, <3>1 DEF ScanInv
  <2>2. ASSUME pci_pc = "done"
        PROVE  LET found == {a \in DOMAIN machine : Below(a)}
                   controllers == {a \in found : IsAhci(machine[a])}
               IN /\ {devices[k].at : k \in DOMAIN devices} = found
                  /\ controllers = {} => ahci_base = 0
                  /\ \A a \in controllers :
                       (\A c \in controllers : ~Precedes(a, c)) =>
                         ahci_base = Address(machine[a].bars[ABAR].base)
    <3> DEFINE found == {a \in DOMAIN machine : Below(a)}
               controllers == {a \in found : IsAhci(machine[a])}
    <3>1. ~(at[1] < MAX_BUS) /\ seen = Len(devices)
      BY Zenon, <2>2 DEF ScanInv
    <3>2. Passed = found
      BY <2>0, <3>1, PastTheBuses DEF Passed
    <3>3. {devices[k].at : k \in DOMAIN devices} = found
      BY Zenon, <3>2 DEF ScanInv
    <3>4. \A k \in DOMAIN devices : IsAhci(devices[k]) <=> devices[k].at \in controllers
      BY Zenon, <3>3 DEF ScanInv
    <3>5. controllers = {} => ahci_base = 0
      BY Zenon, <2>0, <3>1, <3>4 DEF ScanInv
    <3>6. ASSUME NEW a \in controllers, \A c \in controllers : ~Precedes(a, c)
          PROVE  ahci_base = Address(machine[a].bars[ABAR].base)
      <4>1. PICK k \in DOMAIN devices : devices[k].at = a
        BY Zenon, <3>3
      <4>2. IsAhci(devices[k])
        BY <3>4, <4>1
      <4>3. \A j \in k + 1 .. Len(devices) : ~IsAhci(devices[j])
        <5> SUFFICES ASSUME NEW j \in k + 1 .. Len(devices), IsAhci(devices[j]) PROVE FALSE
          OBVIOUS
        <5>1. j \in DOMAIN devices /\ k < j
          BY <2>0
        <5>2. Precedes(a, devices[j].at)
          BY Zenon, <4>1, <5>1 DEF ScanInv
        <5> QED
          BY Zenon, <3>4, <3>6, <5>1, <5>2
      <4> QED
        BY Zenon, <2>0, <3>1, <4>1, <4>2, <4>3 DEF ScanInv
    <3> QED
      BY Zenon, <3>3, <3>5, <3>6
  <2>3. NoTrace
    BY DEF SizingInv
  <2> QED
    BY Zenon, <2>1, <2>2, <2>3 DEF EnumerationIsExact, NoTrace
<1> QED
  BY <1>1, InitSizing, StepSizing, InitScan, StepScan, PTL DEF BootSpec

-----------------------------------------------------------------------------
\* The walk over the MADT after n entries: each of them fits into the table
\* and lies before the offset that has been reached, which is where the next
\* one starts; the lists hold them.
Walked(n) ==
  /\ \A k \in 1 .. n : Fits(madt, k) /\ madt.entries[k].off < i
  /\ i = Offset(madt.entries, n + 1)
  /\ Lists(lists, madt.entries, n)

\* The inductive invariant of Madt::init.
WalkInv ==
  /\ IsMadt(madt)
  /\ i \in Nat /\ cpus \in Nat
  /\ lists \in [KINDS -> Seq({madt.entries[k] : k \in DOMAIN madt.entries})]
  /\ \A kind \in KINDS : Len(lists[kind]) <= CAPACITY[kind]
  /\ manager \in {None, lists}
  /\ madt_pc \in {"walk", "pics", "apic", "done", "panic"}
  /\ madt_pc = "walk" =>
       /\ manager = None
       /\ \E n \in 0 .. Len(madt.entries) : Walked(n)
  /\ ManagerIsExact

\* What the walk over a table relies on.
LEMMA TableFacts ==
  ASSUME NEW table, IsMadt(table)
  PROVE  /\ DataLen(table) \in Nat
         /\ Len(table.entries) \in Nat /\ DOMAIN table.entries = 1 .. Len(table.entries)
         /\ \A k \in 1 .. Len(table.entries) :
              /\ table.entries[k].len \in Nat /\ table.entries[k].off \in Nat
              /\ table.entries[k].off = Offset(table.entries, k)
              /\ table.entries[k].ty = LAPIC =>
                   table.entries[k].id \in 0 .. 255 /\ table.entries[k].enabled \in BOOLEAN
         /\ DataLen(table) <= Offset(table.entries, Len(table.entries) + 1) + 1
<1>1. table.length \in Nat
  BY Zenon DEF IsMadt
<1>2. DataLen(table) \in Nat
  BY <1>1 DEF DataLen, HEADER
<1> QED
  BY Zenon, <1>2 DEF IsMadt

\* The walk goes on where the next entry starts.
LEMMA NextEntry ==
  ASSUME IsMadt(madt), i \in Nat, NEW n \in 0 .. Len(madt.entries), Walked(n)
  PROVE  /\ HasNext => n < Len(madt.entries)
         /\ n < Len(madt.entries) => EntryAt(madt, i) = madt.entries[n + 1]
         /\ HasNext <=> n < Len(madt.entries) /\ Fits(madt, n + 1)
<1>0. /\ DataLen(madt) \in Nat
      /\ Len(madt.entries) \in Nat /\ DOMAIN madt.entries = 1 .. Len(madt.entries)
      /\ i = Offset(madt.entries, n + 1)
      /\ DataLen(madt) <= Offset(madt.entries, Len(madt.entries) + 1) + 1
  BY Zenon, TableFacts DEF Walked
<1>1. HasNext => n < Len(madt.entries)
  <2>1. n = Len(madt.entries) => ~(i + 1 < DataLen(madt))
    BY <1>0
  <2> QED
    BY <1>0, <2>1 DEF HasNext
<1>2. ASSUME n < Len(madt.entries)
      PROVE  EntryAt(madt, i) = madt.entries[n + 1] /\ madt.entries[n + 1].off = i
  <2> DEFINE Here(k) == /\ madt.entries[k].off = i
                        /\ \A j \in 1 .. k - 1 : madt.entries[j].off # i
  <2>1. n + 1 \in 1 .. Len(madt.entries)
    BY <1>0, <1>2
  <2>2. madt.entries[n + 1].off = i
    BY Zenon, <1>0, <2>1, TableFacts
  <2>3. \A j \in 1 .. n : madt.entries[j].off # i
    BY DEF Walked
  <2>4. Here(n + 1)
    BY <2>2, <2>3
  <2>5. ASSUME NEW k \in DOMAIN madt.entries, Here(k) PROVE k = n + 1
    <3>1. k \in Nat /\ k >= 1
      BY <1>0
    <3>2. ~(k <= n)
      BY <2>3, <2>5, <3>1
    <3>3. ~(k > n + 1)
      BY <2>2, <2>5, <3>1
    <3> QED
      BY <3>1, <3>2, <3>3
  <2> HIDE DEF Here
  <2>6. (CHOOSE k \in DOMAIN madt.entries : Here(k)) = n + 1
    BY <1>0, <2>1, <2>4, <2>5
  <2> QED
    BY Zenon, <2>2, <2>6 DEF EntryAt, Here
<1> QED
  BY Zenon, <1>0, <1>1, <1>2 DEF HasNext, Fits

\* When there is no next entry, every entry that fits has been walked over.
LEMMA WalkedAll ==
  ASSUME IsMadt(madt), i \in Nat, NEW n \in 0 .. Len(madt.entries), Walked(n), ~HasNext
  PROVE  Listed(madt) = n
<1> DEFINE S == {m \in 0 .. Len(madt.entries) : \A k \in 1 .. m : Fits(madt, k)}
<1>0. Len(madt.entries) \in Nat
  BY Zenon, TableFacts
<1>1. n \in S
  BY Zenon DEF Walked
<1>2. \A m \in S : n >= m
  <2> SUFFICES ASSUME NEW m \in S, ~(n >= m) PROVE FALSE
    OBVIOUS
  <2>1. n < Len(madt.entries) /\ n + 1 \in 1 .. m
    BY <1>0
  <2> QED
    BY Zenon, <2>1, NextEntry
<1>3. \A m \in S : m \in Nat
  BY <1>0
<1> HIDE DEF S
<1>4. Max(S) \in S /\ \A m \in S : Max(S) >= m
  BY Zenon, <1>1, <1>2 DEF Max
<1>5. \A m \in S : (\A k \in S : m >= k) => m = n
  BY <1>1, <1>2, <1>3
<1>6. Max(S) = n
  BY <1>4, <1>5, Zenon
<1> QED
  BY <1>6 DEF Listed, S

\* How the entries of one type grow with the number of entries.
LEMMA KindFacts ==
  ASSUME NEW entries, NEW n \in Nat, NEW kind
  PROVE  /\ IsFiniteSet(OfKind(entries, n, kind))
         /\ Cardinality(OfKind(entries, n, kind)) \in Nat
         /\ Cardinality(OfKind(entries, n + 1, kind)) =
              IF entries[n + 1].ty = kind THEN Cardinality(OfKind(entries, n, kind)) + 1
              ELSE Cardinality(OfKind(entries, n, kind))
         /\ \A k \in 1 .. n :
              /\ Cardinality(OfKind(entries, k, kind)) <= Cardinality(OfKind(entries, n, kind))
              /\ entries[k].ty = kind => Cardinality(OfKind(entries, k, kind)) >= 1
<1>1. \A m \in Nat : IsFiniteSet(OfKind(entries, m, kind))
  <2> SUFFICES ASSUME NEW m \in Nat PROVE IsFiniteSet(OfKind(entries, m, kind))
    OBVIOUS
  <2>1. IsFiniteSet(1 .. m)
    BY FS_Interval
  <2>2. OfKind(entries, m, kind) \in SUBSET (1 .. m)
    BY DEF OfKind
  <2> QED
    BY <2>1, <2>2, FS_Subset
<1>2. \A m \in Nat : Cardinality(OfKind(entries, m, kind)) \in Nat
  BY <1>1, FS_CardinalityType
<1>3. Cardinality(OfKind(entries, n + 1, kind)) =
        IF entries[n + 1].ty = kind THEN Cardinality(OfKind(entries, n, kind)) + 1
        ELSE Cardinality(OfKind(entries, n, kind))
  <2>1. CASE entries[n + 1].ty = kind
    <3>1. OfKind(entries, n + 1, kind) = OfKind(entries, n, kind) \cup {n + 1}
      BY <2>1 DEF OfKind
    <3>2. n + 1 \notin OfKind(entries, n, kind)
      BY DEF OfKind
    <3> QED
      BY <1>1, <2>1, <3>1, <3>2, FS_AddElement
  <2>2. CASE entries[n + 1].ty # kind
    <3>1. OfKind(entries, n + 1, kind) = OfKind(entries, n, kind)
      BY <2>2 DEF OfKind
    <3> QED
      BY <2>2, <3>1
  <2> QED
    BY Zenon, <2>1, <2>2
<1>4. ASSUME NEW k \in 1 .. n
      PROVE  /\ Cardinality(OfKind(entries, k, kind)) <= Cardinality(OfKind(entries, n, kind))
             /\ entries[k].ty = kind => Cardinality(OfKind(entries, k, kind)) >= 1
  <2>1. OfKind(entries, k, kind) \in SUBSET OfKind(entries, n, kind)
    BY DEF OfKind
  <2>2. Cardinality(OfKind(entries, k, kind)) <= Cardinality(OfKind(entries, n, kind))
    BY <1>1, <2>1, FS_Subset
  <2>3. ASSUME entries[k].ty = kind PROVE Cardinality(OfKind(entries, k, kind)) >= 1
    <3>1. k \in OfKind(entries, k, kind)
      BY <2>3 DEF OfKind
    <3>2. Cardinality(OfKind(entries, k, kind)) # 0
      BY <1>1, <3>1, FS_EmptySet
    <3> QED
      BY <1>2, <3>2
  <2> QED
    BY <2>2, <2>3
<1> QED
  BY Zenon, <1>1, <1>2, <1>3, <1>4

\* Appending the next entry to the list of its type.
LEMMA ListsGrow ==
  ASSUME NEW E, NEW apics \in [KINDS -> Seq(E)], NEW entries, NEW n \in Nat,
         Lists(apics, entries, n), entries[n + 1] \in E, Known(entries[n + 1])
  PROVE  Lists([apics EXCEPT ![entries[n + 1].ty] = Append(@, entries[n + 1])], entries, n + 1)
<1> DEFINE e == entries[n + 1]
           new == [apics EXCEPT ![e.ty] = Append(@, e)]
           C(k, kind) == Cardinality(OfKind(entries, k, kind))
<1>0. e.ty \in KINDS /\ e.len = SIZE[e.ty] + 2
  BY Zenon DEF Known
<1>1. \A kind \in KINDS : Len(apics[kind]) = C(n, kind) /\ apics[kind] \in Seq(E)
  BY Zenon DEF Lists
<1>2. \A kind \in KINDS :
        /\ C(n, kind) \in Nat
        /\ C(n + 1, kind) = IF e.ty = kind THEN C(n, kind) + 1 ELSE C(n, kind)
        /\ \A k \in 1 .. n : C(k, kind) <= C(n, kind) /\ (entries[k].ty = kind => C(k, kind) >= 1)
  BY Zenon, KindFacts
<1>3. \A k \in 1 .. n, kind \in KINDS : C(k, kind) \in Nat
  BY KindFacts
<1>4. /\ \A kind \in KINDS : new[kind] = IF kind = e.ty THEN Append(apics[kind], e) ELSE apics[kind]
      /\ Append(apics[e.ty], e) \in Seq(E)
      /\ Len(Append(apics[e.ty], e)) = C(n, e.ty) + 1
      /\ Append(apics[e.ty], e)[C(n, e.ty) + 1] = e
      /\ \A r \in 1 .. C(n, e.ty) : Append(apics[e.ty], e)[r] = apics[e.ty][r]
  <2>1. apics[e.ty] \in Seq(E) /\ Len(apics[e.ty]) = C(n, e.ty)
    BY Zenon, <1>0, <1>1
  <2>2. \A kind \in KINDS : new[kind] = IF kind = e.ty THEN Append(apics[kind], e) ELSE apics[kind]
    BY Zenon, <1>0
  <2> HIDE DEF new, C, e
  <2>3. e \in E
    BY Zenon DEF e
  <2>4. /\ Append(apics[e.ty], e) \in Seq(E)
        /\ Len(Append(apics[e.ty], e)) = Len(apics[e.ty]) + 1
        /\ Append(apics[e.ty], e)[Len(apics[e.ty]) + 1] = e
        /\ \A r \in 1 .. Len(apics[e.ty]) : Append(apics[e.ty], e)[r] = apics[e.ty][r]
    BY <2>1, <2>3
  <2> QED
    BY Zenon, <2>1, <2>2, <2>4
<1>5. \A kind \in KINDS : Len(new[kind]) = C(n + 1, kind)
  BY Zenon, <1>1, <1>2, <1>4
<1>6. ASSUME NEW k \in 1 .. n + 1
      PROVE  /\ entries[k].ty \in KINDS /\ entries[k].len = SIZE[entries[k].ty] + 2
             /\ new[entries[k].ty][C(k, entries[k].ty)] = entries[k]
  <2>1. CASE k = n + 1
    BY Zenon, <1>0, <1>2, <1>4, <2>1
  <2>2. CASE k # n + 1
    <3>1. k \in 1 .. n
      BY <2>2
    <3>2. /\ entries[k].ty \in KINDS /\ entries[k].len = SIZE[entries[k].ty] + 2
          /\ apics[entries[k].ty][C(k, entries[k].ty)] = entries[k]
      BY Zenon, <3>1 DEF Lists
    <3>3. C(k, entries[k].ty) \in 1 .. C(n, entries[k].ty)
      <4>1. /\ C(n, entries[k].ty) \in Nat /\ C(k, entries[k].ty) \in Nat
            /\ C(k, entries[k].ty) <= C(n, entries[k].ty) /\ C(k, entries[k].ty) >= 1
        BY Zenon, <1>2, <1>3, <3>1, <3>2
      <4> HIDE DEF C
      <4> QED
        BY <4>1
    <3> QED
      BY Zenon, <1>4, <3>2, <3>3
  <2> QED
    BY Zenon, <2>1, <2>2
<1> HIDE DEF new
<1>7. Lists(new, entries, n + 1)
  BY Zenon, <1>5, <1>6 DEF Lists
<1> QED
  BY <1>7 DEF new

\* The table and the lists before the walk.
LEMMA InitWalk == BootInit => WalkInv
<1> SUFFICES ASSUME BootInit PROVE WalkInv
  OBVIOUS
<1>1. IsMadt(madt)
  BY Zenon, FirmwareAssumption DEF BootInit
<1>2. /\ i = 8 /\ cpus = 0 /\ manager = None /\ madt_pc = "walk"
      /\ lists = [k \in KINDS |-> <<>>]
  BY DEF BootInit, MadtInit
<1>3. \A kind \in KINDS : lists[kind] = <<>> /\ Len(lists[kind]) = 0 /\ CAPACITY[kind] \in Nat
  BY <1>2, CapacityAssumption
<1>4. lists \in [KINDS -> Seq({madt.entries[k] : k \in DOMAIN madt.entries})]
  BY <1>2
<1>7. Walked(0)
  <2>1. \A kind \in KINDS : OfKind(madt.entries, 0, kind) = {}
    BY DEF OfKind
  <2>2. \A kind \in KINDS : Len(lists[kind]) = Cardinality(OfKind(madt.entries, 0, kind))
    BY Zenon, <1>3, <2>1, FS_EmptySet
  <2>3. 1 .. 0 = {}
    OBVIOUS
  <2>4. Lists(lists, madt.entries, 0)
    BY <2>2, <2>3, Zenon DEF Lists
  <2> QED
    BY <1>2, <2>4 DEF Walked, Offset
<1>8. 0 \in 0 .. Len(madt.entries)
  <2>1. Len(madt.entries) \in Nat
    BY Zenon, <1>1, TableFacts
  <2> QED
    BY <2>1
<1> QED
  BY <1>1, <1>2, <1>3, <1>4, <1>7, <1>8 DEF WalkInv, ManagerIsExact

\* Madt::init takes the next entry.
LEMMA TakeWalk == WalkInv /\ TakeEntry => WalkInv'
<1> SUFFICES ASSUME WalkInv, TakeEntry PROVE WalkInv'
  OBVIOUS
<1>0. /\ IsMadt(madt) /\ i \in Nat /\ cpus \in Nat /\ manager = None
      /\ lists \in [KINDS -> Seq({madt.entries[k] : k \in DOMAIN madt.entries})]
      /\ \A kind \in KINDS : Len(lists[kind]) <= CAPACITY[kind]
      /\ UNCHANGED <<madt, manager>> /\ HasNext
  BY Zenon DEF WalkInv, TakeEntry
<1>1. PICK n \in 0 .. Len(madt.entries) : Walked(n)
  BY Zenon DEF WalkInv, TakeEntry
<1> DEFINE e == madt.entries[n + 1]
           E == {madt.entries[k] : k \in DOMAIN madt.entries}
<1>2. /\ Len(madt.entries) \in Nat /\ n \in Nat /\ n + 1 \in 1 .. Len(madt.entries)
      /\ EntryAt(madt, i) = e /\ Fits(madt, n + 1)
  <2>1. Len(madt.entries) \in Nat
    BY Zenon, <1>0, TableFacts
  <2>2. n < Len(madt.entries) /\ EntryAt(madt, i) = e /\ Fits(madt, n + 1)
    BY Zenon, <1>0, <1>1, NextEntry
  <2> QED
    BY <2>1, <2>2
<1>3. /\ e.len \in Nat /\ e.off = i /\ e \in E
      /\ e.ty = LAPIC => e.id \in 0 .. 255 /\ e.enabled \in BOOLEAN
  BY ZenonT(60), <1>0, <1>1, <1>2, TableFacts DEF Walked
<1>4. /\ Known(e)
      /\ cpus' = IF IsAp(e) THEN cpus + 1 ELSE cpus
      /\ PushEntry(e)
      /\ i' = i + e.len
  BY Zenon, <1>2 DEF TakeEntry
<1> HIDE DEF e, E
<1>5. e.ty \in KINDS /\ e.len > 0
  <2>1. Known(e)
    BY Zenon, <1>4
  <2> QED
    BY <2>1 DEF Known, SIZE, KINDS, LAPIC, IO_APIC, ISO, NMI
<1>9. i' \in Nat /\ i < i' /\ e.off < i'
  <2>1. i \in Nat /\ e.len \in Nat /\ e.len > 0 /\ e.off = i /\ i' = i + e.len
    BY Zenon, <1>0, <1>3, <1>4, <1>5
  <2> QED
    BY <2>1
<1>6. i' \in Nat /\ cpus' \in Nat
  <2>1. cpus + 1 \in Nat /\ cpus \in Nat
    BY <1>0
  <2> QED
    BY Zenon, <1>4, <1>9, <2>1
<1>7. CASE Len(lists[e.ty]) < CAPACITY[e.ty]
  <2>1. lists' = [lists EXCEPT ![e.ty] = Append(@, e)] /\ madt_pc' = "walk"
    BY Zenon, <1>4, <1>7 DEF PushEntry
  <2>2. lists \in [KINDS -> Seq(E)]
    BY <1>0 DEF E
  <2>3. lists' \in [KINDS -> Seq(E)]
    BY <1>3, <1>5, <2>1, <2>2
  <2>4. \A kind \in KINDS : Len(lists'[kind]) <= CAPACITY[kind]
    <3>1. Len(lists[e.ty]) \in Nat /\ Len(Append(lists[e.ty], e)) = Len(lists[e.ty]) + 1
      BY <1>3, <1>5, <2>2
    <3>2. CAPACITY[e.ty] \in Nat
      BY <1>5, CapacityAssumption
    <3>3. Len(Append(lists[e.ty], e)) <= CAPACITY[e.ty]
      BY <1>7, <3>1, <3>2
    <3> QED
      BY Zenon, <1>0, <1>5, <2>1, <2>2, <3>3
  <2>6. Walked(n + 1)'
    <3>1. Lists(lists', madt.entries, n + 1)
      BY Zenon, <1>1, <1>2, <1>3, <1>4, <2>1, <2>2, ListsGrow DEF Walked, e
    <3>2. i' = Offset(madt.entries, n + 2)
      <4>1. n + 2 # 1 /\ (n + 2) - 1 = n + 1
        BY <1>2
      <4>2. Offset(madt.entries, n + 2) = e.off + e.len
        BY Zenon, <4>1 DEF Offset, e
      <4> QED
        BY Zenon, <1>3, <1>4, <4>2
    <3>3. ASSUME NEW k \in 1 .. n + 1 PROVE Fits(madt, k) /\ madt.entries[k].off < i'
      <4>1. CASE k = n + 1
        BY Zenon, <1>2, <1>9, <4>1 DEF e
      <4>2. CASE k # n + 1
        <5>1. k \in 1 .. n
          BY <1>2, <4>2
        <5>2. Fits(madt, k) /\ madt.entries[k].off < i
          BY Zenon, <1>1, <5>1 DEF Walked
        <5>3. k \in 1 .. Len(madt.entries)
          BY <1>2, <5>1
        <5>4. madt.entries[k].off \in Nat
          BY Zenon, <1>0, <5>3, TableFacts
        <5>5. madt.entries[k].off < i'
          <6>1. i \in Nat
            BY Zenon, <1>0
          <6> QED
            BY <1>9, <5>2, <5>4, <6>1
        <5> QED
          BY Zenon, <5>2, <5>5
      <4> QED
        BY Zenon, <4>1, <4>2
    <3>4. n + 1 + 1 = n + 2
      BY <1>2
    <3> QED
      BY Zenon, <1>0, <3>1, <3>2, <3>3, <3>4 DEF Walked, Fits
  <2>7. n + 1 \in 0 .. Len(madt'.entries)
    BY <1>0, <1>2
  <2>8. IsMadt(madt')
    BY <1>0
  <2>9. ManagerIsExact'
    BY Zenon, <1>0 DEF ManagerIsExact
  <2> QED
    BY Zenon, <1>0, <1>6, <2>1, <2>3, <2>4, <2>6, <2>7, <2>8, <2>9 DEF WalkInv, E
<1>8. CASE ~(Len(lists[e.ty]) < CAPACITY[e.ty])
  <2>1. madt_pc' = "panic" /\ UNCHANGED lists
    BY Zenon, <1>4, <1>8 DEF PushEntry
  <2> QED
    BY Zenon, <1>0, <1>6, <2>1 DEF WalkInv, ManagerIsExact
<1> QED
  BY <1>7, <1>8

\* Without a next entry the lists become the manager's.
LEMMA SetManagerWalk == WalkInv /\ SetManager => WalkInv'
<1> SUFFICES ASSUME WalkInv, SetManager PROVE WalkInv'
  OBVIOUS
<1>0. /\ IsMadt(madt) /\ i \in Nat /\ ~HasNext
      /\ manager' = lists /\ madt_pc' = "pics"
      /\ UNCHANGED <<madt, i, lists, cpus>>
  BY Zenon DEF WalkInv, SetManager
<1>1. PICK n \in 0 .. Len(madt.entries) : Walked(n)
  BY Zenon DEF WalkInv, SetManager
<1>2. Listed(madt) = n
  BY <1>0, <1>1, WalkedAll
<1>3. Lists(manager', madt'.entries, Listed(madt'))
  BY Zenon, <1>0, <1>1, <1>2 DEF Walked
<1>5. ManagerIsExact'
  BY <1>3 DEF ManagerIsExact
<1>6. IsMadt(madt')
  BY <1>0
<1> QED
  BY Zenon, <1>0, <1>5, <1>6 DEF WalkInv

\* The steps after the walk leave the table, the lists and the manager alone.
LEMMA StepWalk == WalkInv /\ [BootNext]_bootVars => WalkInv'
<1> SUFFICES ASSUME WalkInv, [BootNext]_bootVars PROVE WalkInv'
  OBVIOUS
<1>1. CASE TakeEntry
  BY <1>1, TakeWalk
<1>2. CASE SetManager
  BY <1>2, SetManagerWalk
<1>3. ASSUME UNCHANGED <<madt, lists, cpus, manager>>, i' \in Nat,
             madt_pc' \in {"pics", "apic", "done", "panic"} \/ UNCHANGED <<i, madt_pc>>
      PROVE  WalkInv'
  <2>1. ManagerIsExact'
    BY Zenon, <1>3 DEF WalkInv, ManagerIsExact
  <2>2. \A n : i' = i /\ Walked(n) => Walked(n)'
    BY Zenon, <1>3 DEF Walked
  <2>3. IsMadt(madt)'
    BY <1>3 DEF WalkInv
  <2> QED
    BY Zenon, <1>3, <2>1, <2>2, <2>3 DEF WalkInv
<1>4. CASE madt_pc = "walk" /\ StopAtUnknown
  <2>1. PICK n \in 0 .. Len(madt.entries) : Walked(n)
    BY <1>4 DEF WalkInv
  <2>2. /\ IsMadt(madt) /\ i \in Nat /\ HasNext
        /\ i' = i + EntryAt(madt, i).len
    BY Zenon, <1>4 DEF WalkInv, StopAtUnknown
  <2>3. n < Len(madt.entries) /\ EntryAt(madt, i) = madt.entries[n + 1]
    BY Zenon, <2>1, <2>2, NextEntry
  <2>4. i' \in Nat
    <3>1. Len(madt.entries) \in Nat
      BY Zenon, <2>2, TableFacts
    <3>2. n + 1 \in 1 .. Len(madt.entries)
      BY <2>3, <3>1
    <3>3. madt.entries[n + 1].len \in Nat
      BY Zenon, <2>2, <3>2, TableFacts
    <3> QED
      BY <2>2, <2>3, <3>3
  <2> QED
    BY <1>3, <1>4, <2>4 DEF StopAtUnknown
<1>5. CASE InitPics \/ ApicInit
  BY Zenon, <1>3, <1>5 DEF InitPics, ApicInit, WalkInv
<1>6. CASE MaskPics \/ ExceptionHandler
  BY Zenon, <1>3, <1>6 DEF MaskPics, ExceptionHandler, WalkInv
<1>7. CASE UNCHANGED madtVars
  BY Zenon, <1>3, <1>7 DEF madtVars, WalkInv
<1>8. \/ TakeEntry \/ SetManager \/ StopAtUnknown \/ InitPics \/ ApicInit \/ MaskPics
      \/ ExceptionHandler \/ UNCHANGED madtVars
  BY Zenon DEF BootNext, BootStep, WalkMadt, MadtStep, NoMadtFound, LoadIdt, InitDevices, ScanPci,
         PushToDevices, Sti, PrintLock, PrintDone, TimerHandler, KeyPress,
         TimerInterrupt, KeyboardInterrupt, Loop, bootVars
<1> QED
  BY Zenon, <1>1, <1>2, <1>4, <1>5, <1>6, <1>7, <1>8 DEF StopAtUnknown

\* Whatever the firmware's table is: a manager that Madt::init leaves behind
\* knows exactly the controllers that the table lists, in its order.
THEOREM ManagerKnowsTheTable == BootSpec => []ManagerIsExact
<1>1. WalkInv => ManagerIsExact
  BY DEF WalkInv
<1> QED
  BY <1>1, InitWalk, StepWalk, PTL DEF BootSpec

-----------------------------------------------------------------------------
\* What is left of the type invariant.
ControlInv ==
  /\ imr \in {OPEN, MASKED}
  /\ pci_pc \in {"probe", "bar", "sizing", "discovered", "identify", "found", "done", "panic"}
  /\ phase \in {"mask", "acpi", "idt", "devices", "ps2", "pci", "sti", "message", "idle", "panic"}
  /\ iflag \in BOOLEAN /\ idt \in BOOLEAN /\ com1 \in BOOLEAN
  /\ in_service \in BOOLEAN /\ key \in BOOLEAN
  /\ handler \in {"none", "timer", "exception", "panic", "loop", "triple_fault"}

\* The places in init() and in the handlers; the keyboard has no gate, so
\* its handler is not among them.
LEMMA StepControl == ControlInv /\ [BootNext]_bootVars => ControlInv'
<1> SUFFICES ASSUME ControlInv, [BootNext]_bootVars PROVE ControlInv'
  OBVIOUS
<1> USE DEF ControlInv, At, madtVars, pciVars, cpuVars
<1>1. CASE MaskPics
  BY Zenon, <1>1 DEF MaskPics
<1>2. CASE WalkMadt
  BY Zenon, <1>2 DEF WalkMadt, MadtStep, TakeEntry, StopAtUnknown, SetManager, InitPics, ApicInit
<1>3. CASE NoMadtFound \/ LoadIdt \/ InitDevices \/ Sti
  BY Zenon, <1>3 DEF NoMadtFound, LoadIdt, InitDevices, Sti
<1>4. CASE ScanPci
  <2>1. pci_pc' \in {"probe", "bar", "sizing", "discovered", "identify", "found", "done", "panic"}
    BY <1>4 DEF ScanPci, PciStep, ProbeNothing, NextFunction, ProbeDevice, SkipBar, StartSizing,
                EndSizing, Identify, AllIdentified
  <2> QED
    BY Zenon, <1>4, <2>1 DEF ScanPci
<1>5. CASE PushToDevices
  BY Zenon, <1>5 DEF PushToDevices, PushDevice, NextFunction
<1>6. CASE PrintLock \/ PrintDone
  BY ZenonT(60), <1>6 DEF PrintLock, PrintDone
<1>7. CASE TimerHandler \/ ExceptionHandler \/ KeyPress
  BY ZenonT(60), <1>7 DEF TimerHandler, ExceptionHandler, KeyPress
<1>8. CASE TimerInterrupt \/ KeyboardInterrupt
  <2>1. Vector(1) \notin Gates
    BY DEF Vector, Gates
  <2>2. iflag' = FALSE /\ in_service' = TRUE /\ key' \in BOOLEAN /\ UNCHANGED <<imr, pci_pc, phase, idt, com1>>
    BY Zenon, <1>8 DEF TimerInterrupt, KeyboardInterrupt, Enter
  <2>3. handler' \in {"triple_fault", "timer", "exception"}
    BY Zenon, <1>8, <2>1 DEF TimerInterrupt, KeyboardInterrupt, Enter
  <2> QED
    BY ZenonT(60), <2>2, <2>3
<1>9. CASE Loop \/ UNCHANGED bootVars
  BY <1>9 DEF Loop, bootVars
<1> QED
  BY Zenon, <1>1, <1>2, <1>3, <1>4, <1>5, <1>6, <1>7, <1>8, <1>9 DEF BootNext, BootStep

\* Whatever the firmware: the type invariant of the boot sequence; no vector
\* overflows and every register stays within its word.
THEOREM BootTypeCorrect == BootSpec => []BootTypeOK
<1>1. BootInit => ControlInv
  BY Zenon DEF BootInit, PciInit, ControlInv
<1>2. WalkInv /\ SizingInv /\ ScanInv /\ ControlInv => BootTypeOK
  <2> SUFFICES ASSUME WalkInv, SizingInv, ScanInv, ControlInv PROVE BootTypeOK
    OBVIOUS
  <2>1. \A k \in DOMAIN devices : \A b \in 0 .. BARS - 1 : devices[k].bars[b] \in 0 .. ONES
    <3>0. devices \in Seq(DeviceType)
      BY Zenon DEF ScanInv
    <3>1. \A k \in DOMAIN devices : devices[k] \in DeviceType
      BY <3>0
    <3> QED
      BY Zenon, <3>1 DEF DeviceType
  <2>2. /\ DOMAIN config = DOMAIN machine /\ bar \in 0 .. BARS
        /\ \A a \in DOMAIN config : \A b \in 0 .. BARS - 1 : ReadBar(config, a, b) \in 0 .. ONES
    BY Zenon DEF SizingInv
  <2>3. /\ i \in Nat /\ cpus \in Nat /\ manager \in {None, lists}
        /\ \A k \in KINDS : Len(lists[k]) <= CAPACITY[k]
        /\ madt_pc \in {"walk", "pics", "apic", "done", "panic"}
    BY DEF WalkInv
  <2>4. seen \in 0 .. Len(devices) /\ ahci_base \in 0 .. ONES
    BY Zenon DEF ScanInv
  <2>5. {iflag, idt, com1, in_service, key} \subseteq BOOLEAN
    BY DEF ControlInv
  <2> QED
    BY Zenon, <2>1, <2>2, <2>3, <2>4, <2>5 DEF BootTypeOK, ControlInv
<1> QED
  BY <1>1, <1>2, InitWalk, StepWalk, InitSizing, StepSizing, InitScan, StepScan, StepControl,
     PTL DEF BootSpec
=============================================================================
