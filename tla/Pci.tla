--------------------------------- MODULE Pci ---------------------------------
(***************************************************************************)
(* The PCI enumeration of src/device/pci.rs: every function of every       *)
(* device is probed, its base address registers (BARs) are sized by        *)
(* writing all ones to them, and the AHCI controller's base address is     *)
(* read back.  A BAR is what the device decodes: `base`, a multiple of     *)
(* `size`, over `flags`, the bits below that are wired; size = WORD makes  *)
(* a register that cannot be written.                                      *)
(***************************************************************************)
EXTENDS Integers, Sequences

CONSTANTS
  MAX_BUS, MAX_DEVICE, MAX_FUNCTION,   \* 255, 31 and 7
  BARS,                                \* 6
  WORD                                 \* 2^32: registers are u32

\* At least one BAR, the ABAR.
ASSUME PciAssumption ==
  /\ MAX_BUS \in Nat \ {0} /\ MAX_DEVICE \in Nat \ {0} /\ MAX_FUNCTION \in Nat \ {0}
  /\ BARS \in Nat \ {0} /\ WORD \in Nat \ {0}

VARIABLES
  machine,     \* the functions that are present, as the firmware set them up
  config,      \* the same with what the BARs hold now
  at,          \* bus, device and function the three loops have reached
  dev,         \* the Device that init_dev works on
  bar,         \* index of the loop in load_bars
  devices,     \* DEVICES
  seen,        \* how far the loop over DEVICES has got
  ahci_base,   \* AHCI_BASE
  pci_pc       \* where pci::init is

pciVars == <<machine, config, at, dev, bar, devices, seen, ahci_base, pci_pc>>

ONES == WORD - 1
NoDevice == [at |-> <<0, 0, 0>>, class |-> 0, subclass |-> 0,
             bars |-> [b \in 0 .. BARS - 1 |-> 0]]

MASS_STORAGE == 1
AHCI == 6
\* Offset 0x24 is the last BAR.
ABAR == BARS - 1

-----------------------------------------------------------------------------
RoundDown(value, unit) == value - (value % unit)

\* Device::read and Device::write of a BAR.
ReadBar(cfg, fn, b) == cfg[fn].bars[b].base + cfg[fn].bars[b].flags

WriteBar(cfg, fn, b, value) ==
  [cfg EXCEPT ![fn].bars[b].base = RoundDown(value, cfg[fn].bars[b].size)]

\* The address bits, value & 0xFFFFFFF0.
Address(value) == RoundDown(value, 16)

\* for bus .. for dev .. for func: the ranges exclude the maxima.
Following(a) ==
  IF a[3] + 1 < MAX_FUNCTION THEN <<a[1], a[2], a[3] + 1>>
  ELSE IF a[2] + 1 < MAX_DEVICE THEN <<a[1], a[2] + 1, 0>>
  ELSE <<a[1] + 1, 0, 0>>

NextFunction ==
  /\ at' = Following(at)
  /\ pci_pc' = IF Following(at)[1] < MAX_BUS THEN "probe" ELSE "discovered"

-----------------------------------------------------------------------------
\* What a BAR, a function's configuration space and a bus may be.  A function
\* has a header of type 0, with six BARs; the last four words that load_bars
\* takes for BARs in the header of a bridge are not described.
Bar == [base : Int, size : Nat \ {0}, flags : Int]
Function == [class : Nat, subclass : Nat, bars : [0 .. BARS - 1 -> Bar]]
Bus(functions) ==
  /\ functions \in [DOMAIN functions -> Function]
  /\ DOMAIN functions \subseteq Nat \X Nat \X Nat

\* A register has the width of a word, whether it holds an address or all
\* ones; its wired bits lie below the size and below the address bits, so
\* that writing what was read changes nothing.
Decodes(b) ==
  /\ {b.base + b.flags, RoundDown(ONES, b.size) + b.flags} \subseteq 0 .. ONES
  /\ RoundDown(b.base + b.flags, b.size) = b.base
  /\ Address(b.base + b.flags) = Address(b.base)

PciInit ==
  /\ config = machine
  /\ at = <<0, 0, 0>>
  /\ dev = NoDevice
  /\ bar = 0
  /\ devices = <<>>
  /\ seen = 0
  /\ ahci_base = 0
  /\ pci_pc = "probe"

\* probe: nothing answers, the vendor id reads as all ones.
ProbeNothing ==
  /\ pci_pc = "probe" /\ at \notin DOMAIN config
  /\ NextFunction
  /\ UNCHANGED <<machine, config, dev, bar, devices, seen, ahci_base>>

ProbeDevice ==
  /\ pci_pc = "probe" /\ at \in DOMAIN config
  /\ dev' = [NoDevice EXCEPT !.at = at, !.class = config[at].class,
                             !.subclass = config[at].subclass]
  /\ bar' = 0
  /\ pci_pc' = "bar"
  /\ UNCHANGED <<machine, config, at, devices, seen, ahci_base>>

\* load_bars: a BAR that reads as zero is not used.
SkipBar ==
  /\ pci_pc = "bar" /\ bar < BARS
  /\ ReadBar(config, at, bar) = 0
  /\ bar' = bar + 1
  /\ UNCHANGED <<machine, config, at, dev, devices, seen, ahci_base, pci_pc>>

StartSizing ==
  /\ pci_pc = "bar" /\ bar < BARS
  /\ ReadBar(config, at, bar) > 0
  /\ dev' = [dev EXCEPT !.bars[bar] = ReadBar(config, at, bar)]
  /\ config' = WriteBar(config, at, bar, ONES)
  /\ pci_pc' = "sizing"
  /\ UNCHANGED <<machine, at, bar, devices, seen, ahci_base>>

\* (0xFFFFFFFF - (read & 0xFFFFFFF0)) + 1; the addition is checked.
SizeOf(value) == ONES - Address(value) + 1

\* Mutant: the register is left at all ones.
SizingNotUndone ==
  /\ pci_pc = "sizing"
  /\ dev' = [dev EXCEPT !.bars[bar] = SizeOf(ReadBar(config, at, bar))]
  /\ bar' = bar + 1
  /\ pci_pc' = "bar"
  /\ UNCHANGED <<machine, config, at, devices, seen, ahci_base>>

\* The BAR is written back; a size that is not zero takes its place in the
\* Device.
EndSizing ==
  LET size == SizeOf(ReadBar(config, at, bar)) IN
  /\ pci_pc = "sizing"
  /\ IF size >= WORD
     THEN pci_pc' = "panic" /\ UNCHANGED <<config, dev, bar>>
     ELSE /\ config' = WriteBar(config, at, bar, dev.bars[bar])
          /\ dev' = [dev EXCEPT !.bars[bar] = IF size > 0 THEN size ELSE @]
          /\ bar' = bar + 1
          /\ pci_pc' = "bar"
  /\ UNCHANGED <<machine, at, devices, seen, ahci_base>>

PushDevice ==
  /\ pci_pc = "bar" /\ bar = BARS
  /\ devices' = Append(devices, dev)
  /\ NextFunction
  /\ UNCHANGED <<machine, config, dev, bar, seen, ahci_base>>

\* The loop over DEVICES, which ends with the last AHCI controller's ABAR.
IsAhci(d) == d.class = MASS_STORAGE /\ d.subclass = AHCI

Identify ==
  LET d == devices[seen + 1] IN
  /\ pci_pc = "identify" /\ seen < Len(devices)
  /\ seen' = seen + 1
  /\ IF IsAhci(d)
     THEN ahci_base' = Address(ReadBar(config, d.at, ABAR)) /\ pci_pc' = "found"
     ELSE UNCHANGED <<ahci_base, pci_pc>>
  /\ UNCHANGED <<machine, config, at, dev, bar, devices>>

AllIdentified ==
  /\ pci_pc = "identify" /\ seen = Len(devices)
  /\ pci_pc' = "done"
  /\ UNCHANGED <<machine, config, at, dev, bar, devices, seen, ahci_base>>

\* All of pci::init but its println!s and the push, which allocates.
PciStep ==
  \/ ProbeNothing \/ ProbeDevice \/ SkipBar \/ StartSizing \/ EndSizing
  \/ Identify \/ AllIdentified

-----------------------------------------------------------------------------
Below(a) == a[1] < MAX_BUS /\ a[2] < MAX_DEVICE /\ a[3] < MAX_FUNCTION

Precedes(a, b) ==
  \/ a[1] < b[1]
  \/ a[1] = b[1] /\ a[2] < b[2]
  \/ a[1] = b[1] /\ a[2] = b[2] /\ a[3] < b[3]

\* Sizing leaves no trace: at any time at most the BAR that is being sized
\* differs from what the firmware put there, so no device decodes a wrong
\* address afterwards.  In the end DEVICES holds every function below the
\* maxima once, in bus order, and AHCI_BASE is the address of the last AHCI
\* controller among them, 0 without one (pci.rs:167-247).
EnumerationIsExact ==
  /\ \A a \in DOMAIN machine : \A b \in 0 .. BARS - 1 :
       config[a].bars[b] # machine[a].bars[b] =>
         pci_pc \in {"sizing", "panic"} /\ a = at /\ b = bar
  /\ \A k \in 1 .. Len(devices) - 1 : Precedes(devices[k].at, devices[k + 1].at)
  /\ pci_pc = "done" =>
       LET found == {a \in DOMAIN machine : Below(a)}
           controllers == {a \in found : IsAhci(machine[a])}
       IN /\ {devices[k].at : k \in DOMAIN devices} = found
          /\ controllers = {} => ahci_base = 0
          /\ \A a \in controllers :
               (\A c \in controllers : ~Precedes(a, c)) =>
                 ahci_base = Address(machine[a].bars[ABAR].base)
=============================================================================
