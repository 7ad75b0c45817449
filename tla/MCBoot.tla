------------------------------- MODULE MCBoot --------------------------------
(***************************************************************************)
(* Instances of Boot: every MADT of up to three entries of six sorts,      *)
(* whole or 7 bytes short, and PCI buses with functions at both ends of    *)
(* the ranges.                                                             *)
(***************************************************************************)
EXTENDS Boot, SequencesExt

MCCapacity == [k \in KINDS |-> 2]

\* A processor, a disabled one, an I/O APIC, the override of the timer's
\* line, an NMI, a type the kernel does not know, one with a wrong length,
\* and one whose length is zero.
Cpu == [ty |-> LAPIC, len |-> 8, id |-> 0, enabled |-> TRUE]
Disabled == [ty |-> LAPIC, len |-> 8, id |-> 1, enabled |-> FALSE]
IoApic == [ty |-> IO_APIC, len |-> 12, gsib |-> 0, last |-> 23]
Override == [ty |-> ISO, len |-> 10, irq_source |-> 0, gsi |-> 2]
Nmi == [ty |-> NMI, len |-> 6, lint |-> 1]
X2apic == [ty |-> 9, len |-> 16]
ShortCpu == [ty |-> LAPIC, len |-> 6, id |-> 0, enabled |-> TRUE]
Empty == [ty |-> 3, len |-> 0]

Entries == {Cpu, IoApic, Override, X2apic, ShortCpu, Empty}

\* The entries behind one another, `cut` bytes short of their end.
Ends(entries) ==
  [k \in 0 .. Len(entries) |->
     FoldLeft(LAMBDA sum, e : sum + e.len, 8, SubSeq(entries, 1, k))]

Table(entries, cut) ==
  [entries |-> [k \in DOMAIN entries |-> entries[k] @@ ("off" :> Ends(entries)[k - 1])],
   length |-> HEADER + Ends(entries)[Len(entries)] - cut]

Tables ==
  {Table(entries, cut) : entries \in UNION {[1 .. n -> Entries] : n \in 1 .. 3},
                         cut \in {0, 7}}

\* A PC's, and one at which Madt::init gives up.
Usual == Table(<<Cpu, Disabled, IoApic, Override, Nmi>>, 0)
Newer == Table(<<Cpu, X2apic>>, 0)

-----------------------------------------------------------------------------
\* BARs: unused, 32 bytes of memory, 4 ports, the upper half of a 64-bit
\* address, and a register that ignores writes.
Unused == [base |-> 0, size |-> 16, flags |-> 0]
Memory(base) == [base |-> base, size |-> 32, flags |-> 8]
Ports == [base |-> 20, size |-> 4, flags |-> 1]
Upper == [base |-> 1, size |-> 1, flags |-> 0]
Fixed == [base |-> 0, size |-> 256, flags |-> 1]

PciFunction(class, subclass, first, abar) ==
  [class |-> class, subclass |-> subclass, bars |-> (0 :> first) @@ (1 :> abar)]

Bridge == PciFunction(6, 0, Unused, Unused)
Ide == PciFunction(1, 1, Ports, Upper)
Ahci(base) == PciFunction(1, 6, Ports, Memory(base))
Odd == PciFunction(2, 0, Memory(64), Fixed)

\* Functions at the ends of the ranges, and outside of them.
Places == {<<0, 0, 0>>, <<0, 0, 1>>, <<0, 1, 1>>, <<0, 1, 2>>, <<1, 0, 0>>}
Sorts == {Bridge, Ide, Ahci(96), Ahci(160), Odd}
Machines == UNION {[P -> Sorts] : P \in {Q \in SUBSET Places : Cardinality(Q) <= 2}}

NoFunctions == <<>>
Small == (<<0, 0, 0>> :> Bridge)

MCFirmwares ==
  [madt : Tables, machine : {NoFunctions}, has_apic : BOOLEAN]
    \cup [madt : {Usual}, machine : Machines, has_apic : {TRUE}]
    \cup [madt : {Newer, NoMadt}, machine : {Small}, has_apic : {TRUE}]

FewFirmwares == [madt : {Usual}, machine : {Small}, has_apic : {TRUE}]
=============================================================================
