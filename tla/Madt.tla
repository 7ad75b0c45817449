-------------------------------- MODULE Madt ---------------------------------
(***************************************************************************)
(* The table in which the firmware lists the interrupt controllers: the    *)
(* walk of Madt::init over its entries (src/acpi/madt.rs) and what         *)
(* apic::init makes of the result (src/device/apic.rs).  Offsets are in    *)
(* bytes from the start of the table's data; of an entry's contents only   *)
(* what the code looks at is kept.  The mapping of the APICs' pages is     *)
(* part of KernelMemory.                                                   *)
(***************************************************************************)
EXTENDS Integers, Sequences, FiniteSetsExt

CONSTANT CAPACITY   \* by type: 20 for local APICs, 10 for the others

VARIABLES
  madt,       \* the table: its entries and its length, header included
  has_apic,   \* CPUID's answer
  i,          \* MadtIter.i
  lists,      \* local_apics, io_apics, isos and nmis of Madt::init, by type
  cpus,       \* CPUS
  manager,    \* APIC_MANAGER: None or the four lists
  redirtbl,   \* redirection entries of the I/O APICs that have been written
  imr,        \* both PIC mask registers: OPEN or MASKED
  madt_pc     \* where Madt::init is

madtVars == <<madt, has_apic, i, lists, cpus, manager, redirtbl, imr, madt_pc>>

LAPIC == 0
IO_APIC == 1
ISO == 2
NMI == 4

\* The types Madt::init keeps, and size_of their packed structures.
KINDS == {LAPIC, IO_APIC, ISO, NMI}
SIZE == [k \in KINDS |-> CASE k = LAPIC -> 6 [] k = IO_APIC -> 10 [] k = ISO -> 8 [] k = NMI -> 4]

ASSUME CapacityAssumption == CAPACITY \in [KINDS -> Nat]

HEADER == 36
OPEN == 0
MASKED == 255
None == <<>>

-----------------------------------------------------------------------------
\* SdtHeader::data_len
DataLen(table) == IF table.length >= HEADER THEN table.length - HEADER ELSE 0

\* Entries lie behind one another, after the LAPIC address and the flags.
Offset(entries, k) == IF k = 1 THEN 8 ELSE entries[k - 1].off + entries[k - 1].len

\* The bytes of a table are its entries: each is where the one before it
\* ends, and behind the last one there is no room for another.
IsMadt(table) ==
  /\ table.length \in Nat
  /\ Len(table.entries) \in Nat /\ DOMAIN table.entries = 1 .. Len(table.entries)
  /\ \A k \in DOMAIN table.entries :
       LET e == table.entries[k] IN
       /\ {e.ty, e.len, e.off} \subseteq Nat /\ e.off = Offset(table.entries, k)
       /\ e.ty = LAPIC => e.id \in 0 .. 255 /\ e.enabled \in BOOLEAN
  /\ DataLen(table) <= Offset(table.entries, Len(table.entries) + 1) + 1

\* The type and length bytes at an offset at which an entry starts.
EntryAt(table, offset) ==
  table.entries[CHOOSE k \in DOMAIN table.entries :
                  /\ table.entries[k].off = offset
                  /\ \A j \in 1 .. k - 1 : table.entries[j].off # offset]

\* MadtIter::next returns Some.
HasNext ==
  /\ i + 1 < DataLen(madt)
  /\ i + EntryAt(madt, i).len <= DataLen(madt)

\* Mutant: the length of an entry is not compared with its structure's.
KnownByType(e) == e.ty \in KINDS

\* An entry of a known type whose length fits its structure.
Known(e) == e.ty \in KINDS /\ e.len = SIZE[e.ty] + 2

\* rdmsr(IA32_APIC_BASE) & (1 << 8): the boot processor's bit, not its id.
BSP_BIT == 256

\* An enabled local APIC is counted unless its id equals that bit; no id, a byte,
\* does, so the boot processor is counted as well.
IsAp(e) == e.ty = LAPIC /\ e.enabled /\ e.id # BSP_BIT

-----------------------------------------------------------------------------
\* The registers are accessed through references to `addr` and `addr + 4`,
\* two u32 of the stack frame: selecting a register overwrites `addr`, and
\* the window is a temporary.
IoApicRead(reg) == reg + 4
IoApicWrite(tbl, reg, num, data) == tbl

GetMaxRedirect(num) == (IoApicRead(1) \div 65536) % 256

\* The I/O APICs that io_apic_from_gsi accepts; it returns the first.
IoApicsFor(io_apics, gsi) ==
  {n \in DOMAIN io_apics :
     io_apics[n].gsib < gsi /\ io_apics[n].gsib + GetMaxRedirect(n) > gsi}

RedirectInto(tbl, iso, n, reg) ==
  IoApicWrite(IoApicWrite(tbl, reg, n, iso.irq_source + 48),
              reg + 1, n, iso.irq_source + 48)

SetRedirect(tbl, io_apics, iso) ==
  LET found == IoApicsFor(io_apics, iso.gsi) IN
  IF found = {} THEN tbl
  ELSE RedirectInto(tbl, iso, Min(found), (iso.gsi - io_apics[Min(found)].gsib) * 2 + 16)

InstallRedirects(tbl, apics) ==
  MapThenFoldSet(LAMBDA iso, t : SetRedirect(t, apics[IO_APIC], iso), tbl,
                 LAMBDA k : apics[ISO][k], Max, DOMAIN apics[ISO])

-----------------------------------------------------------------------------
MadtInit ==
  /\ i = 8
  /\ lists = [k \in KINDS |-> <<>>]
  /\ cpus = 0
  /\ manager = None
  /\ redirtbl = {}
  /\ madt_pc = "walk"

\* Mutant: the vector is taken to be long enough.
PushAlways(e) ==
  /\ lists' = [lists EXCEPT ![e.ty] = Append(@, e)]
  /\ madt_pc' = "walk"

\* StaticVec::push, whose error is expected away: a full vector panics.
PushEntry(e) ==
  IF Len(lists[e.ty]) < CAPACITY[e.ty]
  THEN lists' = [lists EXCEPT ![e.ty] = Append(@, e)] /\ madt_pc' = "walk"
  ELSE madt_pc' = "panic" /\ UNCHANGED lists

TakeEntry ==
  LET e == EntryAt(madt, i) IN
  /\ madt_pc = "walk" /\ HasNext
  /\ Known(e)
  /\ cpus' = IF IsAp(e) THEN cpus + 1 ELSE cpus
  /\ PushEntry(e)
  /\ i' = i + e.len
  /\ UNCHANGED <<madt, has_apic, manager, redirtbl, imr>>

\* Mutant: entries that are not understood are skipped.
SkipUnknown ==
  /\ madt_pc = "walk" /\ HasNext
  /\ ~Known(EntryAt(madt, i))
  /\ i' = i + EntryAt(madt, i).len
  /\ UNCHANGED <<madt, has_apic, lists, cpus, manager, redirtbl, imr, madt_pc>>

\* Any other entry: init says "No more MADT entries..." and returns.
StopAtUnknown ==
  /\ madt_pc = "walk" /\ HasNext
  /\ ~Known(EntryAt(madt, i))
  /\ i' = i + EntryAt(madt, i).len
  /\ madt_pc' = "done"
  /\ UNCHANGED <<madt, has_apic, lists, cpus, manager, redirtbl, imr>>

SetManager ==
  /\ madt_pc = "walk" /\ ~HasNext
  /\ manager' = lists
  /\ madt_pc' = "pics"
  /\ UNCHANGED <<madt, has_apic, i, lists, cpus, redirtbl, imr>>

\* ChainedPics::init: ICW1 clears the mask registers, and init leaves them so.
InitPics ==
  /\ madt_pc = "pics"
  /\ imr' = OPEN
  /\ madt_pc' = IF has_apic THEN "apic" ELSE "done"
  /\ UNCHANGED <<madt, has_apic, i, lists, cpus, manager, redirtbl>>

\* apic::init.  Local APIC registers are written through a reference to a
\* temporary too, so neither install_nmis nor lapic_enable has an effect;
\* install_redirects indexes local_apics[0] for each override.
ApicInit ==
  /\ madt_pc = "apic"
  /\ IF manager[ISO] # <<>> /\ manager[LAPIC] = <<>>
     THEN madt_pc' = "panic" /\ UNCHANGED redirtbl
     ELSE madt_pc' = "done" /\ redirtbl' = InstallRedirects(redirtbl, manager)
  /\ UNCHANGED <<madt, has_apic, i, lists, cpus, manager, imr>>

MadtStep == TakeEntry \/ StopAtUnknown \/ SetManager \/ InitPics \/ ApicInit

-----------------------------------------------------------------------------
\* What the table says, without a walk: how many of its entries come before
\* the first that would reach past the end.
Fits(table, k) ==
  /\ table.entries[k].off + 1 < DataLen(table)
  /\ table.entries[k].off + table.entries[k].len <= DataLen(table)

Listed(table) ==
  Max({n \in 0 .. Len(table.entries) : \A k \in 1 .. n : Fits(table, k)})

\* Of the first n entries, those of one type.
OfKind(entries, n, kind) == {k \in 1 .. n : entries[k].ty = kind}

\* The four lists hold the first n entries, each list those of its type in
\* the order of the table.
Lists(apics, entries, n) ==
  /\ \A k \in 1 .. n :
       LET e == entries[k] IN
       /\ e.ty \in KINDS /\ e.len = SIZE[e.ty] + 2
       /\ apics[e.ty][Cardinality(OfKind(entries, k, e.ty))] = e
  /\ \A kind \in KINDS : Len(apics[kind]) = Cardinality(OfKind(entries, n, kind))

\* When Madt::init leaves a manager behind it knows every controller that
\* the table lists, in the table's order, and there was no entry that it did
\* not understand (madt.rs:35-97).
ManagerIsExact == manager # None => Lists(manager, madt.entries, Listed(madt))

\* apic.rs:130, "Set the redirect for a given IRQ and GSI": the entry of the
\* I/O APIC that serves an override's GSI holds the vector of its IRQ.
RedirectsAreSet ==
  (madt_pc = "done" /\ has_apic /\ manager # None) =>
    \A s \in DOMAIN manager[ISO], n \in DOMAIN manager[IO_APIC] :
      LET iso == manager[ISO][s]
          apic == manager[IO_APIC][n]
      IN iso.gsi \in apic.gsib .. apic.gsib + apic.last =>
           [num |-> n, reg |-> (iso.gsi - apic.gsib) * 2 + 16,
            data |-> iso.irq_source + 48] \in redirtbl
=============================================================================
