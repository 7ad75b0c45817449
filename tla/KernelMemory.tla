---------------------------- MODULE KernelMemory -----------------------------
(***************************************************************************)
(* The kernel's address space from memory::init on (memory/mod.rs): the    *)
(* tables of Paging, the heap, the pages that acpi::init and apic::init    *)
(* map, and the stacks of memory/stack_allocator.rs.  What the firmware    *)
(* says decides which calls memory::init makes; they wait in plan.         *)
(***************************************************************************)
EXTENDS Paging

CONSTANTS
  HEAP_START, HEAP_END,   \* first and last page of the heap, by number
  STACK_PAGES,            \* pages of the stack range after its first; 100
  Firmwares,              \* what ACPI may find, see Plan
  StackSizes              \* stack sizes callers ask for

VARIABLES
  plan,         \* the calls memory::init has still to make
  range_start,  \* StackAllocator.range.start; its end is RangeEnd
  alloc,        \* the stack alloc_stack maps, and the PageIter of its loop
  stacks,       \* history: the stacks that were returned
  backed        \* history: the pages that map() has found a frame for

stackVars == <<range_start, alloc, stacks>>
kmVars == <<pgVars, plan, stackVars, backed>>

RangeStart == HEAP_END + 1
RangeEnd == RangeStart + STACK_PAGES

Stack == [guard : RangeStart .. RangeEnd, bottom : RangeStart .. RangeEnd,
          last : RangeStart .. RangeEnd]

\* Frames that are mapped one to one have none of the numbers of the heap's
\* and the stacks' pages, the firmware's are not in the kernel's .bss, and what
\* is read of the ACPI tables lies in the RSDP area or in the table it names.
Elsewhere == 1 .. End - 1 \ HEAP_START .. RangeEnd

ASSUME MemoryAssumption ==
  /\ HEAP_START \in Nat \ {0} /\ HEAP_END \in Nat /\ HEAP_START <= HEAP_END
  /\ STACK_PAGES \in Nat /\ RangeEnd < End
  /\ StackSizes \subseteq Nat
  /\ \A b \in BootMaps : \A k \in 1 .. Len(b) : b[k].frame \in Elsewhere \cup {p4_table}
  /\ \A f \in Firmwares :
       /\ f.rsdp \in Seq(Elsewhere) /\ f.tables \in Seq(Nat) /\ f.apics \in Seq(Elsewhere)
       /\ f.sdt[1] \in Nat /\ f.sdt[2] \in Nat /\ f.sdt[1] .. f.sdt[2] \subseteq Elsewhere
       /\ \A k \in 1 .. Len(f.tables) :
            \/ f.tables[k] \in f.sdt[1] .. f.sdt[2]
            \/ \E j \in 1 .. Len(f.rsdp) : f.tables[k] = f.rsdp[j]

Call == [op : {"heap", "rsdp", "sdt", "read", "apic", "panic"}, frame : Nat]

Numbers(a, b) == [i \in 1 .. b - a + 1 |-> a + i - 1]

\* f.rsdp is the RSDP area; f.kind says which table the RSDP there names,
\* an "rsdt", an "xsdt", or "none" when there is no RSDP, and f.sdt is the
\* first and the last page of that table; f.tables are the pages that
\* find_sdt and the MADT iterator read; f.apics are the local APIC and the
\* I/O APICs, unless Madt::init returns before apic::init.
Plan(f) ==
  LET calls(op, frames) == [i \in 1 .. Len(frames) |-> [op |-> op, frame |-> frames[i]]]
      panic == <<[op |-> "panic", frame |-> 0]>>
  IN calls("heap", Numbers(HEAP_START, HEAP_END))
     \o calls("rsdp", f.rsdp)
     \o IF f.kind = "none" THEN panic
        ELSE calls("sdt", Numbers(f.sdt[1], f.sdt[2]))
             \o IF f.kind = "xsdt" THEN panic
                ELSE calls("read", f.tables) \o calls("apic", f.apics)

KMInit ==
  /\ PgInit
  /\ plan \in {Plan(f) : f \in Firmwares}
  /\ range_start = RangeStart
  /\ alloc = [guard |-> 0, bottom |-> 1, start |-> 1, end |-> 0]
  /\ stacks = {}
  /\ backed = {}

-----------------------------------------------------------------------------
BootStep == PagingInit /\ UNCHANGED <<plan, stackVars, backed>>

\* The next call of memory::init is op.
Calls(op) ==
  /\ phase = "run" /\ err = Fine
  /\ plan # <<>> /\ Head(plan).op = op
  /\ plan' = Tail(plan)
  /\ UNCHANGED <<cr3, inactive, phase, todo, stackVars>>

\* map() and its flush, for page n.
MapBacked(n, flags) ==
  /\ Becomes(Flush(MapPage(Machine, PageOf(n), flags), PageOf(n)))
  /\ backed' = IF err' = Fine THEN backed \cup {n} ELSE backed

MapHeap == Calls("heap") /\ MapBacked(Head(plan).frame, {"PRESENT", "WRITABLE"})

\* A frame is mapped to the page with its number, mapped already or not.
MapOnto(m, f, flags) == Flush(MapTo(m, PageOf(f), f, flags), PageOf(f))

\* RsdpDescriptor::init.
MapRsdp ==
  /\ Calls("rsdp")
  /\ Becomes(MapOnto(Machine, Head(plan).frame, {"PRESENT", "NO_EXECUTE"}))
  /\ UNCHANGED backed

\* apic::init, for the local APIC and for each I/O APIC.
MapApic ==
  /\ Calls("apic")
  /\ Becomes(MapOnto(Machine, Head(plan).frame, {"PRESENT", "WRITABLE", "NO_EXECUTE"}))
  /\ UNCHANGED backed

\* There is no RSDP, or Rsdt::new meets another signature.
Panic == Calls("panic") /\ Becomes(Fail(Machine, "panic")) /\ UNCHANGED backed

\* Mutant: pages that are mapped are mapped again.
MapIfMissingAlways(m, n) == MapOnto(m, n, {"PRESENT", "NO_EXECUTE"})

MapIfMissing(m, n) ==
  LET a == Touch(m, Seen(m, PageOf(n)))
  IN IF Failed(a) \/ TranslatePage(a, PageOf(n)) # None THEN a
     ELSE MapOnto(a, n, {"PRESENT", "NO_EXECUTE"})

\* get_sdt, which is only called for the table the RSDP names, for one page.
GetSdt ==
  /\ Calls("sdt")
  /\ Becomes(MapIfMissing(Machine, Head(plan).frame))
  /\ UNCHANGED backed

\* find_sdt and MadtIter::next read a table where it is.
ReadTable ==
  /\ Calls("read")
  /\ Becomes(IF Walk(mem, cr3, PageOf(Head(plan).frame)) = None
             THEN Fail(Machine, "page fault") ELSE Machine)
  /\ UNCHANGED backed

\* No call is in progress.
Ready == phase = "run" /\ err = Fine /\ plan = <<>> /\ alloc.start > alloc.end

\* Mutant: the iterator runs past the end of its range.
FitsAlways(last) == TRUE

\* PageIter still has a page last.
Fits(last) == last <= RangeEnd

\* Mutant: the next guard page is the top of this stack.
NextRangeNoGuard(last) == last

\* range.start after page last was taken.
NextRange(last) == last + 1

\* alloc_stack, up to its loop: a guard page, which is left out, and n pages
\* above it.
AllocStack(n) ==
  LET last == range_start + n
  IN /\ Ready
     /\ n > 0 /\ Fits(last)
     /\ range_start' = NextRange(last)
     /\ alloc' = [guard |-> range_start, bottom |-> range_start + 1,
                  start |-> range_start + 1, end |-> last]
     /\ UNCHANGED <<pgVars, plan, stacks, backed>>

\* A round of the loop; after the last one the stack is returned.
MapStackPage ==
  /\ phase = "run" /\ err = Fine
  /\ alloc.start <= alloc.end
  /\ MapBacked(alloc.start, {"PRESENT"})
  /\ alloc' = [alloc EXCEPT !.start = @ + 1]
  /\ stacks' = IF err' = Fine /\ alloc.start = alloc.end
               THEN stacks \cup {[guard |-> alloc.guard, bottom |-> alloc.bottom,
                                  last |-> alloc.end]}
               ELSE stacks
  /\ UNCHANGED <<cr3, inactive, phase, todo, plan, range_start>>

\* None: no size, or not enough pages.
NoStack(n) ==
  /\ Ready
  /\ n = 0 \/ ~Fits(range_start + n)
  /\ UNCHANGED kmVars

\* A panic or a fault ends in a loop.
Halted == err # Fine /\ UNCHANGED kmVars

KMNext ==
  \/ BootStep
  \/ MapHeap \/ MapRsdp \/ GetSdt \/ ReadTable \/ MapApic \/ Panic
  \/ \E n \in StackSizes : AllocStack(n) \/ NoStack(n)
  \/ MapStackPage
  \/ Halted

KMSpec == KMInit /\ [][KMNext]_kmVars

-----------------------------------------------------------------------------
KMTypeOK ==
  /\ mem \in [0 .. RAM - 1 -> [Index -> Entry]]
  /\ cr3 \in 0 .. RAM - 1
  /\ free \subseteq 0 .. RAM - 1
  /\ tlb \subseteq Page /\ stale \subseteq Page
  /\ err \in {Fine, "page fault", "stale", "out of memory", "assert", "panic"}
  /\ inactive \in 0 .. RAM - 1 \cup {None}
  /\ phase \in {"boot", "new", "with", "built", "switched", "run"}
  /\ plan \in Seq(Call)
  /\ range_start \in RangeStart .. RangeEnd + 1
  /\ alloc \in [guard : 0 .. RangeEnd, bottom : 1 .. RangeEnd, start : 1 .. RangeEnd + 1,
               end : 0 .. RangeEnd]
  /\ stacks \subseteq Stack
  /\ backed \subseteq HEAP_START .. RangeEnd

\* The table that map_to and translate_page work on.
Mapped == IF phase = "with" THEN inactive ELSE cr3

\* The code only touches tables that are mapped where it looks for them and
\* whose translation in the TLB is up to date: no access faults or goes to
\* another frame, neither outside nor inside of with().
AccessesAreSound == err \notin {"page fault", "stale"}

\* No operation leaves a translation in the TLB that the tables contradict,
\* although with() exchanges the recursive entry and identity_map's flush
\* is ignored.
TlbCoherent == err = Fine => stale = {}

\* translate_page, which looks at tables through the recursive entry, finds
\* what the MMU finds walking from the root, huge pages included; inside
\* with() it does so for the table that is not active.
TranslationsAgree ==
  err = Fine => \A p \in Ordinary : TranslatePage(Machine, p) = Walk(mem, Mapped, p)

\* Slots of the tables in T that lead to another table.
Slots(T) == {s \in T \X Index : Present(mem[s[1]][s[2]]) /\ ~Huge(mem[s[1]][s[2]])}
Pointed(S) == {mem[s[1]][s[2]].frame : s \in S}

Roots == {cr3, inactive} \ {None}

\* The slots of P4, P3 and P2 tables; the recursive ones are left out.
TableSlots ==
  LET s4 == {s \in Slots(Roots) : s[2] # R}
      s3 == Slots(Pointed(s4))
  IN s4 \cup s3 \cup Slots(Pointed(s3))

\* Pages that map() backs with a frame of the allocator.
Backed == {PageOf(n) : n \in backed}

\* Every frame has one use: no two entries of the active and the inactive
\* tables lead to the same table, no table is free memory or a root, and no
\* heap or stack page shares its frame with another one or with a table.
OneUsePerFrame ==
  LET tables == Pointed(TableSlots)
      backing == {Walk(mem, cr3, p) : p \in Backed}
  IN err = Fine =>
       /\ Cardinality(tables) = Cardinality(TableSlots)
       /\ tables \cap (free \cup Roots) = {}
       /\ Cardinality(backing) = Cardinality(Backed)
       /\ backing \cap (tables \cup Roots \cup free) = {}

\* Stacks do not overlap, all their pages are mapped, and the page below
\* each of them is not, so that running off its end faults; nor is the page
\* that init makes a guard page, although later calls map other pages.
StacksAreGuarded ==
  err = Fine =>
    /\ \A s \in stacks :
         /\ Walk(mem, cr3, PageOf(s.guard)) = None
         /\ s.guard = s.bottom - 1
         /\ \A n \in s.bottom .. s.last : Walk(mem, cr3, PageOf(n)) # None
         /\ \A t \in stacks \ {s} : (s.guard .. s.last) \cap (t.guard .. t.last) = {}
    /\ phase = "run" => Walk(mem, cr3, PageOf(inactive)) = None

\* An assertion of map_to, unmap or the temporary page fails only when the
\* frames to be mapped one to one really overlap: in the kernel's own
\* sections, or between the RSDP area, the APICs and what is mapped before.
AssertsOnlyOnOverlap ==
  [][(err = Fine /\ err' = "assert") =>
       \/ phase = "with" /\ Walk(mem, inactive, PageOf(Head(todo).frame)) # None
       \/ /\ phase = "run" /\ Head(plan).op \in {"rsdp", "apic"}
          /\ Walk(mem, cr3, PageOf(Head(plan).frame)) # None]_kmVars

\* The tables implement two address spaces: every call changes the pages it
\* is for and no other one, in the table it is for.
Space(root) ==
  [p \in Ordinary |-> LET e == IF root = None THEN Unused ELSE Leaf(mem, root, p)
                      IN IF Present(e) THEN e ELSE Unused]

Spaces == INSTANCE AddressSpace WITH
            Page <- Ordinary,
            Target <- Entry,
            Unmapped <- Unused,
            current <- Space(cr3),
            spare <- Space(inactive)

ImplementsAddressSpaces == Spaces!ASSpec

-----------------------------------------------------------------------------
\* stack_allocator.rs:18: "a range of pages to use as a stack", so they can
\* be written; CR0.WP is set, and map() sets no WRITABLE that is not asked for.
StacksAreWritable ==
  \A s \in stacks : \A n \in s.bottom .. s.last :
    "WRITABLE" \in Leaf(mem, cr3, PageOf(n)).flags
=============================================================================
