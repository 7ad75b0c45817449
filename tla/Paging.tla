------------------------------- MODULE Paging --------------------------------
(***************************************************************************)
(* Page tables, src/arch/x86_64/memory/paging.  Tables live in physical    *)
(* frames and are only reached through virtual addresses: the last entry   *)
(* of the P4 table points to a P4 table, and the MMU, walking from cr3,    *)
(* turns the addresses that next_table computes into the tables' frames.   *)
(* The operators below take and return the machine's memory as a record,   *)
(* so that each access of a function sees what the ones before it wrote.   *)
(***************************************************************************)
EXTENDS Integers, Sequences, FiniteSetsExt

CONSTANTS
  ENTRY_COUNT,  \* entries of a table; 512 in the code
  RAM,          \* number of physical frames
  FreeSets,     \* the frames that the frame allocator may have left
  TEMP,         \* number of the temporary page; 0xcafebabe in the code
  BootMaps      \* what init identity maps: sequences of [frame, flags]

VARIABLES
  mem,        \* contents of every frame, as a table
  cr3,        \* frame of the P4 table the MMU uses
  free,       \* frames the allocator has left; it hands out the lowest
  tlb,        \* pages at which the code has accessed tables since the last flush
  stale,      \* pages whose translation in the TLB is out of date
  err,        \* how the kernel stopped, or Fine
  inactive,   \* p4_frame of the InactivePageTable, or None
  phase,      \* how far init has come
  todo        \* what is left to be identity mapped

pgVars == <<mem, cr3, free, tlb, stale, err, inactive, phase, todo>>

Index == 0 .. ENTRY_COUNT - 1
R == ENTRY_COUNT - 1          \* the recursive entry, 511

\* Pages below a P3 entry and below a P4 entry; the pages from End on are
\* below the recursive entry.
P3Span == ENTRY_COUNT * ENTRY_COUNT
P4Span == ENTRY_COUNT * ENTRY_COUNT * ENTRY_COUNT
End == R * P4Span

\* A page is its four table indices.
Page == Index \X Index \X Index \X Index
PageOf(n) == << (n \div P4Span) % ENTRY_COUNT, (n \div P3Span) % ENTRY_COUNT,
                (n \div ENTRY_COUNT) % ENTRY_COUNT, n % ENTRY_COUNT >>
TempPage == PageOf(TEMP)

None == -1
Fine == "fine"

Flag == {"PRESENT", "WRITABLE", "HUGE_PAGE", "NO_EXECUTE"}

\* The frames of the boot tables, in the kernel's .bss.
p4_table == 0
p3_table == 1
p2_table == 2

\* The kernel does not use pages below the recursive entry, the temporary page
\* is not below the entry that boot.asm fills, and .bss is identity mapped, with
\* none of the flags that from_elf_section_flags does not know.
ASSUME PagingAssumption ==
  /\ ENTRY_COUNT \in Nat \ {0, 1}
  /\ RAM \in Nat \ {0, 1, 2}
  /\ \A s \in FreeSets : s \subseteq p2_table + 1 .. RAM - 1
  /\ TEMP \in P4Span .. End - 1
  /\ \A b \in BootMaps : /\ b \in Seq([frame : 0 .. End - 1, flags : SUBSET (Flag \ {"HUGE_PAGE"})])
                         /\ \E k \in 1 .. Len(b) : b[k].frame = p4_table

TableFlags == {"PRESENT", "WRITABLE"}
Entry == [frame : Nat, flags : SUBSET Flag]
Unused == [frame |-> 0, flags |-> {}]

-----------------------------------------------------------------------------
(* The MMU.                                                                 *)

Present(e) == "PRESENT" \in e.flags
Huge(e) == {"PRESENT", "HUGE_PAGE"} \subseteq e.flags

\* The entry at index i of table t, Unused when there is no such table; and
\* the one at index i of the table that entry e points to.
EntryAt(m, t, i) == IF t = None THEN Unused ELSE m[t][i]
FrameIn(e) == IF Present(e) THEN e.frame ELSE None
Below(m, e, i) == EntryAt(m, FrameIn(e), i)

\* The entry for page p under its P2 entry, or under its P3 entry, with the
\* frame p itself is mapped to.
LeafOfP2(m, e, p) ==
  IF Huge(e) THEN [e EXCEPT !.frame = @ + p[4]] ELSE Below(m, e, p[4])

LeafOfP3(m, e, p) ==
  IF Huge(e) THEN [e EXCEPT !.frame = @ + p[3] * ENTRY_COUNT + p[4]]
  ELSE LeafOfP2(m, Below(m, e, p[3]), p)

\* The leaf entry for page p in the tables below root, and its frame.
Leaf(m, root, p) == LeafOfP3(m, Below(m, EntryAt(m, root, p[1]), p[2]), p)
Walk(m, root, p) == FrameIn(Leaf(m, root, p))

Ordinary == {p \in Page : p[1] # R}

\* Pages whose translation may sit in the TLB and is no longer right once the
\* memory of machine m becomes new: tables that were accessed, and pages
\* that were mapped when the running operation began, which any code of the
\* kernel may have used.
Outdated(m, new) ==
  {p \in m.tlb : Walk(m.mem, cr3, p) # Walk(new, cr3, p)}
  \cup {p \in Ordinary : Walk(mem, cr3, p) \notin {None, Walk(new, cr3, p)}}

-----------------------------------------------------------------------------
(* Table<L>: a table is named by the page it is seen at.                    *)

P4 == <<R, R, R, R>>

\* next_table_address: (table_address << 9) | (index << 12).
TableBelow(t, i) == <<t[2], t[3], t[4], i>>

NoTable == <<>>

Read(m, t, i) == IF t = NoTable THEN Unused ELSE EntryAt(m.mem, Walk(m.mem, cr3, t), i)

\* next_table, next_table_mut.
LeadsOn(e) == Present(e) /\ ~Huge(e)
NextTable(m, t, i) == IF LeadsOn(Read(m, t, i)) THEN TableBelow(t, i) ELSE NoTable

Failed(m) == m.err # Fine
Fail(m, why) == IF Failed(m) THEN m ELSE [m EXCEPT !.err = why]

\* The tables T are accessed, through the MMU and its TLB.
Touch(m, T) ==
  IF Failed(m) THEN m
  ELSE IF T \cap m.stale # {} THEN Fail(m, "stale")
  ELSE IF \E t \in T : Walk(m.mem, cr3, t) \notin 0 .. RAM - 1 THEN Fail(m, "page fault")
  ELSE [m EXCEPT !.tlb = @ \cup T]

\* The contents of memory become new, unless the access has failed.
Store(m, new) ==
  IF Failed(m) THEN m ELSE [m EXCEPT !.mem = new, !.stale = @ \cup Outdated(m, new)]

\* Stores e to the entries S of table t.
Write(m, t, S, e) ==
  Store(Touch(m, {t}),
        [m.mem EXCEPT ![Walk(m.mem, cr3, t)] = [i \in Index |-> IF i \in S THEN e ELSE @[i]]])

\* Mutant: a new table keeps what was in its frame.
ZeroSkipped(m, t) == m

\* Table::zero.
Zero(m, t) == Write(m, t, Index, Unused)

\* allocate_frames(1) and its expect(); the frame is Lowest(m).
Lowest(m) == Min(m.free)
AllocateFrame(m) ==
  IF m.free = {} THEN Fail(m, "out of memory") ELSE [m EXCEPT !.free = @ \ {Lowest(m)}]

\* next_table_create, from its look at the entry on; the table is then at
\* TableBelow(t, i).
CreateBelow(m, t, i) ==
  IF Failed(m) \/ NextTable(m, t, i) # NoTable THEN m
  ELSE IF "HUGE_PAGE" \in Read(m, t, i).flags THEN Fail(m, "assert")
  ELSE IF m.free = {} THEN Fail(m, "out of memory")
  ELSE Zero(Write(AllocateFrame(m), t, {i}, [frame |-> Lowest(m), flags |-> TableFlags]),
            TableBelow(t, i))

NextTableCreate(m, t, i) == CreateBelow(Touch(m, {t}), t, i)

-----------------------------------------------------------------------------
(* Mapper.                                                                  *)

P3(p) == TableBelow(P4, p[1])
P2(p) == TableBelow(P3(p), p[2])
P1(p) == TableBelow(P2(p), p[3])

\* translate_page: the frame of page p, or None.
TranslatePage(m, p) ==
  LET p3 == NextTable(m, P4, p[1])
      p2 == NextTable(m, p3, p[2])
      p1 == NextTable(m, p2, p[3])
      e3 == Read(m, p3, p[2])
      e2 == Read(m, p2, p[3])
      e1 == Read(m, p1, p[4])
  IN IF Present(e1) THEN e1.frame
     ELSE IF Huge(e3) THEN e3.frame + p[3] * ENTRY_COUNT + p[4]
     ELSE IF Huge(e2) THEN e2.frame + p[4]
     ELSE None

\* The tables translate_page looks at.
Seen(m, p) ==
  LET p3 == NextTable(m, P4, p[1])
      p2 == NextTable(m, p3, p[2])
  IN {P4, p3, p2, NextTable(m, p2, p[3])} \ {NoTable}

\* map_to: the tables, then the assertion and the entry.
TablesFor(m, p) ==
  Touch(NextTableCreate(NextTableCreate(NextTableCreate(
    m, P4, p[1]), P3(p), p[2]), P2(p), p[3]), {P1(p)})

SetEntry(m, p, frame, flags) ==
  IF Failed(m) THEN m
  ELSE IF Read(m, P1(p), p[4]) # Unused THEN Fail(m, "assert")
  ELSE Write(m, P1(p), {p[4]}, [frame |-> frame, flags |-> flags \cup {"PRESENT"}])

MapTo(m, p, frame, flags) == SetEntry(TablesFor(m, p), p, frame, flags)

\* Mutant: the page's frame is still there for others.
MapPageShared(m, p, flags) ==
  IF m.free = {} THEN Fail(m, "out of memory")
  ELSE MapTo(m, p, Lowest(m), flags)

MapPage(m, p, flags) ==
  IF m.free = {} THEN Fail(m, "out of memory")
  ELSE MapTo(AllocateFrame(m), p, Lowest(m), flags)

\* Mutant: invlpg is not given the page's address.
FlushNothing(m, p) == m

\* MapperFlush::flush, and tlb::flush_all.
Flush(m, p) == [m EXCEPT !.tlb = @ \ {p}, !.stale = @ \ {p}]
FlushAll(m) == [m EXCEPT !.tlb = {}, !.stale = {}]

\* unmap, after translate has looked at the tables.
ClearEntry(m, p) ==
  IF Failed(m) THEN m
  ELSE IF TranslatePage(m, p) = None \/ P1(p) \notin Seen(m, p) THEN Fail(m, "assert")
  ELSE Flush(Write(m, P1(p), {p[4]}, Unused), p)

UnmapPage(m, p) == ClearEntry(Touch(m, Seen(m, p)), p)

\* TemporaryPage::map and map_table_frame; the table is seen at TempPage.
MapIfUnused(m, frame) ==
  IF Failed(m) THEN m
  ELSE IF TranslatePage(m, TempPage) # None THEN Fail(m, "assert")
  ELSE Flush(MapTo(m, TempPage, frame, {"WRITABLE"}), TempPage)

TempMap(m, frame) == MapIfUnused(Touch(m, Seen(m, TempPage)), frame)

\* TemporaryPage::unmap, which flushes what unmap has flushed once more.
TempUnmap(m) == Flush(UnmapPage(m, TempPage), TempPage)
-----------------------------------------------------------------------------
(* boot.asm leaves a P4, a P3 and a P2 table in the kernel's .bss: the P2   *)
(* table maps the lowest memory with huge pages.  Other frames hold junk.   *)

BootTable(f) ==
  [i \in Index |->
     CASE f = p4_table /\ i = R -> [frame |-> p4_table, flags |-> TableFlags]
       [] f = p4_table /\ i = 0 -> [frame |-> p3_table, flags |-> TableFlags]
       [] f = p3_table /\ i = 0 -> [frame |-> p2_table, flags |-> TableFlags]
       [] f = p2_table -> [frame |-> i * ENTRY_COUNT, flags |-> TableFlags \cup {"HUGE_PAGE"}]
       [] f > p2_table -> [frame |-> (f + i) % RAM, flags |-> TableFlags]
       [] OTHER -> Unused]

PgInit ==
  /\ mem = [f \in 0 .. RAM - 1 |-> BootTable(f)]
  /\ cr3 = p4_table
  /\ free \in FreeSets
  /\ tlb = {}
  /\ stale = {}
  /\ err = Fine
  /\ inactive = None
  /\ phase = "boot"
  /\ todo \in BootMaps

Machine == [mem |-> mem, free |-> free, tlb |-> tlb, stale |-> stale, err |-> err]

Becomes(m) ==
  mem' = m.mem /\ free' = m.free /\ tlb' = m.tlb /\ stale' = m.stale /\ err' = m.err

\* InactivePageTable::new on a newly allocated frame.
NewTable ==
  LET f == Lowest(Machine)
      zeroed == Zero(TempMap(AllocateFrame(Machine), f), TempPage)
      recursive == Write(zeroed, TempPage, {R}, [frame |-> f, flags |-> TableFlags])
  IN /\ phase = "boot" /\ err = Fine
     /\ Becomes(IF free = {} THEN Fail(Machine, "out of memory") ELSE TempUnmap(recursive))
     /\ inactive' = IF err' = Fine THEN f ELSE None
     /\ phase' = "new"
     /\ UNCHANGED <<cr3, todo>>

\* Mutant: the TLB is not flushed when the recursive entry is exchanged.
WithBeginNoFlush ==
  /\ phase = "new" /\ err = Fine
  /\ Becomes(Write(TempMap(Machine, cr3), P4, {R}, [frame |-> inactive, flags |-> TableFlags]))
  /\ phase' = "with"
  /\ UNCHANGED <<cr3, inactive, todo>>

\* with, up to the call of its closure: the recursive entry of the active
\* table points to the inactive one.
WithBegin ==
  LET swapped == Write(TempMap(Machine, cr3), P4, {R}, [frame |-> inactive, flags |-> TableFlags])
  IN /\ phase = "new" /\ err = Fine
     /\ Becomes(FlushAll(swapped))
     /\ phase' = "with"
     /\ UNCHANGED <<cr3, inactive, todo>>

\* The closure: identity_map, its flush ignored.
IdentityMap ==
  LET f == Head(todo).frame
  IN /\ phase = "with" /\ err = Fine
     /\ todo # <<>>
     /\ Becomes(MapTo(Machine, PageOf(f), f, Head(todo).flags))
     /\ todo' = Tail(todo)
     /\ UNCHANGED <<cr3, inactive, phase>>

\* Mutant: the recursive entry is left as it is.
WithEndNoRestore ==
  /\ phase = "with" /\ err = Fine
  /\ todo = <<>>
  /\ Becomes(Machine)
  /\ phase' = "built"
  /\ UNCHANGED <<cr3, inactive, todo>>

\* The rest of with: the entry is restored through the temporary page.
WithEnd ==
  LET restored == Write(Machine, TempPage, {R}, [frame |-> cr3, flags |-> TableFlags])
  IN /\ phase = "with" /\ err = Fine
     /\ todo = <<>>
     /\ Becomes(TempUnmap(FlushAll(restored)))
     /\ phase' = "built"
     /\ UNCHANGED <<cr3, inactive, todo>>

\* switch; a write to cr3 empties the TLB.
SwitchTable ==
  /\ phase = "built" /\ err = Fine
  /\ cr3' = inactive /\ inactive' = cr3
  /\ Becomes(FlushAll(Machine))
  /\ phase' = "switched"
  /\ UNCHANGED todo

\* The page of the old P4 table becomes the guard page of the kernel stack.
GuardPage ==
  /\ phase = "switched" /\ err = Fine
  /\ Becomes(Flush(UnmapPage(Machine, PageOf(inactive)), PageOf(inactive)))
  /\ phase' = "run"
  /\ UNCHANGED <<cr3, inactive, todo>>

PagingInit == NewTable \/ WithBegin \/ IdentityMap \/ WithEnd \/ SwitchTable \/ GuardPage

=============================================================================
