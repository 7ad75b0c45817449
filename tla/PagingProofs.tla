---------------------------- MODULE PagingProofs -----------------------------
(***************************************************************************)
(* What the operations of Paging do to a machine: its tables, its frames   *)
(* and its TLB, for every number of entries and every memory.              *)
(***************************************************************************)
EXTENDS PagingTables

-----------------------------------------------------------------------------
(* The machine.                                                             *)

Errors == {Fine, "page fault", "stale", "out of memory", "assert", "panic"}

MachineType ==
  [mem : Memory, free : SUBSET Frame, tlb : SUBSET Page, stale : SUBSET Page, err : Errors]

\* The pages at which the code accesses tables.
Visible(x) == x = TempPage \/ \E p \in Ordinary : x \in {P4, P3(p), P2(p), P1(p)}

\* Machine m works on the tables of root q; its TLB holds pages of tables only.
Sound(m, use, q) ==
  /\ m \in MachineType /\ m.err = Fine /\ m.stale = {}
  /\ use \in Uses /\ m.free = {f \in Frame : use[f] = 0}
  /\ cr3 \in Frame /\ use[cr3] = 4 /\ q \in Frame /\ use[q] = 4
  /\ Tree(m.mem, use) /\ Loops(m.mem, q)
  /\ \A x \in m.tlb : Visible(x) /\ Walk(m.mem, cr3, x) # None

\* The pages that were mapped when the operation began are mapped as they were.
Kept(M) == \A p \in Ordinary : Walk(mem, cr3, p) # None => Walk(M, cr3, p) = Walk(mem, cr3, p)

\* Walks at pages where tables are seen stay as they are.
LEMMA VisibleKept ==
  ASSUME NEW M \in Memory, NEW N \in Memory, NEW use \in Uses, Tree(M, use),
         Keeps(M, N, TableFrames(use)), cr3 \in Frame, use[cr3] = 4,
         NEW q \in Frame, use[q] = 4, Loops(M, q),
         NEW x, Visible(x), Walk(M, cr3, x) # None
  PROVE  Walk(N, cr3, x) = Walk(M, cr3, x)
<1>1. Keeps(M, N, UpperTables(use))
  BY DEF Keeps, TableFrames, UpperTables
<1>2. CASE x = TempPage
  BY <1>2, TempPageFacts, OrdinaryKept DEF Walk
<1>3. CASE \E p \in Ordinary : x \in {P4, P3(p), P2(p), P1(p)}
  BY <1>1, <1>3, TableViewKept DEF Walk
<1> QED BY Zenon, <1>2, <1>3 DEF Visible

\* Visible pages are pages.
LEMMA VisiblePages ==
  ASSUME NEW x, Visible(x)
  PROVE  x \in Page
<1>1. TempPage \in Page
  BY TempPageFacts, TablePages
<1>2. ASSUME NEW p \in Ordinary, x \in {P4, P3(p), P2(p), P1(p)} PROVE x \in Page
  BY <1>2, TablePages
<1> QED BY <1>1, <1>2 DEF Visible

\* Accessing tables that are there.
LEMMA TouchSound ==
  ASSUME NEW m, NEW use, NEW q, Sound(m, use, q), NEW T,
         \A x \in T : Visible(x) /\ Walk(m.mem, cr3, x) \in Frame
  PROVE  /\ Touch(m, T) = [m EXCEPT !.tlb = @ \cup T]
         /\ Sound(Touch(m, T), use, q)
         /\ Touch(m, T).mem = m.mem /\ Touch(m, T).free = m.free
         /\ T \subseteq Touch(m, T).tlb
<1>1. m \in MachineType /\ m.err = Fine /\ m.stale = {}
  BY DEF Sound
<1>2. Touch(m, T) = [m EXCEPT !.tlb = @ \cup T]
  BY Zenon, <1>1 DEF Touch, Failed, Frame
<1>3. T \subseteq Page
  BY VisiblePages
<1> DEFINE n == [m EXCEPT !.tlb = @ \cup T]
<1>4. /\ n \in MachineType
      /\ n.mem = m.mem /\ n.free = m.free /\ n.tlb = m.tlb \cup T /\ n.stale = m.stale /\ n.err = m.err
  BY <1>1, <1>3 DEF MachineType
<1>5. None \notin Frame
  BY DEF Frame, None
<1> HIDE DEF n
<1>6. Sound(n, use, q)
  BY <1>1, <1>4, <1>5 DEF Sound
<1> QED BY <1>2, <1>4, <1>6 DEF n

\* Machine n is m after a store of e to the entries S of the table seen at t.
Written(m, n, t, S, e) ==
  /\ n \in MachineType /\ n.err = Fine /\ n.free = m.free /\ n.tlb = m.tlb \cup {t}
  /\ n.stale = Outdated([m EXCEPT !.tlb = @ \cup {t}], n.mem)
  /\ \A i \in S : n.mem[Walk(m.mem, cr3, t)][i] = e
  /\ \A u \in Frame, j \in Index :
       ~(u = Walk(m.mem, cr3, t) /\ j \in S) => n.mem[u][j] = m.mem[u][j]

\* What a store through the MMU does.
LEMMA WriteIs ==
  ASSUME NEW m \in MachineType, m.err = Fine, m.stale = {}, NEW t \in Page,
         Walk(m.mem, cr3, t) \in Frame, NEW S \in SUBSET Index, NEW e \in Entry
  PROVE  Written(m, Write(m, t, S, e), t, S, e)
<1> DEFINE n == Write(m, t, S, e)
           F == Walk(m.mem, cr3, t)
           row == [i \in Index |-> IF i \in S THEN e ELSE m.mem[F][i]]
           N == [m.mem EXCEPT ![F] = row]
           a == [m EXCEPT !.tlb = @ \cup {t}]
           out == Outdated(a, N)
<1>1. m.mem \in Memory /\ F \in Frame
  BY DEF MachineType
<1>2. row \in [Index -> Entry]
  BY <1>1 DEF Memory
<1>3. N \in Memory /\ N[F] = row /\ \A u \in Frame : u # F => N[u] = m.mem[u]
  <2> HIDE DEF row, F
  <2> QED BY <1>1, <1>2 DEF Memory
<1>4. Touch(m, {t}) = a
  BY Zenon DEF Touch, Failed, Frame
<1>5. /\ a \in MachineType /\ a.mem = m.mem /\ a.free = m.free /\ a.tlb = m.tlb \cup {t}
      /\ a.stale = {} /\ a.err = Fine
  BY DEF MachineType
<1>6. out \subseteq Page
  <2> HIDE DEF a, N
  <2> QED BY <1>5 DEF Outdated, MachineType, Ordinary
<1>7. n = Store(a, N)
  <2>1. n = Store(Touch(m, {t}), N)
    BY DEF Write
  <2> QED BY <2>1, <1>4
<1> HIDE DEF a, N, out, n
<1>8. n = [a EXCEPT !.mem = N, !.stale = @ \cup out]
  BY <1>5, <1>7 DEF Store, Failed, out
<1>9. /\ n \in MachineType /\ n.err = Fine /\ n.free = m.free /\ n.tlb = m.tlb \cup {t}
      /\ n.mem = N /\ n.stale = out
  <2>1. n.stale = {} \cup out
    BY <1>5, <1>8 DEF MachineType
  <2>2. n.mem = N /\ n.err = Fine /\ n.free = m.free /\ n.tlb = m.tlb \cup {t}
    BY <1>5, <1>8 DEF MachineType
  <2>3. n \in MachineType
    BY Zenon, <1>3, <1>5, <1>6, <1>8 DEF MachineType
  <2> QED BY <2>1, <2>2, <2>3
<1>10. \A i \in S : N[F][i] = e
  BY <1>3
<1>11. \A u \in Frame, j \in Index : ~(u = F /\ j \in S) => N[u][j] = m.mem[u][j]
  BY <1>3
<1>12. Written(m, n, t, S, e)
  BY <1>9, <1>10, <1>11 DEF a, out, Written
<1> QED BY <1>12 DEF n

\* No translation goes out of date when memory becomes N, from a machine
\* whose TLB holds one more page x than a sound one with memory M.
LEMMA NothingOutdated ==
  ASSUME NEW M \in Memory, NEW use \in Uses, Tree(M, use), cr3 \in Frame, use[cr3] = 4,
         NEW q \in Frame, use[q] = 4, Loops(M, q), Kept(M),
         NEW m, m.mem \in Memory, NEW N \in Memory,
         Keeps(M, m.mem, TableFrames(use)), Keeps(M, N, TableFrames(use)),
         NEW x, Walk(m.mem, cr3, x) = Walk(N, cr3, x),
         \A y \in m.tlb : y = x \/ (Visible(y) /\ Walk(M, cr3, y) # None)
  PROVE  Outdated(m, N) = {}
<1>1. ASSUME NEW y \in m.tlb PROVE Walk(m.mem, cr3, y) = Walk(N, cr3, y)
  <2>1. CASE y = x
    BY <2>1
  <2>2. CASE Visible(y) /\ Walk(M, cr3, y) # None
    <3>1. Walk(m.mem, cr3, y) = Walk(M, cr3, y)
      BY <2>2, VisibleKept
    <3>2. Walk(N, cr3, y) = Walk(M, cr3, y)
      BY <2>2, VisibleKept
    <3> QED BY <3>1, <3>2
  <2> QED BY <2>1, <2>2
<1>2. ASSUME NEW p \in Ordinary PROVE Walk(mem, cr3, p) \in {None, Walk(N, cr3, p)}
  <2>1. CASE Walk(mem, cr3, p) # None
    <3>1. Walk(M, cr3, p) = Walk(mem, cr3, p)
      BY <2>1 DEF Kept
    <3>2. Leaf(N, cr3, p) = Leaf(M, cr3, p)
      BY <2>1, <3>1, OrdinaryKept
    <3> QED BY <3>1, <3>2 DEF Walk
  <2> QED BY <2>1
<1> QED BY <1>1, <1>2 DEF Outdated

-----------------------------------------------------------------------------
(* next_table_create.                                                       *)

\* After the store of its entry the new table is seen at the next address.
NewTableSeen(m, q, F, i, b, f) ==
  \A N \in Memory :
    /\ N[cr3][R] = m.mem[cr3][R] /\ N[q][R] = m.mem[q][R]
    /\ N[F][i] = TableEntry(f)
    /\ \A u \in Frame, j \in Index : u # f /\ ~(u = F /\ j = i) => N[u][j] = m.mem[u][j]
    => Walk(N, cr3, b) = f

\* A frame is taken, the entry stored and the new table zeroed.
LEMMA CreateSound ==
  ASSUME NEW m, NEW use, NEW q, Sound(m, use, q), Kept(m.mem), m.free # {},
         NEW t, Visible(t), NEW F \in Frame, NEW i \in Index, Walk(m.mem, cr3, t) = F,
         Slot(use, F, i), m.mem[F][i] = Unused,
         Visible(TableBelow(t, i)), NewTableSeen(m, q, F, i, TableBelow(t, i), Lowest(m))
  PROVE  LET f == Lowest(m)
             n == Zero(Write(AllocateFrame(m), t, {i}, [frame |-> f, flags |-> TableFlags]),
                       TableBelow(t, i))
         IN /\ f \in Frame /\ use[f] = 0 /\ Linked(m.mem, n.mem, F, i, f)
            /\ Sound(n, [use EXCEPT ![f] = use[F] - 1], q) /\ Kept(n.mem)
<1> DEFINE M == m.mem
           f == Lowest(m)
           a == AllocateFrame(m)
           b == TableBelow(t, i)
           n1 == Write(a, t, {i}, TableEntry(f))
           n2 == Zero(n1, b)
           use2 == [use EXCEPT ![f] = use[F] - 1]
<1>1. /\ m \in MachineType /\ m.err = Fine /\ m.stale = {} /\ use \in Uses
      /\ m.free = {g \in Frame : use[g] = 0} /\ cr3 \in Frame /\ use[cr3] = 4
      /\ q \in Frame /\ use[q] = 4 /\ Tree(M, use) /\ Loops(M, q) /\ M \in Memory
      /\ \A x \in m.tlb : Visible(x) /\ Walk(M, cr3, x) # None
  BY DEF Sound, MachineType
<1>2. f \in Frame /\ use[f] = 0 /\ f \in m.free
  BY <1>1, LowestIsFree
<1>3. F # f /\ q # f /\ cr3 # f /\ ~(F = cr3 /\ i = R) /\ ~(F = q /\ i = R) /\ use[F] \in 2 .. 4
  BY <1>1, <1>2 DEF Slot
<1>4. /\ a \in MachineType /\ a.mem = M /\ a.err = Fine /\ a.stale = {} /\ a.tlb = m.tlb
      /\ a.free = m.free \ {f}
  <2>1. a = [m EXCEPT !.free = @ \ {f}]
    BY Zenon DEF AllocateFrame
  <2> HIDE DEF f, a
  <2> QED BY <1>1, <2>1 DEF MachineType
<1>5. t \in Page /\ b \in Page /\ TableEntry(f) \in Entry /\ Unused \in Entry
  BY <1>2, VisiblePages, EntryKinds DEF Frame
<1> DEFINE a1 == [a EXCEPT !.tlb = @ \cup {t}]
<1>6. a1.mem = M /\ a1.tlb = m.tlb \cup {t}
  <2> HIDE DEF a
  <2> QED BY <1>4 DEF MachineType
<1>7. /\ n1 \in MachineType /\ n1.err = Fine /\ n1.free = m.free \ {f} /\ n1.tlb = m.tlb \cup {t}
      /\ n1.stale = Outdated(a1, n1.mem)
      /\ n1.mem[F][i] = TableEntry(f)
      /\ \A u \in Frame, j \in Index : ~(u = F /\ j = i) => n1.mem[u][j] = M[u][j]
  <2> HIDE DEF a, M, f
  <2>1. {i} \in SUBSET Index
    OBVIOUS
  <2>2. Walk(a.mem, cr3, t) = F
    BY <1>4 DEF M
  <2>3. n1 = Write(a, t, {i}, TableEntry(f))
    OBVIOUS
  <2> HIDE DEF n1, a1
  <2>4. Written(a, n1, t, {i}, TableEntry(f))
    BY Zenon, <1>4, <1>5, <2>1, <2>2, <2>3, WriteIs
  <2>5. n1.stale = Outdated(a1, n1.mem)
    BY <2>4 DEF a1, Written
  <2> QED BY <1>4, <2>2, <2>4, <2>5 DEF Written
<1> DEFINE N1 == n1.mem
<1>8. N1 \in Memory /\ Keeps(M, N1, TableFrames(use))
  <2>1. N1 \in Memory
    BY <1>7 DEF MachineType
  <2> HIDE DEF n1, M
  <2> QED BY <2>1, <1>7, EntryKinds DEF Keeps, TableFrames, M
<1>9. Keeps(M, M, TableFrames(use))
  BY DEF Keeps
<1>10. Walk(N1, cr3, t) = Walk(M, cr3, t)
  <2> HIDE DEF n1, M
  <2>1. Walk(M, cr3, t) # None
    BY DEF M, None, Frame
  <2> QED BY ZenonT(60), <1>1, <1>8, <2>1, VisibleKept
<1>11. Outdated(a1, N1) = {}
  <2> HIDE DEF n1, M, a1
  <2>1. Kept(M)
    BY DEF M
  <2>2. \A y \in a1.tlb : y = t \/ (Visible(y) /\ Walk(M, cr3, y) # None)
    BY <1>1, <1>6
  <2> QED BY Zenon, <1>1, <1>6, <1>8, <1>9, <1>10, <2>1, <2>2, NothingOutdated
<1>12. N1[cr3][R] = M[cr3][R] /\ N1[q][R] = M[q][R]
  <2> HIDE DEF n1, M
  <2> QED BY <1>1, <1>3, <1>7, Sizes
<1>13. Walk(N1, cr3, b) = f
  <2> HIDE DEF n1, M, f, b
  <2>1. NewTableSeen(m, q, F, i, b, f)
    BY DEF b, f
  <2> QED BY <2>1, <1>7, <1>8, <1>12 DEF NewTableSeen, M
<1> DEFINE a2 == [n1 EXCEPT !.tlb = @ \cup {b}]
<1>14. a2.mem = N1 /\ a2.tlb = m.tlb \cup {t, b}
  <2> HIDE DEF n1
  <2> QED BY <1>7 DEF MachineType
<1>15. /\ n2 \in MachineType /\ n2.err = Fine /\ n2.free = m.free \ {f}
       /\ n2.tlb = m.tlb \cup {t, b}
       /\ n2.stale = Outdated(a2, n2.mem)
       /\ \A j \in Index : n2.mem[f][j] = Unused
       /\ \A u \in Frame, j \in Index : ~(u = f) => n2.mem[u][j] = N1[u][j]
  <2> HIDE DEF n1, f, b
  <2>1. n1.stale = {}
    BY Zenon, <1>7, <1>11
  <2>2. n2 = Write(n1, b, Index, Unused)
    BY DEF Zero
  <2>3. Index \in SUBSET Index
    OBVIOUS
  <2> HIDE DEF n2, a2
  <2>4. Written(n1, n2, b, Index, Unused)
    BY <1>2, <1>5, <1>7, <1>13, <2>1, <2>2, <2>3, WriteIs
  <2>5. n2.stale = Outdated(a2, n2.mem)
    BY <2>4 DEF a2, Written
  <2> QED BY <1>7, <1>13, <2>4, <2>5 DEF Written
<1> DEFINE N2 == n2.mem
<1>16. N2 \in Memory /\ Linked(M, N2, F, i, f)
  <2>1. N2 \in Memory
    BY <1>15 DEF MachineType
  <2> HIDE DEF n1, n2, M, f
  <2> QED BY <1>2, <1>3, <1>7, <1>15, <2>1 DEF Linked
<1>17. Keeps(M, N2, TableFrames(use))
  <2> HIDE DEF n1, n2, M, f
  <2> QED BY <1>1, <1>2, <1>16, EntryKinds DEF Keeps, Linked, TableFrames, M
<1>18. N2[cr3][R] = M[cr3][R] /\ N2[q][R] = M[q][R]
  <2> HIDE DEF n1, n2, M, f
  <2> QED BY <1>1, <1>3, <1>16, Sizes DEF Linked
<1>19. Walk(N2, cr3, b) = f
  <2> HIDE DEF n1, n2, M, f, b
  <2>1. NewTableSeen(m, q, F, i, b, f)
    BY DEF b, f
  <2> QED BY Zenon, <2>1, <1>16, <1>18 DEF NewTableSeen, M, Linked
<1>20. Outdated(a2, N2) = {}
  <2> HIDE DEF n1, n2, M, a2, b
  <2>1. Kept(M)
    BY DEF M
  <2>2. Walk(M, cr3, t) # None
    BY DEF M, None, Frame
  <2>3. \A y \in a2.tlb : y = b \/ (Visible(y) /\ Walk(M, cr3, y) # None)
    BY Zenon, <1>1, <1>14, <2>2
  <2>4. a2.mem \in Memory /\ Keeps(M, a2.mem, TableFrames(use)) /\ Walk(a2.mem, cr3, b) = Walk(N2, cr3, b)
    BY Zenon, <1>8, <1>13, <1>14, <1>19
  <2> QED BY Zenon, <1>1, <1>16, <1>17, <2>1, <2>3, <2>4, NothingOutdated
<1>21. Tree(N2, use2) /\ use2 \in Uses
  <2> HIDE DEF n1, n2, M, f
  <2>1. M[F][i] = Unused
    BY DEF M
  <2> QED BY Zenon, <1>1, <1>2, <1>16, <2>1, LinkTree
<1>22. Loops(N2, q)
  <2> HIDE DEF n1, n2, M
  <2> QED BY <1>1, <1>18 DEF Loops
<1>23. \A x \in n2.tlb : Visible(x) /\ Walk(N2, cr3, x) # None
  <2> HIDE DEF n1, n2, M, f, b
  <2>1. Visible(b) /\ f # None
    BY <1>2 DEF b, None, Frame
  <2>2. Walk(M, cr3, t) # None
    BY DEF M, None, Frame
  <2>3. \A x \in m.tlb \cup {t} : Visible(x) /\ Walk(M, cr3, x) # None
    BY <1>1, <2>2
  <2>4. ASSUME NEW x \in m.tlb \cup {t} PROVE Walk(N2, cr3, x) = Walk(M, cr3, x)
    BY ZenonT(60), <1>1, <1>16, <1>17, <2>3, VisibleKept
  <2> QED BY <1>15, <1>19, <2>1, <2>3, <2>4
<1>24. use2[cr3] = 4 /\ use2[q] = 4 /\ n2.free = {g \in Frame : use2[g] = 0}
  <2>1. use2 = [use EXCEPT ![f] = use[F] - 1]
    OBVIOUS
  <2>2. \A g \in Frame : use2[g] = IF g = f THEN use[F] - 1 ELSE use[g]
    <3> HIDE DEF f
    <3> QED BY <1>1 DEF Uses
  <2>3. use[F] - 1 # 0
    BY <1>3
  <2> HIDE DEF use2, n2, f
  <2> QED BY <1>1, <1>2, <1>3, <1>15, <2>2, <2>3
<1>25. Sound(n2, use2, q)
  <2> HIDE DEF n2, use2
  <2> QED BY Zenon, <1>1, <1>15, <1>20, <1>21, <1>22, <1>23, <1>24 DEF Sound
<1>26. Kept(N2)
  <2> HIDE DEF n1, n2, M
  <2>1. ASSUME NEW p \in Ordinary, Walk(mem, cr3, p) # None
        PROVE  Walk(N2, cr3, p) = Walk(mem, cr3, p)
    <3>1. Walk(M, cr3, p) = Walk(mem, cr3, p)
      BY Zenon, <2>1 DEF Kept, M
    <3>2. Leaf(N2, cr3, p) = Leaf(M, cr3, p)
      BY <1>1, <1>16, <1>17, <2>1, <3>1, OrdinaryKept
    <3> QED BY Zenon, <3>1, <3>2 DEF Walk
  <2> QED BY <2>1 DEF Kept
<1>27. n1 = Write(AllocateFrame(m), t, {i}, [frame |-> Lowest(m), flags |-> TableFlags])
  BY Zenon DEF TableEntry
<1> QED BY Zenon, <1>2, <1>16, <1>25, <1>26, <1>27

\* The addresses of the three tables that map_to may create.
LEMMA NewSeen ==
  ASSUME NEW m, m.mem \in Memory, NEW use \in Uses, Tree(m.mem, use), cr3 \in Frame, use[cr3] = 4,
         NEW q \in Frame, use[q] = 4, Loops(m.mem, q), NEW p \in Ordinary,
         NEW f \in Frame, use[f] = 0
  PROVE  /\ NewTableSeen(m, q, q, p[1], P3(p), f)
         /\ T3(m.mem, q, p) # None => NewTableSeen(m, q, T3(m.mem, q, p), p[2], P2(p), f)
         /\ T2(m.mem, q, p) # None => NewTableSeen(m, q, T2(m.mem, q, p), p[3], P1(p), f)
<1> DEFINE M == m.mem
           e == TableEntry(q)
           t3 == T3(M, q, p)
           t2 == T2(M, q, p)
<1>1. /\ p[1] \in Index /\ p[2] \in Index /\ p[3] \in Index /\ p[1] # R
      /\ P3(p) = <<R, R, R, p[1]>>
      /\ P2(p) = <<R, R, p[1], p[2]>> /\ P1(p) = <<R, p[1], p[2], p[3]>>
  BY TablePages
<1>2. cr3 # None /\ q # None /\ q \in Nat /\ f \in Nat /\ f # None /\ q # f
  BY DEF Frame, None
<1>3. M[cr3][R] = e /\ M[q][R] = e
  BY DEF Loops
<1>4. Present(e) /\ ~Huge(e) /\ e.frame = q /\ FrameIn(e) = q
  BY <1>2, EntryKinds DEF FrameIn
<1>5. FrameIn(TableEntry(f)) = f
  BY <1>2, EntryKinds DEF FrameIn
<1>6. /\ t3 # None => t3 \in Frame /\ use[t3] = 3
      /\ t2 # None => t2 \in Frame /\ use[t2] = 2 /\ t3 # None
  BY TableLevels
<1>7. t3 # None => Present(M[q][p[1]]) /\ ~Huge(M[q][p[1]]) /\ FrameIn(M[q][p[1]]) = t3
  BY Zenon, EntryKinds DEF T3, NextOf, FrameIn
<1>8. t2 # None => Present(M[t3][p[2]]) /\ ~Huge(M[t3][p[2]]) /\ FrameIn(M[t3][p[2]]) = t2
  <2>1. t2 # None => LeadsOn(M[t3][p[2]]) /\ M[t3][p[2]].frame = t2
    BY Zenon, <1>6, EntryKinds DEF T2, NextOf, EntryAt
  <2> QED BY Zenon, <2>1, EntryKinds DEF FrameIn
<1> HIDE DEF M, e, t3, t2
<1>9. ASSUME NEW N \in Memory, N[cr3][R] = e, N[q][R] = e
      PROVE  \A i : EntryAt(N, cr3, R) = e /\ Below(N, e, i) = N[q][i]
  BY Zenon, <1>2, <1>4, <1>9 DEF EntryAt, Below
<1>10. ASSUME NEW N \in Memory, N[cr3][R] = M[cr3][R], N[q][R] = M[q][R], N[q][p[1]] = TableEntry(f)
       PROVE  Walk(N, cr3, P3(p)) = f
  <2>1. \A i : EntryAt(N, cr3, R) = e /\ Below(N, e, i) = N[q][i]
    BY Zenon, <1>3, <1>9, <1>10
  <2>2. N[q][R] = e
    BY <1>3, <1>10
  <2>3. Leaf(N, cr3, P3(p)) = N[q][p[1]]
    BY <1>1, <1>4, <2>1, <2>2 DEF Leaf, LeafOfP3, LeafOfP2
  <2> QED BY Zenon, <1>5, <1>10, <2>3 DEF Walk
<1>11. ASSUME t3 # None, NEW N \in Memory, N[cr3][R] = M[cr3][R], N[q][R] = M[q][R],
              N[q][p[1]] = M[q][p[1]], N[t3][p[2]] = TableEntry(f)
       PROVE  Walk(N, cr3, P2(p)) = f
  <2>1. \A i : EntryAt(N, cr3, R) = e /\ Below(N, e, i) = N[q][i]
    BY <1>3, <1>9, <1>11
  <2>2. N[q][R] = e
    BY <1>3, <1>11
  <2>3. Leaf(N, cr3, P2(p)) = LeafOfP2(N, N[q][p[1]], P2(p))
    BY <1>1, <1>4, <2>1, <2>2 DEF Leaf, LeafOfP3
  <2>4. Below(N, N[q][p[1]], p[2]) = N[t3][p[2]]
    BY Zenon, <1>7, <1>11 DEF Below, EntryAt
  <2>5. Leaf(N, cr3, P2(p)) = N[t3][p[2]]
    BY <1>1, <1>7, <1>11, <2>3, <2>4 DEF LeafOfP2
  <2> QED BY <1>5, <1>11, <2>5 DEF Walk
<1>12. ASSUME t2 # None, NEW N \in Memory, N[cr3][R] = M[cr3][R], N[q][R] = M[q][R],
              N[q][p[1]] = M[q][p[1]], N[t3][p[2]] = M[t3][p[2]], N[t2][p[3]] = TableEntry(f)
       PROVE  Walk(N, cr3, P1(p)) = f
  <2>1. \A i : EntryAt(N, cr3, R) = e /\ Below(N, e, i) = N[q][i]
    BY Zenon, <1>3, <1>9, <1>12
  <2>2. N[q][R] = e
    BY Zenon, <1>3, <1>12
  <2>3. Leaf(N, cr3, P1(p)) = LeafOfP3(N, N[q][p[1]], P1(p))
    BY <1>1, <1>4, <2>1, <2>2 DEF Leaf
  <2>4. Below(N, N[q][p[1]], p[2]) = N[t3][p[2]]
    BY Zenon, <1>6, <1>7, <1>12 DEF Below, EntryAt
  <2>5. Below(N, N[t3][p[2]], p[3]) = N[t2][p[3]]
    BY Zenon, <1>6, <1>8, <1>12 DEF Below, EntryAt
  <2>6. LeafOfP3(N, N[q][p[1]], P1(p)) = LeafOfP2(N, N[t3][p[2]], P1(p))
    BY <1>1, <1>6, <1>7, <1>12, <2>4 DEF LeafOfP3
  <2>7. Leaf(N, cr3, P1(p)) = N[t2][p[3]]
    BY <1>1, <1>8, <1>12, <2>3, <2>5, <2>6 DEF LeafOfP2
  <2> QED BY Zenon, <1>5, <1>12, <2>7 DEF Walk
<1>13. NewTableSeen(m, q, q, p[1], P3(p), f)
  BY Zenon, <1>10 DEF NewTableSeen, M
<1>14. t3 # None => NewTableSeen(m, q, t3, p[2], P2(p), f)
  <2>1. ASSUME t3 # None,
               NEW N \in Memory, N[cr3][R] = M[cr3][R], N[q][R] = M[q][R],
               N[t3][p[2]] = TableEntry(f),
               \A u \in Frame, j \in Index : u # f /\ ~(u = t3 /\ j = p[2]) => N[u][j] = M[u][j]
        PROVE  Walk(N, cr3, P2(p)) = f
    <3>1. q # t3 /\ q # f
      BY <1>2, <1>6, <2>1
    <3>2. N[q][p[1]] = M[q][p[1]]
      BY <1>1, <2>1, <3>1
    <3> QED BY Zenon, <1>11, <2>1, <3>2
  <2> QED BY Zenon, <2>1 DEF NewTableSeen, M
<1>15. t2 # None => NewTableSeen(m, q, t2, p[3], P1(p), f)
  <2>1. ASSUME t2 # None,
               NEW N \in Memory, N[cr3][R] = M[cr3][R], N[q][R] = M[q][R],
               N[t2][p[3]] = TableEntry(f),
               \A u \in Frame, j \in Index : u # f /\ ~(u = t2 /\ j = p[3]) => N[u][j] = M[u][j]
        PROVE  Walk(N, cr3, P1(p)) = f
    <3>1. t3 \in Frame /\ q # t2 /\ q # f /\ t3 # t2 /\ t3 # f
      BY <1>2, <1>6, <2>1
    <3>2. N[q][p[1]] = M[q][p[1]] /\ N[t3][p[2]] = M[t3][p[2]]
      BY Zenon, <1>1, <2>1, <3>1
    <3> QED BY Zenon, <1>12, <2>1, <3>2
  <2> QED BY Zenon, <2>1 DEF NewTableSeen, M
<1> QED BY <1>13, <1>14, <1>15 DEF t3, t2, M

\* Free frames became tables.
UseGrown(use, use2) ==
  \A f \in Frame : IF use[f] = 0 THEN use2[f] \in 0 .. 3 ELSE use2[f] = use[f]

\* No page and no recursive entry has changed.
Grown(M, use, N, use2) ==
  /\ UseGrown(use, use2)
  /\ \A r \in Frame : use[r] = 4 => N[r][R] = M[r][R]
  /\ \A r \in Frame, x \in Ordinary : use[r] = 4 => Leaf(N, r, x) = Leaf(M, r, x)
  /\ Keeps(M, N, TableFrames(use))

\* Machine n has grown from m, and works on.
GrownTo(m, use, n, use2, q) == Sound(n, use2, q) /\ Kept(n.mem) /\ Grown(m.mem, use, n.mem, use2)

\* Growing twice is growing.
LEMMA GrownTwice ==
  ASSUME NEW A, NEW B, NEW C, NEW use \in Uses, NEW use2 \in Uses, NEW use3 \in Uses,
         Grown(A, use, B, use2), Grown(B, use2, C, use3)
  PROVE  Grown(A, use, C, use3)
<1>1. UseGrown(use, use3)
  BY DEF Grown, UseGrown, Uses
<1>2. \A r \in Frame : use[r] = 4 => C[r][R] = A[r][R]
  BY DEF Grown, UseGrown, Uses
<1>3. \A r \in Frame, x \in Ordinary : use[r] = 4 => Leaf(C, r, x) = Leaf(A, r, x)
  BY DEF Grown, UseGrown, Uses
<1>4. Keeps(A, C, TableFrames(use))
  <2>1. ASSUME NEW t \in TableFrames(use), NEW i \in Index, Present(A[t][i])
        PROVE  C[t][i] = A[t][i]
    <3>1. B[t][i] = A[t][i]
      BY Zenon, <2>1 DEF Grown, Keeps
    <3>2. t \in TableFrames(use2)
      BY DEF Grown, UseGrown, TableFrames
    <3>3. C[t][i] = B[t][i]
      BY Zenon, <2>1, <3>1, <3>2 DEF Grown, Keeps
    <3> QED BY <3>1, <3>3
  <2> QED BY <2>1 DEF Keeps
<1> QED BY Zenon, <1>1, <1>2, <1>3, <1>4 DEF Grown

\* A machine that has stopped.
LEMMA FailIs ==
  ASSUME NEW m \in MachineType, m.err = Fine, NEW why \in Errors \ {Fine}
  PROVE  /\ Fail(m, why) \in MachineType /\ Fail(m, why).err = why /\ Failed(Fail(m, why))
         /\ Fail(m, why).mem = m.mem
  BY DEF Fail, Failed, MachineType

\* The causes for stopping.
LEMMA Causes ==
  /\ "assert" \in Errors \ {Fine} /\ "out of memory" \in Errors \ {Fine}
  /\ "panic" \in Errors \ {Fine} /\ "assert" # "out of memory"
  BY DEF Errors, Fine

\* Uses of frames, and frames that are numbers.
LEMMA Ranges ==
  /\ 5 \in 5 .. 6 /\ 6 \in 5 .. 6 /\ 6 \notin 1 .. 4 /\ 4 \in 1 .. 4 /\ 4 \in 2 .. 4
  /\ \A f \in Frame : f \in Nat /\ f # None
  BY DEF Frame, None

\* Roots stay the roots, and the uses of frames that are not free stay.
LEMMA GrownRoots ==
  ASSUME NEW use \in Uses, NEW use2 \in Uses, UseGrown(use, use2)
  PROVE  /\ \A r \in Frame : use2[r] = 4 <=> use[r] = 4
         /\ \A f \in Frame : use[f] # 0 => use2[f] = use[f]
  BY DEF UseGrown, Uses

\* No page of a root and no recursive entry has changed.
SamePages(M, use, N) ==
  \A r \in Frame : use[r] = 4 =>
    N[r][R] = M[r][R] /\ \A x \in Ordinary : Leaf(N, r, x) = Leaf(M, r, x)

\* What becomes of a machine that is to have a table below entry i of table F.
TableStep(m, use, n, q, F, i) ==
  \/ n \in MachineType /\ n.err = "out of memory" /\ n.mem = m.mem
  \/ n \in MachineType /\ n.err = "assert" /\ n.mem = m.mem /\ Huge(m.mem[F][i])
  \/ \E use2 \in Uses : GrownTo(m, use, n, use2, q) /\ LeadsOn(n.mem[F][i])

\* next_table_create finds the table, creates it, or stops.
LEMMA CreateStep ==
  ASSUME NEW m, NEW use, NEW q, Sound(m, use, q), Kept(m.mem),
         NEW t, Visible(t), t # NoTable, NEW F \in Frame, NEW i \in Index,
         Walk(m.mem, cr3, t) = F, Slot(use, F, i),
         TableBelow(t, i) # NoTable, Visible(TableBelow(t, i)),
         \A f \in Frame : use[f] = 0 => NewTableSeen(m, q, F, i, TableBelow(t, i), f)
  PROVE  TableStep(m, use, NextTableCreate(m, t, i), q, F, i)
<1> DEFINE M == m.mem
           a == Touch(m, {t})
           n == CreateBelow(a, t, i)
<1>1. /\ m \in MachineType /\ m.err = Fine /\ use \in Uses
      /\ cr3 \in Frame /\ use[cr3] = 4
      /\ q \in Frame /\ use[q] = 4 /\ Tree(M, use) /\ Loops(M, q) /\ M \in Memory
  BY DEF Sound, MachineType
<1>2. Sound(a, use, q) /\ a.mem = M /\ a.free = m.free
  BY TouchSound
<1>3. a \in MachineType /\ a.err = Fine /\ ~Failed(a)
  BY Zenon, <1>2 DEF Sound, Failed
<1>4. Read(a, t, i) = M[F][i]
  <2> HIDE DEF a
  <2> QED BY <1>2 DEF Read, EntryAt, None, Frame
<1> HIDE DEF a
<1>5. NextTableCreate(m, t, i) = n
  BY DEF NextTableCreate, a
<1>10. Present(M[F][i]) \/ M[F][i] = Unused
  <2>1. use[F] \in 1 .. 4
    BY <1>1 DEF Slot
  <2> QED BY Zenon, <1>1, <2>1 DEF Tree
<1>6. CASE LeadsOn(M[F][i])
  <2>1. n = a
    BY Zenon, <1>4, <1>6 DEF CreateBelow, NextTable
  <2>2. Grown(M, use, a.mem, use)
    <3>1. UseGrown(use, use)
      BY DEF UseGrown
    <3> QED BY Zenon, <1>2, <3>1 DEF Grown, Keeps
  <2> QED BY Zenon, <1>1, <1>2, <1>5, <1>6, <2>1, <2>2 DEF GrownTo, TableStep
<1>7. CASE ~LeadsOn(M[F][i]) /\ "HUGE_PAGE" \in M[F][i].flags
  <2>1. n = Fail(a, "assert")
    BY Zenon, <1>3, <1>4, <1>7 DEF CreateBelow, NextTable
  <2>2. Huge(M[F][i])
    <3>1. M[F][i] # Unused
      BY <1>7 DEF Unused
    <3> QED BY Zenon, <1>10, <1>7, <3>1 DEF LeadsOn
  <2> HIDE DEF n
  <2>4. n \in MachineType /\ n.err = "assert" /\ n.mem = M
    BY Zenon, <1>2, <1>3, <2>1, Causes, FailIs
  <2> QED BY Zenon, <1>5, <2>2, <2>4 DEF TableStep
<1>8. CASE ~LeadsOn(M[F][i]) /\ "HUGE_PAGE" \notin M[F][i].flags /\ a.free = {}
  <2>1. n = Fail(a, "out of memory")
    BY Zenon, <1>3, <1>4, <1>8 DEF CreateBelow, NextTable
  <2> HIDE DEF n
  <2>3. n \in MachineType /\ n.err = "out of memory" /\ n.mem = M
    BY Zenon, <1>2, <1>3, <2>1, Causes, FailIs
  <2> QED BY Zenon, <1>5, <2>3 DEF TableStep
<1>9. CASE ~LeadsOn(M[F][i]) /\ "HUGE_PAGE" \notin M[F][i].flags /\ a.free # {}
  <2> DEFINE f == Lowest(a)
             use2 == [use EXCEPT ![f] = use[F] - 1]
  <2>1. n = Zero(Write(AllocateFrame(a), t, {i}, [frame |-> Lowest(a), flags |-> TableFlags]),
                 TableBelow(t, i))
    BY Zenon, <1>3, <1>4, <1>9 DEF CreateBelow, NextTable
  <2>2. M[F][i] = Unused
    <3>1. ~Present(M[F][i])
      BY Zenon, <1>9 DEF LeadsOn, Huge
    <3> QED BY Zenon, <1>10, <3>1
  <2>3. f \in Frame /\ use[f] = 0
    <3>1. a.free \subseteq Frame /\ a.free = {g \in Frame : use[g] = 0}
      BY Zenon, <1>2 DEF Sound
    <3> QED BY Zenon, <3>1, <1>9, LowestIsFree
  <2>4. NewTableSeen(a, q, F, i, TableBelow(t, i), f)
    <3> HIDE DEF f
    <3> QED BY <1>2, <2>3 DEF NewTableSeen
  <2> HIDE DEF n
  <2>5. /\ Linked(M, n.mem, F, i, f)
        /\ Sound(n, use2, q) /\ Kept(n.mem)
    <3>1. Walk(a.mem, cr3, t) = F /\ a.mem[F][i] = Unused /\ Kept(a.mem)
      BY Zenon, <1>2, <2>2
    <3>2. /\ Linked(a.mem, n.mem, F, i, f)
          /\ Sound(n, use2, q) /\ Kept(n.mem)
      <4> HIDE DEF M
      <4> QED BY Zenon, <1>2, <1>9, <2>1, <2>2, <2>3, <2>4, <3>1, CreateSound
    <3> QED BY <1>2, <3>2
  <2> HIDE DEF f
  <2>6. n.mem \in Memory /\ use2 \in Uses
    BY <2>5 DEF Sound, MachineType
  <2>7. \A r \in Frame, x \in Ordinary : use[r] = 4 => Leaf(n.mem, r, x) = Leaf(M, r, x)
    BY <1>1, <2>2, <2>3, <2>5, <2>6, LinkLeaf
  <2>8. \A r \in Frame : use[r] = 4 => n.mem[r][R] = M[r][R]
    <3>1. ASSUME NEW r \in Frame, use[r] = 4 PROVE n.mem[r][R] = M[r][R]
      <4>1. r # f /\ ~(r = F /\ R = i)
        BY <2>3, <3>1 DEF Slot
      <4> QED BY Zenon, <2>5, <4>1, Sizes DEF Linked
    <3> QED BY Zenon, <3>1
  <2>9. Keeps(M, n.mem, TableFrames(use))
    <3>1. ASSUME NEW u \in TableFrames(use), NEW j \in Index, Present(M[u][j])
          PROVE  n.mem[u][j] = M[u][j]
      <4>1. u \in Frame /\ u # f /\ ~(u = F /\ j = i)
        BY <2>2, <2>3, <3>1, EntryKinds DEF TableFrames
      <4> QED BY <2>5, <4>1 DEF Linked
    <3> QED BY Zenon, <3>1 DEF Keeps
  <2>10. UseGrown(use, use2)
    BY <1>1, <2>3 DEF Slot, Uses, UseGrown
  <2>11. Grown(M, use, n.mem, use2)
    <3> HIDE DEF use2
    <3> QED BY Zenon, <2>7, <2>8, <2>9, <2>10 DEF Grown
  <2>12. LeadsOn(n.mem[F][i])
    BY <2>3, <2>5, EntryKinds DEF Linked, Frame
  <2> QED BY Zenon, <1>5, <2>5, <2>6, <2>11, <2>12 DEF GrownTo, TableStep
<1> HIDE DEF n
<1> QED BY Zenon, <1>6, <1>7, <1>8, <1>9

-----------------------------------------------------------------------------
(* map_to.                                                                  *)

\* Machine n has stopped while page p was to be mapped below root q.
Stuck(m, use, n, q, p) ==
  /\ n \in MachineType /\ SamePages(m.mem, use, n.mem)
  /\ n.err = "out of memory" \/ (n.err = "assert" /\ Walk(m.mem, q, p) # None)

\* Nothing happens on a machine that has stopped.
LEMMA FailedStays ==
  ASSUME NEW m, m.err # Fine
  PROVE  /\ \A T : Touch(m, T) = m
         /\ \A t, i : NextTableCreate(m, t, i) = m
         /\ \A t, S, e : Write(m, t, S, e) = m
         /\ \A p, frame, flags : SetEntry(m, p, frame, flags) = m
         /\ \A why : Fail(m, why) = m
<1>1. Failed(m)
  BY DEF Failed
<1>2. \A T : Touch(m, T) = m
  BY <1>1 DEF Touch
<1>3. \A t, i : CreateBelow(m, t, i) = m
  BY Zenon, <1>1 DEF CreateBelow
<1> QED BY Zenon, <1>1, <1>2, <1>3 DEF NextTableCreate, SetEntry, Fail, Write, Store

\* A page at which a table for p is seen.
LEMMA TablesVisible ==
  ASSUME NEW p \in Ordinary
  PROVE  /\ Visible(P4) /\ Visible(P3(p)) /\ Visible(P2(p)) /\ Visible(P1(p)) /\ Visible(TempPage)
         /\ TableBelow(P4, p[1]) = P3(p) /\ TableBelow(P3(p), p[2]) = P2(p)
         /\ TableBelow(P2(p), p[3]) = P1(p)
  BY Zenon DEF Visible, P3, P2, P1

\* A mapped page has a frame, and one without a frame is unused.
LEMMA LeafKinds ==
  ASSUME NEW M \in Memory, NEW use \in Uses, Tree(M, use),
         NEW r \in Frame, use[r] = 4, NEW p \in Ordinary
  PROVE  /\ Leaf(M, r, p) \in Entry
         /\ Present(Leaf(M, r, p)) \/ Leaf(M, r, p) = Unused
         /\ Walk(M, r, p) = None <=> Leaf(M, r, p) = Unused
<1> DEFINE t1 == T1(M, r, p)
           t2 == T2(M, r, p)
<1>1. p[3] \in Index /\ p[4] \in Index /\ p[4] \in Nat
  BY TablePages, Sizes DEF Index
<1>2. /\ t2 # None => t2 \in Frame /\ use[t2] = 2
      /\ t1 # None => t1 \in Frame /\ use[t1] = 1
  BY TableLevels
<1>3. CASE t1 # None
  <2>1. Leaf(M, r, p) = M[t1][p[4]]
    BY <1>3, LeafByTables DEF ByTables
  <2> HIDE DEF t1
  <2>2. Leaf(M, r, p) \in Entry
    BY <1>1, <1>2, <1>3, <2>1 DEF Memory
  <2>3. Present(Leaf(M, r, p)) \/ Leaf(M, r, p) = Unused
    BY <1>1, <1>2, <1>3, <2>1 DEF Tree
  <2> QED BY <2>2, <2>3, EntryKinds DEF Walk, FrameIn, Entry, None
<1>4. CASE t1 = None /\ t2 # None /\ Huge(M[t2][p[3]])
  <2>1. /\ Leaf(M, r, p) = [M[t2][p[3]] EXCEPT !.frame = @ + p[4]]
        /\ Present(Leaf(M, r, p))
    BY <1>4, LeafByTables DEF ByTables
  <2> HIDE DEF t1, t2
  <2>2. M[t2][p[3]] \in Entry
    BY <1>1, <1>2, <1>4 DEF Memory
  <2>3. Leaf(M, r, p) \in Entry
    BY <1>1, <2>1, <2>2 DEF Entry
  <2> QED BY <2>1, <2>3, EntryKinds DEF Walk, FrameIn, Entry, None
<1>5. CASE t1 = None /\ (t2 = None \/ ~Huge(M[t2][p[3]]))
  <2>1. Leaf(M, r, p) = Unused
    BY <1>5, LeafByTables DEF ByTables
  <2> QED BY <2>1, EntryKinds DEF Walk, FrameIn
<1> QED BY Zenon, <1>3, <1>4, <1>5

\* map_to finds or creates the three tables.
LEMMA TablesForSound ==
  ASSUME NEW m, NEW use, NEW q, Sound(m, use, q), Kept(m.mem), NEW p \in Ordinary
  PROVE  LET n == TablesFor(m, p)
         IN \/ Stuck(m, use, n, q, p)
            \/ \E use2 \in Uses : GrownTo(m, use, n, use2, q) /\ T1(n.mem, q, p) # None
<1> DEFINE n1 == NextTableCreate(m, P4, p[1])
           n2 == NextTableCreate(n1, P3(p), p[2])
           n3 == NextTableCreate(n2, P2(p), p[3])
           n4 == Touch(n3, {P1(p)})
<1>1. /\ m \in MachineType /\ m.err = Fine /\ use \in Uses
      /\ cr3 \in Frame /\ use[cr3] = 4
      /\ q \in Frame /\ use[q] = 4 /\ Tree(m.mem, use) /\ Loops(m.mem, q) /\ m.mem \in Memory
  BY DEF Sound, MachineType
<1>2. /\ p[1] \in Index /\ p[2] \in Index /\ p[3] \in Index /\ p[1] # R
      /\ P4 # NoTable /\ P3(p) # NoTable /\ P2(p) # NoTable /\ P1(p) # NoTable
  BY TablePages
<1>3. /\ Visible(P4) /\ Visible(P3(p)) /\ Visible(P2(p)) /\ Visible(P1(p))
      /\ TableBelow(P4, p[1]) = P3(p) /\ TableBelow(P3(p), p[2]) = P2(p)
      /\ TableBelow(P2(p), p[3]) = P1(p)
  BY TablesVisible
<1>4. TablesFor(m, p) = n4
  BY DEF TablesFor
<1>41. n1 = NextTableCreate(m, P4, p[1])
  OBVIOUS
<1>42. n2 = NextTableCreate(n1, P3(p), p[2])
  OBVIOUS
<1>43. n3 = NextTableCreate(n2, P2(p), p[3])
  OBVIOUS
<1>44. n4 = Touch(n3, {P1(p)})
  OBVIOUS
<1> HIDE DEF n1, n2, n3, n4
<1>5. ASSUME NEW N \in Memory, NEW F \in Frame, NEW i \in Index, LeadsOn(N[F][i])
      PROVE  NextOf(N[F][i]) # None /\ EntryAt(N, F, i) = N[F][i] /\ Present(N[F][i])
  <2>1. N[F][i] \in Entry
    BY DEF Memory
  <2> QED BY <1>5, <2>1 DEF NextOf, Entry, None, EntryAt, Frame, LeadsOn
\* The P3 table.
<1>6. \/ n1 \in MachineType /\ n1.err = "out of memory" /\ n1.mem = m.mem
      \/ n1 \in MachineType /\ n1.err = "assert" /\ Huge(m.mem[q][p[1]])
      \/ \E use2 \in Uses : GrownTo(m, use, n1, use2, q) /\ LeadsOn(n1.mem[q][p[1]])
  <2>0. TablesSeen(m.mem, q, p)
    BY Zenon, <1>1, RecursiveWalks
  <2>1. Walk(m.mem, cr3, P4) = q
    BY Zenon, <2>0 DEF TablesSeen
  <2>2. Slot(use, q, p[1])
    BY <1>1, <1>2 DEF Slot
  <2>3. \A f \in Frame : use[f] = 0 => NewTableSeen(m, q, q, p[1], P3(p), f)
    BY <1>1, NewSeen
  <2>4. TableStep(m, use, n1, q, q, p[1])
    BY Zenon, <1>1, <1>2, <1>3, <1>41, <2>1, <2>2, <2>3, CreateStep
  <2> QED BY Zenon, <2>4 DEF TableStep
<1>7. ~Huge(m.mem[q][p[1]])
  <2>1. Levels(m.mem, use)
    BY Zenon, <1>1, TreeLevels
  <2> QED BY Zenon, <1>1, <1>2, <2>1 DEF Levels
<1>8. CASE n1 \in MachineType /\ n1.err = "out of memory" /\ n1.mem = m.mem
  <2>1. n1.err # Fine
    BY Zenon, <1>8 DEF Fine
  <2>2. n2 = n1
    BY <1>42, <2>1, FailedStays
  <2>3. n3 = n1
    BY <1>43, <2>1, <2>2, FailedStays
  <2>4. n4 = n1
    BY <1>44, <2>1, <2>3, FailedStays
  <2> QED BY Zenon, <1>4, <1>8, <2>4 DEF Stuck, SamePages
<1>9. ASSUME NEW u1 \in Uses, GrownTo(m, use, n1, u1, q), LeadsOn(n1.mem[q][p[1]])
      PROVE  \/ Stuck(m, use, n4, q, p)
             \/ \E use2 \in Uses : GrownTo(m, use, n4, use2, q) /\ T1(n4.mem, q, p) # None
  <2> DEFINE F3 == T3(n1.mem, q, p)
  <2>1. /\ Sound(n1, u1, q) /\ Kept(n1.mem) /\ Tree(n1.mem, u1) /\ Loops(n1.mem, q)
        /\ n1.mem \in Memory /\ n1.err = Fine /\ u1[q] = 4 /\ u1[cr3] = 4
    BY Zenon, <1>9 DEF GrownTo, Sound, MachineType
  <2>2. F3 # None
    BY Zenon, <1>1, <1>2, <1>5, <1>9, <2>1 DEF T3
  <2>3. F3 \in Frame /\ u1[F3] = 3
    BY ZenonT(60), <1>1, <2>1, <2>2, TableLevels
  <2>4. \/ n2 \in MachineType /\ n2.err = "out of memory" /\ n2.mem = n1.mem
        \/ n2 \in MachineType /\ n2.err = "assert" /\ Huge(n1.mem[F3][p[2]])
        \/ \E use2 \in Uses : GrownTo(n1, u1, n2, use2, q) /\ LeadsOn(n2.mem[F3][p[2]])
    <3>1. Walk(n1.mem, cr3, P3(p)) = F3
      <4>1. TablesSeen(n1.mem, q, p)
        BY Zenon, <1>1, <2>1, RecursiveWalks
      <4> QED BY Zenon, <4>1 DEF TablesSeen
    <3>2. Slot(u1, F3, p[2])
      BY <1>2, <2>3 DEF Slot
    <3>3. \A f \in Frame : u1[f] = 0 => NewTableSeen(n1, q, F3, p[2], P2(p), f)
      BY Zenon, <1>1, <2>1, <2>2, NewSeen
    <3> HIDE DEF F3
    <3>4. TableStep(n1, u1, n2, q, F3, p[2])
      BY Zenon, <1>1, <1>2, <1>3, <1>42, <2>1, <2>3, <3>1, <3>2, <3>3, CreateStep
    <3> QED BY Zenon, <3>4 DEF TableStep
  <2>5. ~Huge(n1.mem[F3][p[2]])
    <3> HIDE DEF F3
    <3>1. Levels(n1.mem, u1)
      BY Zenon, <2>1, TreeLevels
    <3> QED BY Zenon, <1>2, <2>3, <3>1 DEF Levels
  <2>6. CASE n2 \in MachineType /\ n2.err = "out of memory" /\ n2.mem = n1.mem
    <3>1. n2.err # Fine
      BY Zenon, <2>6 DEF Fine
    <3>2. n3 = n2
      BY <1>43, <3>1, FailedStays
    <3>3. n4 = n2
      BY <1>44, <3>1, <3>2, FailedStays
    <3>4. SamePages(m.mem, use, n1.mem)
      BY Zenon, <1>9 DEF GrownTo, Grown, SamePages
    <3> QED BY Zenon, <2>6, <3>3, <3>4 DEF Stuck
  <2>7. ASSUME NEW u2 \in Uses, GrownTo(n1, u1, n2, u2, q), LeadsOn(n2.mem[F3][p[2]])
        PROVE  \/ Stuck(m, use, n4, q, p)
               \/ \E use2 \in Uses : GrownTo(m, use, n4, use2, q) /\ T1(n4.mem, q, p) # None
    <3> DEFINE F2 == T2(n2.mem, q, p)
    <3>1. /\ Sound(n2, u2, q) /\ Kept(n2.mem) /\ Tree(n2.mem, u2) /\ Loops(n2.mem, q)
          /\ n2.mem \in Memory /\ n2.err = Fine /\ u2[q] = 4 /\ u2[cr3] = 4
      BY Zenon, <2>7 DEF GrownTo, Sound, MachineType
    <3>2. T3(n2.mem, q, p) = F3
      <4>1. q \in TableFrames(u1) /\ Keeps(n1.mem, n2.mem, TableFrames(u1))
        BY Zenon, <1>1, <2>1, <2>7, Ranges DEF TableFrames, GrownTo, Grown
      <4>2. n2.mem[q][p[1]] = n1.mem[q][p[1]]
        BY Zenon, <1>2, <1>9, <4>1 DEF Keeps, LeadsOn
      <4> QED BY Zenon, <4>2 DEF T3
    <3>3. F2 # None
      <4> HIDE DEF F3
      <4>1. NextOf(n2.mem[F3][p[2]]) # None /\ EntryAt(n2.mem, F3, p[2]) = n2.mem[F3][p[2]]
        BY Zenon, <1>2, <1>5, <2>3, <2>7, <3>1
      <4> QED BY Zenon, <3>2, <4>1 DEF T2
    <3>4. F2 \in Frame /\ u2[F2] = 2
      BY ZenonT(60), <1>1, <3>1, <3>3, TableLevels
    <3>5. \/ n3 \in MachineType /\ n3.err = "out of memory" /\ n3.mem = n2.mem
          \/ n3 \in MachineType /\ n3.err = "assert" /\ n3.mem = n2.mem /\ Huge(n2.mem[F2][p[3]])
          \/ \E use2 \in Uses : GrownTo(n2, u2, n3, use2, q) /\ LeadsOn(n3.mem[F2][p[3]])
      <4>1. Walk(n2.mem, cr3, P2(p)) = F2
        <5>1. TablesSeen(n2.mem, q, p)
          BY Zenon, <1>1, <3>1, RecursiveWalks
        <5> QED BY Zenon, <5>1 DEF TablesSeen
      <4>2. Slot(u2, F2, p[3])
        BY <1>2, <3>4 DEF Slot
      <4>3. \A f \in Frame : u2[f] = 0 => NewTableSeen(n2, q, F2, p[3], P1(p), f)
        BY Zenon, <1>1, <3>1, <3>3, NewSeen
      <4> HIDE DEF F2
      <4>4. TableStep(n2, u2, n3, q, F2, p[3])
        BY Zenon, <1>1, <1>2, <1>3, <1>43, <3>1, <3>4, <4>1, <4>2, <4>3, CreateStep
      <4> QED BY Zenon, <4>4 DEF TableStep
    <3>6. Grown(m.mem, use, n2.mem, u2)
      BY Zenon, <1>1, <1>9, <2>7, GrownTwice DEF GrownTo
    <3>61. SamePages(m.mem, use, n2.mem)
      BY Zenon, <3>6 DEF Grown, SamePages
    <3>7. CASE n3 \in MachineType /\ n3.err = "out of memory" /\ n3.mem = n2.mem
      <4>1. n3.err # Fine
        BY Zenon, <3>7 DEF Fine
      <4>2. n4 = n3
        BY <1>44, <4>1, FailedStays
      <4> QED BY Zenon, <3>61, <3>7, <4>2 DEF Stuck
    <3>8. CASE n3 \in MachineType /\ n3.err = "assert" /\ n3.mem = n2.mem /\ Huge(n2.mem[F2][p[3]])
      <4>1. T1(n2.mem, q, p) = None
        BY Zenon, <3>3, <3>4, <3>8, EntryKinds DEF T1, NextOf, EntryAt
      <4>10. ByTables(n2.mem, Leaf(n2.mem, q, p), p, F2, T1(n2.mem, q, p))
        BY Zenon, <1>1, <3>1, LeafByTables
      <4>2. Present(Leaf(n2.mem, q, p))
        BY Zenon, <3>3, <3>8, <4>1, <4>10 DEF ByTables
      <4>3. Leaf(m.mem, q, p) # Unused
        BY Zenon, <1>1, <3>6, <4>2, EntryKinds DEF Grown
      <4>4. Walk(m.mem, q, p) # None
        BY Zenon, <1>1, <4>3, LeafKinds
      <4>5. n3.err # Fine
        BY Zenon, <3>8 DEF Fine
      <4>6. n4 = n3
        BY <1>44, <4>5, FailedStays
      <4> QED BY Zenon, <3>61, <3>8, <4>4, <4>6 DEF Stuck
    <3>9. ASSUME NEW u3 \in Uses, GrownTo(n2, u2, n3, u3, q), LeadsOn(n3.mem[F2][p[3]])
          PROVE  \E use2 \in Uses : GrownTo(m, use, n4, use2, q) /\ T1(n4.mem, q, p) # None
      <4>1. /\ Sound(n3, u3, q) /\ Kept(n3.mem) /\ Tree(n3.mem, u3) /\ Loops(n3.mem, q)
            /\ n3.mem \in Memory /\ n3.err = Fine /\ u3[q] = 4 /\ u3[cr3] = 4
        BY Zenon, <3>9 DEF GrownTo, Sound, MachineType
      <4>2. Keeps(n2.mem, n3.mem, TableFrames(u2))
        BY Zenon, <3>9 DEF GrownTo, Grown
      <4>3. T3(n3.mem, q, p) = F3
        <5>1. q \in TableFrames(u2)
          BY <1>1, <3>1 DEF TableFrames
        <5>2. Present(n2.mem[q][p[1]])
          BY Zenon, <2>2, <3>2 DEF T3, NextOf, LeadsOn
        <5>3. n3.mem[q][p[1]] = n2.mem[q][p[1]]
          BY Zenon, <1>2, <4>2, <5>1, <5>2 DEF Keeps
        <5> QED BY Zenon, <3>2, <5>3 DEF T3
      <4>4. T2(n3.mem, q, p) = F2
        <5> HIDE DEF F3
        <5>1. F3 \in TableFrames(u2)
          BY <1>1, <2>2, <3>1, <3>2, TableLevels DEF TableFrames
        <5>2. n3.mem[F3][p[2]] = n2.mem[F3][p[2]]
          BY Zenon, <1>2, <2>7, <4>2, <5>1 DEF Keeps, LeadsOn
        <5> QED BY Zenon, <3>2, <4>3, <5>2 DEF T2, EntryAt
      <4>5. T1(n3.mem, q, p) # None
        <5> HIDE DEF F2
        <5>1. NextOf(n3.mem[F2][p[3]]) # None /\ EntryAt(n3.mem, F2, p[3]) = n3.mem[F2][p[3]]
          BY Zenon, <1>2, <1>5, <3>4, <3>9, <4>1
        <5> QED BY Zenon, <4>4, <5>1 DEF T1
      <4>6. Walk(n3.mem, cr3, P1(p)) \in Frame
        <5>1. T1(n3.mem, q, p) \in Frame
          BY Zenon, <1>1, <4>1, <4>5, TableLevels
        <5>2. TablesSeen(n3.mem, q, p)
          BY Zenon, <1>1, <4>1, RecursiveWalks
        <5>3. Walk(n3.mem, cr3, P1(p)) = T1(n3.mem, q, p)
          BY Zenon, <4>5, <5>2 DEF TablesSeen
        <5> QED BY Zenon, <5>1, <5>3
      <4>7. Sound(n4, u3, q) /\ n4.mem = n3.mem
        BY <1>3, <1>44, <4>1, <4>6, TouchSound
      <4>8. Grown(m.mem, use, n3.mem, u3)
        BY Zenon, <1>1, <3>6, <3>9, GrownTwice DEF GrownTo
      <4> QED BY Zenon, <4>1, <4>5, <4>7, <4>8 DEF GrownTo
    <3> QED BY Zenon, <3>5, <3>7, <3>8, <3>9
  <2> QED BY Zenon, <2>4, <2>5, <2>6, <2>7
<1> QED BY Zenon, <1>4, <1>6, <1>7, <1>8, <1>9

\* A store that removes no present entry of a table leaves nothing to flush.
LEMMA StoreSound ==
  ASSUME NEW m, NEW use, NEW q, Sound(m, use, q), Kept(m.mem),
         NEW t, Visible(t), NEW S \in SUBSET Index, NEW e \in Entry, NEW n,
         n = Write(m, t, S, e), Walk(m.mem, cr3, t) \in Frame,
         Keeps(m.mem, n.mem, TableFrames(use)), Tree(n.mem, use), Loops(n.mem, q)
  PROVE  Sound(n, use, q) /\ Kept(n.mem)
<1> DEFINE M == m.mem
           N == n.mem
           a == [m EXCEPT !.tlb = @ \cup {t}]
<1>1. /\ m \in MachineType /\ m.err = Fine /\ m.stale = {} /\ use \in Uses
      /\ m.free = {g \in Frame : use[g] = 0} /\ cr3 \in Frame /\ use[cr3] = 4
      /\ q \in Frame /\ use[q] = 4 /\ Tree(M, use) /\ Loops(M, q) /\ M \in Memory
      /\ \A x \in m.tlb : Visible(x) /\ Walk(M, cr3, x) # None
  BY Zenon DEF Sound, MachineType
<1>2. Written(m, n, t, S, e)
  BY Zenon, <1>1, VisiblePages, WriteIs
<1>3. n \in MachineType /\ n.err = Fine /\ n.free = m.free /\ n.tlb = m.tlb \cup {t} /\ N \in Memory
  BY <1>2 DEF Written, MachineType
<1>4. n.stale = Outdated(a, N)
  BY <1>2 DEF Written
<1>5. a.mem = M /\ a.tlb = m.tlb \cup {t}
  BY <1>1 DEF MachineType
<1>6. Walk(M, cr3, t) # None
  BY DEF Frame, None
<1> HIDE DEF M, N, a
<1>7. Kept(M) /\ Keeps(M, N, TableFrames(use)) /\ Keeps(M, M, TableFrames(use))
  BY Zenon DEF M, N, Keeps
<1>8. \A x \in n.tlb : Visible(x) /\ Walk(M, cr3, x) # None
  BY Zenon, <1>1, <1>3, <1>6
<1>9. ASSUME NEW x \in n.tlb PROVE Walk(N, cr3, x) = Walk(M, cr3, x)
  <2>1. Visible(x) /\ Walk(M, cr3, x) # None
    BY Zenon, <1>8
  <2>2. Tree(M, use) /\ Loops(M, q) /\ M \in Memory /\ N \in Memory /\ use \in Uses
    BY Zenon, <1>1, <1>3
  <2>3. cr3 \in Frame /\ use[cr3] = 4 /\ q \in Frame /\ use[q] = 4
    BY Zenon, <1>1
  <2> QED BY Zenon, <1>7, <2>1, <2>2, <2>3, VisibleKept
<1>10. Outdated(a, N) = {}
  <2>1. Walk(a.mem, cr3, t) = Walk(N, cr3, t)
    BY Zenon, <1>3, <1>5, <1>9
  <2>2. \A y \in a.tlb : y = t \/ (Visible(y) /\ Walk(M, cr3, y) # None)
    BY Zenon, <1>1, <1>5
  <2> QED BY Zenon, <1>1, <1>3, <1>5, <1>7, <2>1, <2>2, NothingOutdated
<1>11. Kept(N)
  <2>1. ASSUME NEW p \in Ordinary, Walk(mem, cr3, p) # None
        PROVE  Walk(N, cr3, p) = Walk(mem, cr3, p)
    <3>1. Walk(M, cr3, p) = Walk(mem, cr3, p)
      BY Zenon, <1>7, <2>1 DEF Kept
    <3>2. Tree(M, use) /\ M \in Memory /\ N \in Memory /\ use \in Uses /\ use[cr3] = 4
      BY Zenon, <1>1, <1>3
    <3>3. Walk(M, cr3, p) # None
      BY Zenon, <2>1, <3>1
    <3>4. Leaf(N, cr3, p) = Leaf(M, cr3, p)
      BY ZenonT(60), <1>1, <1>7, <3>2, <3>3, OrdinaryKept
    <3> QED BY Zenon, <3>1, <3>4 DEF Walk
  <2> QED BY Zenon, <2>1 DEF Kept
<1>12. \A x \in n.tlb : Visible(x) /\ Walk(N, cr3, x) # None
  BY Zenon, <1>8, <1>9
<1>13. n.stale = {} /\ Tree(N, use) /\ Loops(N, q)
  BY Zenon, <1>4, <1>10 DEF N
<1> QED BY Zenon, <1>1, <1>3, <1>11, <1>12, <1>13 DEF Sound, N

\* Page p below root q has the entry e; no other page has changed.
Remapped(M, use, N, q, p, e) ==
  \A r \in Frame : use[r] = 4 =>
    /\ N[r][R] = M[r][R]
    /\ \A x \in Ordinary : Leaf(N, r, x) = IF r = q /\ x = p THEN e ELSE Leaf(M, r, x)

\* What becomes of a machine on which page p is mapped with entry e.
MapOutcome(m, use, n, q, p, e) ==
  \/ Stuck(m, use, n, q, p)
  \/ /\ Leaf(m.mem, q, p) = Unused
     /\ \E use2 \in Uses : /\ UseGrown(use, use2) /\ Sound(n, use2, q) /\ Kept(n.mem)
                           /\ Remapped(m.mem, use, n.mem, q, p, e)

\* The entry that map_to stores.
PageEntry(frame, flags) == [frame |-> frame, flags |-> flags \cup {"PRESENT"}]

\* The assertion of map_to, and its store.
LEMMA SetEntrySound ==
  ASSUME NEW m, NEW use, NEW q, Sound(m, use, q), Kept(m.mem), NEW p \in Ordinary,
         T1(m.mem, q, p) # None, NEW frame \in Nat, NEW flags \in SUBSET Flag
  PROVE  MapOutcome(m, use, SetEntry(m, p, frame, flags), q, p, PageEntry(frame, flags))
<1> DEFINE M == m.mem
           F == T1(M, q, p)
           e == PageEntry(frame, flags)
           n == Write(m, P1(p), {p[4]}, e)
           N == n.mem
<1>1. /\ m \in MachineType /\ m.err = Fine /\ m.stale = {} /\ use \in Uses
      /\ cr3 \in Frame /\ use[cr3] = 4
      /\ q \in Frame /\ use[q] = 4 /\ Tree(M, use) /\ Loops(M, q) /\ M \in Memory
  BY DEF Sound, MachineType
<1>2. F \in Frame /\ use[F] = 1
  BY Zenon, <1>1, TableLevels
<1>3. Walk(M, cr3, P1(p)) = F
  <2>1. TablesSeen(M, q, p)
    BY Zenon, <1>1, RecursiveWalks
  <2> QED BY Zenon, <2>1 DEF TablesSeen
<1>4. Read(m, P1(p), p[4]) = M[F][p[4]] /\ Leaf(M, q, p) = M[F][p[4]]
  BY <1>1, SeenTables, LeafByTables DEF ByTables
<1>5. e \in Entry /\ Present(e)
  BY DEF PageEntry, Entry, Flag, Present
<1>6. ~Failed(m) /\ p[4] \in Index /\ {p[4]} \in SUBSET Index /\ P1(p) \in Page /\ Visible(P1(p))
  BY Zenon, <1>1, TablePages, TablesVisible DEF Failed
<1>7. CASE M[F][p[4]] # Unused
  <2>1. SetEntry(m, p, frame, flags) = Fail(m, "assert")
    BY Zenon, <1>4, <1>6, <1>7 DEF SetEntry
  <2>2. /\ Fail(m, "assert") \in MachineType /\ Fail(m, "assert").err = "assert"
        /\ Fail(m, "assert").mem = M
    BY Zenon, <1>1, Causes, FailIs
  <2>3. Walk(M, q, p) # None
    BY Zenon, <1>1, <1>4, <1>7, LeafKinds
  <2>4. Stuck(m, use, Fail(m, "assert"), q, p)
    BY Zenon, <2>2, <2>3 DEF Stuck, SamePages
  <2> QED BY Zenon, <2>1, <2>4 DEF MapOutcome
<1>8. CASE M[F][p[4]] = Unused
  <2>1. SetEntry(m, p, frame, flags) = n
    BY Zenon, <1>4, <1>6, <1>8 DEF SetEntry, PageEntry
  <2> HIDE DEF e, F
  <2>2. Written(m, n, P1(p), {p[4]}, e)
    BY Zenon, <1>1, <1>2, <1>3, <1>5, <1>6, WriteIs
  <2>3. n = Write(m, P1(p), {p[4]}, e)
    OBVIOUS
  <2> HIDE DEF n
  <2>4. N \in Memory /\ Mapped1(M, N, F, p[4], e)
    BY <1>3, <2>2 DEF Written, Mapped1, MachineType
  <2>5. Keeps(M, N, TableFrames(use))
    BY Zenon, <1>8, <2>4, EntryKinds DEF Keeps, Mapped1, TableFrames
  <2>6. /\ Tree(N, use)
        /\ \A r \in Frame : use[r] = 4 => N[r][R] = M[r][R]
        /\ \A r \in Frame, x \in Ordinary :
             use[r] = 4 => Leaf(N, r, x) = IF r = q /\ x = p THEN e ELSE Leaf(M, r, x)
    <3> HIDE DEF M, N
    <3>1. F = T1(M, q, p) /\ T1(M, q, p) # None
      BY DEF F, M
    <3>2. Mapped1(M, N, T1(M, q, p), p[4], e)
      BY Zenon, <2>4, <3>1
    <3>3. M \in Memory /\ use \in Uses /\ Tree(M, use) /\ q \in Frame /\ use[q] = 4
      BY Zenon, <1>1
    <3>4. OnePage(M, use, N, q, p, e)
      BY Zenon, <1>5, <2>4, <3>1, <3>2, <3>3, MapLeaf
    <3> QED BY Zenon, <3>4 DEF OnePage
  <2>7. Loops(N, q)
    BY Zenon, <1>1, <2>6 DEF Loops
  <2>8. Sound(n, use, q) /\ Kept(N)
    BY Zenon, <1>2, <1>3, <1>5, <1>6, <2>3, <2>5, <2>6, <2>7, StoreSound
  <2>9. Remapped(M, use, N, q, p, e) /\ UseGrown(use, use)
    BY <2>6 DEF Remapped, UseGrown
  <2> QED BY Zenon, <1>1, <1>4, <1>8, <2>1, <2>8, <2>9 DEF MapOutcome, e
<1> QED BY Zenon, <1>7, <1>8

\* map_to on a sound machine makes the tables that are missing, none of whose
\* junk is ever seen, and maps the page and no other; or it stops, out of
\* memory or at the assertion because the page is mapped, with every page as
\* it was.
THEOREM MapToSound ==
  ASSUME NEW m, NEW use, NEW q, Sound(m, use, q), Kept(m.mem), NEW p \in Ordinary,
         NEW frame \in Nat, NEW flags \in SUBSET Flag
  PROVE  MapOutcome(m, use, MapTo(m, p, frame, flags), q, p, PageEntry(frame, flags))
<1> DEFINE a == TablesFor(m, p)
           n == SetEntry(a, p, frame, flags)
           e == PageEntry(frame, flags)
<1>1. MapTo(m, p, frame, flags) = n
  BY DEF MapTo
<1>2. \/ Stuck(m, use, a, q, p)
      \/ \E use2 \in Uses : GrownTo(m, use, a, use2, q) /\ T1(a.mem, q, p) # None
  BY TablesForSound
<1>3. use \in Uses /\ q \in Frame /\ use[q] = 4
  BY Zenon DEF Sound
<1> HIDE DEF a
<1>4. ASSUME Stuck(m, use, a, q, p)
      PROVE  MapOutcome(m, use, n, q, p, e)
  <2>1. a.err # Fine
    BY Zenon, <1>4 DEF Stuck, Fine
  <2>2. n = a
    BY <2>1, FailedStays
  <2> HIDE DEF n, e
  <2> QED BY <1>4, <2>2 DEF MapOutcome
<1>5. ASSUME NEW u \in Uses, GrownTo(m, use, a, u, q), T1(a.mem, q, p) # None
      PROVE  MapOutcome(m, use, n, q, p, e)
  <2>1. Sound(a, u, q) /\ Kept(a.mem) /\ Grown(m.mem, use, a.mem, u)
    BY <1>5 DEF GrownTo
  <2>2. MapOutcome(a, u, n, q, p, e)
    BY <1>5, <2>1, SetEntrySound
  <2> HIDE DEF n, e
  <2>3. Leaf(a.mem, q, p) = Leaf(m.mem, q, p)
    BY Zenon, <1>3, <2>1 DEF Grown
  <2>4. Walk(a.mem, q, p) = Walk(m.mem, q, p)
    BY Zenon, <2>3 DEF Walk
  <2>5. CASE Stuck(a, u, n, q, p)
    <3>1. \A r \in Frame : use[r] = 4 => u[r] = 4
      BY Zenon, <1>3, <1>5, <2>1, GrownRoots DEF Grown
    <3>2. SamePages(m.mem, use, n.mem)
      BY Zenon, <2>1, <2>5, <3>1 DEF Stuck, Grown, SamePages
    <3> QED BY Zenon, <2>4, <2>5, <3>2 DEF Stuck, MapOutcome
  <2>6. ASSUME Leaf(a.mem, q, p) = Unused,
               NEW u2 \in Uses, UseGrown(u, u2), Sound(n, u2, q), Kept(n.mem),
               Remapped(a.mem, u, n.mem, q, p, e)
        PROVE  MapOutcome(m, use, n, q, p, e)
    <3>1. UseGrown(use, u2)
      BY Zenon, <1>3, <2>1, <2>6 DEF Grown, UseGrown, Uses
    <3>2. ASSUME NEW r \in Frame, use[r] = 4
          PROVE  /\ n.mem[r][R] = m.mem[r][R]
                 /\ \A x \in Ordinary :
                      Leaf(n.mem, r, x) = IF r = q /\ x = p THEN e ELSE Leaf(m.mem, r, x)
      <4>1. u[r] = 4
        BY ZenonT(60), <1>3, <1>5, <2>1, <3>2, GrownRoots DEF Grown
      <4>2. /\ a.mem[r][R] = m.mem[r][R]
            /\ \A x \in Ordinary : Leaf(a.mem, r, x) = Leaf(m.mem, r, x)
        BY Zenon, <2>1, <3>2 DEF Grown
      <4>3. /\ n.mem[r][R] = a.mem[r][R]
            /\ \A x \in Ordinary :
                 Leaf(n.mem, r, x) = IF r = q /\ x = p THEN e ELSE Leaf(a.mem, r, x)
        BY Zenon, <2>6, <4>1 DEF Remapped
      <4> QED BY Zenon, <4>2, <4>3
    <3>3. Remapped(m.mem, use, n.mem, q, p, e)
      BY Zenon, <3>2 DEF Remapped
    <3> QED BY Zenon, <2>3, <2>6, <3>1, <3>3 DEF MapOutcome
  <2> QED BY Zenon, <2>2, <2>5, <2>6 DEF MapOutcome
<1> HIDE DEF n, e
<1>6. MapOutcome(m, use, n, q, p, e)
  BY <1>2, <1>4, <1>5
<1> QED BY <1>1, <1>6 DEF e

-----------------------------------------------------------------------------
(* Frames that are taken, and the TLB.                                      *)

\* A frame is taken for something other than a table.
LEMMA AllocSound ==
  ASSUME NEW m, NEW use, NEW q, Sound(m, use, q), m.free # {}, NEW k \in 5 .. 6
  PROVE  /\ Lowest(m) \in Frame /\ use[Lowest(m)] = 0
         /\ [use EXCEPT ![Lowest(m)] = k] \in Uses
         /\ Sound(AllocateFrame(m), [use EXCEPT ![Lowest(m)] = k], q)
         /\ AllocateFrame(m).mem = m.mem
<1> DEFINE f == Lowest(m)
           a == AllocateFrame(m)
           use2 == [use EXCEPT ![f] = k]
<1>1. /\ m \in MachineType /\ m.err = Fine /\ m.stale = {} /\ use \in Uses
      /\ m.free = {g \in Frame : use[g] = 0} /\ cr3 \in Frame /\ use[cr3] = 4
      /\ q \in Frame /\ use[q] = 4 /\ Tree(m.mem, use) /\ Loops(m.mem, q) /\ m.mem \in Memory
      /\ \A x \in m.tlb : Visible(x) /\ Walk(m.mem, cr3, x) # None
  BY Zenon DEF Sound, MachineType
<1>2. f \in Frame /\ use[f] = 0
  BY Zenon, <1>1, LowestIsFree
<1>3. /\ a \in MachineType /\ a.mem = m.mem /\ a.err = Fine /\ a.stale = {} /\ a.tlb = m.tlb
      /\ a.free = m.free \ {f}
  <2>1. a = [m EXCEPT !.free = @ \ {f}]
    BY Zenon DEF AllocateFrame
  <2> HIDE DEF f, a
  <2> QED BY <1>1, <2>1 DEF MachineType
<1> HIDE DEF a, f
<1>4. use2 \in Uses /\ \A g \in Frame : use2[g] = IF g = f THEN k ELSE use[g]
  BY <1>1, <1>2 DEF Uses
<1> HIDE DEF use2
<1>5. Tree(a.mem, use2)
  <2>1. \A t \in Frame : IF use[t] \in 1 .. 4 THEN use2[t] = use[t] ELSE use2[t] \notin 1 .. 4
    BY <1>2, <1>4
  <2> QED BY Zenon, <1>1, <1>3, <1>4, <2>1, TreeUse
<1>6. use2[cr3] = 4 /\ use2[q] = 4 /\ a.free = {g \in Frame : use2[g] = 0}
  BY <1>1, <1>2, <1>3, <1>4
<1>7. Sound(a, use2, q)
  BY Zenon, <1>1, <1>3, <1>4, <1>5, <1>6 DEF Sound
<1> QED BY Zenon, <1>2, <1>3, <1>4, <1>7 DEF a, use2, f

\* Machine n is m without the translations of the pages P.
Flushed(m, n, P) ==
  /\ n \in MachineType /\ n.mem = m.mem /\ n.err = m.err /\ n.free = m.free
  /\ n.tlb = m.tlb \ P /\ n.stale = m.stale \ P

\* Flushing does nothing else.
LEMMA FlushIs ==
  ASSUME NEW m \in MachineType, NEW p
  PROVE  Flushed(m, Flush(m, p), {p}) /\ Flushed(m, FlushAll(m), Page)
<1>1. Flushed(m, Flush(m, p), {p})
  BY Zenon DEF Flushed, Flush, MachineType
<1>2. Flushed(m, FlushAll(m), Page)
  <2>1. m.tlb \ Page = {} /\ m.stale \ Page = {}
    BY Zenon DEF MachineType
  <2> QED BY Zenon, <2>1 DEF Flushed, FlushAll, MachineType
<1> QED BY Zenon, <1>1, <1>2

\* Flushing keeps a machine sound.
LEMMA FlushSound ==
  ASSUME NEW m, NEW use, NEW q, Sound(m, use, q), NEW p
  PROVE  Sound(Flush(m, p), use, q) /\ Flush(m, p).mem = m.mem
<1>1. /\ m \in MachineType /\ m.err = Fine /\ m.stale = {} /\ use \in Uses
      /\ m.free = {g \in Frame : use[g] = 0} /\ cr3 \in Frame /\ use[cr3] = 4
      /\ q \in Frame /\ use[q] = 4 /\ Tree(m.mem, use) /\ Loops(m.mem, q)
      /\ \A x \in m.tlb : Visible(x) /\ Walk(m.mem, cr3, x) # None
  BY Zenon DEF Sound
<1> DEFINE n == Flush(m, p)
<1>2. /\ n \in MachineType /\ n.mem = m.mem /\ n.err = m.err
      /\ n.free = m.free /\ n.tlb = m.tlb \ {p} /\ n.stale = m.stale \ {p}
  BY ZenonT(60), <1>1, FlushIs DEF Flushed
<1> HIDE DEF n
<1>3. n.stale = {}
  BY Zenon, <1>1, <1>2
<1>4. Sound(n, use, q)
  BY Zenon, <1>1, <1>2, <1>3 DEF Sound
<1> QED BY Zenon, <1>2, <1>4 DEF n

\* map_to with the flush of its page.
LEMMA FlushOutcome ==
  ASSUME NEW m, NEW use, NEW n, NEW q, NEW p, NEW e, MapOutcome(m, use, n, q, p, e), NEW x
  PROVE  MapOutcome(m, use, Flush(n, x), q, p, e)
<1> DEFINE b == Flush(n, x)
<1>1. ASSUME Stuck(m, use, n, q, p) PROVE Stuck(m, use, b, q, p)
  <2>1. b \in MachineType /\ b.err = n.err /\ b.mem = n.mem
    BY Zenon, <1>1, FlushIs DEF Stuck, Flushed
  <2> HIDE DEF b
  <2> QED BY Zenon, <1>1, <2>1 DEF Stuck
<1>2. ASSUME NEW use2, Sound(n, use2, q) PROVE Sound(b, use2, q) /\ b.mem = n.mem
  BY Zenon, <1>2, FlushSound
<1> HIDE DEF b
<1>3. MapOutcome(m, use, b, q, p, e)
  BY Zenon, <1>1, <1>2 DEF MapOutcome
<1> QED BY <1>3 DEF b

\* The page is backed with a frame f, which no other one uses.
BackOutcome(m, use, n, q, p, flags) ==
  \/ Stuck(m, use, n, q, p)
  \/ /\ Leaf(m.mem, q, p) = Unused
     /\ \E f \in Frame, use2 \in Uses :
          /\ use[f] = 0 /\ UseGrown([use EXCEPT ![f] = 5], use2)
          /\ Sound(n, use2, q) /\ Remapped(m.mem, use, n.mem, q, p, PageEntry(f, flags))

\* map() with the flush of its page.
LEMMA MapPageSound ==
  ASSUME NEW m, NEW use, NEW q, Sound(m, use, q), Kept(m.mem), NEW p \in Ordinary,
         NEW flags \in SUBSET Flag
  PROVE  BackOutcome(m, use, Flush(MapPage(m, p, flags), p), q, p, flags)
<1> DEFINE f == Lowest(m)
           a == AllocateFrame(m)
           use5 == [use EXCEPT ![f] = 5]
           b == MapTo(a, p, f, flags)
           c == MapPage(m, p, flags)
           n == Flush(c, p)
<1>1. m \in MachineType /\ m.err = Fine /\ use \in Uses
  BY Zenon DEF Sound
<1>2. CASE m.free = {}
  <2>1. c = Fail(m, "out of memory")
    BY Zenon, <1>2 DEF MapPage
  <2>3. /\ Fail(m, "out of memory") \in MachineType
        /\ Fail(m, "out of memory").err = "out of memory" /\ Fail(m, "out of memory").mem = m.mem
    BY Zenon, <1>1, Causes, FailIs
  <2> HIDE DEF c
  <2>4. n \in MachineType /\ n.err = "out of memory" /\ n.mem = m.mem
    <3>1. c \in MachineType /\ c.err = "out of memory" /\ c.mem = m.mem
      BY Zenon, <2>1, <2>3
    <3>2. Flushed(c, n, {p})
      BY Zenon, <3>1, FlushIs
    <3> HIDE DEF n
    <3> QED BY Zenon, <3>1, <3>2 DEF Flushed
  <2> HIDE DEF n
  <2>5. BackOutcome(m, use, n, q, p, flags)
    BY Zenon, <2>4 DEF BackOutcome, Stuck, SamePages
  <2> QED BY Zenon, <2>5 DEF n, c
<1>3. CASE m.free # {}
  <2>1. c = b
    BY Zenon, <1>3 DEF MapPage
  <2>2. f \in Frame /\ use[f] = 0 /\ use5 \in Uses /\ Sound(a, use5, q) /\ a.mem = m.mem
    BY Zenon, <1>3, Ranges, AllocSound
  <2> HIDE DEF a, f
  <2>3. MapOutcome(a, use5, b, q, p, PageEntry(f, flags))
    <3>1. f \in Nat /\ Kept(a.mem)
      BY <2>2 DEF Frame
    <3> QED BY Zenon, <2>2, <3>1, MapToSound
  <2> HIDE DEF c
  <2>4. MapOutcome(a, use5, n, q, p, PageEntry(f, flags))
    BY Zenon, <2>1, <2>3, FlushOutcome
  <2> HIDE DEF n
  <2>41. \A r \in Frame : use[r] = 4 => use5[r] = 4
    BY <1>1, <2>2 DEF Uses
  <2>5. ASSUME Stuck(a, use5, n, q, p) PROVE BackOutcome(m, use, n, q, p, flags)
    <3> HIDE DEF use5
    <3> QED BY Zenon, <2>2, <2>41, <2>5 DEF Stuck, SamePages, BackOutcome
  <2>6. ASSUME Leaf(a.mem, q, p) = Unused, NEW use2 \in Uses, UseGrown(use5, use2),
               Sound(n, use2, q), Remapped(a.mem, use5, n.mem, q, p, PageEntry(f, flags))
        PROVE  BackOutcome(m, use, n, q, p, flags)
    <3> HIDE DEF use5
    <3>2. Remapped(m.mem, use, n.mem, q, p, PageEntry(f, flags))
      BY Zenon, <2>2, <2>41, <2>6 DEF Remapped
    <3> QED BY Zenon, <2>2, <2>6, <3>2 DEF BackOutcome, use5
  <2>7. BackOutcome(m, use, n, q, p, flags)
    BY Zenon, <2>4, <2>5, <2>6 DEF MapOutcome
  <2> QED BY <2>7 DEF n, c
<1> QED BY Zenon, <1>2, <1>3

-----------------------------------------------------------------------------
(* unmap and the temporary page.                                            *)

\* A page whose entry is not that of a huge page has a P1 table.
LEMMA SmallPage ==
  ASSUME NEW M \in Memory, NEW use \in Uses, Tree(M, use),
         NEW r \in Frame, use[r] = 4, NEW p \in Ordinary,
         Leaf(M, r, p) # Unused, ~Huge(Leaf(M, r, p))
  PROVE  T1(M, r, p) # None
<1> DEFINE t2 == T2(M, r, p)
<1>1. ASSUME T1(M, r, p) = None PROVE FALSE
  <2>1. t2 # None /\ Huge(M[t2][p[3]])
    BY <1>1, LeafByTables DEF ByTables
  <2>2. Leaf(M, r, p) = [M[t2][p[3]] EXCEPT !.frame = @ + p[4]]
    BY <1>1, <2>1, LeafByTables DEF ByTables
  <2>3. t2 \in Frame /\ p[3] \in Index
    BY Zenon, <2>1, TableLevels, TablePages
  <2> HIDE DEF t2
  <2>4. M[t2][p[3]] \in Entry
    BY <2>3 DEF Memory
  <2>5. Leaf(M, r, p).flags = M[t2][p[3]].flags
    BY <2>2, <2>4 DEF Entry
  <2> QED BY Zenon, <2>1, <2>5 DEF Huge
<1> QED BY <1>1

\* The tables that translate_page looks at can be accessed.
LEMMA TouchSeen ==
  ASSUME NEW m, NEW use, NEW q, Sound(m, use, q), NEW p \in Ordinary
  PROVE  Sound(Touch(m, Seen(m, p)), use, q) /\ Touch(m, Seen(m, p)).mem = m.mem
<1>1. /\ m.mem \in Memory /\ use \in Uses /\ Tree(m.mem, use) /\ cr3 \in Frame
      /\ q \in Frame /\ use[q] = 4 /\ Loops(m.mem, q)
  BY DEF Sound, MachineType
<1>2. ASSUME NEW t \in Seen(m, p) PROVE Visible(t) /\ Walk(m.mem, cr3, t) \in Frame
  <2>1. Walk(m.mem, cr3, t) \in Frame /\ t \in {P4, P3(p), P2(p), P1(p)}
    BY Zenon, <1>1, SeenAreTables
  <2> QED BY <2>1 DEF Visible
<1> QED BY <1>2, TouchSound

\* What becomes of a machine on which page p is unmapped.
UnmapOutcome(m, use, n, q, p) ==
  /\ Sound(n, use, q)
  /\ Remapped(m.mem, use, n.mem, q, p, Unused)
  /\ \A u \in Frame, j \in Index : use[u] # 1 => n.mem[u][j] = m.mem[u][j]

\* unmap of a page that is mapped by a P1 entry takes away this page and no
\* other, and the page it flushes is all there is to flush.
THEOREM UnmapSound ==
  ASSUME NEW m, NEW use, NEW q, Sound(m, use, q), Kept(m.mem), NEW p \in Ordinary,
         T1(m.mem, q, p) # None, Walk(m.mem, q, p) # None
  PROVE  UnmapOutcome(m, use, UnmapPage(m, p), q, p)
<1> DEFINE M == m.mem
           F == T1(M, q, p)
           a == Touch(m, Seen(m, p))
           n == Write(a, P1(p), {p[4]}, Unused)
           N == n.mem
           b == [a EXCEPT !.tlb = @ \cup {P1(p)}]
           c == Flush(n, p)
<1>1. Sound(a, use, q) /\ a.mem = M
  BY Zenon, TouchSeen
<1> HIDE DEF a
<1>2. /\ a \in MachineType /\ a.err = Fine /\ a.stale = {} /\ use \in Uses
      /\ a.free = {g \in Frame : use[g] = 0} /\ cr3 \in Frame /\ use[cr3] = 4
      /\ q \in Frame /\ use[q] = 4 /\ Tree(M, use) /\ Loops(M, q) /\ M \in Memory
      /\ \A x \in a.tlb : Visible(x) /\ Walk(M, cr3, x) # None
  BY Zenon, <1>1 DEF Sound, MachineType
<1>3. F \in Frame /\ use[F] = 1 /\ Walk(M, cr3, P1(p)) = F
  <2>1. M \in Memory /\ use \in Uses /\ Tree(M, use) /\ q \in Frame /\ use[q] = 4
    BY Zenon, <1>2
  <2>2. F \in Frame /\ use[F] = 1
    BY Zenon, <2>1, TableLevels
  <2>4. TablesSeen(M, q, p)
    BY Zenon, <1>2, RecursiveWalks
  <2>3. Walk(M, cr3, P1(p)) = F
    BY Zenon, <2>4 DEF TablesSeen
  <2> QED BY Zenon, <2>2, <2>3
<1>4. p[4] \in Index /\ {p[4]} \in SUBSET Index /\ P1(p) \in Page /\ Visible(P1(p)) /\ Unused \in Entry
  BY Zenon, TablePages, TablesVisible, EntryKinds
<1>5. UnmapPage(m, p) = c
  <2>1. TranslatePage(a, p) = Walk(M, q, p)
    BY ZenonT(60), <1>1, <1>2, TranslateIsWalk
  <2>2. P1(p) \in Seen(a, p)
    BY Zenon, <1>1, <1>2, SeenAreTables
  <2>3. ~Failed(a)
    BY Zenon, <1>2 DEF Failed
  <2>4. ClearEntry(a, p) = c
    BY Zenon, <2>1, <2>2, <2>3 DEF ClearEntry
  <2> QED BY Zenon, <2>4 DEF UnmapPage, a
<1>6. Written(a, n, P1(p), {p[4]}, Unused)
  <2>1. Walk(a.mem, cr3, P1(p)) \in Frame
    BY Zenon, <1>1, <1>3
  <2> QED BY Zenon, <1>2, <1>4, <2>1, WriteIs
<1> HIDE DEF n, F
<1>7. /\ n \in MachineType /\ n.err = Fine /\ n.free = a.free /\ n.tlb = a.tlb \cup {P1(p)}
      /\ N \in Memory /\ Mapped1(M, N, F, p[4], Unused)
  BY <1>1, <1>3, <1>6 DEF Written, Mapped1, MachineType
<1>8. n.stale = Outdated(b, N)
  BY <1>6 DEF Written
<1>9. b.mem = M /\ b.tlb = a.tlb \cup {P1(p)}
  BY <1>1, <1>2 DEF MachineType
<1>10. /\ Tree(N, use)
       /\ \A r \in Frame : use[r] = 4 => N[r][R] = M[r][R]
       /\ \A r \in Frame, x \in Ordinary :
            use[r] = 4 => Leaf(N, r, x) = IF r = q /\ x = p THEN Unused ELSE Leaf(M, r, x)
  <2> HIDE DEF M, N
  <2>1. F = T1(M, q, p) /\ T1(M, q, p) # None
    BY DEF F, M
  <2>2. Mapped1(M, N, T1(M, q, p), p[4], Unused)
    BY Zenon, <1>7, <2>1
  <2>3. M \in Memory /\ use \in Uses /\ Tree(M, use) /\ q \in Frame /\ use[q] = 4
    BY Zenon, <1>2
  <2>4. OnePage(M, use, N, q, p, Unused)
    BY Zenon, <1>4, <1>7, <2>1, <2>2, <2>3, MapLeaf
  <2> QED BY Zenon, <2>4 DEF OnePage
<1> HIDE DEF M, N, b
<1>11. Loops(N, q)
  BY Zenon, <1>2, <1>10 DEF Loops
<1>12. Keeps(M, N, UpperTables(use))
  <2>1. ASSUME NEW t \in UpperTables(use), NEW i \in Index PROVE N[t][i] = M[t][i]
    BY <1>3, <1>7 DEF UpperTables, Mapped1
  <2> QED BY Zenon, <2>1 DEF Keeps
<1>13. ASSUME NEW y, Visible(y), Walk(M, cr3, y) # None, y # p
       PROVE  Walk(N, cr3, y) = Walk(M, cr3, y)
  <2>1. CASE y = TempPage
    BY Zenon, <1>2, <1>10, <1>13, <2>1, TempPageFacts DEF Walk
  <2>2. CASE \E x \in Ordinary : y \in {P4, P3(x), P2(x), P1(x)}
    BY Zenon, <1>2, <1>7, <1>12, <1>13, <2>2, TableViewKept DEF Walk
  <2> QED BY Zenon, <1>13, <2>1, <2>2 DEF Visible
<1>14. F # None
  BY <1>3 DEF Frame, None
<1>15. \A y \in n.tlb : Visible(y) /\ Walk(M, cr3, y) # None
  BY Zenon, <1>2, <1>3, <1>4, <1>7, <1>14
<1>16. Outdated(b, N) \subseteq {p}
  <2>1. ASSUME NEW y \in b.tlb, y # p PROVE Walk(b.mem, cr3, y) = Walk(N, cr3, y)
    BY Zenon, <1>7, <1>9, <1>13, <1>15, <2>1
  <2>2. ASSUME NEW x \in Ordinary, x # p PROVE Walk(mem, cr3, x) \in {None, Walk(N, cr3, x)}
    <3>1. Walk(N, cr3, x) = Walk(M, cr3, x)
      BY Zenon, <1>2, <1>10, <2>2 DEF Walk
    <3>2. Kept(M)
      BY DEF M
    <3> QED BY Zenon, <3>1, <3>2 DEF Kept
  <2> QED BY Zenon, <2>1, <2>2 DEF Outdated
<1>17. /\ c \in MachineType /\ c.mem = N /\ c.err = Fine /\ c.free = a.free
       /\ c.tlb = n.tlb \ {p} /\ c.stale = n.stale \ {p}
  <2>1. Flushed(n, c, {p})
    BY Zenon, <1>7, FlushIs
  <2> HIDE DEF c
  <2> QED BY Zenon, <1>7, <2>1 DEF Flushed, N
<1> HIDE DEF c
<1>18. c.stale = {}
  BY Zenon, <1>8, <1>16, <1>17
<1>19. \A y \in c.tlb : Visible(y) /\ Walk(N, cr3, y) # None
  BY Zenon, <1>13, <1>15, <1>17
<1>20. Sound(c, use, q)
  BY Zenon, <1>2, <1>10, <1>11, <1>17, <1>18, <1>19 DEF Sound
<1>21. Remapped(M, use, N, q, p, Unused)
  BY Zenon, <1>10 DEF Remapped
<1>22. \A u \in Frame, j \in Index : use[u] # 1 => N[u][j] = M[u][j]
  BY Zenon, <1>3, <1>7 DEF Mapped1
<1> QED BY Zenon, <1>5, <1>17, <1>20, <1>21, <1>22 DEF UnmapOutcome, M

\* The caller's flush of the page changes nothing more.
LEMMA UnmapFlushSound ==
  ASSUME NEW m, NEW use, NEW q, Sound(m, use, q), Kept(m.mem), NEW p \in Ordinary,
         T1(m.mem, q, p) # None, Walk(m.mem, q, p) # None
  PROVE  UnmapOutcome(m, use, Flush(UnmapPage(m, p), p), q, p)
<1> DEFINE n == UnmapPage(m, p)
<1>1. UnmapOutcome(m, use, n, q, p)
  BY Zenon, UnmapSound
<1> HIDE DEF n
<1>2. Sound(Flush(n, p), use, q) /\ Flush(n, p).mem = n.mem
  BY Zenon, <1>1, FlushSound DEF UnmapOutcome
<1>3. UnmapOutcome(m, use, Flush(n, p), q, p)
  BY Zenon, <1>1, <1>2 DEF UnmapOutcome
<1> QED BY Zenon, <1>3 DEF n

\* TemporaryPage::map.
LEMMA TempMapSound ==
  ASSUME NEW m, NEW use, NEW q, Sound(m, use, q), Kept(m.mem), NEW frame \in Nat
  PROVE  MapOutcome(m, use, TempMap(m, frame), q, TempPage, PageEntry(frame, {"WRITABLE"}))
<1> DEFINE a == Touch(m, Seen(m, TempPage))
           b == MapTo(a, TempPage, frame, {"WRITABLE"})
           e == PageEntry(frame, {"WRITABLE"})
<1>1. TempPage \in Ordinary /\ {"WRITABLE"} \in SUBSET Flag
  BY TempPageFacts DEF Flag
<1>2. Sound(a, use, q) /\ a.mem = m.mem
  BY <1>1, TouchSeen
<1> HIDE DEF a
<1>3. /\ a \in MachineType /\ a.err = Fine /\ ~Failed(a) /\ a.mem \in Memory
      /\ use \in Uses /\ Tree(a.mem, use) /\ cr3 \in Frame
      /\ q \in Frame /\ use[q] = 4 /\ Loops(a.mem, q)
  BY Zenon, <1>2 DEF Sound, MachineType, Failed
<1>4. TranslatePage(a, TempPage) = Walk(m.mem, q, TempPage)
  BY Zenon, <1>1, <1>2, <1>3, TranslateIsWalk
<1>5. TempMap(m, frame) = MapIfUnused(a, frame)
  BY DEF TempMap, a
<1>6. CASE Walk(m.mem, q, TempPage) # None
  <2>1. MapIfUnused(a, frame) = Fail(a, "assert")
    BY Zenon, <1>3, <1>4, <1>6 DEF MapIfUnused
  <2>3. /\ Fail(a, "assert") \in MachineType /\ Fail(a, "assert").err = "assert"
        /\ Fail(a, "assert").mem = m.mem
    BY Zenon, <1>2, <1>3, Causes, FailIs
  <2>4. Stuck(m, use, TempMap(m, frame), q, TempPage)
    BY Zenon, <1>5, <1>6, <2>1, <2>3 DEF Stuck, SamePages
  <2> QED BY Zenon, <2>4 DEF MapOutcome
<1>7. CASE Walk(m.mem, q, TempPage) = None
  <2>1. MapIfUnused(a, frame) = Flush(b, TempPage)
    BY Zenon, <1>3, <1>4, <1>7 DEF MapIfUnused
  <2>2. Kept(a.mem)
    BY <1>2
  <2>3. MapOutcome(a, use, b, q, TempPage, e)
    BY <1>1, <1>2, <2>2, MapToSound
  <2> HIDE DEF b, e
  <2>4. MapOutcome(a, use, Flush(b, TempPage), q, TempPage, e)
    BY <2>3, FlushOutcome
  <2>5. MapOutcome(m, use, Flush(b, TempPage), q, TempPage, e)
    BY Zenon, <1>2, <2>4 DEF MapOutcome, Stuck
  <2> QED BY Zenon, <1>5, <2>1, <2>5 DEF e
<1> QED BY <1>6, <1>7

-----------------------------------------------------------------------------
(* InactivePageTable::new and with.                                         *)

RootsPresent(M, use) == \A r \in Frame : use[r] = 4 => Present(M[r][R])

\* Machine n is m after a store of e to the entries S of frame f, which holds
\* no table.
StoredAt(m, use, n, q, f, S, e) ==
  /\ Sound(n, use, q) /\ Kept(n.mem) /\ SamePages(m.mem, use, n.mem)
  /\ \A i \in Index : n.mem[f][i] = IF i \in S THEN e ELSE m.mem[f][i]

\* A store to a frame that holds no table.
LEMMA StoreElsewhere ==
  ASSUME NEW m, NEW use, NEW q, Sound(m, use, q), Kept(m.mem), RootsPresent(m.mem, use),
         NEW t, Visible(t), NEW f \in Frame, Walk(m.mem, cr3, t) = f, use[f] \notin 1 .. 4,
         NEW S \in SUBSET Index, NEW e \in Entry
  PROVE  StoredAt(m, use, Write(m, t, S, e), q, f, S, e)
<1> DEFINE n == Write(m, t, S, e)
           M == m.mem
           N == n.mem
<1>1. /\ m \in MachineType /\ m.err = Fine /\ m.stale = {} /\ use \in Uses
      /\ cr3 \in Frame /\ use[cr3] = 4
      /\ q \in Frame /\ use[q] = 4 /\ Tree(M, use) /\ Loops(M, q) /\ M \in Memory
  BY Zenon DEF Sound, MachineType
<1>2. Written(m, n, t, S, e)
  BY Zenon, <1>1, VisiblePages, WriteIs
<1>3. n = Write(m, t, S, e)
  OBVIOUS
<1> HIDE DEF n
<1>4. /\ N \in Memory
      /\ \A i \in Index : N[f][i] = IF i \in S THEN e ELSE M[f][i]
      /\ \A u \in Frame, j \in Index : u # f => N[u][j] = M[u][j]
  BY <1>2 DEF Written, MachineType
<1> HIDE DEF M, N
<1>5. RootsPresent(M, use)
  BY DEF M
<1>6. SameTables(M, N, use)
  <2>1. \A u \in Frame : use[u] \in 1 .. 4 => u # f
    BY Zenon
  <2>2. \A u \in Frame : use[u] = 4 => use[u] \in 1 .. 4
    BY Zenon, Ranges
  <2>3. \A u \in Frame, j \in Index : use[u] \in 1 .. 4 => N[u][j] = M[u][j]
    BY Zenon, <1>4, <2>1
  <2> QED BY <1>5, <2>3, Sizes DEF SameTables, RootsPresent
<1>7. /\ Tree(N, use)
      /\ \A r \in Frame, x \in Ordinary : use[r] = 4 => Leaf(N, r, x) = Leaf(M, r, x)
  BY Zenon, <1>1, <1>4, <1>6, SameLeaf
<1>8. \A r \in Frame : use[r] = 4 => N[r][R] = M[r][R]
  BY ZenonT(60), <1>4, Sizes, Ranges
<1>9. Loops(N, q)
  BY Zenon, <1>1, <1>8 DEF Loops
<1>10. Keeps(M, N, TableFrames(use))
  BY Zenon, <1>4 DEF Keeps, TableFrames
<1>11. Sound(n, use, q) /\ Kept(N)
  BY Zenon, <1>3, <1>7, <1>9, <1>10, StoreSound DEF M, N
<1>12. SamePages(M, use, N)
  BY Zenon, <1>7, <1>8 DEF SamePages
<1> QED BY Zenon, <1>3, <1>4, <1>11, <1>12 DEF StoredAt, M, N

\* What becomes of a machine on which frame f is made an inactive table.
NewOutcome(m, use, n, f) ==
  \/ Stuck(m, use, n, cr3, TempPage)
  \/ /\ f \in Frame /\ use[f] = 0
     /\ \E use2 \in Uses : /\ UseGrown([use EXCEPT ![f] = 4], use2) /\ Sound(n, use2, cr3)
     /\ SamePages(m.mem, use, n.mem)
     /\ n.mem[f][R] = TableEntry(f)
     /\ \A x \in Ordinary : Leaf(n.mem, f, x) = Unused

\* Nothing happens on a machine that has stopped.
LEMMA FailedUnmap ==
  ASSUME NEW m, m.err # Fine
  PROVE  \A p : UnmapPage(m, p) = m
<1>1. \A p : Touch(m, Seen(m, p)) = m
  BY FailedStays
<1>2. \A p : ClearEntry(m, p) = m
  BY DEF ClearEntry, Failed
<1> QED BY <1>1, <1>2 DEF UnmapPage

\* InactivePageTable::new on frame f.
WithNewTable(m, f) ==
  TempUnmap(Write(Zero(TempMap(AllocateFrame(m), f), TempPage), TempPage, {R}, TableEntry(f)))

\* InactivePageTable::new makes frame f the root of an empty set of tables
\* with its own recursive entry, and changes no page; or it stops.
THEOREM NewTableSound ==
  ASSUME NEW m, NEW use, Sound(m, use, cr3), Kept(m.mem), RootsPresent(m.mem, use), m.free # {},
         NEW f, f = Lowest(m), NEW n, n = WithNewTable(m, f)
  PROVE  NewOutcome(m, use, n, f)
<1> DEFINE a == AllocateFrame(m)
           use6 == [use EXCEPT ![f] = 6]
           b == TempMap(a, f)
           c == Zero(b, TempPage)
           d == Write(c, TempPage, {R}, TableEntry(f))
           e == PageEntry(f, {"WRITABLE"})
<1>1. /\ m \in MachineType /\ m.err = Fine /\ use \in Uses /\ m.mem \in Memory
      /\ cr3 \in Frame /\ use[cr3] = 4 /\ Tree(m.mem, use)
  BY Zenon DEF Sound, MachineType
<1>2. f \in Frame /\ use[f] = 0 /\ use6 \in Uses /\ Sound(a, use6, cr3) /\ a.mem = m.mem
  BY Zenon, Ranges, AllocSound
<1> HIDE DEF a
<1>3. f \in Nat /\ f # None /\ f # cr3
  <2>1. use[f] # use[cr3]
    BY <1>1, <1>2
  <2> QED BY Zenon, <1>2, <2>1, Ranges
<1>51. \A r \in Frame : use6[r] = IF r = f THEN 6 ELSE use[r]
  BY Zenon, <1>1, <1>2 DEF Uses
<1>5. use6[f] = 6
  BY Zenon, <1>2, <1>51
<1>4. \A r \in Frame : use[r] = 4 <=> use6[r] = 4
  <2> HIDE DEF use6
  <2> QED BY <1>2, <1>51
<1>6. MapOutcome(a, use6, b, cr3, TempPage, e)
  BY Zenon, <1>2, <1>3, TempMapSound
<1>7. n = Flush(UnmapPage(d, TempPage), TempPage)
  BY Zenon DEF WithNewTable, TempUnmap, a
<1> HIDE DEF use6, b
<1>8. CASE Stuck(a, use6, b, cr3, TempPage)
  <2>1. b.err # Fine
    BY Zenon, <1>8 DEF Stuck, Fine
  <2>20. \A t, S, x : Write(b, t, S, x) = b
    BY Zenon, <2>1, FailedStays
  <2>2. c = b
    BY Zenon, <2>20 DEF Zero
  <2> HIDE DEF c
  <2>3. d = b
    BY Zenon, <2>2, <2>20
  <2> HIDE DEF d
  <2>4. n = Flush(b, TempPage)
    BY Zenon, <1>7, <2>1, <2>3, FailedUnmap
  <2>6. n \in MachineType /\ n.err = b.err /\ n.mem = b.mem
    <3>1. b \in MachineType
      BY Zenon, <1>8 DEF Stuck
    <3>2. Flushed(b, Flush(b, TempPage), {TempPage})
      BY Zenon, <3>1, FlushIs
    <3>3. Flushed(b, n, {TempPage})
      BY Zenon, <2>4, <3>2
    <3> QED BY Zenon, <3>3 DEF Flushed
  <2>5. SamePages(m.mem, use, n.mem)
    BY Zenon, <1>2, <1>4, <1>8, <2>6 DEF Stuck, SamePages
  <2> QED BY Zenon, <1>2, <1>8, <2>5, <2>6 DEF Stuck, NewOutcome
<1>9. ASSUME Leaf(a.mem, cr3, TempPage) = Unused,
             NEW u7 \in Uses, UseGrown(use6, u7), Sound(b, u7, cr3), Kept(b.mem),
             Remapped(a.mem, use6, b.mem, cr3, TempPage, e)
      PROVE  NewOutcome(m, use, n, f)
  <2> DEFINE u8 == [u7 EXCEPT ![f] = 4]
  <2>1. u7[f] = 6 /\ \A r \in Frame : use[r] = 4 <=> u7[r] = 4
    <3>1. use6[f] # 0
      BY <1>5
    <3>2. \A r \in Frame : u7[r] = 4 <=> use6[r] = 4
      BY Zenon, <1>2, <1>9, GrownRoots
    <3>3. u7[f] = use6[f]
      BY Zenon, <1>2, <1>9, <3>1, GrownRoots
    <3> QED BY Zenon, <1>4, <1>5, <3>2, <3>3
  <2>2. TempPage \in Ordinary /\ Visible(TempPage)
    BY Zenon, TempPageFacts DEF Visible
  <2>3. Leaf(b.mem, cr3, TempPage) = e
    BY Zenon, <1>1, <1>4, <1>9, <2>2 DEF Remapped
  <2>4. Present(e) /\ ~Huge(e) /\ FrameIn(e) = f
    BY Zenon DEF PageEntry, Present, Huge, FrameIn
  <2>5. RootsPresent(b.mem, u7)
    BY Zenon, <1>2, <1>4, <1>9, <2>1 DEF RootsPresent, Remapped
  <2> HIDE DEF e
  <2>6. /\ Sound(c, u7, cr3) /\ Kept(c.mem) /\ SamePages(b.mem, u7, c.mem)
        /\ \A i \in Index : c.mem[f][i] = Unused
    <3>1. Walk(b.mem, cr3, TempPage) = f
      BY Zenon, <2>3, <2>4 DEF Walk
    <3>2. c = Write(b, TempPage, Index, Unused)
      BY Zenon DEF Zero
    <3>3. Index \in SUBSET Index /\ Unused \in Entry /\ u7[f] \notin 1 .. 4
      BY Zenon, <2>1, EntryKinds, Ranges
    <3>4. \A i \in Index : i \in Index
      OBVIOUS
    <3> HIDE DEF c
    <3>5. StoredAt(b, u7, c, cr3, f, Index, Unused)
      BY Zenon, <1>2, <1>9, <2>2, <2>5, <3>1, <3>2, <3>3, StoreElsewhere
    <3> QED BY Zenon, <3>4, <3>5 DEF StoredAt
  <2> HIDE DEF c
  <2>7. Leaf(c.mem, cr3, TempPage) = e /\ RootsPresent(c.mem, u7)
    BY Zenon, <1>1, <2>1, <2>2, <2>3, <2>5, <2>6 DEF SamePages, RootsPresent
  <2>8. /\ Sound(d, u7, cr3) /\ Kept(d.mem) /\ SamePages(c.mem, u7, d.mem)
        /\ \A i \in Index : d.mem[f][i] = IF i \in {R} THEN TableEntry(f) ELSE c.mem[f][i]
    <3>1. Walk(c.mem, cr3, TempPage) = f
      BY Zenon, <2>4, <2>7 DEF Walk
    <3>2. {R} \in SUBSET Index /\ TableEntry(f) \in Entry /\ u7[f] \notin 1 .. 4
      BY Zenon, <1>3, <2>1, EntryKinds, Ranges, Sizes
    <3>3. StoredAt(c, u7, d, cr3, f, {R}, TableEntry(f))
      BY Zenon, <1>2, <2>2, <2>6, <2>7, <3>1, <3>2, StoreElsewhere
    <3> HIDE DEF d
    <3> QED BY Zenon, <3>3 DEF StoredAt
  <2> HIDE DEF d
  <2>9. Leaf(d.mem, cr3, TempPage) = e
    BY Zenon, <1>1, <2>1, <2>2, <2>7, <2>8 DEF SamePages
  <2>10. d.mem \in Memory /\ Tree(d.mem, u7) /\ u7[cr3] = 4
    BY Zenon, <2>8 DEF Sound, MachineType
  <2>11. T1(d.mem, cr3, TempPage) # None /\ Walk(d.mem, cr3, TempPage) # None
    <3>1. e # Unused
      BY Zenon, <2>4, EntryKinds
    <3>2. T1(d.mem, cr3, TempPage) # None
      BY Zenon, <1>1, <2>2, <2>4, <2>9, <2>10, <3>1, SmallPage
    <3> QED BY Zenon, <1>3, <2>4, <2>9, <3>2 DEF Walk
  <2>12. UnmapOutcome(d, u7, n, cr3, TempPage)
    BY Zenon, <1>7, <2>2, <2>8, <2>11, UnmapFlushSound
  <2>13. /\ Sound(n, u7, cr3) /\ Remapped(d.mem, u7, n.mem, cr3, TempPage, Unused)
         /\ \A j \in Index : n.mem[f][j] = d.mem[f][j]
    <3>1. u7[f] # 1
      BY <2>1
    <3> QED BY Zenon, <1>2, <2>12, <3>1 DEF UnmapOutcome
  <2>14. /\ n \in MachineType /\ n.mem \in Memory /\ n.err = Fine /\ n.stale = {}
         /\ n.free = {g \in Frame : u7[g] = 0} /\ Tree(n.mem, u7) /\ Loops(n.mem, cr3)
         /\ \A x \in n.tlb : Visible(x) /\ Walk(n.mem, cr3, x) # None
    BY Zenon, <2>13 DEF Sound, MachineType
  <2>15. /\ n.mem[f][R] = TableEntry(f) /\ Present(n.mem[f][R])
         /\ \A i \in Index \ {R} : n.mem[f][i] = Unused
    <3>1. n.mem[f][R] = TableEntry(f)
      BY Zenon, <2>8, <2>13, Sizes
    <3>2. \A i \in Index \ {R} : n.mem[f][i] = Unused
      BY Zenon, <2>6, <2>8, <2>13
    <3> QED BY Zenon, <1>3, <3>1, <3>2, EntryKinds
  <2>16. /\ Tree(n.mem, u8) /\ u8 \in Uses
         /\ \A x \in Ordinary : Leaf(n.mem, f, x) = Unused
    <3>1. u7[f] \notin 1 .. 4
      BY Zenon, <2>1, Ranges
    <3> QED BY ZenonT(60), <1>2, <2>14, <2>15, <3>1, NewRoot
  <2>17. \A g \in Frame : u8[g] = IF g = f THEN 4 ELSE u7[g]
    BY Zenon, <1>2 DEF Uses
  <2> HIDE DEF u8
  <2>18. u8[cr3] = 4 /\ n.free = {g \in Frame : u8[g] = 0}
    <3>1. u8[cr3] = 4
      BY Zenon, <1>1, <1>3, <2>10, <2>17
    <3>2. \A g \in Frame : u8[g] = 0 <=> u7[g] = 0
      BY <2>1, <2>17
    <3> QED BY Zenon, <2>14, <3>1, <3>2
  <2>19. Sound(n, u8, cr3)
    BY Zenon, <1>1, <2>14, <2>16, <2>18 DEF Sound
  <2>20. UseGrown([use EXCEPT ![f] = 4], u8)
    <3> DEFINE use4 == [use EXCEPT ![f] = 4]
    <3>2. \A g \in Frame : use4[g] = IF g = f THEN 4 ELSE use[g]
      BY Zenon, <1>1, <1>2 DEF Uses
    <3> HIDE DEF use4
    <3>3. ASSUME NEW g \in Frame
          PROVE  IF use4[g] = 0 THEN u8[g] \in 0 .. 3 ELSE u8[g] = use4[g]
      <4>1. CASE g = f
        BY <2>17, <3>2, <4>1
      <4>2. CASE g # f
        BY ZenonT(60), <1>9, <1>51, <2>17, <3>2, <4>2 DEF UseGrown
      <4> QED BY Zenon, <4>1, <4>2
    <3> QED BY Zenon, <3>3 DEF UseGrown, use4
  <2>21. ASSUME NEW r \in Frame, use[r] = 4
         PROVE  /\ n.mem[r][R] = m.mem[r][R]
                /\ \A x \in Ordinary : Leaf(n.mem, r, x) = Leaf(m.mem, r, x)
    <3>1. use6[r] = 4 /\ u7[r] = 4
      BY Zenon, <1>4, <2>1, <2>21
    <3>2. /\ b.mem[r][R] = m.mem[r][R]
          /\ \A x \in Ordinary :
               Leaf(b.mem, r, x) = IF r = cr3 /\ x = TempPage THEN e ELSE Leaf(m.mem, r, x)
      BY Zenon, <1>2, <1>9, <3>1 DEF Remapped
    <3>3. /\ d.mem[r][R] = b.mem[r][R]
          /\ \A x \in Ordinary : Leaf(d.mem, r, x) = Leaf(b.mem, r, x)
      BY ZenonT(60), <2>6, <2>8, <3>1 DEF SamePages
    <3>4. /\ n.mem[r][R] = d.mem[r][R]
          /\ \A x \in Ordinary :
               Leaf(n.mem, r, x) = IF r = cr3 /\ x = TempPage THEN Unused ELSE Leaf(d.mem, r, x)
      BY Zenon, <2>13, <3>1 DEF Remapped
    <3>5. Leaf(m.mem, cr3, TempPage) = Unused
      BY Zenon, <1>2, <1>9
    <3> QED BY Zenon, <3>2, <3>3, <3>4, <3>5
  <2>22. SamePages(m.mem, use, n.mem)
    BY Zenon, <2>21 DEF SamePages
  <2> QED BY Zenon, <1>2, <2>15, <2>16, <2>19, <2>20, <2>22 DEF NewOutcome
<1> QED BY Zenon, <1>6, <1>8, <1>9 DEF MapOutcome

\* Machine n works on the tables of root k; all the pages are as before.
SwapOutcome(m, use, n, k) ==
  /\ Sound(n, use, k) /\ RootsPresent(n.mem, use)
  /\ \A r \in Frame : use[r] = 4 =>
       /\ r # cr3 => n.mem[r][R] = m.mem[r][R]
       /\ \A x \in Ordinary : Leaf(n.mem, r, x) = Leaf(m.mem, r, x)

\* The recursive entry of the active table is made to point to root k.
LEMMA SwapSound ==
  ASSUME NEW m, NEW use, NEW q, Sound(m, use, q), RootsPresent(m.mem, use),
         NEW t, Visible(t), Walk(m.mem, cr3, t) = cr3,
         NEW k \in Frame, use[k] = 4, k = cr3 \/ m.mem[k][R] = TableEntry(k),
         NEW n, n = FlushAll(Write(m, t, {R}, TableEntry(k)))
  PROVE  SwapOutcome(m, use, n, k)
<1> DEFINE w == Write(m, t, {R}, TableEntry(k))
           M == m.mem
           N == w.mem
<1>1. /\ m \in MachineType /\ m.err = Fine /\ m.stale = {} /\ use \in Uses
      /\ m.free = {g \in Frame : use[g] = 0} /\ cr3 \in Frame /\ use[cr3] = 4
      /\ Tree(M, use) /\ M \in Memory
  BY Zenon DEF Sound, MachineType
<1>2. TableEntry(k) \in Entry /\ Present(TableEntry(k)) /\ {R} \in SUBSET Index
  BY Zenon, EntryKinds, Ranges, Sizes
<1>3. Written(m, w, t, {R}, TableEntry(k))
  BY Zenon, <1>1, <1>2, VisiblePages, WriteIs
<1> HIDE DEF w
<1>4. /\ w \in MachineType /\ w.err = Fine /\ w.free = m.free
      /\ N \in Memory /\ N[cr3][R] = TableEntry(k)
      /\ \A u \in Frame, j \in Index : ~(u = cr3 /\ j = R) => N[u][j] = M[u][j]
  BY <1>3 DEF Written, MachineType
<1>5. /\ n \in MachineType /\ n.mem = N /\ n.err = Fine /\ n.free = m.free
      /\ n.tlb = {} /\ n.stale = {}
  <2>1. n = FlushAll(w)
    BY Zenon DEF w
  <2>2. Flushed(w, n, Page)
    BY Zenon, <1>4, <2>1, FlushIs
  <2>3. w.tlb \ Page = {} /\ w.stale \ Page = {}
    BY Zenon, <1>4 DEF MachineType
  <2> QED BY Zenon, <1>4, <2>2, <2>3 DEF Flushed
<1> HIDE DEF M, N
<1>6. RootsPresent(M, use)
  BY Zenon DEF M
<1>7. \A r \in Frame : use[r] = 4 => Present(N[r][R])
  BY Zenon, <1>2, <1>4, <1>6, Sizes DEF RootsPresent
<1>8. SameTables(M, N, use)
  BY Zenon, <1>1, <1>4, <1>7 DEF SameTables
<1>9. /\ Tree(N, use)
      /\ \A r \in Frame, x \in Ordinary : use[r] = 4 => Leaf(N, r, x) = Leaf(M, r, x)
  BY Zenon, <1>1, <1>4, <1>8, SameLeaf
<1>10. \A r \in Frame : use[r] = 4 /\ r # cr3 => N[r][R] = M[r][R]
  BY Zenon, <1>4, Sizes
<1>11. Loops(N, k)
  <2>1. k # cr3 => N[k][R] = TableEntry(k)
    BY Zenon, <1>10 DEF M
  <2> QED BY Zenon, <1>4, <2>1 DEF Loops
<1>12. Sound(n, use, k)
  BY Zenon, <1>1, <1>5, <1>9, <1>11 DEF Sound
<1> QED BY Zenon, <1>5, <1>7, <1>9, <1>10, <1>12 DEF RootsPresent, SwapOutcome, M

\* The temporary page shows the active table.
TempEntry == PageEntry(cr3, {"WRITABLE"})

\* with, up to its closure: machine n works on the tables of root f.
WithOutcome(m, use, n, f) ==
  \/ Stuck(m, use, n, cr3, TempPage)
  \/ /\ Leaf(m.mem, cr3, TempPage) = Unused
     /\ \E use2 \in Uses : UseGrown(use, use2) /\ Sound(n, use2, f)
     /\ \A r \in Frame : use[r] = 4 =>
          /\ r # cr3 => n.mem[r][R] = m.mem[r][R]
          /\ \A x \in Ordinary :
               Leaf(n.mem, r, x) = IF r = cr3 /\ x = TempPage THEN TempEntry ELSE Leaf(m.mem, r, x)

\* The beginning of with for the table in frame f.
WithEntered(m, f) == FlushAll(Write(TempMap(m, cr3), P4, {R}, TableEntry(f)))

\* The closure of with works on the tables of root f, and the temporary page
\* keeps the way back to the active root open; or with stops before.
THEOREM WithBeginSound ==
  ASSUME NEW m, NEW use, Sound(m, use, cr3), Kept(m.mem), RootsPresent(m.mem, use),
         NEW f \in Frame, use[f] = 4, m.mem[f][R] = TableEntry(f),
         NEW n, n = WithEntered(m, f)
  PROVE  WithOutcome(m, use, n, f)
<1> DEFINE b == TempMap(m, cr3)
           e == PageEntry(cr3, {"WRITABLE"})
<1>1. use \in Uses /\ cr3 \in Frame /\ use[cr3] = 4 /\ cr3 \in Nat
  BY Zenon, Ranges DEF Sound
<1>2. MapOutcome(m, use, b, cr3, TempPage, e)
  BY Zenon, <1>1, TempMapSound
<1> HIDE DEF b, e
<1>21. n = FlushAll(Write(b, P4, {R}, TableEntry(f)))
  BY Zenon DEF WithEntered, b
<1>3. ASSUME Stuck(m, use, b, cr3, TempPage) PROVE Stuck(m, use, n, cr3, TempPage)
  <2>1. b.err # Fine /\ b \in MachineType
    BY Zenon, <1>3 DEF Stuck, Fine
  <2>20. \A t, S, x : Write(b, t, S, x) = b
    BY Zenon, <2>1, FailedStays
  <2>2. n = FlushAll(b)
    BY Zenon, <1>21, <2>20
  <2>21. Flushed(b, n, Page)
    BY Zenon, <2>1, <2>2, FlushIs
  <2>3. n \in MachineType /\ n.err = b.err /\ n.mem = b.mem
    BY Zenon, <2>21 DEF Flushed
  <2> QED BY Zenon, <1>3, <2>3 DEF Stuck
<1>4. ASSUME Leaf(m.mem, cr3, TempPage) = Unused,
             NEW u \in Uses, UseGrown(use, u), Sound(b, u, cr3),
             Remapped(m.mem, use, b.mem, cr3, TempPage, e)
      PROVE  WithOutcome(m, use, n, f)
  <2>1. \A r \in Frame : use[r] = 4 <=> u[r] = 4
    BY ZenonT(60), <1>1, <1>4, GrownRoots
  <2>2. RootsPresent(b.mem, u)
    BY Zenon, <1>4, <2>1 DEF RootsPresent, Remapped
  <2>3. Visible(P4) /\ Walk(b.mem, cr3, P4) = cr3
    <3>1. TempPage \in Ordinary
      BY Zenon, TempPageFacts
    <3>2. /\ b.mem \in Memory /\ Tree(b.mem, u) /\ u[cr3] = 4 /\ Loops(b.mem, cr3)
      BY Zenon, <1>4 DEF Sound, MachineType
    <3>3. Walk(b.mem, cr3, P4) = cr3
      <4>1. TablesSeen(b.mem, cr3, TempPage)
        BY Zenon, <1>1, <1>4, <3>1, <3>2, RecursiveWalks
      <4> QED BY Zenon, <4>1 DEF TablesSeen
    <3> QED BY Zenon, <3>1, <3>3, TablesVisible
  <2>4. u[f] = 4 /\ b.mem[f][R] = TableEntry(f)
    BY Zenon, <1>4, <2>1 DEF Remapped
  <2>6. /\ Sound(n, u, f)
        /\ \A r \in Frame : u[r] = 4 =>
             /\ r # cr3 => n.mem[r][R] = b.mem[r][R]
             /\ \A x \in Ordinary : Leaf(n.mem, r, x) = Leaf(b.mem, r, x)
    <3>1. SwapOutcome(b, u, n, f)
      BY Zenon, <1>21, <1>4, <2>2, <2>3, <2>4, SwapSound
    <3> QED BY Zenon, <3>1 DEF SwapOutcome
  <2>7. \A r \in Frame : use[r] = 4 =>
          /\ r # cr3 => n.mem[r][R] = m.mem[r][R]
          /\ \A x \in Ordinary :
               Leaf(n.mem, r, x) = IF r = cr3 /\ x = TempPage THEN e ELSE Leaf(m.mem, r, x)
    BY ZenonT(60), <1>4, <2>1, <2>6 DEF Remapped
  <2> QED BY Zenon, <1>4, <2>6, <2>7 DEF WithOutcome, e, TempEntry
<1> QED BY Zenon, <1>2, <1>3, <1>4 DEF MapOutcome, WithOutcome

\* The end of with.
WithLeft(m) == TempUnmap(FlushAll(Write(m, TempPage, {R}, TableEntry(cr3))))

\* Machine n works on the active tables again.
LeftOutcome(m, use, n) ==
  /\ Sound(n, use, cr3)
  /\ \A r \in Frame : use[r] = 4 =>
       /\ r # cr3 => n.mem[r][R] = m.mem[r][R]
       /\ \A x \in Ordinary :
            Leaf(n.mem, r, x) = IF r = cr3 /\ x = TempPage THEN Unused ELSE Leaf(m.mem, r, x)

\* with restores the recursive entry and unmaps the temporary page: the
\* machine works on the active tables again and nothing is stale.
THEOREM WithEndSound ==
  ASSUME NEW m, NEW use, NEW q, Sound(m, use, q), Kept(m.mem), RootsPresent(m.mem, use),
         Leaf(m.mem, cr3, TempPage) = TempEntry,
         NEW n, n = WithLeft(m)
  PROVE  LeftOutcome(m, use, n)
<1> DEFINE d == FlushAll(Write(m, TempPage, {R}, TableEntry(cr3)))
<1>1. use \in Uses /\ cr3 \in Frame /\ use[cr3] = 4 /\ cr3 \in Nat /\ cr3 # None
  BY Zenon, Ranges DEF Sound
<1>2. TempPage \in Ordinary /\ Visible(TempPage)
  BY Zenon, TempPageFacts DEF Visible
<1>3. Present(TempEntry) /\ ~Huge(TempEntry) /\ FrameIn(TempEntry) = cr3 /\ TempEntry # Unused
  <2>1. Present(TempEntry) /\ ~Huge(TempEntry) /\ FrameIn(TempEntry) = cr3
    BY Zenon DEF TempEntry, PageEntry, Present, Huge, FrameIn
  <2> QED BY Zenon, <2>1, EntryKinds
<1>4. Walk(m.mem, cr3, TempPage) = cr3
  BY Zenon, <1>3 DEF Walk
<1>5. d = FlushAll(Write(m, TempPage, {R}, TableEntry(cr3)))
  OBVIOUS
<1> HIDE DEF d
<1>6. /\ Sound(d, use, cr3)
      /\ \A r \in Frame : use[r] = 4 =>
           /\ r # cr3 => d.mem[r][R] = m.mem[r][R]
           /\ \A x \in Ordinary : Leaf(d.mem, r, x) = Leaf(m.mem, r, x)
  <2>1. SwapOutcome(m, use, d, cr3)
    BY Zenon, <1>1, <1>2, <1>4, <1>5, SwapSound
  <2> QED BY Zenon, <2>1 DEF SwapOutcome
<1>7. Kept(d.mem)
  BY Zenon, <1>1, <1>6 DEF Kept, Walk
<1>8. Leaf(d.mem, cr3, TempPage) = TempEntry
  BY Zenon, <1>1, <1>2, <1>6
<1>9. T1(d.mem, cr3, TempPage) # None /\ Walk(d.mem, cr3, TempPage) # None
  <2>1. d.mem \in Memory /\ Tree(d.mem, use)
    BY Zenon, <1>6 DEF Sound, MachineType
  <2>2. T1(d.mem, cr3, TempPage) # None
    BY Zenon, <1>1, <1>2, <1>3, <1>8, <2>1, SmallPage
  <2> QED BY Zenon, <1>1, <1>3, <1>8, <2>2 DEF Walk
<1>10. n = Flush(UnmapPage(d, TempPage), TempPage)
  BY Zenon, <1>5 DEF WithLeft, TempUnmap
<1>11. UnmapOutcome(d, use, n, cr3, TempPage)
  BY Zenon, <1>2, <1>6, <1>7, <1>9, <1>10, UnmapFlushSound
<1> QED BY ZenonT(60), <1>6, <1>11 DEF UnmapOutcome, Remapped, LeftOutcome

=============================================================================
