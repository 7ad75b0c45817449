---------------------------- MODULE PagingTables -----------------------------
(***************************************************************************)
(* What the tables of Paging are and what a write to them changes, for     *)
(* every number of entries and every memory.                               *)
(***************************************************************************)
EXTENDS Paging, WellFoundedInduction, TLAPS

Frame == 0 .. RAM - 1
Memory == [Frame -> [Index -> Entry]]

-----------------------------------------------------------------------------
(* Page numbers.                                                            *)

\* Division by a positive number, and what a remainder is.
LEMMA DivMod ==
  ASSUME NEW n \in Nat, NEW d \in Nat \ {0}
  PROVE  n \div d \in Nat /\ n % d \in 0 .. d - 1 /\ n = (n \div d) * d + (n % d)
  OBVIOUS

\* Quotient and remainder determine a number.
LEMMA SameDivMod ==
  ASSUME NEW m \in Nat, NEW n \in Nat, NEW d \in Nat \ {0},
         m \div d = n \div d, m % d = n % d
  PROVE  m = n
  BY Zenon, DivMod

\* The sizes in play are positive.
LEMMA Sizes ==
  /\ ENTRY_COUNT \in Nat \ {0, 1} /\ R \in Nat /\ R \in Index /\ R # 0 /\ 0 \in Index
  /\ P3Span \in Nat \ {0} /\ P4Span \in Nat \ {0} /\ End \in Nat
<1>1. ENTRY_COUNT \in Nat \ {0, 1}
  BY PagingAssumption
<1>2. R \in Nat /\ R \in Index /\ R # 0 /\ 0 \in Index
  BY <1>1 DEF R, Index
<1>3. P3Span \in Nat \ {0} /\ P4Span \in Nat \ {0}
  BY <1>1 DEF P3Span, P4Span
<1>4. End \in Nat
  BY <1>2, <1>3 DEF End
<1> QED BY <1>1, <1>2, <1>3, <1>4

\* A page below End is not below the recursive P4 entry.
LEMMA P4Index ==
  ASSUME NEW n \in Nat, n < End
  PROVE  n \div P4Span \in 0 .. R - 1 /\ (n \div P4Span) % ENTRY_COUNT = n \div P4Span
<1> DEFINE q == n \div P4Span
<1>1. q \in Nat /\ n = q * P4Span + (n % P4Span) /\ n % P4Span \in 0 .. P4Span - 1
  BY Zenon, Sizes, DivMod
<1>2. ASSUME q >= R PROVE FALSE
  <2>1. q * P4Span >= R * P4Span
    BY <1>2, <1>1, Sizes
  <2> QED BY <2>1, <1>1, Sizes DEF End
<1>3. q \in 0 .. R - 1
  BY <1>1, <1>2, Sizes
<1>4. q % ENTRY_COUNT = q
  BY <1>3, Sizes DEF R
<1> QED BY <1>3, <1>4

\* Page numbers are pages.
LEMMA PageOfOrdinary ==
  ASSUME NEW n \in Nat, n < End
  PROVE  PageOf(n) \in Ordinary
<1>1. (n \div P4Span) % ENTRY_COUNT \in Index /\ (n \div P4Span) % ENTRY_COUNT # R
  <2>1. \A q \in 0 .. R - 1 : q \in Index /\ q # R
    BY Sizes DEF Index, R
  <2> QED BY <2>1, P4Index
<1>2. /\ (n \div P3Span) % ENTRY_COUNT \in Index
      /\ (n \div ENTRY_COUNT) % ENTRY_COUNT \in Index
      /\ n % ENTRY_COUNT \in Index
  BY DivMod, Sizes DEF Index
<1> QED BY <1>1, <1>2 DEF PageOf, Ordinary, Page

\* Different numbers are different pages.
LEMMA PageOfInjective ==
  ASSUME NEW m \in Nat, m < End, NEW n \in Nat, n < End, PageOf(m) = PageOf(n)
  PROVE  m = n
<1>1. m \div P4Span = n \div P4Span
  BY P4Index DEF PageOf
<1>2. \A x \in Nat : /\ x \div P3Span = (x \div ENTRY_COUNT) \div ENTRY_COUNT
                     /\ x \div P4Span = ((x \div ENTRY_COUNT) \div ENTRY_COUNT) \div ENTRY_COUNT
  BY Sizes DEF P3Span, P4Span
<1> DEFINE m1 == m \div ENTRY_COUNT  m2 == m1 \div ENTRY_COUNT
           n1 == n \div ENTRY_COUNT  n2 == n1 \div ENTRY_COUNT
<1>3. m1 \in Nat /\ m2 \in Nat /\ n1 \in Nat /\ n2 \in Nat
  BY Zenon, DivMod, Sizes
<1>4. m2 \div ENTRY_COUNT = n2 \div ENTRY_COUNT
  BY <1>1, <1>2
<1>5. /\ m2 % ENTRY_COUNT = n2 % ENTRY_COUNT
      /\ m1 % ENTRY_COUNT = n1 % ENTRY_COUNT
      /\ m % ENTRY_COUNT = n % ENTRY_COUNT
  BY <1>2 DEF PageOf
<1>6. m2 = n2
  <2> HIDE DEF m2, n2
  <2> QED BY Zenon, <1>3, <1>4, <1>5, SameDivMod, Sizes
<1>7. m1 = n1
  <2> HIDE DEF m1, n1
  <2> QED BY Zenon, <1>3, <1>5, <1>6, SameDivMod, Sizes
<1> QED BY Zenon, <1>7, <1>5, SameDivMod, Sizes

\* The pages of numbers outside the low P4 entry, and page zero.
LEMMA TempPageFacts ==
  TempPage \in Ordinary /\ TempPage[1] # 0
<1>1. TEMP \in Nat /\ TEMP < End /\ TEMP >= P4Span
  BY PagingAssumption, Sizes
<1>2. TempPage \in Ordinary
  BY <1>1, PageOfOrdinary DEF TempPage
<1>3. ASSUME TEMP \div P4Span = 0 PROVE FALSE
  BY <1>1, <1>3, DivMod, Sizes
<1>4. TempPage[1] = TEMP \div P4Span
  BY <1>1, P4Index DEF TempPage, PageOf
<1> QED BY <1>2, <1>3, <1>4

\* The pages at which the tables for page p are seen.
LEMMA TablePages ==
  ASSUME NEW p \in Ordinary
  PROVE  /\ p \in Page /\ p[1] \in Index /\ p[2] \in Index /\ p[3] \in Index /\ p[4] \in Index
         /\ p[1] # R
         /\ P4 = <<R, R, R, R>> /\ P3(p) = <<R, R, R, p[1]>>
         /\ P2(p) = <<R, R, p[1], p[2]>> /\ P1(p) = <<R, p[1], p[2], p[3]>>
         /\ P4 \in Page /\ P3(p) \in Page /\ P2(p) \in Page /\ P1(p) \in Page
         /\ P4 # NoTable /\ P3(p) # NoTable /\ P2(p) # NoTable /\ P1(p) # NoTable
<1>1. p \in Page /\ p[1] \in Index /\ p[2] \in Index /\ p[3] \in Index /\ p[4] \in Index /\ p[1] # R
  BY DEF Ordinary, Page
<1>2. /\ P4 = <<R, R, R, R>> /\ P3(p) = <<R, R, R, p[1]>>
      /\ P2(p) = <<R, R, p[1], p[2]>> /\ P1(p) = <<R, p[1], p[2], p[3]>>
  BY DEF P4, P3, P2, P1, TableBelow
<1>3. P4 \in Page /\ P3(p) \in Page /\ P2(p) \in Page /\ P1(p) \in Page
  BY <1>1, <1>2, Sizes DEF Page
<1>4. P4 # NoTable /\ P3(p) # NoTable /\ P2(p) # NoTable /\ P1(p) # NoTable
  BY <1>2 DEF NoTable
<1> QED BY <1>1, <1>2, <1>3, <1>4

\* allocate_frames hands out a frame that was free.
LEMMA LowestIsFree ==
  ASSUME NEW m, m.free \subseteq Frame, m.free # {}
  PROVE  Lowest(m) \in m.free
<1>1. Frame \subseteq Nat
  BY DEF Frame
<1>2. PICK x \in m.free : \A y \in m.free : ~(<<y, x>> \in OpToRel(<, Nat))
  BY Zenon, <1>1, NatLessThanWellFounded, WFMin
<1>3. ASSUME NEW y \in m.free PROVE x =< y
  <2>1. x \in Nat /\ y \in Nat
    BY Zenon, <1>1
  <2>2. ~(y < x)
    BY Zenon, <1>2, <2>1 DEF OpToRel
  <2> QED BY <2>1, <2>2
<1> QED BY <1>3 DEF Lowest, Min

-----------------------------------------------------------------------------
(* The tables in memory.  use says what each frame is used for: 0 is free,  *)
(* 1 to 4 is a table of that level, 5 a frame that backs a page, 6 the rest. *)

Uses == [Frame -> 0 .. 6]

TableEntry(f) == [frame |-> f, flags |-> TableFlags]

\* Entry i of frame t is one that may lead to another table.
Slot(use, t, i) == t \in Frame /\ i \in Index /\ use[t] \in 2 .. 4 /\ ~(use[t] = 4 /\ i = R)

\* Entries of tables that are not present are unused; only P2 tables have huge
\* pages; an entry leads to a table of the next level, and no other one does.
Tree(M, use) ==
  /\ \A t \in Frame, i \in Index :
       use[t] \in 1 .. 4 => Present(M[t][i]) \/ M[t][i] = Unused
  /\ \A t \in Frame, i \in Index :
       Slot(use, t, i) /\ Huge(M[t][i]) => use[t] = 2
  /\ \A t \in Frame, i \in Index :
       Slot(use, t, i) /\ LeadsOn(M[t][i])
         => M[t][i].frame \in Frame /\ use[M[t][i].frame] = use[t] - 1
  /\ \A t \in Frame, u \in Frame, i \in Index, j \in Index :
       /\ Slot(use, t, i) /\ LeadsOn(M[t][i])
       /\ Slot(use, u, j) /\ LeadsOn(M[u][j])
       /\ M[t][i].frame = M[u][j].frame
       => t = u /\ i = j

\* The P3, P2 and P1 table for page p below root r, or None.
NextOf(e) == IF LeadsOn(e) THEN e.frame ELSE None
T3(M, r, p) == NextOf(M[r][p[1]])
T2(M, r, p) == NextOf(EntryAt(M, T3(M, r, p), p[2]))
T1(M, r, p) == NextOf(EntryAt(M, T2(M, r, p), p[3]))

\* An unused entry is not present, and a present one that is not huge leads on.
LEMMA EntryKinds ==
  /\ ~Present(Unused) /\ ~Huge(Unused) /\ ~LeadsOn(Unused) /\ Unused \in Entry
  /\ \A e : Huge(e) => Present(e)
  /\ \A e : LeadsOn(e) <=> Present(e) /\ ~Huge(e)
  /\ \A f \in Nat : TableEntry(f) \in Entry /\ LeadsOn(TableEntry(f)) /\ Present(TableEntry(f))
                     /\ ~Huge(TableEntry(f)) /\ TableEntry(f).frame = f
<1>1. ~Present(Unused) /\ ~Huge(Unused) /\ ~LeadsOn(Unused) /\ Unused \in Entry
  BY DEF Unused, Present, Huge, LeadsOn, Entry
<1>2. \A e : Huge(e) => Present(e)
  BY DEF Huge, Present
<1>3. \A e : LeadsOn(e) <=> Present(e) /\ ~Huge(e)
  BY DEF LeadsOn
<1>4. ASSUME NEW f \in Nat
      PROVE  TableEntry(f) \in Entry /\ LeadsOn(TableEntry(f)) /\ Present(TableEntry(f))
             /\ ~Huge(TableEntry(f)) /\ TableEntry(f).frame = f
  <2>1. TableEntry(f).frame = f /\ TableEntry(f).flags = {"PRESENT", "WRITABLE"}
    BY DEF TableEntry, TableFlags
  <2>2. TableEntry(f) \in Entry
    BY DEF TableEntry, TableFlags, Entry, Flag
  <2> QED BY <2>1, <2>2 DEF LeadsOn, Present, Huge
<1> QED BY <1>1, <1>2, <1>3, <1>4

\* What the levels of the tables are: P4 and P3 tables have no huge pages, and
\* an entry that leads on leads to a table one level below.
Levels(M, use) ==
  \A t \in Frame, i \in Index :
    /\ use[t] = 4 /\ i # R =>
         ~Huge(M[t][i]) /\ (LeadsOn(M[t][i]) => M[t][i].frame \in Frame /\ use[M[t][i].frame] = 3)
    /\ use[t] = 3 =>
         ~Huge(M[t][i]) /\ (LeadsOn(M[t][i]) => M[t][i].frame \in Frame /\ use[M[t][i].frame] = 2)
    /\ use[t] = 2 => (LeadsOn(M[t][i]) => M[t][i].frame \in Frame /\ use[M[t][i].frame] = 1)

\* A tree has these levels.
LEMMA TreeLevels ==
  ASSUME NEW M, NEW use, Tree(M, use)
  PROVE  Levels(M, use)
<1> SUFFICES ASSUME NEW t \in Frame, NEW i \in Index
             PROVE  /\ use[t] = 4 /\ i # R =>
                         ~Huge(M[t][i]) /\ (LeadsOn(M[t][i]) => M[t][i].frame \in Frame /\ use[M[t][i].frame] = 3)
                    /\ use[t] = 3 =>
                         ~Huge(M[t][i]) /\ (LeadsOn(M[t][i]) => M[t][i].frame \in Frame /\ use[M[t][i].frame] = 2)
                    /\ use[t] = 2 => (LeadsOn(M[t][i]) => M[t][i].frame \in Frame /\ use[M[t][i].frame] = 1)
  BY Zenon DEF Levels
<1>1. /\ Slot(use, t, i) /\ Huge(M[t][i]) => use[t] = 2
      /\ Slot(use, t, i) /\ LeadsOn(M[t][i]) => M[t][i].frame \in Frame /\ use[M[t][i].frame] = use[t] - 1
  BY Zenon DEF Tree
<1>2. use[t] \in 2 .. 4 /\ ~(use[t] = 4 /\ i = R) => Slot(use, t, i)
  BY Zenon DEF Slot
<1> QED BY <1>1, <1>2

\* The tables found for a page have the right level.
LEMMA TableLevels ==
  ASSUME NEW M \in Memory, NEW use \in Uses, Tree(M, use),
         NEW r \in Frame, use[r] = 4, NEW p \in Ordinary
  PROVE  /\ T3(M, r, p) # None => T3(M, r, p) \in Frame /\ use[T3(M, r, p)] = 3
         /\ T2(M, r, p) # None => /\ T2(M, r, p) \in Frame /\ use[T2(M, r, p)] = 2
                                 /\ T3(M, r, p) # None
         /\ T1(M, r, p) # None => /\ T1(M, r, p) \in Frame /\ use[T1(M, r, p)] = 1
                                 /\ T2(M, r, p) # None
<1>1. p[1] \in Index /\ p[2] \in Index /\ p[3] \in Index /\ p[1] # R
  BY TablePages
<1>2. \A t \in Frame, i \in Index : use[t] \in 2 .. 4 /\ (use[t] = 4 => i # R) /\ NextOf(M[t][i]) # None
        => NextOf(M[t][i]) \in Frame /\ use[NextOf(M[t][i])] = use[t] - 1
  BY DEF Tree, Slot, NextOf
<1>3. T3(M, r, p) # None => T3(M, r, p) \in Frame /\ use[T3(M, r, p)] = 3
  BY <1>1, <1>2 DEF T3
<1>4. NextOf(EntryAt(M, None, p[2])) = None /\ NextOf(EntryAt(M, None, p[3])) = None
  BY EntryKinds DEF EntryAt, NextOf
<1>5. T2(M, r, p) # None => /\ T2(M, r, p) \in Frame /\ use[T2(M, r, p)] = 2
                            /\ T3(M, r, p) # None
  BY <1>1, <1>2, <1>3, <1>4 DEF T2, EntryAt
<1>6. T1(M, r, p) # None => /\ T1(M, r, p) \in Frame /\ use[T1(M, r, p)] = 1
                            /\ T2(M, r, p) # None
  BY <1>1, <1>2, <1>5, <1>4 DEF T1, EntryAt
<1> QED BY <1>3, <1>5, <1>6

\* The leaf at page x, in terms of its P2 table t2 and its P1 table t1.
ByTables(M, leaf, x, t2, t1) ==
  /\ t1 # None => leaf = M[t1][x[4]]
  /\ t1 = None /\ t2 # None /\ Huge(M[t2][x[3]])
       => leaf = [M[t2][x[3]] EXCEPT !.frame = @ + x[4]] /\ Present(leaf)
  /\ t1 = None /\ (t2 = None \/ ~Huge(M[t2][x[3]])) => leaf = Unused

\* The walk for a page, in terms of these tables.
LEMMA LeafByTables ==
  ASSUME NEW M \in Memory, NEW use \in Uses, Tree(M, use),
         NEW r \in Frame, use[r] = 4, NEW p \in Ordinary
  PROVE  ByTables(M, Leaf(M, r, p), p, T2(M, r, p), T1(M, r, p))
<1> DEFINE e4 == M[r][p[1]]
           e3 == Below(M, e4, p[2])
           e2 == Below(M, e3, p[3])
<1>1. p[1] \in Index /\ p[2] \in Index /\ p[3] \in Index /\ p[4] \in Index /\ p[1] # R
  BY TablePages
<1>2. r # None /\ Frame \subseteq Nat /\ None \notin Frame
  BY DEF Frame, None
<1>3. Leaf(M, r, p) = LeafOfP3(M, e3, p)
  BY <1>2 DEF Leaf, EntryAt
<1>4. \A t \in Frame, i \in Index : use[t] \in 1 .. 4 => Present(M[t][i]) \/ M[t][i] = Unused
  BY DEF Tree
<1>5. \A t \in Frame, i \in Index : use[t] \in {3, 4} /\ (use[t] = 4 => i # R) => ~Huge(M[t][i])
  BY DEF Tree, Slot
<1>6. \A i : Below(M, Unused, i) = Unused
  BY EntryKinds DEF Below, FrameIn, EntryAt
<1>14. ASSUME NEW t \in Frame, NEW i \in Index, use[t] \in 2 .. 4, use[t] = 4 => i # R,
              NextOf(M[t][i]) = None
       PROVE  M[t][i] = Unused \/ Huge(M[t][i])
  <2>1. LeadsOn(M[t][i]) => M[t][i].frame \in Frame
    BY <1>14 DEF Tree, Slot
  <2> QED BY <1>14, <2>1, <1>2, <1>4, EntryKinds DEF NextOf
<1>7. /\ ~Huge(e4)
      /\ T3(M, r, p) # None => e3 = M[T3(M, r, p)][p[2]]
      /\ T3(M, r, p) = None => e3 = Unused
  <2>1. ~Huge(e4)
    BY <1>1, <1>5
  <2>2. T3(M, r, p) # None => e3 = M[T3(M, r, p)][p[2]]
    BY Zenon, <1>2, EntryKinds, TableLevels DEF T3, NextOf, Below, FrameIn, EntryAt
  <2>3. T3(M, r, p) = None => e4 = Unused
    BY <1>1, <1>14, <2>1 DEF T3
  <2> QED BY <2>1, <2>2, <2>3, <1>6
<1>8. ~Huge(e3) /\ (T3(M, r, p) = None => T2(M, r, p) = None)
  BY <1>1, <1>5, <1>7, TableLevels, EntryKinds
<1>9. /\ T2(M, r, p) # None => e2 = M[T2(M, r, p)][p[3]]
      /\ T2(M, r, p) = None => e2 = Unused
  <2>1. T2(M, r, p) # None => e2 = M[T2(M, r, p)][p[3]]
    BY Zenon, <1>2, <1>7, EntryKinds, TableLevels DEF T2, NextOf, Below, FrameIn, EntryAt
  <2>2. T2(M, r, p) = None => e3 = Unused
    <3>1. T3(M, r, p) # None => EntryAt(M, T3(M, r, p), p[2]) = M[T3(M, r, p)][p[2]]
      BY DEF EntryAt
    <3> QED BY <1>1, <1>7, <1>8, <1>14, <3>1, TableLevels DEF T2
  <2> QED BY <2>1, <2>2, <1>6
<1>10. Leaf(M, r, p) = IF Huge(e2) THEN [e2 EXCEPT !.frame = @ + p[4]] ELSE Below(M, e2, p[4])
  <2> HIDE DEF e3
  <2> QED BY <1>3, <1>8 DEF LeafOfP3, LeafOfP2, e2
<1>11. T1(M, r, p) # None => Leaf(M, r, p) = M[T1(M, r, p)][p[4]]
  <2> HIDE DEF e2
  <2> QED BY Zenon, <1>2, <1>9, <1>10, EntryKinds, TableLevels DEF T1, NextOf, Below, FrameIn, EntryAt
<1>12. ASSUME T1(M, r, p) = None, T2(M, r, p) # None, Huge(M[T2(M, r, p)][p[3]])
       PROVE  /\ Leaf(M, r, p) = [M[T2(M, r, p)][p[3]] EXCEPT !.frame = @ + p[4]]
              /\ Present(Leaf(M, r, p))
  <2>1. Leaf(M, r, p) = [M[T2(M, r, p)][p[3]] EXCEPT !.frame = @ + p[4]]
    BY <1>12, <1>9, <1>10
  <2>2. M[T2(M, r, p)][p[3]] \in Entry /\ Present(M[T2(M, r, p)][p[3]])
    BY <1>12, <1>1, TableLevels, EntryKinds DEF Memory
  <2> QED BY <2>1, <2>2 DEF Present, Entry
<1>13. ASSUME T1(M, r, p) = None, T2(M, r, p) = None \/ ~Huge(M[T2(M, r, p)][p[3]])
       PROVE  Leaf(M, r, p) = Unused
  <2>1. e2 = Unused
    <3>1. CASE T2(M, r, p) = None
      BY <3>1, <1>9
    <3>2. CASE T2(M, r, p) # None
      <4>1. EntryAt(M, T2(M, r, p), p[3]) = M[T2(M, r, p)][p[3]]
        BY <3>2 DEF EntryAt
      <4> QED BY <3>2, <1>13, <1>1, <1>9, <1>14, <4>1, TableLevels DEF T1
    <3> QED BY <3>1, <3>2
  <2> HIDE DEF e2
  <2> QED BY <2>1, <1>6, <1>10, EntryKinds
<1> QED BY Zenon, <1>11, <1>12, <1>13 DEF ByTables

-----------------------------------------------------------------------------
(* The recursive entry.                                                     *)

\* The MMU sees the P4 table in frame q through its own recursive entry.
Loops(M, q) == M[cr3][R] = TableEntry(q) /\ M[q][R] = TableEntry(q)

\* What the MMU finds at the addresses that next_table computes for page p.
TablesSeen(M, q, p) ==
  /\ Walk(M, cr3, P4) = q
  /\ Leaf(M, cr3, P3(p)) = M[q][p[1]] /\ Walk(M, cr3, P3(p)) = T3(M, q, p)
  /\ Leaf(M, cr3, P2(p)) = EntryAt(M, T3(M, q, p), p[2])
  /\ Walk(M, cr3, P2(p)) = T2(M, q, p)
  /\ Leaf(M, cr3, P1(p)) = EntryAt(M, T2(M, q, p), p[3])
  /\ T1(M, q, p) # None => Walk(M, cr3, P1(p)) = T1(M, q, p)

\* The addresses that next_table computes are the tables of the P4 table q.
LEMMA RecursiveWalks ==
  ASSUME NEW M \in Memory, NEW use \in Uses, Tree(M, use), cr3 \in Frame,
         NEW q \in Frame, use[q] = 4, Loops(M, q), NEW p \in Ordinary
  PROVE  TablesSeen(M, q, p)
<1> DEFINE e == TableEntry(q)
           e4 == M[q][p[1]]
           e3 == EntryAt(M, T3(M, q, p), p[2])
           e2 == EntryAt(M, T2(M, q, p), p[3])
<1>1. /\ p[1] \in Index /\ p[2] \in Index /\ p[3] \in Index /\ p[1] # R
      /\ P4 = <<R, R, R, R>> /\ P3(p) = <<R, R, R, p[1]>>
      /\ P2(p) = <<R, R, p[1], p[2]>> /\ P1(p) = <<R, p[1], p[2], p[3]>>
  BY TablePages
<1>2. cr3 # None /\ q # None /\ q \in Nat /\ None \notin Frame
  BY DEF Frame, None
<1>3. M[cr3][R] = e /\ M[q][R] = e
  BY DEF Loops
<1>4. Present(e) /\ ~Huge(e) /\ e.frame = q /\ FrameIn(e) = q
  BY <1>2, EntryKinds DEF FrameIn
<1>5. \A i : EntryAt(M, cr3, R) = e /\ Below(M, e, i) = M[q][i]
  BY <1>2, <1>3, <1>4 DEF EntryAt, Below
<1>6. ~Huge(e4)
  BY <1>1 DEF Tree, Slot
<1>7. FrameIn(e4) = T3(M, q, p)
  BY <1>6, EntryKinds DEF FrameIn, T3, NextOf
<1>8. ~Huge(e3)
  <2>1. T3(M, q, p) # None => T3(M, q, p) \in Frame /\ use[T3(M, q, p)] = 3
    BY TableLevels
  <2> QED BY <1>1, <2>1, EntryKinds DEF EntryAt, Tree, Slot
<1>9. FrameIn(e3) = T2(M, q, p)
  <2> HIDE DEF e3
  <2> QED BY <1>8, EntryKinds DEF FrameIn, T2, NextOf, e3
<1>10. \A i : Below(M, e4, i) = EntryAt(M, T3(M, q, p), i) /\ Below(M, e3, i) = EntryAt(M, T2(M, q, p), i)
  <2> HIDE DEF e3, e4
  <2> QED BY <1>7, <1>9 DEF Below
<1> HIDE DEF e, e4, e3, e2
<1>11. Leaf(M, cr3, P4) = e
  BY <1>1, <1>3, <1>4, <1>5 DEF Leaf, LeafOfP3, LeafOfP2
<1>12. Leaf(M, cr3, P3(p)) = e4
  BY <1>1, <1>3, <1>4, <1>5 DEF Leaf, LeafOfP3, LeafOfP2, e4
<1>13. Leaf(M, cr3, P2(p)) = e3
  <2>1. Leaf(M, cr3, P2(p)) = LeafOfP2(M, e4, P2(p))
    BY <1>1, <1>3, <1>4, <1>5 DEF Leaf, LeafOfP3, e4
  <2> QED BY <2>1, <1>1, <1>6, <1>10 DEF LeafOfP2, e3
<1>14. Leaf(M, cr3, P1(p)) = e2
  <2>1. Leaf(M, cr3, P1(p)) = LeafOfP3(M, e4, P1(p))
    BY <1>1, <1>3, <1>4, <1>5 DEF Leaf, e4
  <2>2. LeafOfP3(M, e4, P1(p)) = LeafOfP2(M, e3, P1(p))
    BY <1>1, <1>6, <1>10 DEF LeafOfP3, e3
  <2> QED BY <2>1, <2>2, <1>1, <1>8, <1>10 DEF LeafOfP2, e2
<1>15. T1(M, q, p) # None => FrameIn(e2) = T1(M, q, p)
  BY EntryKinds DEF FrameIn, T1, NextOf, e2
<1> QED BY Zenon, <1>4, <1>7, <1>9, <1>11, <1>12, <1>13, <1>14, <1>15
       DEF TablesSeen, Walk, e4, e3, e2

\* What translate_page and next_table find through the recursive entry.
LEMMA SeenTables ==
  ASSUME NEW m, m.mem \in Memory, NEW use \in Uses, Tree(m.mem, use), cr3 \in Frame,
         NEW q \in Frame, use[q] = 4, Loops(m.mem, q), NEW p \in Ordinary
  PROVE  /\ NextTable(m, P4, p[1]) = IF T3(m.mem, q, p) # None THEN P3(p) ELSE NoTable
         /\ Read(m, P3(p), p[2]) = EntryAt(m.mem, T3(m.mem, q, p), p[2])
         /\ Read(m, P2(p), p[3]) = EntryAt(m.mem, T2(m.mem, q, p), p[3])
         /\ T3(m.mem, q, p) # None =>
              NextTable(m, P3(p), p[2]) = IF T2(m.mem, q, p) # None THEN P2(p) ELSE NoTable
         /\ T2(m.mem, q, p) # None =>
              NextTable(m, P2(p), p[3]) = IF T1(m.mem, q, p) # None THEN P1(p) ELSE NoTable
         /\ Read(m, P4, p[1]) = m.mem[q][p[1]]
         /\ T1(m.mem, q, p) # None => Read(m, P1(p), p[4]) = m.mem[T1(m.mem, q, p)][p[4]]
<1> DEFINE M == m.mem
<1>1. /\ p[1] \in Index /\ p[2] \in Index /\ p[3] \in Index /\ p[1] # R
      /\ P4 # NoTable /\ P3(p) # NoTable /\ P2(p) # NoTable /\ P1(p) # NoTable
  BY TablePages
<1>2. /\ Walk(M, cr3, P4) = q /\ Walk(M, cr3, P3(p)) = T3(M, q, p)
      /\ Walk(M, cr3, P2(p)) = T2(M, q, p)
      /\ T1(M, q, p) # None => Walk(M, cr3, P1(p)) = T1(M, q, p)
  BY ZenonT(60), RecursiveWalks DEF TablesSeen
<1>3. q # None /\ None \notin Frame
  BY DEF Frame, None
<1>4. /\ Read(m, P4, p[1]) = M[q][p[1]]
      /\ Read(m, P3(p), p[2]) = EntryAt(M, T3(M, q, p), p[2])
      /\ Read(m, P2(p), p[3]) = EntryAt(M, T2(M, q, p), p[3])
      /\ T1(M, q, p) # None => Read(m, P1(p), p[4]) = M[T1(M, q, p)][p[4]]
  BY Zenon, <1>1, <1>2, <1>3 DEF Read, EntryAt
<1>5. /\ LeadsOn(M[q][p[1]]) <=> T3(M, q, p) # None
      /\ LeadsOn(EntryAt(M, T3(M, q, p), p[2])) <=> T2(M, q, p) # None
      /\ LeadsOn(EntryAt(M, T2(M, q, p), p[3])) <=> T1(M, q, p) # None
  <2>1. \A t \in Frame, i \in Index : use[t] \in 2 .. 4 /\ (use[t] = 4 => i # R) /\ LeadsOn(M[t][i])
          => M[t][i].frame \in Frame
    BY Zenon DEF Tree, Slot
  <2>2. \A e : LeadsOn(e) /\ e.frame \in Frame => NextOf(e) # None
    BY <1>3 DEF NextOf
  <2>3. \A e : NextOf(e) # None => LeadsOn(e)
    BY DEF NextOf
  <2>4. LeadsOn(M[q][p[1]]) <=> T3(M, q, p) # None
    BY <1>1, <2>1, <2>2, <2>3 DEF T3
  <2>5. LeadsOn(EntryAt(M, T3(M, q, p), p[2])) <=> T2(M, q, p) # None
    <3>1. T3(M, q, p) # None => T3(M, q, p) \in Frame /\ use[T3(M, q, p)] = 3
      BY TableLevels
    <3> QED BY <1>1, <2>1, <2>2, <2>3, <3>1, EntryKinds DEF T2, EntryAt
  <2>6. LeadsOn(EntryAt(M, T2(M, q, p), p[3])) <=> T1(M, q, p) # None
    <3>1. T2(M, q, p) # None => T2(M, q, p) \in Frame /\ use[T2(M, q, p)] = 2
      BY TableLevels
    <3> QED BY <1>1, <2>1, <2>2, <2>3, <3>1, EntryKinds DEF T1, EntryAt
  <2> QED BY Zenon, <2>4, <2>5, <2>6
<1> QED BY Zenon, <1>4, <1>5 DEF NextTable, P3, P2, P1

\* translate_page, which reads tables at the addresses below the recursive
\* entry, finds what the MMU finds walking from root q, the one that entry
\* names: the active table, or the inactive one inside of with().
THEOREM TranslateIsWalk ==
  ASSUME NEW m, m.mem \in Memory, NEW use \in Uses, Tree(m.mem, use), cr3 \in Frame,
         NEW q \in Frame, use[q] = 4, Loops(m.mem, q), NEW p \in Ordinary
  PROVE  TranslatePage(m, p) = Walk(m.mem, q, p)
<1> DEFINE M == m.mem
           t3 == T3(M, q, p)
           t2 == T2(M, q, p)
           t1 == T1(M, q, p)
           n3 == NextTable(m, P4, p[1])
           n2 == NextTable(m, n3, p[2])
           n1 == NextTable(m, n2, p[3])
           r3 == Read(m, n3, p[2])
           r2 == Read(m, n2, p[3])
           r1 == Read(m, n1, p[4])
<1>1. /\ t3 # None => t3 \in Frame /\ use[t3] = 3
      /\ t2 # None => t2 \in Frame /\ use[t2] = 2 /\ t3 # None
      /\ t1 # None => t1 \in Frame /\ use[t1] = 1 /\ t2 # None
  BY TableLevels
<1>2. \A i : Read(m, NoTable, i) = Unused /\ NextTable(m, NoTable, i) = NoTable
  BY EntryKinds DEF Read, NextTable
<1>3. /\ n3 = IF t3 # None THEN P3(p) ELSE NoTable
      /\ t3 # None => NextTable(m, P3(p), p[2]) = IF t2 # None THEN P2(p) ELSE NoTable
      /\ t2 # None => NextTable(m, P2(p), p[3]) = IF t1 # None THEN P1(p) ELSE NoTable
      /\ Read(m, P3(p), p[2]) = EntryAt(M, t3, p[2])
      /\ Read(m, P2(p), p[3]) = EntryAt(M, t2, p[3])
      /\ t1 # None => Read(m, P1(p), p[4]) = M[t1][p[4]]
  BY Zenon, SeenTables
<1>4. p[2] \in Index /\ p[3] \in Index /\ p[4] \in Index
  BY TablePages
<1> HIDE DEF t3, t2, t1, n3, M
<1>5. /\ n2 = IF t2 # None THEN P2(p) ELSE NoTable
      /\ r3 = EntryAt(M, t3, p[2])
  BY Zenon, <1>1, <1>2, <1>3 DEF EntryAt
<1> HIDE DEF n2, r3
<1>6. /\ n1 = IF t1 # None THEN P1(p) ELSE NoTable
      /\ r2 = EntryAt(M, t2, p[3])
  BY Zenon, <1>1, <1>2, <1>3, <1>5 DEF EntryAt
<1> HIDE DEF n1, r2
<1>7. r1 = IF t1 # None THEN M[t1][p[4]] ELSE Unused
  BY Zenon, <1>2, <1>3, <1>6
<1> HIDE DEF r1
<1>8. TranslatePage(m, p) = IF Present(r1) THEN r1.frame
                            ELSE IF Huge(r3) THEN r3.frame + p[3] * ENTRY_COUNT + p[4]
                            ELSE IF Huge(r2) THEN r2.frame + p[4] ELSE None
  BY Zenon DEF TranslatePage, n3, n2, n1, r3, r2, r1
<1>9. ~Huge(r3)
  BY <1>1, <1>4, <1>5, EntryKinds DEF EntryAt, Tree, Slot, M
<1>10. CASE t1 # None
  <2>1. Leaf(M, q, p) = r1 /\ LeadsOn(EntryAt(M, t2, p[3]))
    BY Zenon, <1>10, <1>7, LeafByTables DEF ByTables, M, t1, T1, NextOf, t2
  <2>2. ~Huge(r2)
    BY <2>1, <1>6, EntryKinds
  <2> QED BY <2>1, <2>2, <1>8, <1>9 DEF Walk, FrameIn, M
<1>11. CASE t1 = None /\ t2 # None /\ Huge(M[t2][p[3]])
  <2>1. Leaf(M, q, p) = [M[t2][p[3]] EXCEPT !.frame = @ + p[4]] /\ Present(Leaf(M, q, p))
    BY Zenon, <1>11, LeafByTables DEF ByTables, M, t1, t2
  <2>2. r2 = M[t2][p[3]] /\ Huge(r2) /\ r1 = Unused /\ r2 \in Entry
    BY <1>11, <1>1, <1>4, <1>6, <1>7 DEF EntryAt, M, Memory
  <2>3. Leaf(M, q, p).frame = r2.frame + p[4]
    BY <2>1, <2>2 DEF Entry
  <2> QED BY Zenon, <2>1, <2>2, <2>3, <1>8, <1>9, EntryKinds DEF Walk, FrameIn, M
<1>12. CASE t1 = None /\ (t2 = None \/ ~Huge(M[t2][p[3]]))
  <2>1. Leaf(M, q, p) = Unused
    BY ZenonT(60), <1>12, LeafByTables DEF ByTables, M, t1, t2
  <2>2. ~Huge(r2) /\ r1 = Unused
    BY <1>12, <1>6, <1>7, EntryKinds DEF EntryAt
  <2> QED BY <2>1, <2>2, <1>8, <1>9, EntryKinds DEF Walk, FrameIn, M
<1> QED BY Zenon, <1>10, <1>11, <1>12

\* The tables translate_page looks at are there.
LEMMA SeenAreTables ==
  ASSUME NEW m, m.mem \in Memory, NEW use \in Uses, Tree(m.mem, use), cr3 \in Frame,
         NEW q \in Frame, use[q] = 4, Loops(m.mem, q), NEW p \in Ordinary
  PROVE  /\ \A t \in Seen(m, p) : Walk(m.mem, cr3, t) \in Frame
         /\ Seen(m, p) \subseteq {P4, P3(p), P2(p), P1(p)}
         /\ P1(p) \in Seen(m, p) <=> T1(m.mem, q, p) # None
<1> DEFINE M == m.mem
           t3 == T3(M, q, p)
           t2 == T2(M, q, p)
           t1 == T1(M, q, p)
           n3 == NextTable(m, P4, p[1])
           n2 == NextTable(m, n3, p[2])
           n1 == NextTable(m, n2, p[3])
<1>1. /\ t3 # None => t3 \in Frame
      /\ t2 # None => t2 \in Frame /\ t3 # None
      /\ t1 # None => t1 \in Frame /\ t2 # None
  BY TableLevels
<1>2. \A i : NextTable(m, NoTable, i) = NoTable
  BY EntryKinds DEF Read, NextTable
<1>3. /\ n3 = IF t3 # None THEN P3(p) ELSE NoTable
      /\ t3 # None => NextTable(m, P3(p), p[2]) = IF t2 # None THEN P2(p) ELSE NoTable
      /\ t2 # None => NextTable(m, P2(p), p[3]) = IF t1 # None THEN P1(p) ELSE NoTable
  BY Zenon, SeenTables
<1>4. /\ Walk(M, cr3, P4) = q /\ Walk(M, cr3, P3(p)) = t3 /\ Walk(M, cr3, P2(p)) = t2
      /\ t1 # None => Walk(M, cr3, P1(p)) = t1
  BY ZenonT(60), RecursiveWalks DEF TablesSeen
<1>5. /\ P3(p) # NoTable /\ P2(p) # NoTable /\ P1(p) # NoTable /\ P4 # NoTable
      /\ P1(p) # P4 /\ P1(p) # P3(p) /\ P1(p) # P2(p)
  BY TablePages
<1> HIDE DEF t3, t2, t1, n3, M
<1>6. n2 = IF t2 # None THEN P2(p) ELSE NoTable
  BY <1>1, <1>2, <1>3
<1> HIDE DEF n2
<1>7. n1 = IF t1 # None THEN P1(p) ELSE NoTable
  BY <1>1, <1>2, <1>3, <1>6
<1> HIDE DEF n1
<1>8. Seen(m, p) = {P4, n3, n2, n1} \ {NoTable}
  BY DEF Seen, n3, n2, n1
<1>9. \A t \in Seen(m, p) : Walk(M, cr3, t) \in Frame
  BY <1>1, <1>3, <1>4, <1>6, <1>7, <1>8
<1>10. Seen(m, p) \subseteq {P4, P3(p), P2(p), P1(p)}
  BY <1>3, <1>6, <1>7, <1>8
<1>11. P1(p) \in Seen(m, p) <=> t1 # None
  BY <1>3, <1>5, <1>6, <1>7, <1>8
<1> QED BY <1>9, <1>10, <1>11 DEF M, t1

-----------------------------------------------------------------------------
(* Memory that changes.                                                     *)

\* The entries that are present in the tables K stay as they are.
Keeps(M, N, K) == \A t \in K, i \in Index : Present(M[t][i]) => N[t][i] = M[t][i]

\* Frames that hold tables, and those that hold tables of tables.
TableFrames(use) == {t \in Frame : use[t] \in 1 .. 4}
UpperTables(use) == {t \in Frame : use[t] \in 2 .. 4}

\* A walk that succeeds goes through present entries only: it stays as it is
\* when the tables on its way keep theirs.
LEMMA WalkKept ==
  ASSUME NEW M \in Memory, NEW N \in Memory, NEW K \in SUBSET Frame, Keeps(M, N, K),
         NEW x \in Page, NEW r \in K, Walk(M, r, x) # None,
         Present(M[r][x[1]]) => M[r][x[1]].frame \in K,
         LeadsOn(Below(M, M[r][x[1]], x[2])) => Below(M, M[r][x[1]], x[2]).frame \in K,
         LeadsOn(Below(M, Below(M, M[r][x[1]], x[2]), x[3]))
           => Below(M, Below(M, M[r][x[1]], x[2]), x[3]).frame \in K
  PROVE  Leaf(N, r, x) = Leaf(M, r, x)
<1> DEFINE e4 == M[r][x[1]]
           e3 == Below(M, e4, x[2])
           e2 == Below(M, e3, x[3])
<1>1. x[1] \in Index /\ x[2] \in Index /\ x[3] \in Index /\ x[4] \in Index
  BY Zenon DEF Page
<1>2. r # None /\ None \notin K
  BY DEF Frame, None
<1>3. \A i : Below(M, Unused, i) = Unused /\ Below(N, Unused, i) = Unused
  BY Zenon, EntryKinds DEF Below, FrameIn, EntryAt
<1>4. \A e : ~Present(e) => \A i : Below(M, e, i) = Unused
  BY Zenon DEF Below, FrameIn, EntryAt
<1>5. \A e, i : Present(e) /\ e.frame \in K => Below(M, e, i) = M[e.frame][i] /\ Below(N, e, i) = N[e.frame][i]
  BY Zenon, <1>2 DEF Below, FrameIn, EntryAt
<1>6. Leaf(M, r, x) = LeafOfP3(M, e3, x) /\ EntryAt(N, r, x[1]) = N[r][x[1]]
  BY Zenon, <1>2 DEF Leaf, EntryAt
<1>7. Present(Leaf(M, r, x))
  BY Zenon DEF Walk, FrameIn
<1>8. Present(e2) \/ Huge(e3)
  <2> HIDE DEF e2, e3
  <2> QED BY <1>4, <1>6, <1>7, EntryKinds DEF LeafOfP3, LeafOfP2, e2
<1>9. Present(e3)
  <2> HIDE DEF e3
  <2> QED BY Zenon, <1>8, <1>4, EntryKinds
<1>10. Present(e4)
  <2> HIDE DEF e4
  <2> QED BY Zenon, <1>9, <1>4, EntryKinds
<1>11. N[r][x[1]] = e4
  BY Zenon, <1>10, <1>1 DEF Keeps
<1>12. Below(N, e4, x[2]) = e3
  BY <1>10, <1>9, <1>5, <1>1 DEF Keeps
<1>13. Leaf(N, r, x) = LeafOfP3(N, e3, x)
  <2> HIDE DEF e3, e4
  <2> QED BY Zenon, <1>6, <1>11, <1>12 DEF Leaf
<1>14. CASE Huge(e3)
  <2> HIDE DEF e3
  <2> QED BY <1>14, <1>6, <1>13 DEF LeafOfP3
<1>15. CASE ~Huge(e3)
  <2>1. LeadsOn(e3) /\ e3.frame \in K /\ Present(e2)
    BY Zenon, <1>15, <1>8, <1>9, EntryKinds
  <2>2. e2 = M[e3.frame][x[3]] /\ Below(N, e3, x[3]) = N[e3.frame][x[3]]
    <3> HIDE DEF e3
    <3> QED BY Zenon, <2>1, <1>9, <1>5
  <2>3. Below(N, e3, x[3]) = e2
    <3> HIDE DEF e3, e2
    <3> QED BY Zenon, <2>1, <2>2, <1>1 DEF Keeps
  <2>4. Leaf(M, r, x) = LeafOfP2(M, e2, x) /\ Leaf(N, r, x) = LeafOfP2(N, e2, x)
    <3> HIDE DEF e3
    <3> QED BY <2>3, <1>15, <1>6, <1>13 DEF LeafOfP3, e2
  <2>5. CASE Huge(e2)
    <3> HIDE DEF e2
    <3> QED BY <2>4, <2>5 DEF LeafOfP2
  <2>6. CASE ~Huge(e2)
    <3>1. LeadsOn(e2) /\ e2.frame \in K
      BY Zenon, <2>1, <2>6, EntryKinds
    <3> HIDE DEF e2
    <3>2. /\ Leaf(M, r, x) = M[e2.frame][x[4]]
          /\ Leaf(N, r, x) = N[e2.frame][x[4]]
      BY <3>1, <2>1, <2>4, <2>6, <1>5 DEF LeafOfP2
    <3> QED BY Zenon, <3>1, <3>2, <1>7, <1>1 DEF Keeps
  <2> QED BY Zenon, <2>5, <2>6
<1> QED BY Zenon, <1>14, <1>15

\* The same for the pages of the kernel and root r.
LEMMA OrdinaryKept ==
  ASSUME NEW M \in Memory, NEW N \in Memory, NEW use \in Uses, Tree(M, use),
         Keeps(M, N, TableFrames(use)), NEW r \in Frame, use[r] = 4, NEW p \in Ordinary,
         Walk(M, r, p) # None
  PROVE  Leaf(N, r, p) = Leaf(M, r, p)
<1> DEFINE K == TableFrames(use)
           e4 == M[r][p[1]]
           e3 == Below(M, e4, p[2])
           e2 == Below(M, e3, p[3])
<1>1. p \in Page /\ p[1] \in Index /\ p[2] \in Index /\ p[3] \in Index /\ p[1] # R
  BY TablePages
<1>2. /\ K \in SUBSET Frame /\ r \in K /\ None \notin Frame
      /\ \A t \in Frame : use[t] = 1 \/ use[t] = 2 \/ use[t] = 3 => t \in K
  BY DEF TableFrames, Frame, None
<1> HIDE DEF K
<1>0. Levels(M, use)
  BY Zenon, TreeLevels
<1>3. ~Huge(e4)
  BY Zenon, <1>0, <1>1 DEF Levels
<1>4. Present(e4) => e4.frame \in Frame /\ use[e4.frame] = 3
  BY Zenon, <1>0, <1>1, <1>3, EntryKinds DEF Levels
<1>5. ASSUME LeadsOn(e3) PROVE e3.frame \in Frame /\ use[e3.frame] = 2
  <2>1. Present(e4)
    BY Zenon, <1>5, EntryKinds DEF Below, FrameIn, EntryAt
  <2>2. e3 = M[e4.frame][p[2]]
    BY Zenon, <2>1, <1>2, <1>4 DEF Below, FrameIn, EntryAt
  <2>3. e4.frame \in Frame /\ use[e4.frame] = 3 /\ LeadsOn(M[e4.frame][p[2]])
    BY Zenon, <2>1, <2>2, <1>4, <1>5
  <2> HIDE DEF e3, e4
  <2> QED BY Zenon, <2>2, <2>3, <1>0, <1>1 DEF Levels
<1>6. ASSUME LeadsOn(e2) PROVE e2.frame \in Frame /\ use[e2.frame] = 1
  <2>1. Present(e3)
    BY Zenon, <1>6, EntryKinds DEF Below, FrameIn, EntryAt
  <2>2. Present(e4)
    BY Zenon, <2>1, EntryKinds DEF Below, FrameIn, EntryAt
  <2>3. e3 = M[e4.frame][p[2]]
    BY Zenon, <2>2, <1>2, <1>4 DEF Below, FrameIn, EntryAt
  <2>4. ~Huge(e3)
    <3> HIDE DEF e3, e4
    <3> QED BY Zenon, <2>2, <2>3, <1>0, <1>1, <1>4 DEF Levels
  <2>5. e3.frame \in Frame /\ use[e3.frame] = 2
    BY Zenon, <2>1, <2>4, <1>5, EntryKinds
  <2> HIDE DEF e3
  <2>6. e2 = M[e3.frame][p[3]]
    BY Zenon, <2>1, <2>5, <1>2 DEF Below, FrameIn, EntryAt
  <2> HIDE DEF e2
  <2> QED BY Zenon, <2>5, <2>6, <1>0, <1>1, <1>6 DEF Levels
<1>7. /\ Present(e4) => e4.frame \in K
      /\ LeadsOn(e3) => e3.frame \in K
      /\ LeadsOn(e2) => e2.frame \in K
  BY Zenon, <1>2, <1>4, <1>5, <1>6
<1> QED BY ZenonT(60), <1>1, <1>2, <1>7, WalkKept DEF K

\* The same for the pages at which tables are seen; they depend on the tables
\* above the P1 tables only.
LEMMA TableViewKept ==
  ASSUME NEW M \in Memory, NEW N \in Memory, NEW use \in Uses, Tree(M, use),
         Keeps(M, N, UpperTables(use)), cr3 \in Frame, use[cr3] = 4,
         NEW q \in Frame, use[q] = 4, Loops(M, q), NEW p \in Ordinary,
         NEW x \in {P4, P3(p), P2(p), P1(p)}, Walk(M, cr3, x) # None
  PROVE  Leaf(N, cr3, x) = Leaf(M, cr3, x)
<1> DEFINE K == UpperTables(use)
           e4 == M[cr3][x[1]]
           e3 == Below(M, e4, x[2])
           e2 == Below(M, e3, x[3])
<1>1. /\ p[1] \in Index /\ p[2] \in Index /\ p[3] \in Index /\ p[1] # R
      /\ P4 = <<R, R, R, R>> /\ P3(p) = <<R, R, R, p[1]>>
      /\ P2(p) = <<R, R, p[1], p[2]>> /\ P1(p) = <<R, p[1], p[2], p[3]>>
      /\ x \in Page
  BY Zenon, TablePages
<1>2. /\ K \in SUBSET Frame /\ cr3 \in K /\ q \in K /\ None \notin Frame /\ q \in Nat
      /\ \A t \in Frame : use[t] = 2 \/ use[t] = 3 => t \in K
  BY DEF UpperTables, Frame, None
<1> HIDE DEF K
<1>0. Levels(M, use)
  BY Zenon, TreeLevels
<1>3. x[1] = R /\ e4 = TableEntry(q)
  BY <1>1 DEF Loops
<1>4. Present(e4) /\ e4.frame = q /\ \A i : Below(M, e4, i) = M[q][i]
  <2>1. Present(TableEntry(q)) /\ ~Huge(TableEntry(q)) /\ TableEntry(q).frame = q
    BY Zenon, <1>2, EntryKinds
  <2>2. q # None
    BY Zenon, <1>2
  <2> HIDE DEF e4
  <2> QED BY Zenon, <2>1, <2>2, <1>3 DEF Below, FrameIn, EntryAt
<1>5. e3 = M[q][x[2]]
  BY Zenon, <1>4
<1>6. x[2] = R => e3 = TableEntry(q)
  BY Zenon, <1>5 DEF Loops
<1>7. x[2] # R => x[2] = p[1] /\ x[3] = p[2]
  BY <1>1
<1>8. x[2] = R => e2 = M[q][x[3]] /\ x[3] \in {R, p[1]}
  <2>1. x[2] = R => x[3] \in {R, p[1]}
    BY <1>1
  <2>2. Below(M, TableEntry(q), x[3]) = M[q][x[3]]
    BY Zenon, <1>3, <1>4
  <2> QED BY Zenon, <2>1, <2>2, <1>6
<1>9. ASSUME LeadsOn(e3) PROVE e3.frame \in K
  <2>1. CASE x[2] = R
    BY Zenon, <2>1, <1>2, <1>6, EntryKinds
  <2>2. CASE x[2] # R
    <3>1. e3.frame \in Frame /\ use[e3.frame] = 3
      <4> HIDE DEF e3
      <4> QED BY Zenon, <2>2, <1>0, <1>1, <1>5, <1>7, <1>9 DEF Levels
    <3> QED BY Zenon, <3>1, <1>2
  <2> QED BY Zenon, <2>1, <2>2
<1>10. ASSUME LeadsOn(e2) PROVE e2.frame \in K
  <2>1. CASE x[2] = R /\ x[3] = R
    <3>1. e2 = TableEntry(q)
      BY Zenon, <2>1, <1>8 DEF Loops
    <3> QED BY Zenon, <3>1, <1>2, EntryKinds
  <2>2. CASE x[2] = R /\ x[3] = p[1]
    <3>1. e2.frame \in Frame /\ use[e2.frame] = 3
      <4>1. e2 = M[q][p[1]]
        BY Zenon, <2>2, <1>8
      <4> HIDE DEF e2
      <4>2. LeadsOn(M[q][p[1]])
        BY Zenon, <4>1, <1>10
      <4> QED BY Zenon, <4>1, <4>2, <1>0, <1>1 DEF Levels
    <3> QED BY Zenon, <3>1, <1>2
  <2>3. CASE x[2] # R
    <3>1. e3 = M[q][p[1]] /\ ~Huge(e3)
      <4> HIDE DEF e3
      <4> QED BY Zenon, <2>3, <1>0, <1>1, <1>5, <1>7 DEF Levels
    <3>2. Present(e3)
      <4> HIDE DEF e3
      <4> QED BY Zenon, <1>10, EntryKinds DEF Below, FrameIn, EntryAt
    <3>3. e3.frame \in Frame /\ use[e3.frame] = 3
      <4> HIDE DEF e3
      <4> QED BY Zenon, <3>1, <3>2, <1>0, <1>1, EntryKinds DEF Levels
    <3>4. e2 = M[e3.frame][p[2]]
      <4> HIDE DEF e3
      <4> QED BY Zenon, <3>2, <3>3, <2>3, <1>2, <1>7 DEF Below, FrameIn, EntryAt
    <3>5. e2.frame \in Frame /\ use[e2.frame] = 2
      <4> HIDE DEF e3, e2
      <4> QED BY Zenon, <3>3, <3>4, <1>0, <1>1, <1>10 DEF Levels
    <3> QED BY Zenon, <3>5, <1>2
  <2> QED BY Zenon, <2>1, <2>2, <2>3, <1>8
<1>11. /\ Present(e4) => e4.frame \in K
       /\ LeadsOn(e3) => e3.frame \in K
       /\ LeadsOn(e2) => e2.frame \in K
  <2> HIDE DEF e4, e3, e2
  <2> QED BY Zenon, <1>2, <1>4, <1>9, <1>10
<1> QED BY ZenonT(60), <1>1, <1>2, <1>11, WalkKept DEF K

-----------------------------------------------------------------------------
(* What a new table, a new mapping and other stores do to the tables.       *)

\* N is M with a new, empty table in frame f, linked from entry i of table t.
Linked(M, N, t, i, f) ==
  /\ N[t][i] = TableEntry(f)
  /\ \A j \in Index : N[f][j] = Unused
  /\ \A u \in Frame, j \in Index : u # f /\ ~(u = t /\ j = i) => N[u][j] = M[u][j]

\* The tables are a tree with the new table.
LEMMA LinkTree ==
  ASSUME NEW M \in Memory, NEW N \in Memory, NEW use \in Uses, Tree(M, use),
         NEW t \in Frame, NEW i \in Index, Slot(use, t, i), M[t][i] = Unused,
         NEW f \in Frame, use[f] = 0, Linked(M, N, t, i, f)
  PROVE  Tree(N, [use EXCEPT ![f] = use[t] - 1]) /\ [use EXCEPT ![f] = use[t] - 1] \in Uses
<1> DEFINE use2 == [use EXCEPT ![f] = use[t] - 1]
<1>1. use[t] \in 2 .. 4 /\ t # f /\ f \in Nat
  BY DEF Slot, Frame
<1>2. use2 \in Uses /\ use2[f] = use[t] - 1 /\ \A u \in Frame : u # f => use2[u] = use[u]
  BY <1>1 DEF Uses
<1>3. LeadsOn(TableEntry(f)) /\ ~Huge(TableEntry(f)) /\ TableEntry(f).frame = f
      /\ Present(TableEntry(f)) /\ ~LeadsOn(Unused) /\ ~Huge(Unused)
  BY Zenon, <1>1, EntryKinds
<1>4. \A u \in Frame, j \in Index : \/ u = f /\ N[u][j] = Unused
                                    \/ u = t /\ j = i /\ u # f /\ N[u][j] = TableEntry(f)
                                    \/ u # f /\ ~(u = t /\ j = i) /\ N[u][j] = M[u][j]
  BY <1>1 DEF Linked
<1> HIDE DEF use2
<1>5. \A u \in Frame, j \in Index : use2[u] \in 1 .. 4 => Present(N[u][j]) \/ N[u][j] = Unused
  BY <1>2, <1>3, <1>4 DEF Tree
<1>6. \A u \in Frame, j \in Index : Slot(use2, u, j) /\ Huge(N[u][j]) => use2[u] = 2
  BY <1>2, <1>3, <1>4 DEF Tree, Slot
<1>7. ASSUME NEW u \in Frame, NEW j \in Index, Slot(use2, u, j), LeadsOn(N[u][j])
      PROVE  N[u][j].frame \in Frame /\ use2[N[u][j].frame] = use2[u] - 1
  <2>1. CASE u = t /\ j = i
    BY Zenon, <2>1, <1>1, <1>2, <1>3, <1>4
  <2>2. CASE u # f /\ ~(u = t /\ j = i)
    <3>1. M[u][j].frame \in Frame /\ use[M[u][j].frame] = use[u] - 1 /\ N[u][j] = M[u][j]
      BY ZenonT(60), <2>2, <1>2, <1>4, <1>7 DEF Tree, Slot
    <3>2. use[u] - 1 # 0 /\ use2[u] = use[u]
      BY <2>2, <1>2, <1>7 DEF Slot, Uses
    <3> QED BY Zenon, <3>1, <3>2, <1>2
  <2> QED BY Zenon, <2>1, <2>2, <1>3, <1>4, <1>7
<1>8. ASSUME NEW u \in Frame, NEW j \in Index, Slot(use2, u, j), LeadsOn(N[u][j]),
             ~(u = t /\ j = i)
      PROVE  /\ N[u][j] = M[u][j] /\ Slot(use, u, j) /\ LeadsOn(M[u][j])
             /\ N[u][j].frame # f
  <2>1. N[u][j] = M[u][j] /\ u # f
    BY Zenon, <1>3, <1>4, <1>8
  <2>2. Slot(use, u, j)
    BY Zenon, <2>1, <1>2, <1>8 DEF Slot
  <2>3. use[M[u][j].frame] = use[u] - 1
    BY Zenon, <2>1, <2>2, <1>8 DEF Tree
  <2>4. use[u] - 1 # 0
    BY <2>2 DEF Slot, Uses
  <2> QED BY Zenon, <2>1, <2>2, <2>3, <2>4, <1>8
<1>9. ASSUME NEW u \in Frame, NEW v \in Frame, NEW j \in Index, NEW k \in Index,
             Slot(use2, u, j), LeadsOn(N[u][j]), Slot(use2, v, k), LeadsOn(N[v][k]),
             N[u][j].frame = N[v][k].frame
      PROVE  u = v /\ j = k
  <2>1. N[t][i].frame = f
    BY Zenon, <1>1, <1>3, <1>4
  <2>2. CASE u = t /\ j = i
    BY Zenon, <2>1, <2>2, <1>8, <1>9
  <2>3. CASE v = t /\ k = i
    BY Zenon, <2>1, <2>3, <1>8, <1>9
  <2>4. CASE ~(u = t /\ j = i) /\ ~(v = t /\ k = i)
    <3>1. /\ Slot(use, u, j) /\ LeadsOn(M[u][j]) /\ Slot(use, v, k) /\ LeadsOn(M[v][k])
          /\ M[u][j].frame = M[v][k].frame
      BY Zenon, <2>4, <1>8, <1>9
    <3> QED BY Zenon, <3>1 DEF Tree
  <2> QED BY <2>2, <2>3, <2>4
<1>10. Tree(N, use2)
  BY Zenon, <1>5, <1>6, <1>7, <1>9 DEF Tree
<1> QED BY <1>2, <1>10 DEF use2

\* No page is mapped or unmapped by it.
LEMMA LinkLeaf ==
  ASSUME NEW M \in Memory, NEW N \in Memory, NEW use \in Uses, Tree(M, use),
         NEW t \in Frame, NEW i \in Index, Slot(use, t, i), M[t][i] = Unused,
         NEW f \in Frame, use[f] = 0, Linked(M, N, t, i, f),
         NEW r \in Frame, use[r] = 4, NEW p \in Ordinary
  PROVE  Leaf(N, r, p) = Leaf(M, r, p)
<1> DEFINE use2 == [use EXCEPT ![f] = use[t] - 1]
<1>1. Tree(N, use2) /\ use2 \in Uses
  BY LinkTree
<1>2. use[t] \in 2 .. 4 /\ t # f /\ f \in Nat /\ f # None /\ r # f /\ use2[r] = 4
  BY DEF Slot, Frame, None, Uses
<1>3. p[1] \in Index /\ p[2] \in Index /\ p[3] \in Index /\ p[4] \in Index
  BY TablePages
<1>4. NextOf(Unused) = None /\ NextOf(TableEntry(f)) = f /\ ~Huge(Unused) /\ ~Huge(TableEntry(f))
  BY Zenon, <1>2, EntryKinds DEF NextOf
<1>5. \A u \in Frame, j \in Index : u # f /\ ~(u = t /\ j = i) => N[u][j] = M[u][j]
  BY DEF Linked
<1>6. N[t][i] = TableEntry(f) /\ \A j \in Index : N[f][j] = Unused
  BY DEF Linked
<1> DEFINE m3 == T3(M, r, p)  m2 == T2(M, r, p)  m1 == T1(M, r, p)
           n3 == T3(N, r, p)  n2 == T2(N, r, p)  n1 == T1(N, r, p)
<1>7. /\ m3 # None => m3 \in Frame /\ use[m3] = 3 /\ m3 # f
      /\ m2 # None => m2 \in Frame /\ use[m2] = 2 /\ m3 # None /\ m2 # f
      /\ m1 # None => m1 \in Frame /\ use[m1] = 1 /\ m2 # None /\ m1 # f
  BY TableLevels
<1> HIDE DEF use2
<1>8. ByTables(M, Leaf(M, r, p), p, m2, m1)
  BY Zenon, LeafByTables
<1>9. ByTables(N, Leaf(N, r, p), p, n2, n1)
  BY Zenon, <1>1, <1>2, LeafByTables
<1>10. /\ m3 = NextOf(M[r][p[1]]) /\ n3 = NextOf(N[r][p[1]])
       /\ m2 = NextOf(EntryAt(M, m3, p[2])) /\ n2 = NextOf(EntryAt(N, n3, p[2]))
       /\ m1 = NextOf(EntryAt(M, m2, p[3])) /\ n1 = NextOf(EntryAt(N, n2, p[3]))
  BY Zenon DEF T3, T2, T1
<1>11. \A j : EntryAt(M, None, j) = Unused /\ EntryAt(N, None, j) = Unused
  BY Zenon DEF EntryAt
<1>12. \A u : u # None => \A j : EntryAt(M, u, j) = M[u][j] /\ EntryAt(N, u, j) = N[u][j]
  BY Zenon DEF EntryAt
<1> HIDE DEF m3, m2, m1, n3, n2, n1
<1>13. CASE r = t /\ p[1] = i
  <2>1. m3 = None /\ n3 = f
    BY Zenon, <1>13, <1>4, <1>6, <1>10
  <2>2. m2 = None /\ n2 = None
    <3>1. EntryAt(M, m3, p[2]) = Unused /\ EntryAt(N, n3, p[2]) = Unused
      BY <2>1, <1>2, <1>3, <1>6, <1>11, <1>12
    <3> QED BY <3>1, <1>4, <1>10
  <2>3. m1 = None /\ n1 = None
    BY Zenon, <2>2, <1>4, <1>10, <1>11
  <2> QED BY Zenon, <2>2, <2>3, <1>8, <1>9 DEF ByTables
<1>14. CASE ~(r = t /\ p[1] = i) /\ m3 = None
  <2>1. n3 = None
    BY Zenon, <1>14, <1>2, <1>3, <1>5, <1>10
  <2>2. m2 = None /\ n2 = None
    BY Zenon, <2>1, <1>14, <1>4, <1>10, <1>11
  <2>3. m1 = None /\ n1 = None
    BY Zenon, <2>2, <1>4, <1>10, <1>11
  <2> QED BY Zenon, <2>2, <2>3, <1>8, <1>9 DEF ByTables
<1>15. CASE ~(r = t /\ p[1] = i) /\ m3 # None
  <2>1. n3 = m3
    BY Zenon, <1>15, <1>2, <1>3, <1>5, <1>10
  <2>2. CASE m3 = t /\ p[2] = i
    <3>1. m2 = None /\ n2 = f
      <4>1. EntryAt(M, m3, p[2]) = M[t][i] /\ EntryAt(N, n3, p[2]) = N[t][i]
        BY ZenonT(60), <2>1, <2>2, <1>15, <1>12
      <4> QED BY Zenon, <4>1, <1>4, <1>6, <1>10
    <3>2. m1 = None /\ n1 = None /\ ~Huge(N[n2][p[3]])
      <4>1. EntryAt(M, m2, p[3]) = Unused /\ EntryAt(N, n2, p[3]) = Unused /\ N[n2][p[3]] = Unused
        <5>1. EntryAt(M, m2, p[3]) = Unused
          BY Zenon, <3>1, <1>11
        <5>2. N[n2][p[3]] = Unused
          BY Zenon, <3>1, <1>3, <1>6
        <5>3. EntryAt(N, n2, p[3]) = N[n2][p[3]]
          BY ZenonT(60), <3>1, <1>2, <1>12
        <5> QED BY Zenon, <5>1, <5>2, <5>3
      <4> QED BY Zenon, <4>1, <1>4, <1>10
    <3> QED BY Zenon, <1>2, <3>1, <3>2, <1>8, <1>9 DEF ByTables
  <2>3. CASE ~(m3 = t /\ p[2] = i)
    <3>1. n2 = m2
      <4>3. m3 \in Frame /\ m3 # f
        BY Zenon, <1>15, <1>7
      <4>1. N[m3][p[2]] = M[m3][p[2]]
        BY Zenon, <2>3, <1>3, <1>5, <4>3
      <4>2. EntryAt(N, n3, p[2]) = EntryAt(M, m3, p[2])
        BY <4>1, <2>1, <1>15, <1>12
      <4> QED BY Zenon, <4>2, <1>10
    <3>2. CASE m2 = None
      <4>1. m1 = None /\ n1 = None
        BY ZenonT(60), <3>1, <3>2, <1>4, <1>10, <1>11
      <4> QED BY Zenon, <4>1, <3>1, <3>2, <1>8, <1>9 DEF ByTables
    <3>3. CASE m2 # None /\ m2 = t /\ p[3] = i
      <4>1. m1 = None /\ n1 = f /\ ~Huge(M[m2][p[3]])
        <5>1. /\ EntryAt(M, m2, p[3]) = M[t][i] /\ EntryAt(N, n2, p[3]) = N[t][i]
              /\ M[m2][p[3]] = M[t][i]
          BY ZenonT(60), <3>1, <3>3, <1>12
        <5> QED BY Zenon, <5>1, <1>4, <1>6, <1>10
      <4> QED BY Zenon, <4>1, <1>2, <1>3, <1>6, <1>8, <1>9 DEF ByTables
    <3>4. CASE m2 # None /\ ~(m2 = t /\ p[3] = i)
      <4>1. N[m2][p[3]] = M[m2][p[3]] /\ n1 = m1
        <5>3. m2 \in Frame /\ m2 # f
          BY Zenon, <3>4, <1>7
        <5>1. N[m2][p[3]] = M[m2][p[3]]
          BY Zenon, <3>4, <1>3, <1>5, <5>3
        <5>2. EntryAt(N, n2, p[3]) = EntryAt(M, m2, p[3])
          BY <5>1, <3>1, <3>4, <1>12
        <5> QED BY Zenon, <5>1, <5>2, <1>10
      <4>2. m1 # None => N[m1][p[4]] = M[m1][p[4]]
        <5>1. m1 # None => m1 # t /\ m1 # f /\ m1 \in Frame
          BY <1>2, <1>7
        <5> QED BY Zenon, <5>1, <1>3, <1>5
      <4> QED BY Zenon, <4>1, <4>2, <3>1, <3>4, <1>8, <1>9 DEF ByTables
    <3> QED BY Zenon, <3>2, <3>3, <3>4
  <2> QED BY Zenon, <2>2, <2>3
<1> QED BY Zenon, <1>13, <1>14, <1>15

\* Tables whose entries stay as they are stay a tree.
LEMMA SameTree ==
  ASSUME NEW M, NEW N, NEW use, Tree(M, use),
         \A t \in Frame, i \in Index : use[t] \in 1 .. 4 => Present(N[t][i]) \/ N[t][i] = Unused,
         \A t \in Frame, i \in Index : Slot(use, t, i) => N[t][i] = M[t][i]
  PROVE  Tree(N, use)
<1>1. \A t \in Frame, i \in Index : Slot(use, t, i) /\ Huge(N[t][i]) => use[t] = 2
  BY Zenon DEF Tree
<1>2. \A t \in Frame, i \in Index :
        Slot(use, t, i) /\ LeadsOn(N[t][i]) => N[t][i].frame \in Frame /\ use[N[t][i].frame] = use[t] - 1
  BY ZenonT(60) DEF Tree
<1>3. \A t \in Frame, u \in Frame, i \in Index, j \in Index :
        /\ Slot(use, t, i) /\ LeadsOn(N[t][i])
        /\ Slot(use, u, j) /\ LeadsOn(N[u][j])
        /\ N[t][i].frame = N[u][j].frame
        => t = u /\ i = j
  <2> SUFFICES ASSUME NEW t \in Frame, NEW u \in Frame, NEW i \in Index, NEW j \in Index,
                      Slot(use, t, i), LeadsOn(N[t][i]), Slot(use, u, j), LeadsOn(N[u][j]),
                      N[t][i].frame = N[u][j].frame
               PROVE  t = u /\ i = j
    BY Zenon
  <2>1. N[t][i] = M[t][i] /\ N[u][j] = M[u][j]
    BY Zenon
  <2> QED BY Zenon, <2>1 DEF Tree
<1> QED BY Zenon, <1>1, <1>2, <1>3 DEF Tree

\* N is M with entry e in entry i of the P1 table F.
Mapped1(M, N, F, i, e) ==
  N[F][i] = e /\ \A u \in Frame, j \in Index : ~(u = F /\ j = i) => N[u][j] = M[u][j]

\* Only one page is below an entry of a P1 table.
LEMMA OnePagePerEntry ==
  ASSUME NEW M \in Memory, NEW use \in Uses, Tree(M, use),
         NEW r \in Frame, use[r] = 4, NEW q \in Frame, use[q] = 4,
         NEW p \in Ordinary, NEW x \in Ordinary,
         T1(M, q, p) # None, T1(M, r, x) = T1(M, q, p), x[4] = p[4]
  PROVE  r = q /\ x = p
<1>1. /\ p[1] \in Index /\ p[2] \in Index /\ p[3] \in Index /\ p[1] # R /\ p \in Page
      /\ x[1] \in Index /\ x[2] \in Index /\ x[3] \in Index /\ x[1] # R /\ x \in Page
  BY Zenon, TablePages
<1> DEFINE p3 == T3(M, q, p)  p2 == T2(M, q, p)
           x3 == T3(M, r, x)  x2 == T2(M, r, x)
<1>2. /\ p2 # None /\ p2 \in Frame /\ use[p2] = 2 /\ p3 # None /\ p3 \in Frame /\ use[p3] = 3
      /\ x2 # None /\ x2 \in Frame /\ use[x2] = 2 /\ x3 # None /\ x3 \in Frame /\ use[x3] = 3
  BY ZenonT(60), TableLevels
<1>3. \A t \in Frame, u \in Frame, i \in Index, j \in Index :
        /\ use[t] \in 2 .. 4 /\ (use[t] = 4 => i # R) /\ use[u] \in 2 .. 4 /\ (use[u] = 4 => j # R)
        /\ NextOf(M[t][i]) # None /\ NextOf(M[t][i]) = NextOf(M[u][j])
        => t = u /\ i = j
  <2>1. \A e : NextOf(e) # None => LeadsOn(e) /\ NextOf(e) = e.frame
    BY DEF NextOf
  <2> QED BY <2>1 DEF Tree, Slot
<1>4. /\ p3 = NextOf(M[q][p[1]]) /\ x3 = NextOf(M[r][x[1]])
      /\ p2 = NextOf(M[p3][p[2]]) /\ x2 = NextOf(M[x3][x[2]])
      /\ T1(M, q, p) = NextOf(M[p2][p[3]]) /\ T1(M, r, x) = NextOf(M[x2][x[3]])
  BY Zenon, <1>2 DEF T3, T2, T1, EntryAt
<1> HIDE DEF p3, p2, x3, x2
<1>41. 2 \in 2 .. 4 /\ 3 \in 2 .. 4 /\ 4 \in 2 .. 4 /\ 2 # 4 /\ 3 # 4
  OBVIOUS
<1>5. p2 = x2 /\ p[3] = x[3]
  <2>1. NextOf(M[p2][p[3]]) # None /\ NextOf(M[p2][p[3]]) = NextOf(M[x2][x[3]])
    BY Zenon, <1>4
  <2>2. /\ p2 \in Frame /\ x2 \in Frame /\ p[3] \in Index /\ x[3] \in Index
        /\ use[p2] \in 2 .. 4 /\ use[p2] # 4 /\ use[x2] \in 2 .. 4 /\ use[x2] # 4
    BY Zenon, <1>1, <1>2, <1>41
  <2> QED BY <2>1, <2>2, <1>3
<1>6. p3 = x3 /\ p[2] = x[2]
  <2>1. NextOf(M[p3][p[2]]) # None /\ NextOf(M[p3][p[2]]) = NextOf(M[x3][x[2]])
    BY Zenon, <1>2, <1>4, <1>5
  <2>2. /\ p3 \in Frame /\ x3 \in Frame /\ p[2] \in Index /\ x[2] \in Index
        /\ use[p3] \in 2 .. 4 /\ use[p3] # 4 /\ use[x3] \in 2 .. 4 /\ use[x3] # 4
    BY Zenon, <1>1, <1>2, <1>41
  <2> QED BY <2>1, <2>2, <1>3
<1>7. q = r /\ p[1] = x[1]
  <2>1. NextOf(M[q][p[1]]) # None /\ NextOf(M[q][p[1]]) = NextOf(M[r][x[1]])
    BY Zenon, <1>2, <1>4, <1>6
  <2>2. p[1] \in Index /\ x[1] \in Index /\ p[1] # R /\ x[1] # R
    BY Zenon, <1>1
  <2>3. use[q] \in 2 .. 4 /\ use[r] \in 2 .. 4
    BY Zenon, <1>41
  <2> QED BY <2>1, <2>2, <2>3, <1>3
<1> QED BY <1>1, <1>5, <1>6, <1>7 DEF Page

\* From M to N page p below root q gets entry e; no other page and no table
\* changes.
OnePage(M, use, N, q, p, e) ==
  /\ Tree(N, use)
  /\ \A r \in Frame : use[r] = 4 => N[r][R] = M[r][R]
  /\ T1(N, q, p) = T1(M, q, p)
  /\ \A r \in Frame, x \in Ordinary :
       use[r] = 4 => Leaf(N, r, x) = IF r = q /\ x = p THEN e ELSE Leaf(M, r, x)

\* A store to a P1 table changes the one page and no table.
LEMMA MapLeaf ==
  ASSUME NEW M \in Memory, NEW N \in Memory, NEW use \in Uses, Tree(M, use),
         NEW q \in Frame, use[q] = 4, NEW p \in Ordinary, T1(M, q, p) # None,
         NEW e \in Entry, Present(e) \/ e = Unused, Mapped1(M, N, T1(M, q, p), p[4], e)
  PROVE  OnePage(M, use, N, q, p, e)
<1> DEFINE F == T1(M, q, p)
<1>1. F \in Frame /\ use[F] = 1 /\ p[4] \in Index
  BY Zenon, TableLevels, TablePages
<1>2. \A u \in Frame, j \in Index : u # F => N[u][j] = M[u][j]
  BY Zenon DEF Mapped1
<1>3. /\ N[F][p[4]] = e
      /\ \A u \in Frame, j \in Index : ~(u = F /\ j = p[4]) => N[u][j] = M[u][j]
  BY Zenon DEF Mapped1
<1> HIDE DEF F
<1>4. \A u \in Frame, j \in Index : use[u] \in 2 .. 4 => N[u][j] = M[u][j]
  BY <1>1, <1>2
<1>41. \A u \in Frame : use[u] = 4 \/ use[u] = 3 \/ use[u] = 2 => use[u] \in 2 .. 4
  OBVIOUS
<1>5. Tree(N, use)
  <2>3. \A t \in Frame, i \in Index : use[t] \in 1 .. 4 => Present(M[t][i]) \/ M[t][i] = Unused
    BY Zenon DEF Tree
  <2>1. \A t \in Frame, i \in Index : use[t] \in 1 .. 4 => Present(N[t][i]) \/ N[t][i] = Unused
    BY <1>3, <2>3
  <2>2. \A t \in Frame, i \in Index : Slot(use, t, i) => N[t][i] = M[t][i]
    BY Zenon, <1>4 DEF Slot
  <2> QED BY <2>1, <2>2, SameTree
<1>6. \A r \in Frame : use[r] = 4 => N[r][R] = M[r][R]
  BY Zenon, <1>4, <1>41, Sizes
<1>7. ASSUME NEW r \in Frame, NEW x \in Ordinary, use[r] = 4
      PROVE  /\ T1(N, r, x) = T1(M, r, x)
             /\ Leaf(N, r, x) = IF r = q /\ x = p THEN e ELSE Leaf(M, r, x)
  <2>1. x[1] \in Index /\ x[2] \in Index /\ x[3] \in Index /\ x[4] \in Index
    BY Zenon, TablePages
  <2>2. T3(N, r, x) = T3(M, r, x)
    <3>1. use[r] \in 2 .. 4
      BY Zenon, <1>41, <1>7
    <3>2. N[r][x[1]] = M[r][x[1]]
      BY Zenon, <2>1, <1>4, <3>1
    <3> QED BY Zenon, <3>2 DEF T3
  <2>3. T2(N, r, x) = T2(M, r, x)
    <3>1. T3(M, r, x) # None => T3(M, r, x) \in Frame /\ use[T3(M, r, x)] = 3
      BY ZenonT(60), <1>7, TableLevels
    <3>2. EntryAt(N, T3(M, r, x), x[2]) = EntryAt(M, T3(M, r, x), x[2])
      BY Zenon, <2>1, <3>1, <1>4, <1>41 DEF EntryAt
    <3> QED BY Zenon, <2>2, <3>2 DEF T2
  <2>4. /\ T1(N, r, x) = T1(M, r, x)
        /\ T2(M, r, x) # None => N[T2(M, r, x)][x[3]] = M[T2(M, r, x)][x[3]]
    <3>1. T2(M, r, x) # None => T2(M, r, x) \in Frame /\ use[T2(M, r, x)] = 2
      BY ZenonT(60), <1>7, TableLevels
    <3>2. T2(M, r, x) # None => N[T2(M, r, x)][x[3]] = M[T2(M, r, x)][x[3]]
      BY Zenon, <2>1, <3>1, <1>4, <1>41
    <3>3. EntryAt(N, T2(M, r, x), x[3]) = EntryAt(M, T2(M, r, x), x[3])
      BY Zenon, <3>2 DEF EntryAt
    <3> QED BY Zenon, <2>3, <3>2, <3>3 DEF T1
  <2>5. ByTables(M, Leaf(M, r, x), x, T2(M, r, x), T1(M, r, x))
    BY Zenon, <1>7, LeafByTables
  <2>6. ByTables(N, Leaf(N, r, x), x, T2(N, r, x), T1(N, r, x))
    BY Zenon, <1>5, <1>7, LeafByTables
  <2>7. CASE r = q /\ x = p
    BY Zenon, <2>7, <2>4, <2>6, <1>1, <1>3 DEF F, ByTables
  <2>8. CASE ~(r = q /\ x = p)
    <3>1. ~(T1(M, r, x) = F /\ x[4] = p[4])
      BY <2>8, <1>7, OnePagePerEntry DEF F
    <3>2. T1(M, r, x) # None => T1(M, r, x) \in Frame
      BY Zenon, <1>7, TableLevels
    <3>3. T1(M, r, x) # None => N[T1(M, r, x)][x[4]] = M[T1(M, r, x)][x[4]]
      BY Zenon, <3>1, <3>2, <2>1, <1>3
    <3> QED BY Zenon, <2>3, <2>4, <2>5, <2>6, <2>8, <3>3 DEF ByTables
  <2> QED BY Zenon, <2>4, <2>7, <2>8
<1> QED BY Zenon, <1>5, <1>6, <1>7 DEF OnePage

\* The tables do not change, except for recursive entries.
SameTables(M, N, use) ==
  \A t \in Frame, i \in Index :
    /\ use[t] \in 1 .. 4 /\ ~(use[t] = 4 /\ i = R) => N[t][i] = M[t][i]
    /\ use[t] = 4 /\ i = R => Present(N[t][i])

\* Then the pages do not change either.
LEMMA SameLeaf ==
  ASSUME NEW M \in Memory, NEW N \in Memory, NEW use \in Uses, Tree(M, use),
         SameTables(M, N, use)
  PROVE  /\ Tree(N, use)
         /\ \A r \in Frame, x \in Ordinary : use[r] = 4 => Leaf(N, r, x) = Leaf(M, r, x)
<1>1. \A t \in Frame, i \in Index : use[t] \in 1 .. 4 /\ ~(use[t] = 4 /\ i = R) => N[t][i] = M[t][i]
  BY Zenon DEF SameTables
<1>2. Tree(N, use)
  <2>1. \A t \in Frame, i \in Index : use[t] \in 1 .. 4 => Present(N[t][i]) \/ N[t][i] = Unused
    BY Zenon DEF Tree, SameTables
  <2>2. \A t \in Frame, i \in Index : Slot(use, t, i) => N[t][i] = M[t][i]
    BY <1>1 DEF Slot
  <2> QED BY <2>1, <2>2, SameTree
<1>3. ASSUME NEW r \in Frame, NEW x \in Ordinary, use[r] = 4
      PROVE  Leaf(N, r, x) = Leaf(M, r, x)
  <2>1. x[1] \in Index /\ x[2] \in Index /\ x[3] \in Index /\ x[4] \in Index /\ x[1] # R
    BY TablePages
  <2>2. T3(N, r, x) = T3(M, r, x)
    BY <2>1, <1>1, <1>3 DEF T3
  <2>3. T2(N, r, x) = T2(M, r, x)
    <3>1. T3(M, r, x) # None => T3(M, r, x) \in Frame /\ use[T3(M, r, x)] = 3
      BY Zenon, <1>3, TableLevels
    <3> QED BY <2>1, <2>2, <3>1, <1>1 DEF T2, EntryAt
  <2>4. /\ T1(N, r, x) = T1(M, r, x)
        /\ T2(M, r, x) # None => N[T2(M, r, x)][x[3]] = M[T2(M, r, x)][x[3]]
    <3>1. T2(M, r, x) # None => T2(M, r, x) \in Frame /\ use[T2(M, r, x)] = 2
      BY <1>3, TableLevels
    <3> QED BY <2>1, <2>3, <3>1, <1>1 DEF T1, EntryAt
  <2>5. T1(M, r, x) # None => N[T1(M, r, x)][x[4]] = M[T1(M, r, x)][x[4]]
    <3>1. T1(M, r, x) # None => T1(M, r, x) \in Frame /\ use[T1(M, r, x)] = 1
      BY Zenon, <1>3, TableLevels
    <3> QED BY <2>1, <3>1, <1>1
  <2>6. ByTables(M, Leaf(M, r, x), x, T2(M, r, x), T1(M, r, x))
    BY Zenon, <1>3, LeafByTables
  <2>7. ByTables(N, Leaf(N, r, x), x, T2(N, r, x), T1(N, r, x))
    BY Zenon, <1>2, <1>3, LeafByTables
  <2> QED BY Zenon, <2>3, <2>4, <2>5, <2>6, <2>7 DEF ByTables
<1> QED BY <1>2, <1>3

\* What a frame without a table is used for does not matter to the tables.
LEMMA TreeUse ==
  ASSUME NEW M \in Memory, NEW use \in Uses, Tree(M, use), NEW use2 \in Uses,
         \A t \in Frame : IF use[t] \in 1 .. 4 THEN use2[t] = use[t] ELSE use2[t] \notin 1 .. 4
  PROVE  Tree(M, use2)
<1>1. \A t \in Frame : (use2[t] \in 1 .. 4 <=> use[t] \in 1 .. 4) /\ (use[t] \in 1 .. 4 => use2[t] = use[t])
  OBVIOUS
<1>2. \A t \in Frame, i \in Index : Slot(use2, t, i) <=> Slot(use, t, i)
  BY <1>1 DEF Slot
<1>3. \A t \in Frame, i \in Index : Slot(use, t, i) => use2[t] = use[t] /\ use[t] \in 2 .. 4
  BY <1>1 DEF Slot
<1>4. \A t \in Frame, i \in Index : use2[t] \in 1 .. 4 => Present(M[t][i]) \/ M[t][i] = Unused
  BY Zenon, <1>1 DEF Tree
<1>5. \A t \in Frame, i \in Index : Slot(use2, t, i) /\ Huge(M[t][i]) => use2[t] = 2
  BY <1>2, <1>3 DEF Tree
<1>6. ASSUME NEW t \in Frame, NEW i \in Index, Slot(use2, t, i), LeadsOn(M[t][i])
      PROVE  M[t][i].frame \in Frame /\ use2[M[t][i].frame] = use2[t] - 1
  <2>1. M[t][i].frame \in Frame /\ use[M[t][i].frame] = use[t] - 1
    BY Zenon, <1>2, <1>6 DEF Tree
  <2>2. use[t] - 1 \in 1 .. 4 /\ use2[t] = use[t]
    BY <1>2, <1>3, <1>6
  <2> QED BY Zenon, <2>1, <2>2, <1>1
<1>7. \A t \in Frame, u \in Frame, i \in Index, j \in Index :
        /\ Slot(use2, t, i) /\ LeadsOn(M[t][i])
        /\ Slot(use2, u, j) /\ LeadsOn(M[u][j])
        /\ M[t][i].frame = M[u][j].frame
        => t = u /\ i = j
  BY Zenon, <1>2 DEF Tree
<1> QED BY Zenon, <1>4, <1>5, <1>6, <1>7 DEF Tree

\* An empty table with a recursive entry is a P4 table.
LEMMA NewRoot ==
  ASSUME NEW M \in Memory, NEW use \in Uses, Tree(M, use), NEW f \in Frame,
         use[f] \notin 1 .. 4, Present(M[f][R]), \A i \in Index \ {R} : M[f][i] = Unused
  PROVE  /\ Tree(M, [use EXCEPT ![f] = 4]) /\ [use EXCEPT ![f] = 4] \in Uses
         /\ \A x \in Ordinary : Leaf(M, f, x) = Unused
<1> DEFINE use2 == [use EXCEPT ![f] = 4]
<1>1. use2 \in Uses /\ use2[f] = 4 /\ \A t \in Frame : t # f => use2[t] = use[t]
  BY DEF Uses
<1> HIDE DEF use2
<1>2. \A t \in Frame, i \in Index : Slot(use2, t, i) /\ Present(M[t][i]) => t # f /\ Slot(use, t, i)
  BY <1>1, EntryKinds DEF Slot
<1>3. \A t \in Frame, i \in Index : use2[t] \in 1 .. 4 => Present(M[t][i]) \/ M[t][i] = Unused
  BY Zenon, <1>1 DEF Tree
<1>4. \A t \in Frame, i \in Index : Slot(use2, t, i) /\ Huge(M[t][i]) => use2[t] = 2
  BY Zenon, <1>1, <1>2, EntryKinds DEF Tree
<1>5. ASSUME NEW t \in Frame, NEW i \in Index, Slot(use2, t, i), LeadsOn(M[t][i])
      PROVE  M[t][i].frame \in Frame /\ use2[M[t][i].frame] = use2[t] - 1
  <2>1. t # f /\ Slot(use, t, i)
    BY Zenon, <1>2, <1>5, EntryKinds
  <2>3. M[t][i].frame \in Frame /\ use[M[t][i].frame] = use[t] - 1
    BY Zenon, <2>1, <1>5 DEF Tree
  <2>4. use[t] - 1 \in 1 .. 4
    BY <2>1 DEF Slot
  <2>2. M[t][i].frame \in Frame /\ use[M[t][i].frame] = use[t] - 1 /\ use[t] - 1 \in 1 .. 4
    BY Zenon, <2>3, <2>4
  <2> QED BY Zenon, <2>1, <2>2, <1>1
<1>6. \A t \in Frame, u \in Frame, i \in Index, j \in Index :
        /\ Slot(use2, t, i) /\ LeadsOn(M[t][i])
        /\ Slot(use2, u, j) /\ LeadsOn(M[u][j])
        /\ M[t][i].frame = M[u][j].frame
        => t = u /\ i = j
  BY <1>2, EntryKinds DEF Tree
<1>7. Tree(M, use2)
  BY Zenon, <1>3, <1>4, <1>5, <1>6 DEF Tree
<1>8. ASSUME NEW x \in Ordinary PROVE Leaf(M, f, x) = Unused
  <2>1. T3(M, f, x) = None
    BY Zenon, TablePages, EntryKinds DEF T3, NextOf
  <2>2. T2(M, f, x) = None
    BY Zenon, <2>1, <1>1, <1>7, TableLevels
  <2>3. T1(M, f, x) = None
    BY Zenon, <2>2, <1>1, <1>7, TableLevels
  <2> QED BY ZenonT(60), <2>2, <2>3, <1>1, <1>7, LeafByTables DEF ByTables
<1> QED BY <1>1, <1>7, <1>8 DEF use2
==============================================================================
