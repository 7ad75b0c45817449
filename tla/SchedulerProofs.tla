--------------------------- MODULE SchedulerProofs ---------------------------
(***************************************************************************)
(* The scheduler's invariants for every size of the task table.            *)
(***************************************************************************)
EXTENDS Scheduler, TLAPS

\* A process that was not killed owns a stack.
LiveHasStack == \A p \in procs : state[p] # "Free" => stack[p]

\* The inductive invariant: the checked invariants, and that live processes own
\* their stacks, which OneCurrent needs when resched makes one of them Current.
IInv ==
  /\ TypeOK
  /\ SearchStaysInTable
  /\ OneCurrent
  /\ ReadyListExact
  /\ NullProcessAvailable
  /\ LiveHasStack

-----------------------------------------------------------------------------
\* Lists with the same elements in the same places are the same list.
LEMMA SameList ==
  ASSUME NEW S, NEW s \in Seq(S), NEW t \in Seq(S), Len(t) = Len(s),
         \A i \in 1 .. Len(s) : t[i] = s[i]
  PROVE  t = s
  OBVIOUS

\* One list after another.
LEMMA JoinedLists ==
  ASSUME NEW S, NEW s \in Seq(S), NEW t \in Seq(S)
  PROVE  /\ s \o t \in Seq(S) /\ Len(s \o t) = Len(s) + Len(t)
         /\ \A i \in 1 .. Len(s) + Len(t) :
              (s \o t)[i] = IF i <= Len(s) THEN s[i] ELSE t[i - Len(s)]
         /\ s \o <<>> = s
  OBVIOUS

\* A process that joins the end of the list joins the end of what precedes it too.
LEMMA JoinedAtEnd ==
  ASSUME NEW S, NEW s \in Seq(S), NEW t \in Seq(S), NEW c \in S
  PROVE  s \o Append(t, c) = Append(s \o t, c)
  OBVIOUS

\* What resched does to the list when the running process joins its end.
LEMMA RotatedList ==
  ASSUME NEW S, NEW s \in Seq(S), s # <<>>, NEW c \in S
  PROVE  /\ Head(Append(s, c)) = s[1]
         /\ s[1] \in S
         /\ Tail(Append(s, c)) \in Seq(S)
         /\ Len(Tail(Append(s, c))) = Len(s)
         /\ \A i \in 1 .. Len(s) - 1 : Tail(Append(s, c))[i] = s[i + 1]
         /\ Tail(Append(s, c))[Len(s)] = c
  OBVIOUS

\* ... and when it does not.
LEMMA ShortenedList ==
  ASSUME NEW S, NEW s \in Seq(S), s # <<>>
  PROVE  /\ Head(s) = s[1]
         /\ s[1] \in S
         /\ Tail(s) \in Seq(S)
         /\ Len(Tail(s)) = Len(s) - 1
         /\ \A i \in 1 .. Len(s) - 1 : Tail(s)[i] = s[i + 1]
  OBVIOUS

\* The state after init() satisfies the inductive invariant: the null process
\* runs, the table holds nothing else and the ready list is empty.
LEMMA InitIInv == Init => IInv
<1> SUFFICES ASSUME Init PROVE IInv
  OBVIOUS
<1>1. MAX_PROCS \in Nat /\ MAX_PROCS >= 2
  BY MaxProcsAssumption
<1>2. TypeOK /\ SearchStaysInTable
  BY <1>1 DEF Init, ListInit, TypeOK, ListTypeOK, SearchStaysInTable, Usize, USIZE_MAX,
              NULL_PROC, Err, State
<1>3. Queued = {}
  BY DEF Init, Queued
<1>4. OneCurrent /\ ReadyListExact /\ NullProcessAvailable /\ LiveHasStack
  BY <1>1, <1>3 DEF Init, ListInit, OneCurrent, ReadyListExact, NullProcessAvailable,
                    LiveHasStack, Usize, USIZE_MAX, NULL_PROC
<1> QED
  BY <1>2, <1>4 DEF IInv

-----------------------------------------------------------------------------
\* One lemma per action of Next.
LEMMA CreateIInv == IInv /\ Create => IInv'
<1> SUFFICES ASSUME IInv, Create PROVE IInv'
  OBVIOUS
<1> USE MaxProcsAssumption DEF IInv, USIZE_MAX, Usize, NULL_PROC, Err
<1>1. PICK m \in Usize :
        /\ SearchStopsAt(m)
        /\ IF m >= MAX_PROCS
           THEN next' = m /\ added' = Err /\ procs' = procs
           ELSE procs' = procs \cup {m} /\ next' = m + 1 /\ added' = m
  BY DEF Create, Add
<1>2. m >= 1 /\ m \notin procs
  BY <1>1 DEF SearchStopsAt, SearchStart, SearchStaysInTable
<1>3. ready_list' = ready_list /\ current_pid' = current_pid /\ Queued' = Queued
  BY DEF Create, Queued
<1>4. CASE m >= MAX_PROCS
  <2>1. next' = m /\ added' = Err /\ procs' = procs /\ state' = state /\ stack' = stack
    BY <1>1, <1>4 DEF Create, procVars
  <2>2. m = MAX_PROCS
    <3>1. SearchStart <= MAX_PROCS /\ SearchStart \in Nat
      BY DEF SearchStart, SearchStaysInTable
    <3>2. MAX_PROCS \notin procs
      BY DEF SearchStaysInTable
    <3> QED
      BY <1>1, <1>4, <3>1, <3>2 DEF SearchStopsAt
  <2>3. TypeOK' /\ SearchStaysInTable'
    BY <2>1, <2>2, <1>3 DEF TypeOK, ListTypeOK, SearchStaysInTable
  <2>4. OneCurrent' /\ ReadyListExact' /\ NullProcessAvailable' /\ LiveHasStack'
    BY <2>1, <1>3 DEF OneCurrent, ReadyListExact, NullProcessAvailable, LiveHasStack
  <2> QED
    BY <2>3, <2>4
<1>5. CASE m < MAX_PROCS
  <2>1. /\ procs' = procs \cup {m} /\ next' = m + 1 /\ added' = m
        /\ state' = [state EXCEPT ![m] = "Suspended"]
        /\ stack' = [stack EXCEPT ![m] = TRUE]
    BY <1>1, <1>5 DEF Create
  <2>2. TypeOK' /\ SearchStaysInTable'
    BY <2>1, <1>2, <1>3, <1>5 DEF TypeOK, ListTypeOK, SearchStaysInTable, State
  <2>3. /\ \A p \in procs : state'[p] = state[p] /\ stack'[p] = stack[p]
        /\ state'[m] = "Suspended" /\ stack'[m]
    BY Zenon, <2>1, <1>2 DEF TypeOK, ListTypeOK
  <2>4. OneCurrent' /\ LiveHasStack'
    BY <2>1, <2>3, <1>2, <1>3 DEF OneCurrent, LiveHasStack
  <2>5. ReadyListExact' /\ NullProcessAvailable'
    BY <2>1, <2>3, <1>2, <1>3 DEF ReadyListExact, NullProcessAvailable
  <2> QED
    BY <2>2, <2>4, <2>5
<1> QED
  BY <1>4, <1>5

\* ready() of a process that create() has just added keeps the invariant.
LEMMA ReadyNewIInv == IInv /\ ReadyNew => IInv'
<1> SUFFICES ASSUME IInv, NEW p \in procs, NewProcess(p), Ready(p) PROVE IInv'
  BY DEF ReadyNew
<1> USE DEF IInv
<1>1. p \in Usize /\ ready_list \in Seq(Usize)
  BY DEF TypeOK, ListTypeOK
<1>2. /\ ready_list' = Append(ready_list, p)
      /\ UNCHANGED <<procs, next, added, state, stack, current_pid>>
  BY DEF Ready
<1>3. /\ ready_list' \in Seq(Usize)
      /\ Len(ready_list') = Len(ready_list) + 1
      /\ \A i \in 1 .. Len(ready_list) : ready_list'[i] = ready_list[i]
      /\ ready_list'[Len(ready_list) + 1] = p
  BY <1>1, <1>2
<1>4. Queued' = Queued \cup {p}
  BY <1>1, <1>3 DEF Queued
<1>5. TypeOK' /\ SearchStaysInTable' /\ LiveHasStack'
  BY <1>2, <1>3 DEF TypeOK, ListTypeOK, SearchStaysInTable, LiveHasStack
<1>6. OneCurrent' /\ NullProcessAvailable'
  BY <1>2, <1>4 DEF OneCurrent, NullProcessAvailable
<1>7. ReadyListExact'
  <2>1. \A i, j \in 1 .. Len(ready_list') : ready_list'[i] = ready_list'[j] => i = j
    <3>1. \A i \in 1 .. Len(ready_list) : ready_list[i] # p
      BY DEF NewProcess, Queued
    <3> QED
      BY <1>1, <1>3, <3>1 DEF ReadyListExact
  <2> QED
    BY <1>2, <1>4, <2>1 DEF ReadyListExact, NewProcess, LiveHasStack
<1> QED
  BY <1>5, <1>6, <1>7

-----------------------------------------------------------------------------
\* What a switch does, spelled out: the first of the list runs, the others
\* move forward, and the running process, unless it was killed, is last.
LEMMA ReschedEffect ==
  ASSUME IInv, Resched, ready_list # <<>>
  PROVE  /\ ready_list[1] \in Queued
         /\ ready_list[1] # current_pid
         /\ current_pid' = ready_list[1]
         /\ ready_list' = Tail(Append(ready_list, current_pid))
         /\ ready_list' \in Seq(Usize)
         /\ Len(ready_list) \in Nat /\ Len(ready_list) >= 1
         /\ Len(ready_list') = Len(ready_list)
         /\ \A i \in 1 .. Len(ready_list) - 1 : ready_list'[i] = ready_list[i + 1]
         /\ ready_list'[Len(ready_list)] = current_pid
         /\ state' \in [Usize -> State]
         /\ state'[ready_list[1]] = "Current"
         /\ state'[current_pid] = "Ready"
         /\ \A p \in Usize \ {ready_list[1], current_pid} : state'[p] = state[p]
<1> USE DEF IInv
<1> DEFINE n == ready_list[1]
<1>1. /\ current_pid \in Usize /\ ready_list \in Seq(Usize)
      /\ state \in [Usize -> State] /\ procs \subseteq Usize
      /\ current_pid \in procs /\ state[current_pid] = "Current"
  BY DEF TypeOK, ListTypeOK, OneCurrent
<1>2. /\ Head(Append(ready_list, current_pid)) = n /\ n \in Usize
      /\ Tail(Append(ready_list, current_pid)) \in Seq(Usize)
      /\ Len(Tail(Append(ready_list, current_pid))) = Len(ready_list)
      /\ \A i \in 1 .. Len(ready_list) - 1 :
           Tail(Append(ready_list, current_pid))[i] = ready_list[i + 1]
      /\ Tail(Append(ready_list, current_pid))[Len(ready_list)] = current_pid
  BY <1>1, RotatedList
<1>3. Len(ready_list) \in Nat /\ Len(ready_list) >= 1
  BY <1>1
<1>4. n \in Queued /\ n \in procs /\ n # current_pid /\ state[n] \in {"Ready", "Suspended"}
  BY <1>1, <1>3 DEF Queued, ReadyListExact
<1>5. /\ ready_list' = Tail(Append(ready_list, current_pid))
      /\ current_pid' = n
      /\ state' = [[state EXCEPT ![current_pid] = "Ready"] EXCEPT ![n] = "Current"]
  BY <1>1, <1>2, <1>4 DEF Resched, ReschedFrom, SwitchTo
<1> HIDE DEF n
<1>6. /\ state'[n] = "Current" /\ state'[current_pid] = "Ready"
      /\ \A p \in Usize \ {n, current_pid} : state'[p] = state[p]
      /\ state' \in [Usize -> State]
  BY <1>1, <1>2, <1>4, <1>5 DEF State
<1> QED
  BY <1>2, <1>3, <1>4, <1>5, <1>6 DEF n

\* What process_return() does to a state of the invariant: the caller is freed
\* and the head of the ready list runs.
LEMMA ReturnEffect ==
  ASSUME IInv, ProcessReturn
  PROVE  /\ current_pid # NULL_PROC /\ current_pid \in procs
         /\ ready_list[1] \in Queued
         /\ ready_list[1] # current_pid
         /\ current_pid' = ready_list[1]
         /\ ready_list' = Tail(ready_list)
         /\ ready_list' \in Seq(Usize)
         /\ Len(ready_list) \in Nat /\ Len(ready_list) >= 1
         /\ Len(ready_list') = Len(ready_list) - 1
         /\ \A i \in 1 .. Len(ready_list) - 1 : ready_list'[i] = ready_list[i + 1]
         /\ state' \in [Usize -> State]
         /\ state'[ready_list[1]] = "Current"
         /\ state'[current_pid] = "Free"
         /\ \A p \in Usize \ {ready_list[1], current_pid} : state'[p] = state[p]
         /\ stack' \in [Usize -> BOOLEAN]
         /\ \A p \in Usize \ {current_pid} : stack'[p] = stack[p]
<1> USE DEF IInv
<1> DEFINE n == ready_list[1]
<1>1. /\ current_pid \in Usize /\ ready_list \in Seq(Usize)
      /\ state \in [Usize -> State] /\ stack \in [Usize -> BOOLEAN] /\ procs \subseteq Usize
      /\ current_pid \in procs /\ current_pid # NULL_PROC
  BY DEF TypeOK, ListTypeOK, OneCurrent, ProcessReturn
<1>2. ready_list # <<>>
  BY <1>1 DEF NullProcessAvailable, Queued
<1>3. /\ Head(ready_list) = n /\ n \in Usize
      /\ Tail(ready_list) \in Seq(Usize)
      /\ Len(Tail(ready_list)) = Len(ready_list) - 1
      /\ \A i \in 1 .. Len(ready_list) - 1 : Tail(ready_list)[i] = ready_list[i + 1]
  BY <1>1, <1>2, ShortenedList
<1>4. Len(ready_list) \in Nat /\ Len(ready_list) >= 1
  BY <1>1, <1>2
<1>5. n \in Queued /\ n \in procs /\ n # current_pid
  BY <1>1, <1>4 DEF Queued, ReadyListExact, OneCurrent
<1> DEFINE st == [state EXCEPT ![current_pid] = "Free"]
<1>6. st[current_pid] = "Free"
  BY <1>1
<1>7. /\ ready_list' = Tail(ready_list)
      /\ current_pid' = n
      /\ state' = [st EXCEPT ![n] = "Current"]
      /\ stack' = [stack EXCEPT ![current_pid] = FALSE]
  BY <1>2, <1>3, <1>5, <1>6 DEF ProcessReturn, Kill, ReschedFrom, SwitchTo
<1> HIDE DEF n
<1>8. /\ state'[n] = "Current" /\ state'[current_pid] = "Free"
      /\ \A p \in Usize \ {n, current_pid} : state'[p] = state[p]
      /\ state' \in [Usize -> State]
  BY <1>1, <1>3, <1>5, <1>7 DEF State
<1>9. /\ stack' \in [Usize -> BOOLEAN]
      /\ \A p \in Usize \ {current_pid} : stack'[p] = stack[p]
  BY <1>1, <1>7
<1> QED
  BY <1>1, <1>3, <1>4, <1>5, <1>7, <1>8, <1>9 DEF n

\* The members of a list without repetition that lost its first element.
LEMMA QueueMoves ==
  ASSUME IInv, Len(ready_list) \in Nat, Len(ready_list) >= 1,
         Len(ready_list') \in {Len(ready_list) - 1, Len(ready_list)},
         \A i \in 1 .. Len(ready_list) - 1 : ready_list'[i] = ready_list[i + 1]
  PROVE  \A p : p \in Queued' <=>
           \/ p \in Queued /\ p # ready_list[1]
           \/ Len(ready_list') = Len(ready_list) /\ p = ready_list'[Len(ready_list)]
<1> DEFINE n == ready_list[1]
           L == Len(ready_list)
<1>1. \A i \in 1 .. L : ready_list[i] = n => i = 1
  BY DEF ReadyListExact, IInv
<1>2. ASSUME NEW p \in Queued'
      PROVE  (p \in Queued /\ p # n) \/ (Len(ready_list') = L /\ p = ready_list'[L])
  <2>1. PICK i \in 1 .. Len(ready_list') : p = ready_list'[i]
    BY DEF Queued
  <2>2. CASE i = L
    BY <2>1, <2>2
  <2>3. CASE i # L
    <3>1. i \in 1 .. L - 1 /\ i + 1 \in 1 .. L /\ i + 1 # 1
      BY <2>3
    <3>2. p = ready_list[i + 1]
      BY <2>1, <3>1
    <3> QED
      BY <3>1, <3>2, <1>1 DEF Queued
  <2> QED
    BY <2>2, <2>3
<1>3. ASSUME NEW p \in Queued, p # n PROVE p \in Queued'
  <2>1. PICK i \in 1 .. L : p = ready_list[i]
    BY DEF Queued
  <2>2. i - 1 \in 1 .. L - 1 /\ (i - 1) + 1 = i
    BY <2>1, <1>3
  <2>3. p = ready_list'[i - 1] /\ i - 1 \in 1 .. Len(ready_list')
    BY <2>1, <2>2
  <2> QED
    BY <2>3 DEF Queued
<1>4. ASSUME Len(ready_list') = L PROVE ready_list'[L] \in Queued'
  BY <1>4 DEF Queued
<1> QED
  BY <1>2, <1>3, <1>4

\* resched() keeps the invariant.
LEMMA ReschedIInv == IInv /\ Resched => IInv'
<1> SUFFICES ASSUME IInv, Resched PROVE IInv'
  OBVIOUS
<1> USE DEF IInv
<1>1. UNCHANGED <<procs, next, added, stack>>
  BY DEF Resched
<1>2. CASE ready_list = <<>>
  <2>1. UNCHANGED <<state, ready_list, current_pid>>
    BY <1>2 DEF Resched, ReschedFrom, SwitchTo
  <2>2. Queued' = Queued
    BY <2>1 DEF Queued
  <2> QED
    BY <1>1, <2>1, <2>2 DEF TypeOK, ListTypeOK, SearchStaysInTable, OneCurrent, ReadyListExact,
                            NullProcessAvailable, LiveHasStack
<1>3. CASE ready_list # <<>>
  <2> DEFINE n == ready_list[1]
  <2>1. /\ n \in Queued /\ n # current_pid /\ current_pid' = n
        /\ ready_list' \in Seq(Usize)
        /\ Len(ready_list) \in Nat /\ Len(ready_list) >= 1
        /\ Len(ready_list') = Len(ready_list)
        /\ \A i \in 1 .. Len(ready_list) - 1 : ready_list'[i] = ready_list[i + 1]
        /\ ready_list'[Len(ready_list)] = current_pid
    BY <1>3, ReschedEffect
  <2>2. /\ state' \in [Usize -> State]
        /\ state'[n] = "Current" /\ state'[current_pid] = "Ready"
        /\ \A p \in Usize \ {n, current_pid} : state'[p] = state[p]
    BY <1>3, ReschedEffect
  <2>3. \A p : p \in Queued' <=> p = current_pid \/ (p \in Queued /\ p # n)
    BY <2>1, QueueMoves
  <2>4. /\ n \in procs /\ procs \subseteq Usize /\ current_pid \in procs
        /\ stack[n] /\ stack[current_pid]
    BY <2>1 DEF ReadyListExact, TypeOK, ListTypeOK, OneCurrent
  <2> HIDE DEF n
  <2>5. TypeOK' /\ SearchStaysInTable'
    BY <1>1, <2>1, <2>2, <2>4 DEF TypeOK, ListTypeOK, SearchStaysInTable
  <2>6. OneCurrent'
    BY <1>1, <2>1, <2>2, <2>4 DEF OneCurrent
  <2>7. NullProcessAvailable'
    BY <2>1, <2>3 DEF NullProcessAvailable
  <2>8. LiveHasStack'
    BY <1>1, <2>2, <2>4 DEF LiveHasStack
  <2>9. \A i, j \in 1 .. Len(ready_list') : ready_list'[i] = ready_list'[j] => i = j
    <3>1. \A i \in 1 .. Len(ready_list) : ready_list[i] # current_pid
      BY <2>4 DEF ReadyListExact, Queued, OneCurrent
    <3> QED
      BY <3>1, <2>1 DEF ReadyListExact
  <2>10. ReadyListExact'
    BY <1>1, <2>2, <2>3, <2>4, <2>9 DEF ReadyListExact, OneCurrent
  <2> QED
    BY <2>5, <2>6, <2>7, <2>8, <2>10
<1> QED
  BY <1>2, <1>3

\* process_return(), which kills its caller and reschedules, keeps the invariant.
LEMMA ProcessReturnIInv == IInv /\ ProcessReturn => IInv'
<1> SUFFICES ASSUME IInv, ProcessReturn PROVE IInv'
  OBVIOUS
<1> USE DEF IInv
<1> DEFINE n == ready_list[1]
<1>1. UNCHANGED <<procs, next, added>>
  BY DEF ProcessReturn, Kill
<1>2. /\ n \in Queued /\ n # current_pid /\ current_pid' = n /\ current_pid # NULL_PROC
      /\ ready_list' \in Seq(Usize)
      /\ Len(ready_list) \in Nat /\ Len(ready_list) >= 1
      /\ Len(ready_list') = Len(ready_list) - 1
      /\ \A i \in 1 .. Len(ready_list) - 1 : ready_list'[i] = ready_list[i + 1]
  BY ReturnEffect
<1>3. /\ state' \in [Usize -> State]
      /\ state'[n] = "Current" /\ state'[current_pid] = "Free"
      /\ \A p \in Usize \ {n, current_pid} : state'[p] = state[p]
      /\ stack' \in [Usize -> BOOLEAN]
      /\ \A p \in Usize \ {current_pid} : stack'[p] = stack[p]
  BY ReturnEffect
<1>4. \A p : p \in Queued' <=> p \in Queued /\ p # n
  BY <1>2, QueueMoves
<1>5. n \in procs /\ procs \subseteq Usize /\ current_pid \in procs /\ stack[n]
  BY <1>2 DEF ReadyListExact, TypeOK, ListTypeOK, OneCurrent
<1> HIDE DEF n
<1>6. TypeOK' /\ SearchStaysInTable'
  BY <1>1, <1>2, <1>3, <1>5 DEF TypeOK, ListTypeOK, SearchStaysInTable
<1>7. OneCurrent'
  BY <1>1, <1>2, <1>3, <1>5 DEF OneCurrent
<1>8. NullProcessAvailable'
  BY <1>2, <1>4 DEF NullProcessAvailable
<1>9. LiveHasStack'
  BY <1>1, <1>3, <1>5 DEF LiveHasStack
<1>10. \A i, j \in 1 .. Len(ready_list') : ready_list'[i] = ready_list'[j] => i = j
  BY <1>2 DEF ReadyListExact
<1>11. \A p \in Queued : p # current_pid
  BY <1>5 DEF ReadyListExact, OneCurrent
<1>12. ReadyListExact'
  BY <1>1, <1>3, <1>4, <1>5, <1>10, <1>11 DEF ReadyListExact
<1> QED
  BY <1>6, <1>7, <1>8, <1>9, <1>12

\* Every step of the scheduler, or a stutter, keeps the invariant.
LEMMA StepIInv == IInv /\ [Next]_vars => IInv'
<1> SUFFICES ASSUME IInv, [Next]_vars PROVE IInv'
  OBVIOUS
<1>1. CASE Next
  BY <1>1, CreateIInv, ReadyNewIInv, ReschedIInv, ProcessReturnIInv DEF Next
<1>2. CASE UNCHANGED vars
  <2>1. Queued' = Queued
    BY <1>2 DEF Queued, vars
  <2> QED
    BY <1>2, <2>1 DEF vars, IInv, TypeOK, ListTypeOK, SearchStaysInTable, OneCurrent,
                      ReadyListExact, NullProcessAvailable, LiveHasStack
<1> QED
  BY <1>1, <1>2

\* The inductive invariant holds in every reachable state of the scheduler.
THEOREM InvariantHolds == Spec => []IInv
<1>1. Init => IInv
  BY InitIInv
<1>2. IInv /\ [Next]_vars => IInv'
  BY StepIInv
<1> QED
  BY <1>1, <1>2, PTL DEF Spec

-----------------------------------------------------------------------------
\* Every variable of the scheduler keeps its type: no PID outside usize is
\* queued, stored or handed out.
THEOREM TypeCorrect == Spec => []TypeOK
<1>1. IInv => TypeOK
  BY DEF IInv
<1> QED
  BY <1>1, InvariantHolds, PTL

\* There is exactly one Current process, it is the one current_pid names and
\* it owns its stack, after any sequence of create, ready, resched and return.
THEOREM ExactlyOneRuns == Spec => []OneCurrent
<1>1. IInv => OneCurrent
  BY DEF IInv
<1> QED
  BY <1>1, InvariantHolds, PTL

\* No process is lost from the ready list, queued twice, or queued dead.
THEOREM ReadyListIsExact == Spec => []ReadyListExact
<1>1. IInv => ReadyListExact
  BY DEF IInv
<1> QED
  BY <1>1, InvariantHolds, PTL

\* A returning process always finds a successor: the resched in kill does not
\* come back to a freed stack.
THEOREM SuccessorExists == Spec => []NullProcessAvailable
<1>1. IInv => NullProcessAvailable
  BY DEF IInv
<1> QED
  BY <1>1, InvariantHolds, PTL

-----------------------------------------------------------------------------
\* No step of the scheduler changes the state of a freed process.
LEMMA StepDead ==
  IInv /\ [Next]_vars => [\A p \in procs : state[p] = "Free" => state'[p] = "Free"]_vars
<1> SUFFICES ASSUME IInv, Next, NEW p \in procs, state[p] = "Free" PROVE state'[p] = "Free"
  BY DEF vars
<1> USE DEF IInv
<1>1. /\ p \in Usize /\ p # current_pid /\ p \notin Queued
      /\ state \in [Usize -> State]
  BY DEF TypeOK, ListTypeOK, OneCurrent, ReadyListExact
<1>2. CASE Create
  <2>1. CASE added' = Err
    BY <1>2, <2>1 DEF Create, procVars
  <2>2. CASE added' # Err
    <3>1. added' \notin procs
      BY <1>2, <2>2 DEF Create, Add, SearchStopsAt
    <3> QED
      BY <1>1, <1>2, <2>2, <3>1 DEF Create
  <2> QED
    BY <2>1, <2>2
<1>3. CASE ReadyNew
  BY <1>3 DEF ReadyNew, Ready
<1>4. CASE Resched
  <2>1. CASE ready_list = <<>>
    BY <1>4, <2>1 DEF Resched, ReschedFrom, SwitchTo
  <2>2. CASE ready_list # <<>>
    BY <1>1, <1>4, <2>2, ReschedEffect
  <2> QED
    BY <2>1, <2>2
<1>5. CASE ProcessReturn
  BY <1>1, <1>5, ReturnEffect
<1> QED
  BY <1>2, <1>3, <1>4, <1>5 DEF Next

\* A killed process never becomes Ready or Current again.
THEOREM KilledForGood == Spec => DeadStaysDead
<1>1. IInv /\ [Next]_vars => [\A p \in procs : state[p] = "Free" => state'[p] = "Free"]_vars
  BY StepDead
<1> QED
  BY <1>1, InvariantHolds, PTL DEF Spec, DeadStaysDead

\* A step that changes current_pid runs the head of the ready list and moves
\* every other waiting process one place forward.
LEMMA StepOrder ==
  IInv /\ [Next]_vars =>
    [current_pid' # current_pid =>
       /\ current_pid' = ready_list[1]
       /\ \A i \in 2 .. Len(ready_list) : ready_list'[i - 1] = ready_list[i]]_vars
<1> SUFFICES ASSUME IInv, Next, current_pid' # current_pid
             PROVE  /\ current_pid' = ready_list[1]
                    /\ \A i \in 2 .. Len(ready_list) : ready_list'[i - 1] = ready_list[i]
  BY DEF vars
<1>1. (Resched /\ ready_list # <<>>) \/ ProcessReturn
  BY DEF Next, Create, ReadyNew, Ready, Resched, ReschedFrom
<1>2. /\ current_pid' = ready_list[1]
      /\ Len(ready_list) \in Nat
      /\ \A i \in 1 .. Len(ready_list) - 1 : ready_list'[i] = ready_list[i + 1]
  BY <1>1, ReschedEffect, ReturnEffect
<1>3. ASSUME NEW i \in 2 .. Len(ready_list) PROVE ready_list'[i - 1] = ready_list[i]
  <2>1. i - 1 \in 1 .. Len(ready_list) - 1 /\ (i - 1) + 1 = i
    BY <1>2
  <2> QED
    BY <1>2, <2>1
<1> QED
  BY <1>2, <1>3

\* Every switch runs the process that has waited longest and keeps the order
\* of the others.
THEOREM Fifo == Spec => NobodyOvertakes
<1>1. IInv /\ [Next]_vars =>
        [current_pid' # current_pid =>
           /\ current_pid' = ready_list[1]
           /\ \A i \in 2 .. Len(ready_list) : ready_list'[i - 1] = ready_list[i]]_vars
  BY StepOrder
<1> QED
  BY <1>1, InvariantHolds, PTL DEF Spec, NobodyOvertakes

-----------------------------------------------------------------------------
(* The ring of RoundRobin: the running process, then the ready list.        *)

Ring == <<current_pid>> \o ready_list

\* Putting one element before a sequence: length, elements, head and tail.
LEMMA RingShape ==
  ASSUME NEW S, NEW c \in S, NEW s \in Seq(S)
  PROVE  /\ <<c>> \o s \in Seq(S)
         /\ Len(<<c>> \o s) = Len(s) + 1
         /\ (<<c>> \o s)[1] = c
         /\ \A i \in 1 .. Len(s) : (<<c>> \o s)[i + 1] = s[i]
         /\ Head(<<c>> \o s) = c
         /\ Tail(<<c>> \o s) = s
<1>1. /\ <<c>> \in Seq(S) /\ Len(<<c>>) = 1 /\ Len(s) \in Nat
  OBVIOUS
<1>2. /\ <<c>> \o s \in Seq(S)
      /\ Len(<<c>> \o s) = Len(s) + 1
      /\ \A i \in 1 .. Len(s) + 1 : (<<c>> \o s)[i] = IF i <= 1 THEN <<c>>[i] ELSE s[i - 1]
  BY <1>1, JoinedLists
<1>3. (<<c>> \o s)[1] = c /\ \A i \in 1 .. Len(s) : (<<c>> \o s)[i + 1] = s[i]
  BY <1>1, <1>2
<1>4. Head(<<c>> \o s) = c
  BY <1>2, <1>3
<1>5. /\ Tail(<<c>> \o s) \in Seq(S)
      /\ Len(Tail(<<c>> \o s)) = Len(s)
      /\ \A i \in 1 .. Len(s) : Tail(<<c>> \o s)[i] = s[i]
  <2>1. <<c>> \o s # <<>>
    BY <1>1, <1>2
  <2> DEFINE r == <<c>> \o s
  <2>2. r \in Seq(S) /\ Len(r) = Len(s) + 1 /\ r # <<>>
    BY <1>2, <2>1
  <2>3. \A i \in 1 .. Len(s) : r[i + 1] = s[i]
    BY <1>3
  <2> HIDE DEF r
  <2>4. /\ Tail(r) \in Seq(S) /\ Len(Tail(r)) = Len(r) - 1
        /\ \A i \in 1 .. Len(r) - 1 : Tail(r)[i] = r[i + 1]
    BY <2>2, ShortenedList
  <2>5. /\ Tail(r) \in Seq(S) /\ Len(Tail(r)) = Len(s)
        /\ \A i \in 1 .. Len(s) : Tail(r)[i] = s[i]
    BY <1>1, <2>2, <2>3, <2>4
  <2> QED
    BY <2>5 DEF r
<1>6. Tail(<<c>> \o s) = s
  BY <1>5, SameList
<1> QED
  BY <1>2, <1>3, <1>4, <1>6

\* A non-empty sequence is its head followed by its tail.
LEMMA HeadThenTail ==
  ASSUME NEW S, NEW q \in Seq(S), q # <<>>
  PROVE  <<Head(q)>> \o Tail(q) = q
<1>1. /\ Head(q) = q[1] /\ q[1] \in S /\ Tail(q) \in Seq(S)
      /\ Len(Tail(q)) = Len(q) - 1
      /\ \A i \in 1 .. Len(q) - 1 : Tail(q)[i] = q[i + 1]
  BY ShortenedList
<1>2. /\ <<Head(q)>> \o Tail(q) \in Seq(S)
      /\ Len(<<Head(q)>> \o Tail(q)) = Len(Tail(q)) + 1
      /\ (<<Head(q)>> \o Tail(q))[1] = Head(q)
      /\ \A i \in 1 .. Len(Tail(q)) : (<<Head(q)>> \o Tail(q))[i + 1] = Tail(q)[i]
  BY <1>1, RingShape
<1>3. Len(q) \in Nat
  OBVIOUS
<1>4. ASSUME NEW i \in 1 .. Len(q) PROVE (<<Head(q)>> \o Tail(q))[i] = q[i]
  <2>1. CASE i = 1
    BY <1>1, <1>2, <2>1
  <2>2. CASE i # 1
    <3>1. i - 1 \in 1 .. Len(q) - 1 /\ (i - 1) + 1 = i
      BY <1>3, <2>2
    <3> QED
      BY <1>1, <1>2, <3>1
  <2> QED
    BY <2>1, <2>2
<1>5. Len(<<Head(q)>> \o Tail(q)) = Len(q)
  BY <1>1, <1>2, <1>3
<1> QED
  BY <1>2, <1>4, <1>5, SameList

Gone == {p \in procs : state[p] = "Free"}

\* The ring of a state of the invariant holds the running process and the
\* waiting ones.
LEMMA RingFacts ==
  ASSUME IInv
  PROVE  /\ Ring \in Seq(Usize)
         /\ Len(Ring) = Len(ready_list) + 1
         /\ Head(Ring) = current_pid
         /\ Tail(Ring) = ready_list
         /\ RR!Members = {current_pid} \cup Queued
<1>1. current_pid \in Usize /\ ready_list \in Seq(Usize) /\ Len(ready_list) \in Nat
  BY DEF IInv, TypeOK
<1>2. /\ Ring \in Seq(Usize)
      /\ Len(Ring) = Len(ready_list) + 1
      /\ Ring[1] = current_pid
      /\ \A i \in 1 .. Len(ready_list) : Ring[i + 1] = ready_list[i]
      /\ Head(Ring) = current_pid
      /\ Tail(Ring) = ready_list
  BY <1>1, RingShape DEF Ring
<1>3. RR!Members = {Ring[i] : i \in 1 .. Len(Ring)}
  BY DEF RR!Members, Ring
<1>4. ASSUME NEW p \in RR!Members PROVE p \in {current_pid} \cup Queued
  <2>1. PICK i \in 1 .. Len(ready_list) + 1 : p = Ring[i]
    BY <1>2, <1>3
  <2>2. CASE i = 1
    BY <1>2, <2>1, <2>2
  <2>3. CASE i # 1
    <3>1. i - 1 \in 1 .. Len(ready_list) /\ (i - 1) + 1 = i
      BY <1>1, <2>3
    <3>2. p = ready_list[i - 1]
      BY <1>2, <2>1, <3>1
    <3> QED
      BY <3>1, <3>2 DEF Queued
  <2> QED
    BY <2>2, <2>3
<1>5. ASSUME NEW p \in {current_pid} \cup Queued PROVE p \in RR!Members
  <2>1. CASE p = current_pid
    <3>1. 1 \in 1 .. Len(Ring)
      BY <1>1, <1>2
    <3> QED
      BY <1>2, <1>3, <2>1, <3>1
  <2>2. CASE p \in Queued
    <3>1. PICK i \in 1 .. Len(ready_list) : p = ready_list[i]
      BY <2>2 DEF Queued
    <3>2. i + 1 \in 1 .. Len(Ring)
      BY <1>1, <1>2, <3>1
    <3> QED
      BY <1>2, <1>3, <3>1, <3>2
  <2> QED
    BY <2>1, <2>2
<1> QED
  BY <1>2, <1>4, <1>5

\* Every step of the scheduler is a step of the abstract ring, or leaves it alone.
LEMMA StepRing == IInv /\ [Next]_vars => [RR!RRNext]_(RR!rrVars)
<1> SUFFICES ASSUME IInv, [Next]_vars PROVE RR!RRNext \/ (Ring' = Ring /\ Gone' = Gone)
  BY DEF RR!rrVars, Ring, Gone
<1>1. /\ current_pid \in Usize /\ ready_list \in Seq(Usize) /\ Len(ready_list) \in Nat
      /\ procs \subseteq Usize /\ state \in [Usize -> State] /\ current_pid \in procs
  BY DEF IInv, TypeOK, ListTypeOK, OneCurrent
<1>2. /\ Ring \in Seq(Usize) /\ Len(Ring) = Len(ready_list) + 1
      /\ Head(Ring) = current_pid /\ Tail(Ring) = ready_list
      /\ RR!Members = {current_pid} \cup Queued
  BY RingFacts
<1>3. IInv'
  BY StepIInv
<1>4. CASE Create
  <2>1. Ring' = Ring
    BY <1>4 DEF Create, Ring
  <2>2. Gone' = Gone
    <3>1. CASE added' = Err
      BY <1>4, <3>1 DEF Create, Add, Gone, procVars, Err, Usize
    <3>2. CASE added' # Err
      <4>1. added' \in Usize /\ added' \notin procs /\ procs' = procs \cup {added'}
        BY <1>4, <3>2 DEF Create, Add, SearchStopsAt
      <4>2. state' = [state EXCEPT ![added'] = "Suspended"]
        BY <1>4, <3>2 DEF Create
      <4> QED
        BY <1>1, <4>1, <4>2 DEF Gone
    <3> QED
      BY <3>1, <3>2
  <2> QED
    BY <2>1, <2>2
<1>5. CASE ReadyNew
  <2>1. PICK p \in procs : NewProcess(p) /\ Ready(p)
    BY <1>5 DEF ReadyNew
  <2>2. p \notin RR!Members /\ p \notin Gone /\ p \in Usize
    BY <1>1, <1>2, <2>1 DEF NewProcess, Gone, IInv, OneCurrent
  <2>3. Gone' = Gone /\ current_pid' = current_pid /\ ready_list' = Append(ready_list, p)
    BY <2>1 DEF Ready, Gone
  <2>4. Ring' = Append(Ring, p)
    <3>1. <<current_pid>> \in Seq(Usize) /\ ready_list \in Seq(Usize) /\ p \in Usize
      BY <1>1, <2>2
    <3> QED
      BY <2>3, <3>1, JoinedAtEnd DEF Ring
  <2>5. RR!Spawn(p)
    BY <2>2, <2>3, <2>4 DEF RR!Spawn, Gone, Ring
  <2> QED
    BY <2>2, <2>5 DEF RR!RRNext
<1>6. CASE Resched
  <2>1. CASE ready_list = <<>>
    BY <1>6, <2>1 DEF Resched, ReschedFrom, SwitchTo, Ring, Gone
  <2>2. CASE ready_list # <<>>
    <3>1. /\ ready_list' = Tail(Append(ready_list, current_pid))
          /\ current_pid' = ready_list[1] /\ Len(ready_list) >= 1
          /\ ready_list' \in Seq(Usize)
          /\ procs' = procs
      BY <1>6, <2>2, ReschedEffect DEF Resched
    <3>2. Gone' = Gone
      <4>1. \A p \in procs : state'[p] = "Free" <=> state[p] = "Free"
        <5>1. /\ ready_list[1] \in Queued /\ state'[ready_list[1]] = "Current"
              /\ state'[current_pid] = "Ready"
              /\ \A p \in Usize \ {ready_list[1], current_pid} : state'[p] = state[p]
          BY <1>6, <2>2, ReschedEffect
        <5>2. state[ready_list[1]] # "Free" /\ state[current_pid] # "Free"
          BY <5>1 DEF IInv, ReadyListExact, OneCurrent
        <5> QED
          BY <1>1, <5>1, <5>2
      <4> QED
        BY <3>1, <4>1 DEF Gone
    <3>3. Append(ready_list, current_pid) \in Seq(Usize) /\ Append(ready_list, current_pid) # <<>>
      BY <1>1
    <3>4. Head(Append(ready_list, current_pid)) = current_pid'
      BY <1>1, <2>2, <3>1, RotatedList
    <3>5. Ring' = Append(ready_list, current_pid)
      BY Zenon, <3>1, <3>3, <3>4, HeadThenTail DEF Ring
    <3>6. RR!Rotate
      <4>1. Len(Ring) > 1 /\ Ring' = Append(Tail(Ring), Head(Ring))
        BY <1>1, <1>2, <3>1, <3>5
      <4> QED
        BY <4>1, <3>2 DEF RR!Rotate, Ring, Gone
    <3> QED
      BY <3>6 DEF RR!RRNext
  <2> QED
    BY <2>1, <2>2
<1>7. CASE ProcessReturn
  <2>1. /\ ready_list' = Tail(ready_list) /\ current_pid' = ready_list[1]
        /\ Len(ready_list) >= 1 /\ current_pid # NULL_PROC /\ procs' = procs
    BY <1>7, ReturnEffect DEF ProcessReturn, Kill
  <2>2. Gone' = Gone \cup {current_pid}
    <3>1. /\ ready_list[1] \in Queued /\ state'[ready_list[1]] = "Current"
          /\ state'[current_pid] = "Free"
          /\ \A p \in Usize \ {ready_list[1], current_pid} : state'[p] = state[p]
      BY <1>7, ReturnEffect
    <3>2. state[ready_list[1]] # "Free"
      BY <3>1 DEF IInv, ReadyListExact
    <3> QED
      BY <1>1, <2>1, <3>1, <3>2 DEF Gone
  <2>3. ready_list # <<>>
    BY <1>1, <2>1
  <2>4. Ring' = ready_list
    <3>1. Head(ready_list) = ready_list[1]
      BY <1>1, <2>3, ShortenedList
    <3> QED
      BY <1>1, <2>1, <2>3, <3>1, HeadThenTail DEF Ring
  <2>5. /\ Head(Ring) # NULL_PROC /\ Len(Ring) > 1
        /\ Ring' = Tail(Ring) /\ Gone' = Gone \cup {Head(Ring)}
    BY <1>1, <1>2, <2>1, <2>2, <2>4
  <2>6. RR!Exit
    BY <2>5 DEF RR!Exit, Ring, Gone
  <2> QED
    BY <2>6 DEF RR!RRNext
<1>8. CASE UNCHANGED vars
  BY <1>8 DEF vars, Ring, Gone
<1> QED
  BY <1>4, <1>5, <1>6, <1>7, <1>8 DEF Next

\* CoopScheduler implements a round-robin ring: the running process followed
\* by the ready list changes only by a newcomer at the end, by the running
\* process going to the end, or by its leaving for good.
THEOREM RingRefinement == Spec => RoundRobinSteps
<1>1. Init => RR!RRInit
  <2> SUFFICES ASSUME Init PROVE Ring = <<NULL_PROC>> /\ Gone = {}
    BY DEF RR!RRInit, Ring, Gone
  <2>1. procs = {NULL_PROC} /\ state[NULL_PROC] = "Current" /\ NULL_PROC \in Usize
        /\ current_pid = NULL_PROC /\ ready_list = <<>>
    BY MaxProcsAssumption DEF Init, ListInit, Usize, USIZE_MAX, NULL_PROC
  <2>2. <<NULL_PROC>> \in Seq(Usize)
    BY <2>1
  <2>3. <<NULL_PROC>> \o <<>> = <<NULL_PROC>>
    BY <2>2, JoinedLists
  <2> QED
    BY <2>1, <2>3 DEF Ring, Gone
<1>2. IInv /\ [Next]_vars => [RR!RRNext]_(RR!rrVars)
  BY StepRing
<1> QED
  BY <1>1, <1>2, InvariantHolds, PTL DEF Spec, RoundRobinSteps, RR!RRSpec

-----------------------------------------------------------------------------
\* One step of the table by itself, with add() and remove() in any order.
LEMMA StepList ==
  ListTypeOK /\ SearchStaysInTable /\ [ListNext]_listVars =>
    (ListTypeOK /\ SearchStaysInTable)'
<1> SUFFICES ASSUME ListTypeOK, SearchStaysInTable, [ListNext]_listVars
             PROVE  (ListTypeOK /\ SearchStaysInTable)'
  OBVIOUS
<1> USE MaxProcsAssumption DEF USIZE_MAX, Usize, Err
<1>1. CASE Add
  <2>1. PICK m \in Usize :
          /\ SearchStopsAt(m)
          /\ IF m >= MAX_PROCS
             THEN next' = m /\ added' = Err /\ procs' = procs
             ELSE procs' = procs \cup {m} /\ next' = m + 1 /\ added' = m
    BY <1>1 DEF Add
  <2>2. /\ SearchStart \in 1 .. MAX_PROCS
        /\ MAX_PROCS \notin procs
    BY DEF SearchStart, SearchStaysInTable
  <2>3. m >= 1 /\ m <= MAX_PROCS
    BY <2>1, <2>2 DEF SearchStopsAt
  <2>4. CASE m >= MAX_PROCS
    <3>1. next' = m /\ added' = Err /\ procs' = procs /\ m = MAX_PROCS
      BY <2>1, <2>3, <2>4
    <3> QED
      BY <3>1 DEF ListTypeOK, SearchStaysInTable
  <2>5. CASE m < MAX_PROCS
    <3>1. procs' = procs \cup {m} /\ next' = m + 1 /\ added' = m
      BY <2>1, <2>5
    <3> QED
      BY <2>3, <2>5, <3>1 DEF ListTypeOK, SearchStaysInTable
  <2> QED
    BY <2>4, <2>5
<1>2. CASE \E id \in procs : RemoveProc(id)
  BY <1>2 DEF RemoveProc, ListTypeOK, SearchStaysInTable
<1>3. CASE UNCHANGED listVars
  BY <1>3 DEF listVars, ListTypeOK, SearchStaysInTable
<1> QED
  BY <1>1, <1>2, <1>3 DEF ListNext

\* ProcessList on its own, for every size of the table and every order of
\* add() and remove(): PID MAX_PROCS stays unused, where the search stops at
\* the latest, so `next` does not overflow.
THEOREM PidsStayInTable == ListSpec => []SearchStaysInTable
<1>1. ListInit => ListTypeOK /\ SearchStaysInTable
  BY MaxProcsAssumption DEF ListInit, ListTypeOK, SearchStaysInTable, Usize, USIZE_MAX,
                            NULL_PROC, Err
<1> QED
  BY <1>1, StepList, PTL DEF ListSpec
=============================================================================
