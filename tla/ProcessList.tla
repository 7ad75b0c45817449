----------------------------- MODULE ProcessList -----------------------------
(***************************************************************************)
(* The task table, src/task/proc_list.rs: a map from PIDs to processes and *)
(* the place where the search for an unused PID starts.  Only the keys of  *)
(* the map are kept here; the contents of a process belong to Scheduler.   *)
(***************************************************************************)
EXTENDS Integers

CONSTANT MAX_PROCS   \* usize::max_value() - 1 in the code

\* A table has room for at least one process besides the null process.
ASSUME MaxProcsAssumption == MAX_PROCS \in Nat /\ MAX_PROCS >= 2

\* The largest value of usize: MAX_PROCS is one less.
USIZE_MAX == MAX_PROCS + 1

Usize == 0 .. USIZE_MAX

\* PID of the initial kernel thread.
NULL_PROC == 0

\* Err(-1), what add returns when it runs off the end of the table.
Err == -1

VARIABLES
  procs,   \* keys of ProcessList.procs
  next,    \* ProcessList.next
  added    \* what the latest add() returned: a PID or Err

listVars == <<procs, next, added>>

ListTypeOK ==
  /\ procs \subseteq Usize
  /\ next \in Usize
  /\ added \in Usize \cup {Err}

-----------------------------------------------------------------------------
ListInit ==
  /\ procs = {NULL_PROC}
  /\ next = 1
  /\ added = NULL_PROC

\* Mutant: the search is never rewound.
SearchStartNoRewind == next

\* Where the search begins: back at 1 once the end of the table was reached.
SearchStart == IF next >= MAX_PROCS THEN 1 ELSE next

\* The search steps over used PIDs one at a time and stops at m.
SearchStopsAt(m) ==
  /\ m \in Usize
  /\ m >= SearchStart
  /\ m \notin procs
  /\ \A k \in SearchStart .. m - 1 : k \in procs

\* Mutant: the test for the end of the table is off by one.
AddOffByOne ==
  \E m \in Usize :
    /\ SearchStopsAt(m)
    /\ IF m > MAX_PROCS
       THEN next' = m /\ added' = Err /\ UNCHANGED procs
       ELSE procs' = procs \cup {m} /\ next' = m + 1 /\ added' = m

Add ==
  \E m \in Usize :
    /\ SearchStopsAt(m)
    /\ IF m >= MAX_PROCS
       THEN /\ next' = m
            /\ added' = Err
            /\ UNCHANGED procs
       ELSE /\ procs' = procs \cup {m}
            /\ next' = m + 1
            /\ added' = m

RemoveProc(id) ==
  /\ procs' = procs \ {id}
  /\ UNCHANGED <<next, added>>

ListNext == Add \/ \E id \in procs : RemoveProc(id)

\* A caller whose add() failed keeps trying.
ListSpec == ListInit /\ [][ListNext]_listVars /\ WF_listVars(Add)

-----------------------------------------------------------------------------
\* The search neither overflows `next` nor hands out a PID past the table:
\* PID MAX_PROCS stays unused, so the while loop of add() always stops there
\* and `self.next += 1` stays a usize.
SearchStaysInTable ==
  /\ next \in 1 .. MAX_PROCS
  /\ \A p \in procs : p < MAX_PROCS

\* add() may fail although a PID is free, because it searches from `next` to
\* the end only.  A failure rewinds the search, so a caller that tries again
\* gets a PID as long as one is free.
RetryFindsFreePid ==
  (added = Err /\ \E p \in 1 .. MAX_PROCS - 1 : p \notin procs) ~> (added # Err)
=============================================================================
