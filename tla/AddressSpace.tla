---------------------------- MODULE AddressSpace -----------------------------
(***************************************************************************)
(* What the paging code promises: two maps from pages to frames, the one   *)
(* the CPU uses and a spare one that is built and then switched to.  A     *)
(* step adds one page that was unmapped or removes one page; every other   *)
(* page stays as it is.                                                    *)
(***************************************************************************)
CONSTANTS
  Page,       \* pages outside the recursive slot
  Target,     \* what a page can be mapped to
  Unmapped

VARIABLES current, spare

spaces == <<current, spare>>

\* new has one more page than old.
Grows(old, new) ==
  \E p \in Page : /\ old[p] = Unmapped
                 /\ new[p] \in Target
                 /\ new = [old EXCEPT ![p] = new[p]]

ASInit ==
  /\ current \in [Page -> Target \cup {Unmapped}]
  /\ spare = [p \in Page |-> Unmapped]

Map == UNCHANGED spare /\ Grows(current, current')

MapSpare == UNCHANGED current /\ Grows(spare, spare')

Unmap ==
  /\ UNCHANGED spare
  /\ \E p \in Page : current' = [current EXCEPT ![p] = Unmapped]

Switch == current' = spare /\ spare' = current

ASNext == Map \/ MapSpare \/ Unmap \/ Switch

ASSpec == ASInit /\ [][ASNext]_spaces
=============================================================================
