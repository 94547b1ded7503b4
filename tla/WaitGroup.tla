----------------------------- MODULE WaitGroup ------------------------------
(***************************************************************************)
(* What reference counting of shutdown guards promises: members join and   *)
(* leave a group that starts with one member, and the group is released    *)
(* once it has been empty.  Being empty is remembered: a member that joins *)
(* an empty group comes too late to hold the release back.  Module Guards  *)
(* shows how src/guard.rs keeps this.                                      *)
(***************************************************************************)
CONSTANTS Members, First

VARIABLES active,     \* the present members
          emptied,    \* has the group ever been empty?
          released    \* has the release been signalled?

vars == <<active, emptied, released>>

TypeOK == /\ active \in SUBSET Members
          /\ emptied \in BOOLEAN /\ released \in BOOLEAN

Init == active = {First} /\ emptied = FALSE /\ released = FALSE

Join(m) == /\ m \notin active
           /\ active' = active \cup {m}
           /\ UNCHANGED <<emptied, released>>

Leave(m) == /\ m \in active
            /\ active' = active \ {m}
            /\ emptied' = (emptied \/ active = {m})
            /\ UNCHANGED released

Release == emptied /\ released' = TRUE /\ UNCHANGED <<active, emptied>>

Next == Release \/ \E m \in Members : Join(m) \/ Leave(m)

SafeSpec == Init /\ [][Next]_vars

Spec == SafeSpec /\ WF_vars(Release)
=============================================================================
