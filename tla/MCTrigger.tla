----------------------------- MODULE MCTrigger ------------------------------
(* Small instances of module Trigger for TLC. *)
EXTENDS Trigger, TLC

\* Receivers other than the root, tasks and senders are interchangeable.
Symmetry == Permutations(Receivers \ {Root}) \cup Permutations(Tasks)
              \cup Permutations(Senders) \cup Permutations(Keys)
=============================================================================
