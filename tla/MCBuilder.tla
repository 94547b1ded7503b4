----------------------------- MODULE MCBuilder ------------------------------
(* A small instance of module Builder for TLC. *)
EXTENDS Builder, TLC

Symmetry == Permutations(Signals) \cup Permutations(Delays)
=============================================================================
