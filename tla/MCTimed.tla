------------------------------- MODULE MCTimed -------------------------------
(* Small instances of module Timed for TLC. *)
EXTENDS Timed
=============================================================================
