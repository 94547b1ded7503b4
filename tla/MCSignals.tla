------------------------------ MODULE MCSignals ------------------------------
(* Small instances of module Signals for TLC. *)
EXTENDS Signals
=============================================================================
