------------------------------ MODULE MCGuards ------------------------------
(* Small instances of module Guards for TLC. *)
EXTENDS Guards
=============================================================================
