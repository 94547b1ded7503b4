------------------------------ MODULE MCServer ------------------------------
(* Small instances of module Server for TLC. *)
EXTENDS Server
=============================================================================
