----------------------------- MODULE MCShutdown -----------------------------
(* Small instances of module Shutdown for TLC. *)
EXTENDS Shutdown
=============================================================================
