------------------------------ MODULE MCPolling ------------------------------
(* Small instances of module Polling for TLC. *)
EXTENDS Polling
=============================================================================
