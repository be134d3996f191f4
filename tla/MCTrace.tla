------------------------------ MODULE MCTrace ------------------------------
(* Module Trace on small instances. *)
EXTENDS Trace
=============================================================================
