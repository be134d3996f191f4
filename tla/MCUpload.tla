------------------------------ MODULE MCUpload ------------------------------
(* Module Upload on small instances. *)
EXTENDS Upload

CONSTANTS b1, b2, b3

MCBuffer == {b1, b2, b3}
=============================================================================
