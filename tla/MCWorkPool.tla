----------------------------- MODULE MCWorkPool -----------------------------
(* Module WorkPool on small instances. *)
EXTENDS WorkPool

CONSTANTS w1, w2, i1, i2, i3, i4

MCWorker == {w1, w2}
MCItem == {i1, i2, i3, i4}
=============================================================================
