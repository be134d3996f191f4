---------------------------- MODULE MCFileWatch ----------------------------
(* Module FileWatch on a small instance. *)
EXTENDS FileWatch

CONSTANTS r1, f1, f2, d1

MCRun == {r1}
MCFiring == {f1, f2}
MCDirect == {d1}
=============================================================================
