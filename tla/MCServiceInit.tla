---------------------------- MODULE MCServiceInit ----------------------------
(* Module ServiceInit: the Setup of s1 calls s2. *)
EXTENDS ServiceInit

CONSTANTS s1, s2, r1, r2

MCSvc == {s1, s2}
MCReq == {r1, r2}
MCCalls == [s \in MCSvc |-> IF s = s1 THEN {s2} ELSE {}]
=============================================================================
