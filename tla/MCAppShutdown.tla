---------------------------- MODULE MCAppShutdown ----------------------------
(* Module AppShutdown on small instances. *)
EXTENDS AppShutdown

CONSTANTS r1, m1, s1

MCCaller == {"main", "signals"}
MCInfra == {"sqldb"}
MCHandler == {"api", "pubsub", "service", "sqldb"}
MCSingletons == <<"pubsub", "service", "sqldb">>
ObjHandler == {"api", "pubsub", "service", "objects"}
ObjSingletons == <<"pubsub", "service", "objects">>
MCReq == {r1}
MCMsg == {m1}
MCSvc == {s1}
None == {}
=============================================================================
