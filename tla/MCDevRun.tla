------------------------------ MODULE MCDevRun ------------------------------
(* Module DevRun: a service and a gateway, two reloads. *)
EXTENDS DevRun

CONSTANTS service, gateway

MCProc == {service, gateway}
=============================================================================
