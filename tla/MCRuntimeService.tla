--------------------------- MODULE MCRuntimeService ---------------------------
(***************************************************************************)
(* RuntimeService for TLC: all requests on one process, or on two.         *)
(***************************************************************************)
EXTENDS RuntimeService

CONSTANTS r1, r2, r3, api1, api2

OneReplica == [r \in Requests |-> api1]
TwoReplicas == [r \in Requests |-> IF r = r1 THEN api1 ELSE api2]
===============================================================================
