------------------------- MODULE MCInvocationPipeline -------------------------
(***************************************************************************)
(* InvocationPipeline for TLC.                                             *)
(***************************************************************************)
EXTENDS InvocationPipeline, TLC

CONSTANTS w1, s1, s2

MCSymmetry == Permutations({s1, s2})

\* Pipeline_results identifies states that differ only in what neither a later
\* step nor its properties read: how a message was closed, how often a closed
\* result was delivered, and the histories.
Closed == {"acked", "termed", "exhausted", "expired"}
Seen(status) == [m \in DOMAIN status |-> IF status[m] \in Closed THEN "closed" ELSE status[m]]
Counted(status, delivered) ==
  [m \in DOMAIN status |-> IF status[m] \in Closed THEN 0 ELSE delivered[m]]

MCView ==
  <<iStream, Seen(iStatus), Counted(iStatus, iDelivered), iCons,
    dStream, Seen(dStatus), Counted(dStatus, dDelivered), dCons,
    rStream, rLapsed, Seen(rStatus), Counted(rStatus, rDelivered), rCons, ownVars>>
===============================================================================
