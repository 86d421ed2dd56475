--------------------------- MODULE MCDeliveryQueue ---------------------------
(***************************************************************************)
(* DeliveryQueue for TLC: two result-store replicas (or an activator with  *)
(* its predecessor still running) over one message ID, published again     *)
(* after its duplicates window with a payload that does not decode.        *)
(* MaxDeliver = 3 gives two deliveries that may be retried and one that is *)
(* terminal.                                                               *)
(***************************************************************************)
EXTENDS DeliveryQueue

CONSTANTS c1, c2, m1

MCMalformed == {<<m1, 2>>}
=============================================================================
