----------------------------- MODULE AtLeastOnce -----------------------------
(***************************************************************************)
(* What one durable queue of the serverless runtime promises to the code   *)
(* that publishes into it.  An accepted message stays open until it is     *)
(* closed; while it is open it is attempted a bounded number of times; it  *)
(* may only be closed once it was handled, once it was dead-lettered, or   *)
(* once its attempts are used up; or it grows too old and expires.         *)
(* DeliveryQueue, which models the consumer loop of pkg/serverless/nats.go *)
(* over JetStream, implements it.                                          *)
(***************************************************************************)
EXTENDS Naturals

CONSTANTS Messages,    \* identities of the queue's messages
          Malformed,   \* the messages whose payload cannot be decoded
          MaxAttempts  \* attempts one message may get

VARIABLES accepted,    \* messages stored in the stream
          open,        \* accepted messages that may still be attempted
          attempts,    \* attempts made at each message
          handled,     \* messages some attempt completed
          dead,        \* messages that have a dead-letter record
          expired      \* messages that grew too old while they were open

vars == <<accepted, open, attempts, handled, dead, expired>>

Init ==
  /\ accepted = {}
  /\ open = {}
  /\ attempts = [m \in Messages |-> 0]
  /\ handled = {}
  /\ dead = {}
  /\ expired = {}

Accept(m) ==
  /\ m \notin accepted
  /\ accepted' = accepted \cup {m}
  /\ open' = open \cup {m}
  /\ UNCHANGED <<attempts, handled, dead, expired>>

Attempt(m) ==
  /\ m \in open
  /\ attempts[m] < MaxAttempts
  /\ attempts' = [attempts EXCEPT ![m] = @ + 1]
  /\ UNCHANGED <<accepted, open, handled, dead, expired>>

Complete(m) ==
  /\ m \in accepted \ Malformed
  /\ attempts[m] > 0
  /\ handled' = handled \cup {m}
  /\ UNCHANGED <<accepted, open, attempts, dead, expired>>

\* A dead-letter record is written for a message that cannot be decoded, and
\* otherwise only by the last attempt.
Bury(m) ==
  /\ m \in accepted
  /\ attempts[m] > 0
  /\ m \in Malformed \/ attempts[m] = MaxAttempts
  /\ dead' = dead \cup {m}
  /\ UNCHANGED <<accepted, open, attempts, handled, expired>>

Close(m) ==
  /\ m \in open
  /\ m \in handled \cup dead \/ attempts[m] = MaxAttempts
  /\ open' = open \ {m}
  /\ UNCHANGED <<accepted, attempts, handled, dead, expired>>

Expire(m) ==
  /\ m \in open
  /\ open' = open \ {m}
  /\ expired' = expired \cup {m}
  /\ UNCHANGED <<accepted, attempts, handled, dead>>

Next ==
  \E m \in Messages :
     Accept(m) \/ Attempt(m) \/ Complete(m) \/ Bury(m) \/ Close(m) \/ Expire(m)

Spec == Init /\ [][Next]_vars
=============================================================================
