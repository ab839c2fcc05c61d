---------------------------- MODULE OutboxDelivery ----------------------------
(***************************************************************************)
(* What the outbox promises for each event, without workers, locks, clocks *)
(* or crashes: a well-formed event is delivered to the handler, perhaps    *)
(* several times, until it is concluded; a conclusion is final, it is      *)
(* backed by what the handler said or by enough deliveries, and nothing is *)
(* delivered after it.  OutboxWorker implements this module.               *)
(***************************************************************************)
EXTENDS Naturals

CONSTANTS Events,
          Malformed,   \* events whose row is not a well-formed event
          Attempted,   \* the attempts already on record when each event enters
          MaxAttempts

VARIABLES status,      \* "absent", "pending" or a conclusion, per event
          deliveries,  \* how many deliveries have begun, per event
          verdicts     \* what the handler has answered so far, per event

vars == <<status, deliveries, verdicts>>

Init ==
  /\ status = [e \in Events |-> "absent"]
  /\ deliveries = [e \in Events |-> 0]
  /\ verdicts = [e \in Events |-> {}]

Publish(e) ==
  /\ status[e] = "absent"
  /\ status' = [status EXCEPT ![e] = "pending"]
  /\ UNCHANGED <<deliveries, verdicts>>

Deliver(e) ==
  /\ status[e] = "pending"
  /\ e \notin Malformed
  /\ deliveries' = [deliveries EXCEPT ![e] = @ + 1]
  /\ UNCHANGED <<status, verdicts>>

\* The answer to a delivery may come when the event is already concluded.
Answer(e, verdict) ==
  /\ deliveries[e] > 0
  /\ verdicts' = [verdicts EXCEPT ![e] = @ \cup {verdict}]
  /\ UNCHANGED <<status, deliveries>>

Backed(e, conclusion) ==
  \/ conclusion = "completed" /\ "ok" \in verdicts[e]
  \/ conclusion = "permanent" /\ "refused" \in verdicts[e]
  \/ conclusion = "exhausted" /\ Attempted[e] + deliveries[e] >= MaxAttempts
  \/ conclusion = "invalid" /\ e \in Malformed

Conclude(e, conclusion) ==
  /\ status[e] = "pending"
  /\ Backed(e, conclusion)
  /\ status' = [status EXCEPT ![e] = conclusion]
  /\ UNCHANGED <<deliveries, verdicts>>

Next ==
  \E e \in Events :
    \/ Publish(e)
    \/ Deliver(e)
    \/ \E verdict \in {"ok", "late", "failed", "refused"} : Answer(e, verdict)
    \/ \E conclusion \in {"completed", "permanent", "exhausted", "invalid"} : Conclude(e, conclusion)

Spec == Init /\ [][Next]_vars
===============================================================================
