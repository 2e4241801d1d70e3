------------------------------- MODULE Delivery -------------------------------
(***************************************************************************)
(* What the outbox promises to the code that enqueues an event: the event  *)
(* is never lost.  Once submitted it stays pending until either its        *)
(* consumer has run to completion at least once, or it has been put aside  *)
(* as a dead letter that an operator can still see.  The effect of the     *)
(* consumer may happen more than once while the event is pending, and      *)
(* never after it has been retired or put aside.                           *)
(***************************************************************************)

CONSTANT Items                \* the events whose delivery is promised

VARIABLES status,             \* status[i]: where item i stands
          effects             \* items whose consumer has completed

deliveryVars == <<status, effects>>

Statuses == {"absent", "pending", "done", "dead"}

DeliveryInit ==
  /\ status = [i \in Items |-> "absent"]
  /\ effects = {}

Submit(i) ==
  /\ status[i] = "absent"
  /\ status' = [status EXCEPT ![i] = "pending"]
  /\ UNCHANGED effects

\* The consumer completes; a repetition is a stuttering step.
TakeEffect(i) ==
  /\ status[i] = "pending"
  /\ effects' = effects \cup {i}
  /\ UNCHANGED status

Retire(i) ==
  /\ status[i] = "pending"
  /\ i \in effects
  /\ status' = [status EXCEPT ![i] = "done"]
  /\ UNCHANGED effects

PutAside(i) ==
  /\ status[i] = "pending"
  /\ status' = [status EXCEPT ![i] = "dead"]
  /\ UNCHANGED effects

DeliveryNext ==
  \E i \in Items : Submit(i) \/ TakeEffect(i) \/ Retire(i) \/ PutAside(i)

DeliverySpec == DeliveryInit /\ [][DeliveryNext]_deliveryVars

===============================================================================
