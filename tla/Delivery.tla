------------------------------ MODULE Delivery ------------------------------
(***************************************************************************)
(* What the outbox and its workers promise of every item: it is handled at *)
(* least once before its consumption is recorded, its consumption is       *)
(* recorded before it is done, and an item is given up only if that never  *)
(* happened.  Done and given up are final.  The handler may run again.     *)
(***************************************************************************)
EXTENDS Naturals

CONSTANT DeliveryItems

VARIABLES
  stage,    \* of each item: absent, open, done or dead
  handled,  \* the items whose handler has succeeded
  consumed  \* the items whose consumption is recorded

deliveryVars == <<stage, handled, consumed>>

DeliveryInit ==
  /\ stage = [i \in DeliveryItems |-> "absent"]
  /\ handled = {}
  /\ consumed = {}

Submit(i) ==
  /\ stage[i] = "absent"
  /\ stage' = [stage EXCEPT ![i] = "open"]
  /\ UNCHANGED <<handled, consumed>>

Run(i) ==
  /\ stage[i] # "absent"
  /\ handled' = handled \cup {i}
  /\ UNCHANGED <<stage, consumed>>

Consume(i) ==
  /\ stage[i] = "open"
  /\ i \in handled
  /\ consumed' = consumed \cup {i}
  /\ UNCHANGED <<stage, handled>>

Finish(i) ==
  /\ stage[i] = "open"
  /\ i \in consumed
  /\ stage' = [stage EXCEPT ![i] = "done"]
  /\ UNCHANGED <<handled, consumed>>

GiveUp(i) ==
  /\ stage[i] = "open"
  /\ i \notin consumed
  /\ stage' = [stage EXCEPT ![i] = "dead"]
  /\ UNCHANGED <<handled, consumed>>

DeliveryNext ==
  \E i \in DeliveryItems : Submit(i) \/ Run(i) \/ Consume(i) \/ Finish(i) \/ GiveUp(i)

DeliverySpec == DeliveryInit /\ [][DeliveryNext]_deliveryVars
=============================================================================
