-------------------------- MODULE DeliveryPromise --------------------------
(***************************************************************************)
(* What internal/delivery promises about each queued webhook, without      *)
(* passes, attempts or time: it is accepted once, and it ends once, as     *)
(* delivered only after its receiver has confirmed it.                     *)
(***************************************************************************)
CONSTANT Item

VARIABLES
  outcome,    \* [Item -> "none", "pending" or the final outcome]
  confirmed   \* items the receiver has confirmed

Init ==
  /\ outcome = [i \in Item |-> "none"]
  /\ confirmed = {}

Become(i, from, to) ==
  /\ outcome[i] = from
  /\ outcome' = [outcome EXCEPT ![i] = to]
  /\ UNCHANGED confirmed

Accept(i) == Become(i, "none", "pending")

Confirm(i) ==
  /\ outcome[i] = "pending"
  /\ confirmed' = confirmed \cup {i}
  /\ UNCHANGED outcome

Deliver(i) == i \in confirmed /\ Become(i, "pending", "delivered")

GiveUp(i) == Become(i, "pending", "failed") \/ Become(i, "pending", "expired")

Next == \E i \in Item : Accept(i) \/ Confirm(i) \/ Deliver(i) \/ GiveUp(i)

Spec == Init /\ [][Next]_<<outcome, confirmed>>
=============================================================================
