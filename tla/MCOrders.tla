------------------------------ MODULE MCOrders ------------------------------
(* SMM orders: two requests of one user place orders; then the poll loop  *)
(* and the user refresh two orders that the provider cancels.  Placing is *)
(* over before a refresh sees the order and shares no other state with    *)
(* it, so the two are explored one after the other.                       *)
EXTENDS OrderPlacement, OrderRefunds

VARIABLE part   \* place, refresh

MCInit == Init /\ RefundInit /\ part \in {"place", "refresh"}

MCNext ==
  \/ part = "place" /\ Next /\ UNCHANGED <<refundVars, part>>
  \/ part = "refresh" /\ RefundNext /\ UNCHANGED <<vars, part>>

(* The fairness of OrderPlacement. *)
MCFairness ==
  /\ \A r \in Requests : WF_vars(part = "place" /\ Step(r))
  /\ \A k \in Keys : WF_vars(part = "place" /\ ExpireKey(k))

MCSpec == MCInit /\ [][MCNext]_<<vars, refundVars, part>> /\ MCFairness
=============================================================================
