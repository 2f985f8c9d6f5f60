--------------------------- MODULE MCOrderRefunds ---------------------------
(* One order, canceled or partly done, with fairness.  A session with one  *)
(* order neither goes on with another one nor is part of a ring of waiters *)
(* (Flushed, DeadlockVictim): MCOrders has two orders.                     *)
EXTENDS OrderRefunds

MCNext ==
  \/ \E o \in Orders : PanelMoves(o)
  \/ \E s \in Sessions :
       \/ BeginRefresh(s)
       \/ \E o \in Orders : Ask(s, o) \/ AskFails(s, o) \/ Apply(s, o)
       \/ LockRow(s) \/ ReadOrder(s) \/ CreditUser(s) \/ Commit(s)
       \/ Abort(s)

MCSpec == RefundInit /\ [][MCNext]_refundVars /\ RefundFairness
=============================================================================
