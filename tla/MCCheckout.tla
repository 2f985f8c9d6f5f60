----------------------------- MODULE MCCheckout -----------------------------
(* Instances of Checkout. *)
EXTENDS Checkout
=============================================================================
