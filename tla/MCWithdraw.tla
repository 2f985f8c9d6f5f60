----------------------------- MODULE MCWithdraw -----------------------------
(* Instances of Withdraw. *)
EXTENDS Withdraw, TLC

CONSTANTS b1, b2
MCListed == <<b1, b2>>
Symmetry == Permutations(Tabs) \cup Permutations(Admins)
=============================================================================
