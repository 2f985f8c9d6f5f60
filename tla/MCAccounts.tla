----------------------------- MODULE MCAccounts -----------------------------
(* Instances of Accounts.  Only the page of an account's details starts    *)
(* with one that is for sale, and the page of its security with one that   *)
(* has a two-step password.                                                *)
EXTENDS Accounts

MCInit == Init /\ (srv["sale"] = 1 => page = "detail") /\ (page = "security" => srv["twofa"] = 1)

MCSpec == MCInit /\ [][Next]_vars /\ WF_vars(GroupsGoOn)
=============================================================================
