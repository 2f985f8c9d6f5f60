--------------------------- MODULE MCMarketplace ---------------------------
(* Two accounts with two requests; and one account at one price with three *)
(* requests, of which two may be purchases, so that a settlement meets a   *)
(* purchase.                                                               *)
EXTENDS Marketplace

CONSTANTS Only, Third  \* the account and the request of the second part

VARIABLE part   \* "pair", "ring"

(* Bounds: what the two parts leave out. *)
MCNext ==
  /\ Next /\ UNCHANGED part
  /\ CASE part = "pair" ->
            /\ req'[Third] = NoReq
            /\ \A a \in Accounts \ {Only} : acct'[a].sale => acct'[a].buy = 1
       [] part = "ring" ->
            /\ req'[Third].kind # "buy"
            /\ \A a \in Accounts \ {Only} : acct'[a] = acct[a]
            /\ \A r \in Requests : req'[r].acct \in {Only, None}
            /\ acct'[Only].sale => acct'[Only].buy = 1

MCInit == Init /\ part \in {"pair", "ring"}

MCSpec == MCInit /\ [][MCNext]_<<vars, part>> /\ Fairness
=============================================================================
