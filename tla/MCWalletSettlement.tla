------------------------ MODULE MCWalletSettlement ------------------------
(* Two transactions of one user: top-ups and withdrawals with three        *)
(* requests, invoices for goods as well with two, and withdrawals of a     *)
(* balance an earlier top-up has left with three.                          *)
EXTENDS WalletSettlement

VARIABLE part   \* money, goods, payout

First == CHOOSE t \in Txs : TRUE

(* The state a webhook leaves that has settled a top-up, seen by a server *)
(* that has been started again.                                           *)
ToppedUp ==
  \E u \in Users, a \in Amounts :
    /\ balance = [v \in Users |-> IF v = u THEN a ELSE 0]
    /\ tx = [t \in Txs |-> IF t # First THEN NoTx ELSE
              [type |-> "topup", user |-> u, amount |-> a, status |-> "approved"]]
    /\ ledger = [t \in Txs |-> [c \in Categories |->
                  IF t = First /\ c = "topup" THEN 1 ELSE 0]]
    /\ gateway = [t \in Txs |-> IF t = First THEN "paid" ELSE "open"]
    /\ order = [t \in Txs |-> "none"]
    /\ delivered = [t \in Txs |-> 0]
    /\ req = [r \in Requests |-> NoReq] /\ late = {} /\ drift = {}

MCInit ==
  /\ part \in {"money", "goods", "payout"}
  /\ IF part = "payout" THEN ToppedUp ELSE Init

Third == CHOOSE r \in Requests : TRUE

(* Bound: no goods with three requests. *)
MCNext ==
  /\ Next /\ UNCHANGED part
  /\ CASE part = "money" -> \A t \in Txs : tx'[t].type \notin {"subscription", "smm"}
       [] part = "goods" -> req'[Third] = NoReq
       [] OTHER -> \A t \in Txs \ {First} : tx'[t].type \in {"none", "withdraw"}

MCSpec == MCInit /\ [][MCNext]_<<vars, part>> /\ Fairness
=============================================================================
