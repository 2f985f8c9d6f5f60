--------------------------- MODULE AccountMarket ---------------------------
(***************************************************************************)
(* What the account marketplace promises: a market without requests and    *)
(* without locks.  An account has an owner and at most one offer; an offer *)
(* is made by the owner, and a purchase takes it as it stands: in one step *)
(* the buyer pays its price, the seller gets the seller's share and the    *)
(* account changes hands.  The payment of an invoice does the same if an   *)
(* offer stands, and is credited to the buyer if none does.  A settlement  *)
(* credits the balance of the moment, or a copy of it that was taken       *)
(* earlier and is still out: it then undoes what happened in between.      *)
(***************************************************************************)
EXTENDS Integers

CONSTANTS
  Users,
  Accounts,
  Txs,      \* invoices
  Prices,
  None      \* the absent offer or invoice

VARIABLES
  balance,  \* money of each user
  owner,    \* owner of each account
  offer,    \* the offer that stands for an account
  bill,     \* what an invoice is for
  paid,     \* invoices that were paid, or that the platform's owner vouches for
  settled,  \* how often an invoice was settled
  copies    \* balances that settlements under way have noted

vars == <<balance, owner, offer, bill, paid, settled, copies>>

Offers == [seller : Users, gets : Prices, costs : Prices]
Bills == [buyer : Users, acct : Accounts, amount : Prices]

Init ==
  /\ balance \in [Users -> Nat]
  /\ owner \in [Accounts -> Users]
  /\ offer = [a \in Accounts |-> None]
  /\ bill = [t \in Txs |-> None]
  /\ paid = {}
  /\ settled = [t \in Txs |-> 0]
  /\ copies = {}

(* A user offers accounts of theirs, at prices no lower than their share. *)
Sell(u, S) ==
  /\ \A a \in S : owner[a] = u /\ offer[a] = None
  /\ \E new \in [S -> Offers] :
       /\ \A a \in S : new[a].seller = u /\ new[a].gets <= new[a].costs
       /\ offer' = [a \in Accounts |-> IF a \in S THEN new[a] ELSE offer[a]]
  /\ UNCHANGED <<balance, owner, bill, paid, settled, copies>>

(* The offer is taken back, or its account does not work any more. *)
Cancel(a) ==
  /\ offer[a] \in Offers
  /\ offer' = [offer EXCEPT ![a] = None]
  /\ UNCHANGED <<balance, owner, bill, paid, settled, copies>>

HandOver(a, u) ==
  /\ owner' = [owner EXCEPT ![a] = u]
  /\ offer' = [offer EXCEPT ![a] = None]

(* A purchase from the balance. *)
Buy(u, a) ==
  /\ offer[a] \in Offers
  /\ offer[a].seller # u
  /\ balance[u] >= offer[a].costs
  /\ balance' = [balance EXCEPT ![u] = @ - offer[a].costs,
                                ![offer[a].seller] = @ + offer[a].gets]
  /\ HandOver(a, u)
  /\ UNCHANGED <<bill, paid, settled, copies>>

(* An invoice names a buyer, an account and an amount, and reserves nothing. *)
Invoice(t) ==
  /\ bill[t] = None
  /\ \E b \in Bills : bill' = [bill EXCEPT ![t] = b]
  /\ UNCHANGED <<balance, owner, offer, paid, settled, copies>>

Pay(t) ==
  /\ bill[t] \in Bills
  /\ paid' = paid \cup {t}
  /\ UNCHANGED <<balance, owner, offer, bill, settled, copies>>

(* A settlement begins: somebody notes the balance of u, and may vouch for *)
(* the invoice.                                                           *)
Note(u) ==
  /\ copies' = copies \cup {<<u, balance[u]>>}
  /\ \/ UNCHANGED paid
     \/ \E t \in Txs : bill[t] \in Bills /\ paid' = paid \cup {t}
  /\ UNCHANGED <<balance, owner, offer, bill, settled>>

(* A settlement ends without effect. *)
Forget ==
  /\ copies' \in SUBSET copies
  /\ UNCHANGED <<balance, owner, offer, bill, paid, settled>>

Credit(u, n) ==
  \/ balance' = [balance EXCEPT ![u] = @ + n]
  \/ \E c \in copies : c[1] = u /\ balance' = [balance EXCEPT ![u] = c[2] + n]

(* The payment buys the account if an offer stands, at its present price; *)
(* otherwise the buyer gets the amount.  A repeated callback may do it    *)
(* again.                                                                 *)
Settle(t) ==
  LET b == bill[t] IN
  /\ t \in paid /\ b \in Bills
  /\ settled' = [settled EXCEPT ![t] = @ + 1]
  /\ \/ /\ offer[b.acct] \in Offers
        /\ Credit(offer[b.acct].seller, offer[b.acct].gets)
        /\ HandOver(b.acct, b.buyer)
     \/ /\ offer[b.acct] = None
        /\ Credit(b.buyer, b.amount)
        /\ UNCHANGED <<owner, offer>>
  /\ copies' \in SUBSET copies
  /\ UNCHANGED <<bill, paid>>

(* The platform gives an account to another user; an offer stays. *)
Reassign(a, u) ==
  /\ owner' = [owner EXCEPT ![a] = u]
  /\ UNCHANGED <<balance, offer, bill, paid, settled, copies>>

Next ==
  \/ \E u \in Users : Note(u) \/ \E S \in SUBSET Accounts : Sell(u, S)
  \/ \E a \in Accounts : Cancel(a) \/ \E u \in Users : Buy(u, a) \/ Reassign(a, u)
  \/ \E t \in Txs : Invoice(t) \/ Pay(t) \/ Settle(t)
  \/ Forget

Spec == Init /\ [][Next]_vars
=============================================================================
