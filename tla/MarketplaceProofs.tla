------------------------- MODULE MarketplaceProofs -------------------------
(***************************************************************************)
(* TLAPS proofs about Marketplace, for every set of users, accounts,       *)
(* invoices, requests and prices.                                          *)
(***************************************************************************)
EXTENDS Marketplace, TLAPS, WellFoundedInduction

(* The steps at which a request holds the row of an account. *)
HoldsAcct(r) == req[r].pc \in {"lockFirst", "lockSecond", "lockSeller"}

(* The steps at which a settlement holds the row of its invoice. *)
HoldsTx(r) == /\ req[r].kind \in Settlers
              /\ req[r].pc \in {"lockBuyer", "lockAcct", "lockSeller"}

(* An account that is listed has a seller and prices of the rules; one     *)
(* that is not has no seller.                                              *)
AccountOf(a) ==
  /\ acct[a].owner \in Users
  /\ acct[a].sale => /\ acct[a].seller \in Users
                     /\ acct[a].sell \in Prices /\ acct[a].buy \in Prices
                     /\ acct[a].sell <= acct[a].buy
  /\ ~acct[a].sale => acct[a].seller = None

(* An invoice names its buyer, its account and a price. *)
BillOf(t) ==
  /\ tx[t].status # "none" =>
       tx[t].buyer \in Users /\ tx[t].acct \in Accounts /\ tx[t].amount \in Prices
  /\ t \in paid => tx[t].status # "none"

(* An invoice that was settled is not pending any more. *)
ValueOf(t) == (\E c \in Categories : ledger[t][c] > 0) => tx[t].status \in {"approved", "rejected"}

(* The kind of a request at each of its steps, and what it works on. *)
KindOf(r) ==
  /\ req[r].pc \in {"validate", "lockFirst", "lockSecond", "invoice"} =>
       req[r].kind = "buy"
  /\ req[r].pc \in {"lockTx", "lockBuyer", "lockSeller"} => req[r].kind \in Settlers
  /\ req[r].pc = "lockAcct" => req[r].kind \in Settlers \cup {"buy"}
  /\ req[r].pc = "transfer" => req[r].kind = "transfer"
  /\ req[r].kind # "none" => req[r].user \in Users /\ req[r].acct \in Accounts
  /\ req[r].pc = "idle" => req[r].kind = "none"
  /\ req[r].kind \notin Settlers => req[r].seen = {}

(* A settlement works on an invoice, its buyer and its account.  When it   *)
(* goes on to the buyer's row the invoice is paid, or the owner vouches    *)
(* for it; the status check and the owner then know it to be pending.      *)
SettleOf(r) ==
  req[r].kind \in Settlers =>
    /\ req[r].tx \in Txs
    /\ tx[req[r].tx].status # "none"
    /\ req[r].user = tx[req[r].tx].buyer
    /\ req[r].acct = tx[req[r].tx].acct
    /\ req[r].kind = "check" => req[r].verdict = "none"
    /\ req[r].kind # "check" => req[r].verdict \in {"approved", "rejected"}
    /\ req[r].kind = "webhook" /\ req[r].verdict = "approved" => req[r].tx \in paid
    /\ HoldsTx(r) => /\ req[r].kind = "webhook" => req[r].verdict = "approved"
                     /\ req[r].kind = "check" => req[r].tx \in paid
                     /\ req[r].kind # "webhook" => tx[req[r].tx].status = "pending"
                     /\ req[r].pc # "lockBuyer" => req[r].verdict # "rejected"

(* The holder of an account's row has read the listing as it stands; a     *)
(* buyer is never the seller.                                              *)
OfferOf(r) ==
  /\ HoldsAcct(r) => /\ acct[req[r].acct].sale
                     /\ acct[req[r].acct].seller = req[r].seller
                     /\ acct[req[r].acct].sell = req[r].sell
  /\ req[r].pc \in {"lockFirst", "lockSecond"} =>
       /\ req[r].seller # req[r].user
       /\ req[r].price = Larger(acct[req[r].acct].buy, acct[req[r].acct].sell)
  /\ req[r].pc = "invoice" => req[r].price \in Prices

(* Two requests never hold the row of the same account. *)
AcctLockExclusive ==
  \A r, q \in Requests :
    HoldsAcct(r) /\ HoldsAcct(q) /\ req[r].acct = req[q].acct => r = q

(* Nor that of the same invoice. *)
TxLockExclusive ==
  \A r, q \in Requests :
    HoldsTx(r) /\ HoldsTx(q) /\ req[r].tx = req[q].tx => r = q

IInv == /\ TypeOK
        /\ \A a \in Accounts : AccountOf(a)
        /\ \A t \in Txs : BillOf(t) /\ ValueOf(t)
        /\ \A r \in Requests : KindOf(r) /\ SettleOf(r) /\ OfferOf(r)
        /\ AcctLockExclusive
        /\ TxLockExclusive
        /\ ListingIsOwners

-----------------------------------------------------------------------------
(* What the building blocks of the actions do, field by field. *)

LEMMA NatSum == \A m, n \in Nat : m + n \in Nat
OBVIOUS

LEMMA NatDiff == \A m, n \in Nat : m >= n => m - n \in Nat
OBVIOUS

(* Goto moves one request and leaves the others alone. *)
LEMMA GotoEffect ==
  ASSUME TypeOK, NEW r \in Requests, NEW pc \in InFlight \cup {"done"}, Goto(r, pc)
  PROVE  /\ req' \in [Requests -> ReqType]
         /\ \A q \in Requests : q # r => req'[q] = req[q]
         /\ req'[r].pc = pc
         /\ req'[r].kind = req[r].kind
         /\ req'[r].user = req[r].user
         /\ req'[r].acct = req[r].acct
         /\ req'[r].tx = req[r].tx
         /\ req'[r].seller = req[r].seller
         /\ req'[r].sell = req[r].sell
         /\ req'[r].price = req[r].price
         /\ req'[r].verdict = req[r].verdict
         /\ req'[r].seen = IF pc = "done" THEN {} ELSE req[r].seen
<1>1. req[r] \in ReqType
  BY DEF TypeOK
<1> DEFINE rec == [req[r] EXCEPT !.pc = pc, !.seen = IF pc = "done" THEN {} ELSE req[r].seen]
<1>2. /\ rec \in ReqType /\ rec.pc = pc /\ rec.kind = req[r].kind
      /\ rec.user = req[r].user /\ rec.acct = req[r].acct /\ rec.tx = req[r].tx
      /\ rec.seller = req[r].seller /\ rec.sell = req[r].sell
      /\ rec.price = req[r].price /\ rec.verdict = req[r].verdict
      /\ rec.seen = IF pc = "done" THEN {} ELSE req[r].seen
  BY <1>1 DEF ReqType
<1>3. req' = [req EXCEPT ![r] = rec]
  BY DEF Goto, TypeOK
<1> HIDE DEF rec
<1> QED BY <1>2, <1>3 DEF TypeOK

(* Ending a listing clears its seller and its prices, not the owner. *)
LEMMA UnlistedFields ==
  ASSUME TypeOK, NEW a \in Accounts
  PROVE  /\ Unlisted(a) \in AcctType
         /\ Unlisted(a).owner = acct[a].owner
         /\ ~Unlisted(a).sale
         /\ Unlisted(a).seller = None
<1>1. acct[a] \in AcctType
  BY DEF TypeOK
<1> QED BY <1>1 DEF AcctType, Unlisted

(* Ending a listing touches one account. *)
LEMMA UnlistEffect ==
  ASSUME TypeOK, NEW a \in Accounts, acct' = [acct EXCEPT ![a] = Unlisted(a)]
  PROVE  /\ acct' \in [Accounts -> AcctType]
         /\ \A b \in Accounts : b # a => acct'[b] = acct[b]
         /\ acct'[a].owner = acct[a].owner
         /\ ~acct'[a].sale
         /\ acct'[a].seller = None
BY UnlistedFields DEF TypeOK

(* A sold account has its new owner and no listing. *)
LEMMA HandOverEffect ==
  ASSUME TypeOK, NEW a \in Accounts, NEW u \in Users, HandOver(a, u)
  PROVE  /\ acct' \in [Accounts -> AcctType]
         /\ \A b \in Accounts : b # a => acct'[b] = acct[b]
         /\ acct'[a].owner = u
         /\ ~acct'[a].sale
         /\ acct'[a].seller = None
<1> DEFINE row == [Unlisted(a) EXCEPT !.owner = u]
<1>1. row \in AcctType /\ row.owner = u /\ ~row.sale /\ row.seller = None
  BY UnlistedFields DEF AcctType
<1>2. acct' = [acct EXCEPT ![a] = row]
  BY DEF HandOver
<1> HIDE DEF row
<1> QED BY <1>1, <1>2 DEF TypeOK

(* Approve settles one invoice with one ledger row. *)
LEMMA ApproveEffect ==
  ASSUME TypeOK, NEW t \in Txs, NEW c \in Categories, Approve(t, c)
  PROVE  /\ tx' \in [Txs -> TxType]
         /\ \A x \in Txs : x # t => tx'[x] = tx[x] /\ ledger'[x] = ledger[x]
         /\ tx'[t].status = "approved"
         /\ tx'[t].buyer = tx[t].buyer
         /\ tx'[t].acct = tx[t].acct
         /\ tx'[t].amount = tx[t].amount
         /\ ledger' \in [Txs -> [Categories -> Nat]]
         /\ ledger'[t][c] = ledger[t][c] + 1
         /\ \A d \in Categories : d # c => ledger'[t][d] = ledger[t][d]
<1>1. tx[t] \in TxType /\ ledger[t] \in [Categories -> Nat]
  BY DEF TypeOK
<1> DEFINE row == [tx[t] EXCEPT !.status = "approved"]
           sums == [ledger[t] EXCEPT ![c] = @ + 1]
<1>2. /\ row \in TxType /\ row.status = "approved" /\ row.buyer = tx[t].buyer
      /\ row.acct = tx[t].acct /\ row.amount = tx[t].amount
  BY <1>1 DEF TxType
<1>3. /\ sums \in [Categories -> Nat] /\ sums[c] = ledger[t][c] + 1
      /\ \A d \in Categories : d # c => sums[d] = ledger[t][d]
  BY <1>1
<1>4. tx' = [tx EXCEPT ![t] = row] /\ ledger' = [ledger EXCEPT ![t] = sums]
  BY DEF Approve
<1> HIDE DEF row, sums
<1> QED BY <1>2, <1>3, <1>4 DEF TypeOK

(* The row of the account is among the locks of its holder. *)
LEMMA HolderHolds ==
  ASSUME NEW q \in Requests, KindOf(q), HoldsAcct(q)
  PROVE  AcctRow(req[q].acct) \in Held(q)
BY DEF HoldsAcct, KindOf, Held, Locked

(* A free row of an account has no holder. *)
LEMMA FreeNotHeld ==
  ASSUME IInv, NEW a, Free(AcctRow(a)), NEW q \in Requests, HoldsAcct(q)
  PROVE  req[q].acct # a
BY HolderHolds DEF IInv, Free

LEMMA FreeForNotHeld ==
  ASSUME IInv, NEW a, NEW r \in Requests, FreeFor(r, AcctRow(a)),
         NEW q \in Requests, q # r, HoldsAcct(q)
  PROVE  req[q].acct # a
BY HolderHolds DEF IInv, FreeFor

(* The same for the row of an invoice. *)
LEMMA TxFreeForNotHeld ==
  ASSUME IInv, NEW t, NEW r \in Requests, FreeFor(r, TxRow(t)),
         NEW q \in Requests, q # r, HoldsTx(q)
  PROVE  req[q].tx # t
<1>1. TxRow(req[q].tx) \in Held(q)
  BY DEF HoldsTx, Settlers, Held, Locked
<1> QED BY <1>1 DEF FreeFor

LEMMA HoldsTxAlone ==
  ASSUME IInv, NEW r \in Requests, HoldsTx(r)
  PROVE  \A q \in Requests : q # r /\ HoldsTx(q) => req[q].tx # req[r].tx
BY DEF IInv, TxLockExclusive

(* The owner, the seller and the prices of an account that is held. *)
LEMMA HeldListing ==
  ASSUME IInv, NEW r \in Requests, HoldsAcct(r)
  PROVE  LET a == req[r].acct IN
           /\ a \in Accounts
           /\ acct[a].sale
           /\ req[r].seller = acct[a].seller /\ req[r].seller \in Users
           /\ req[r].sell = acct[a].sell /\ req[r].sell \in Prices
           /\ req[r].user \in Users
BY DEF IInv, HoldsAcct, OfferOf, AccountOf, KindOf, Settlers

(* A request waits only while it is under way. *)
LEMMA VictimInFlight ==
  ASSUME NEW r \in Requests, DeadlockVictim(r)
  PROVE  req[r].pc \in InFlight
<1>1. PICK q \in Requests : WaitsFor(r, q)
  BY DEF DeadlockVictim, Cycle
<1>2. Wanted(r) # {}
  BY <1>1 DEF WaitsFor
<1> QED BY <1>2 DEF Wanted, InFlight

-----------------------------------------------------------------------------
(* What keeps the invariant. *)

(* A transfer that is done stays done. *)
LEMMA TransferredStays ==
  ASSUME NEW r \in Requests, req[r].pc # "done",
         \A q \in Requests : q # r => req'[q] = req[q],
         NEW a \in Accounts, Transferred(a)
  PROVE  Transferred(a)'
BY DEF Transferred

(* What an invoice is for does not change. *)
RowsKept ==
  \A t \in Txs : tx[t].status # "none" =>
    tx'[t].status # "none" /\ tx'[t].buyer = tx[t].buyer /\ tx'[t].acct = tx[t].acct

(* One request moves; it leaves the listings and the invoices that the     *)
(* others hold, and the contents of the invoices, alone.                   *)
LEMMA StepKeeps ==
  ASSUME IInv, TypeOK', NEW r \in Requests, req[r].pc # "done",
         \A q \in Requests : q # r => req'[q] = req[q],
         KindOf(r)', SettleOf(r)', OfferOf(r)',
         HoldsAcct(r)' => \A q \in Requests :
                            q # r /\ HoldsAcct(q) => req[q].acct # req'[r].acct,
         HoldsTx(r)' => \A q \in Requests :
                            q # r /\ HoldsTx(q) => req[q].tx # req'[r].tx,
         \A q \in Requests : q # r /\ HoldsAcct(q) =>
           /\ acct'[req[q].acct].sale = acct[req[q].acct].sale
           /\ acct'[req[q].acct].seller = acct[req[q].acct].seller
           /\ acct'[req[q].acct].sell = acct[req[q].acct].sell
           /\ acct'[req[q].acct].buy = acct[req[q].acct].buy,
         \A q \in Requests : q # r /\ HoldsTx(q) =>
           tx'[req[q].tx].status = tx[req[q].tx].status,
         \A a \in Accounts : AccountOf(a)',
         \A a \in Accounts : \/ acct'[a] = acct[a]
                             \/ ~acct'[a].sale
                             \/ Transferred(a)',
         \A t \in Txs : BillOf(t)' /\ ValueOf(t)',
         paid' = paid, RowsKept
  PROVE  IInv'
<1> USE DEF IInv
<1>1. \A q \in Requests : q # r => (HoldsAcct(q)' <=> HoldsAcct(q)) /\ (HoldsTx(q)' <=> HoldsTx(q))
  BY DEF HoldsAcct, HoldsTx
<1>2. \A q \in Requests : KindOf(q)'
  BY DEF KindOf
<1>3. \A q \in Requests : SettleOf(q)'
  <2> SUFFICES ASSUME NEW q \in Requests, q # r, req[q].kind \in Settlers
               PROVE  SettleOf(q)'
    BY DEF SettleOf
  <2>1. req'[q] = req[q] /\ SettleOf(q) /\ (HoldsTx(q)' <=> HoldsTx(q))
    BY <1>1
  <2>2. /\ tx'[req[q].tx].status # "none" /\ tx'[req[q].tx].buyer = tx[req[q].tx].buyer
        /\ tx'[req[q].tx].acct = tx[req[q].tx].acct
    BY <2>1 DEF SettleOf, RowsKept
  <2> QED BY <2>1, <2>2 DEF SettleOf
<1>4. \A q \in Requests : OfferOf(q)'
  <2> SUFFICES ASSUME NEW q \in Requests, q # r
               PROVE  OfferOf(q)'
    OBVIOUS
  <2>1. req'[q] = req[q] /\ OfferOf(q)
    OBVIOUS
  <2>2. CASE HoldsAcct(q)
    BY <1>1, <2>1, <2>2 DEF OfferOf, HoldsAcct, Larger
  <2>3. CASE ~HoldsAcct(q)
    BY <1>1, <2>1, <2>3 DEF OfferOf, HoldsAcct
  <2> QED BY <2>2, <2>3
<1>5. AcctLockExclusive'
  BY <1>1 DEF AcctLockExclusive
<1>6. TxLockExclusive'
  BY <1>1 DEF TxLockExclusive
<1>7. ListingIsOwners'
  BY TransferredStays DEF ListingIsOwners, AccountOf
<1> QED BY <1>2, <1>3, <1>4, <1>5, <1>6, <1>7

(* The rows are what they were. *)
LEMMA MoveKeeps ==
  ASSUME IInv, NEW r \in Requests, req[r].pc # "done",
         req' \in [Requests -> ReqType],
         \A q \in Requests : q # r => req'[q] = req[q],
         UNCHANGED <<balance, acct, tx, paid, ledger>>,
         KindOf(r)', SettleOf(r)', OfferOf(r)',
         HoldsAcct(r)' => \A q \in Requests :
                            q # r /\ HoldsAcct(q) => req[q].acct # req'[r].acct,
         HoldsTx(r)' => \A q \in Requests :
                            q # r /\ HoldsTx(q) => req[q].tx # req'[r].tx
  PROVE  IInv'
<1>1. TypeOK'
  BY DEF IInv, TypeOK
<1>2. \A a \in Accounts : AccountOf(a)'
  BY DEF IInv, AccountOf
<1>3. \A t \in Txs : BillOf(t)' /\ ValueOf(t)'
  BY DEF IInv, BillOf, ValueOf
<1>4. RowsKept
  BY DEF RowsKept
<1> QED BY <1>1, <1>2, <1>3, <1>4, StepKeeps

(* A request that is done works on the account and the invoice it named. *)
LEMMA DoneOf ==
  ASSUME IInv, NEW r \in Requests, Goto(r, "done"), paid' = paid, RowsKept
  PROVE  /\ req' \in [Requests -> ReqType]
         /\ \A q \in Requests : q # r => req'[q] = req[q]
         /\ KindOf(r)' /\ SettleOf(r)' /\ OfferOf(r)' /\ ~HoldsAcct(r)' /\ ~HoldsTx(r)'
<1>1. TypeOK /\ KindOf(r) /\ SettleOf(r)
  BY DEF IInv
<1>2. req' \in [Requests -> ReqType] /\ \A q \in Requests : q # r => req'[q] = req[q]
  BY <1>1, GotoEffect
<1>3. req'[r].pc = "done"
  BY <1>1, GotoEffect
<1>4. /\ req'[r].kind = req[r].kind /\ req'[r].user = req[r].user
      /\ req'[r].acct = req[r].acct /\ req'[r].tx = req[r].tx
      /\ req'[r].verdict = req[r].verdict /\ req'[r].seen = {}
  BY <1>1, GotoEffect
<1>5. KindOf(r)'
  BY <1>1, <1>3, <1>4 DEF KindOf
<1>6. OfferOf(r)' /\ ~HoldsAcct(r)' /\ ~HoldsTx(r)'
  BY <1>3 DEF OfferOf, HoldsAcct, HoldsTx
<1>7. SettleOf(r)'
  BY <1>1, <1>4, <1>6 DEF SettleOf, RowsKept
<1> QED BY <1>2, <1>5, <1>6, <1>7

LEMMA RollbackKeeps ==
  ASSUME IInv, NEW r \in Requests, req[r].pc # "done", Rollback(r)
  PROVE  IInv'
<1>1. RowsKept
  BY DEF Rollback, RowsKept
<1> QED BY <1>1, DoneOf, MoveKeeps DEF Rollback

(* Accounts nobody holds are listed, or leave the market. *)
LEMMA ListingKeeps ==
  ASSUME IInv, acct' \in [Accounts -> AcctType],
         UNCHANGED <<balance, tx, paid, ledger, req>>,
         \A a \in Accounts : \/ acct'[a] = acct[a]
                             \/ /\ Free(AcctRow(a))
                                /\ AccountOf(a)'
                                /\ acct'[a].sale => acct'[a].seller = acct'[a].owner
  PROVE  IInv'
<1>1. TypeOK'
  BY DEF IInv, TypeOK
<1>2. \A a \in Accounts : AccountOf(a)'
  BY DEF IInv, AccountOf
<1>3. \A t \in Txs : BillOf(t)' /\ ValueOf(t)'
  BY DEF IInv, BillOf, ValueOf
<1>4. \A r \in Requests : KindOf(r)' /\ SettleOf(r)'
  BY DEF IInv, KindOf, SettleOf, HoldsTx
<1>5. \A r \in Requests : (HoldsAcct(r)' <=> HoldsAcct(r)) /\ (HoldsTx(r)' <=> HoldsTx(r))
  BY DEF HoldsAcct, HoldsTx
<1>6. \A r \in Requests : HoldsAcct(r) => acct'[req[r].acct] = acct[req[r].acct]
  BY FreeNotHeld, HeldListing
<1>7. \A r \in Requests : OfferOf(r)'
  BY <1>5, <1>6 DEF IInv, OfferOf, HoldsAcct, Larger
<1>8. AcctLockExclusive' /\ TxLockExclusive'
  BY <1>5 DEF IInv, AcctLockExclusive, TxLockExclusive
<1>9. ListingIsOwners'
  BY <1>2 DEF IInv, ListingIsOwners, AccountOf, Transferred
<1> QED BY <1>1, <1>2, <1>3, <1>4, <1>7, <1>8, <1>9 DEF IInv

LEMMA EndListing ==
  ASSUME IInv, NEW a \in Accounts, Free(AcctRow(a)), acct' = [acct EXCEPT ![a] = Unlisted(a)],
         UNCHANGED <<balance, tx, paid, ledger, req>>
  PROVE  IInv'
<1>1. TypeOK /\ AccountOf(a)
  BY DEF IInv
<1>2. /\ acct' \in [Accounts -> AcctType]
      /\ \A b \in Accounts : b # a => acct'[b] = acct[b]
      /\ acct'[a].owner = acct[a].owner /\ ~acct'[a].sale /\ acct'[a].seller = None
  BY <1>1, UnlistEffect
<1>3. AccountOf(a)'
  BY <1>1, <1>2 DEF AccountOf
<1> QED BY <1>2, <1>3, ListingKeeps

(* The prices of a listing are prices of the rules. *)
LEMMA LargerPrice ==
  \A m, n \in Prices : Larger(m, n) \in Prices /\ m <= Larger(m, n) /\ n <= Larger(m, n)
BY PricesAssumption DEF Larger

LEMMA SellKeeps ==
  ASSUME IInv, NEW u \in Users, NEW S \in SUBSET Accounts, SellAccounts(u, S)
  PROVE  IInv'
<1> DEFINE row(p, a) == [owner |-> u, sale |-> TRUE, seller |-> u, sell |-> p[a][1],
                         buy |-> EffectiveBuyPrice(p[a][1], p[a][2])]
<1>1. PICK p \in [S -> Prices \X Prices] :
        acct' = [a \in Accounts |-> IF a \notin S THEN acct[a] ELSE row(p, a)]
  BY DEF SellAccounts
<1>2. \A a \in S : p[a][1] \in Prices /\ p[a][2] \in Prices
  OBVIOUS
<1>3. \A a \in S : /\ row(p, a) \in AcctType
                   /\ row(p, a).owner = u /\ row(p, a).sale /\ row(p, a).seller = u
                   /\ row(p, a).sell \in Prices /\ row(p, a).buy \in Prices
                   /\ row(p, a).sell <= row(p, a).buy
  BY <1>2, LargerPrice, PricesAssumption DEF AcctType, EffectiveBuyPrice
<1> HIDE DEF row
<1>4. \A a \in S : acct'[a] = row(p, a)
  BY <1>1
<1>5. \A a \in Accounts : a \notin S => acct'[a] = acct[a]
  BY <1>1
<1>6. acct' \in [Accounts -> AcctType]
  BY <1>1, <1>3 DEF IInv, TypeOK
<1>7. \A a \in S : AccountOf(a)' /\ acct'[a].seller = acct'[a].owner
  BY <1>3, <1>4 DEF AccountOf
<1> QED BY <1>5, <1>6, <1>7, ListingKeeps DEF SellAccounts

(* The rows of an account and of a request change together. *)
LEMMA TradeKeeps ==
  ASSUME IInv, TypeOK', NEW r \in Requests, req[r].pc # "done", Goto(r, "done"),
         req[r].acct \in Accounts,
         \A q \in Requests : q # r /\ HoldsAcct(q) => req[q].acct # req[r].acct,
         \A b \in Accounts : b # req[r].acct => acct'[b] = acct[b],
         acct'[req[r].acct].owner \in Users,
         ~acct'[req[r].acct].sale,
         acct'[req[r].acct].seller = None,
         \A q \in Requests : q # r /\ HoldsTx(q) =>
           tx'[req[q].tx].status = tx[req[q].tx].status,
         \A t \in Txs : BillOf(t)' /\ ValueOf(t)',
         paid' = paid, RowsKept
  PROVE  IInv'
<1>1. /\ req' \in [Requests -> ReqType]
      /\ \A q \in Requests : q # r => req'[q] = req[q]
      /\ KindOf(r)' /\ SettleOf(r)' /\ OfferOf(r)' /\ ~HoldsAcct(r)' /\ ~HoldsTx(r)'
  BY DoneOf
<1>2. \A a \in Accounts : AccountOf(a)'
  BY DEF IInv, AccountOf
<1>3. \A q \in Requests : q # r /\ HoldsAcct(q) => acct'[req[q].acct] = acct[req[q].acct]
  BY HeldListing
<1> QED BY <1>1, <1>2, <1>3, StepKeeps

-----------------------------------------------------------------------------
(* Each action keeps the invariant. *)

(* A settlement that has begun. *)
SettleRec(rec, t) ==
  /\ rec \in ReqType /\ rec.kind \in Settlers /\ rec.user = tx[t].buyer
  /\ rec.acct = tx[t].acct /\ rec.tx = t /\ rec.pc = "lockTx"
  /\ rec.kind = "check" => rec.verdict = "none"
  /\ rec.kind # "check" => rec.verdict \in {"approved", "rejected"}
  /\ rec.kind = "webhook" /\ rec.verdict = "approved" => t \in paid

LEMMA BegunRec ==
  ASSUME TypeOK, NEW r \in Requests, NEW t \in Txs, tx[t].buyer \in Users, tx[t].acct \in Accounts,
         WebhookBegin(r, t) \/ CheckBegin(r, t) \/ OwnerBegin(r, t)
  PROVE  \E rec : SettleRec(rec, t) /\ req' = [req EXCEPT ![r] = rec]
<1>1. \A u \in Users : balance[u] \in Nat /\ {<<u, balance[u]>>} \in SUBSET (Users \X Nat)
  BY DEF TypeOK
<1>2. CASE WebhookBegin(r, t)
  <2> DEFINE v == IF t \in paid THEN "approved" ELSE "rejected"
             rec == [Begun("webhook", t) EXCEPT !.verdict = v]
  <2>1. v \in {"approved", "rejected"} /\ (v = "approved" => t \in paid)
    OBVIOUS
  <2>2. req' = [req EXCEPT ![r] = rec]
    BY <1>2 DEF WebhookBegin
  <2> HIDE DEF v
  <2>3. SettleRec(rec, t)
    BY <2>1 DEF SettleRec, Begun, NoReq, ReqType, Settlers, InFlight
  <2> QED BY <2>2, <2>3
<1>3. CASE CheckBegin(r, t)
  <2> DEFINE c == {<<tx[t].buyer, balance[tx[t].buyer]>>}
             rec == [Begun("check", t) EXCEPT !.seen = c]
  <2>1. c \in SUBSET (Users \X Nat)
    BY <1>1
  <2>2. req' = [req EXCEPT ![r] = rec]
    BY <1>3 DEF CheckBegin
  <2> HIDE DEF c
  <2>3. SettleRec(rec, t)
    BY <2>1 DEF SettleRec, Begun, NoReq, ReqType, Settlers, InFlight
  <2> QED BY <2>2, <2>3
<1>4. CASE OwnerBegin(r, t)
  <2> DEFINE c == {<<Owner, balance[Owner]>>}
  <2>1. c \in SUBSET (Users \X Nat)
    BY <1>1, OwnerAssumption
  <2>2. PICK v \in {"approved", "rejected"} :
          req' = [req EXCEPT ![r] = [Begun("owner", t) EXCEPT !.verdict = v, !.seen = c]]
    BY <1>4 DEF OwnerBegin
  <2> DEFINE rec == [Begun("owner", t) EXCEPT !.verdict = v, !.seen = c]
  <2>3. req' = [req EXCEPT ![r] = rec]
    BY <2>2
  <2> HIDE DEF c
  <2>4. SettleRec(rec, t)
    BY <2>1 DEF SettleRec, Begun, NoReq, ReqType, Settlers, InFlight
  <2> QED BY <2>3, <2>4
<1> QED BY <1>2, <1>3, <1>4

LEMMA BeginKeeps ==
  ASSUME IInv, NEW r \in Requests, Begin(r)
  PROVE  IInv'
<1> USE DEF IInv
<1>1. req[r].pc = "idle"
  BY DEF Begin, BuyBegin, WebhookBegin, CheckBegin, OwnerBegin, TransferBegin
<1>2. CASE \E u \in Users, a \in Accounts : BuyBegin(r, u, a)
  <2>1. PICK u \in Users, a \in Accounts : BuyBegin(r, u, a)
    BY <1>2
  <2> DEFINE rec == [NoReq EXCEPT !.kind = "buy", !.user = u, !.acct = a, !.pc = "validate"]
  <2>2. /\ rec \in ReqType /\ rec.kind = "buy" /\ rec.user = u /\ rec.acct = a
        /\ rec.pc = "validate" /\ rec.seen = {}
    BY DEF NoReq, ReqType, InFlight
  <2>3. req' = [req EXCEPT ![r] = rec]
    BY <2>1 DEF BuyBegin
  <2> HIDE DEF rec
  <2>4. /\ req' \in [Requests -> ReqType] /\ req'[r] = rec
        /\ \A q \in Requests : q # r => req'[q] = req[q]
    BY <2>2, <2>3 DEF TypeOK
  <2>5. KindOf(r)' /\ SettleOf(r)' /\ OfferOf(r)' /\ ~HoldsAcct(r)' /\ ~HoldsTx(r)'
    BY <2>2, <2>4 DEF KindOf, SettleOf, OfferOf, HoldsAcct, HoldsTx, Settlers
  <2> QED BY <1>1, <2>1, <2>4, <2>5, MoveKeeps DEF BuyBegin
<1>3. CASE \E t \in Txs : WebhookBegin(r, t) \/ CheckBegin(r, t) \/ OwnerBegin(r, t)
  <2>1. PICK t \in Txs : WebhookBegin(r, t) \/ CheckBegin(r, t) \/ OwnerBegin(r, t)
    BY <1>3
  <2>2. tx[t].status # "none" /\ tx[t].buyer \in Users /\ tx[t].acct \in Accounts
    BY <2>1 DEF WebhookBegin, CheckBegin, OwnerBegin, BillOf
  <2>3. PICK rec : SettleRec(rec, t) /\ req' = [req EXCEPT ![r] = rec]
    BY <2>1, <2>2, BegunRec
  <2>4. UNCHANGED <<balance, acct, tx, paid, ledger>>
    BY <2>1 DEF WebhookBegin, CheckBegin, OwnerBegin
  <2>5. /\ req' \in [Requests -> ReqType] /\ req'[r] = rec
        /\ \A q \in Requests : q # r => req'[q] = req[q]
    BY <2>3 DEF TypeOK, SettleRec
  <2>6. ~HoldsAcct(r)' /\ ~HoldsTx(r)'
    BY <2>3, <2>5 DEF HoldsAcct, HoldsTx, SettleRec
  <2>7. KindOf(r)' /\ OfferOf(r)'
    BY <2>2, <2>3, <2>5 DEF KindOf, OfferOf, HoldsAcct, SettleRec, Settlers
  <2>8. SettleOf(r)'
    BY <2>2, <2>3, <2>4, <2>5, <2>6 DEF SettleOf, SettleRec
  <2> QED BY <1>1, <2>4, <2>5, <2>6, <2>7, <2>8, MoveKeeps
<1>4. CASE \E a \in Accounts, u \in Targets : TransferBegin(r, a, u)
  <2>1. PICK a \in Accounts, u \in Targets : TransferBegin(r, a, u)
    BY <1>4
  <2> DEFINE rec == [NoReq EXCEPT !.kind = "transfer", !.user = u, !.acct = a, !.pc = "transfer"]
  <2>2. u \in Users
    BY TargetsAssumption
  <2>3. /\ rec \in ReqType /\ rec.kind = "transfer" /\ rec.user = u
        /\ rec.acct = a /\ rec.pc = "transfer" /\ rec.seen = {}
    BY <2>2 DEF NoReq, ReqType, InFlight
  <2>4. req' = [req EXCEPT ![r] = rec]
    BY <2>1 DEF TransferBegin
  <2> HIDE DEF rec
  <2>5. /\ req' \in [Requests -> ReqType] /\ req'[r] = rec
        /\ \A q \in Requests : q # r => req'[q] = req[q]
    BY <2>3, <2>4 DEF TypeOK
  <2>6. KindOf(r)' /\ SettleOf(r)' /\ OfferOf(r)' /\ ~HoldsAcct(r)' /\ ~HoldsTx(r)'
    BY <2>2, <2>3, <2>5 DEF KindOf, SettleOf, OfferOf, HoldsAcct, HoldsTx, Settlers
  <2> QED BY <1>1, <2>1, <2>5, <2>6, MoveKeeps DEF TransferBegin
<1> QED BY <1>2, <1>3, <1>4 DEF Begin

(* A request that asks for no account's row and only goes on. *)
LEMMA GotoKeeps ==
  ASSUME IInv, NEW r \in Requests, NEW pc \in InFlight, Goto(r, pc),
         req[r].pc # "done", UNCHANGED <<balance, acct, tx, paid, ledger>>,
         KindOf(r)', SettleOf(r)', OfferOf(r)', HoldsAcct(r)' => HoldsAcct(r),
         HoldsTx(r)' => HoldsTx(r) \/ FreeFor(r, TxRow(req[r].tx))
  PROVE  IInv'
<1>1. TypeOK /\ AcctLockExclusive
  BY DEF IInv
<1>2. req' \in [Requests -> ReqType] /\ \A q \in Requests : q # r => req'[q] = req[q]
  BY <1>1, GotoEffect
<1>3. req'[r].acct = req[r].acct /\ req'[r].tx = req[r].tx
  BY <1>1, GotoEffect
<1>4. HoldsAcct(r)' => \A q \in Requests : q # r /\ HoldsAcct(q) => req[q].acct # req'[r].acct
  BY <1>1, <1>3 DEF AcctLockExclusive
<1>5. HoldsTx(r)' => \A q \in Requests : q # r /\ HoldsTx(q) => req[q].tx # req'[r].tx
  BY <1>3, HoldsTxAlone, TxFreeForNotHeld
<1> QED BY <1>2, <1>4, <1>5, MoveKeeps

(* A purchase that goes on holds no invoice and has loaded no balance. *)
LEMMA BuyGoesOn ==
  ASSUME IInv, NEW r \in Requests, NEW pc \in InFlight, Goto(r, pc), req[r].kind = "buy"
  PROVE  SettleOf(r)' /\ ~HoldsTx(r)' /\ req'[r].kind = "buy" /\ req'[r].seen = {}
<1>1. TypeOK /\ KindOf(r) /\ pc # "done"
  BY DEF IInv, InFlight
<1>2. req'[r].kind = "buy" /\ req'[r].seen = req[r].seen
  BY <1>1, GotoEffect
<1> QED BY <1>1, <1>2 DEF SettleOf, HoldsTx, KindOf, Settlers

LEMMA BuyValidateKeeps ==
  ASSUME IInv, NEW r \in Requests, BuyValidate(r)
  PROVE  IInv'
<1>1. TypeOK /\ KindOf(r) /\ req[r].pc = "validate"
  BY DEF IInv, BuyValidate
<1>2. CASE Goto(r, "lockAcct") /\ UNCHANGED <<balance, acct, tx, paid, ledger>>
  <2>1. "lockAcct" \in InFlight
    BY DEF InFlight
  <2>2. /\ req'[r].pc = "lockAcct" /\ req'[r].kind = req[r].kind
        /\ req'[r].user = req[r].user /\ req'[r].acct = req[r].acct
    BY <1>1, <1>2, <2>1, GotoEffect
  <2>3. req[r].kind = "buy"
    BY <1>1 DEF KindOf
  <2>4. SettleOf(r)' /\ ~HoldsTx(r)' /\ req'[r].seen = {}
    BY <1>2, <2>1, <2>3, BuyGoesOn
  <2>5. KindOf(r)' /\ OfferOf(r)' /\ ~HoldsAcct(r)'
    BY <1>1, <2>2, <2>3, <2>4 DEF KindOf, OfferOf, HoldsAcct
  <2> QED BY <1>1, <1>2, <2>1, <2>4, <2>5, GotoKeeps
<1>3. CASE Rollback(r)
  BY <1>1, <1>3, RollbackKeeps
<1>4. CASE /\ Free(AcctRow(req[r].acct))
           /\ acct' = [acct EXCEPT ![req[r].acct] = Unlisted(req[r].acct)]
           /\ Goto(r, "done")
           /\ UNCHANGED <<balance, tx, paid, ledger>>
  <2>0. RowsKept
    BY <1>4 DEF RowsKept
  <2>1. req[r].acct \in Accounts /\ AccountOf(req[r].acct)
    BY <1>1 DEF KindOf, IInv
  <2>2. /\ acct' \in [Accounts -> AcctType]
        /\ \A b \in Accounts : b # req[r].acct => acct'[b] = acct[b]
        /\ acct'[req[r].acct].owner = acct[req[r].acct].owner
        /\ ~acct'[req[r].acct].sale /\ acct'[req[r].acct].seller = None
    BY <1>1, <1>4, <2>1, UnlistEffect
  <2>3. TypeOK'
    BY <1>1, <1>4, <2>0, <2>2, DoneOf DEF TypeOK
  <2>4. \A t \in Txs : BillOf(t)' /\ ValueOf(t)'
    BY <1>4 DEF IInv, BillOf, ValueOf
  <2>5. \A q \in Requests : q # r /\ HoldsAcct(q) => req[q].acct # req[r].acct
    BY <1>4, FreeNotHeld
  <2> QED BY <1>1, <1>4, <2>1, <2>2, <2>3, <2>4, <2>5, <2>0, TradeKeeps DEF AccountOf
<1> QED BY <1>2, <1>3, <1>4 DEF BuyValidate

LEMMA BuyLockAcctKeeps ==
  ASSUME IInv, NEW r \in Requests, BuyLockAcct(r)
  PROVE  IInv'
<1> DEFINE a == req[r].acct
           rec == [req[r] EXCEPT !.pc = "lockFirst", !.seller = acct[a].seller,
                      !.sell = acct[a].sell, !.price = Larger(acct[a].buy, acct[a].sell)]
<1>1. TypeOK /\ KindOf(r) /\ req[r].pc = "lockAcct" /\ req[r].kind = "buy"
  BY DEF IInv, BuyLockAcct
<1>2. CASE Rollback(r)
  BY <1>1, <1>2, RollbackKeeps
<1>3. CASE /\ acct[a].sale /\ FreeFor(r, AcctRow(a)) /\ acct[a].seller # req[r].user
           /\ req' = [req EXCEPT ![r] = rec]
           /\ UNCHANGED <<balance, acct, tx, paid, ledger>>
  <2>1. a \in Accounts /\ AccountOf(a)
    BY <1>1 DEF KindOf, IInv
  <2>2. /\ acct[a].seller \in Users /\ acct[a].sell \in Nat
        /\ Larger(acct[a].buy, acct[a].sell) \in Nat
    BY <1>3, <2>1, LargerPrice, PricesAssumption DEF AccountOf
  <2>3. req[r] \in ReqType
    BY <1>1 DEF TypeOK
  <2>4. /\ rec \in ReqType /\ rec.pc = "lockFirst" /\ rec.kind = req[r].kind
        /\ rec.user = req[r].user /\ rec.acct = a /\ rec.seller = acct[a].seller
        /\ rec.sell = acct[a].sell /\ rec.price = Larger(acct[a].buy, acct[a].sell)
        /\ rec.seen = req[r].seen
    BY <2>2, <2>3 DEF ReqType, InFlight
  <2> HIDE DEF rec
  <2>5. /\ req' \in [Requests -> ReqType] /\ req'[r] = rec
        /\ \A q \in Requests : q # r => req'[q] = req[q]
    BY <1>1, <1>3, <2>4 DEF TypeOK
  <2>6. KindOf(r)' /\ SettleOf(r)' /\ ~HoldsTx(r)'
    BY <1>1, <2>4, <2>5 DEF KindOf, SettleOf, HoldsTx, Settlers
  <2>7. OfferOf(r)'
    BY <1>3, <2>4, <2>5 DEF OfferOf, HoldsAcct, Larger
  <2>8. \A q \in Requests : q # r /\ HoldsAcct(q) => req[q].acct # req'[r].acct
    BY <1>3, <2>4, <2>5, FreeForNotHeld
  <2> QED BY <1>1, <1>3, <2>5, <2>6, <2>7, <2>8, MoveKeeps
<1> QED BY <1>2, <1>3 DEF BuyLockAcct

LEMMA BuyLockFirstKeeps ==
  ASSUME IInv, NEW r \in Requests, BuyLockFirst(r)
  PROVE  IInv'
<1>1. TypeOK /\ KindOf(r) /\ OfferOf(r) /\ req[r].pc = "lockFirst"
  BY DEF IInv, BuyLockFirst
<1>2. Goto(r, "lockSecond") /\ UNCHANGED <<balance, acct, tx, paid, ledger>>
  BY DEF BuyLockFirst
<1>3. "lockSecond" \in InFlight
  BY DEF InFlight
<1>4. /\ req'[r].pc = "lockSecond" /\ req'[r].kind = req[r].kind
      /\ req'[r].user = req[r].user /\ req'[r].acct = req[r].acct
      /\ req'[r].seller = req[r].seller /\ req'[r].sell = req[r].sell
      /\ req'[r].price = req[r].price
  BY <1>1, <1>2, <1>3, GotoEffect
<1>5. req[r].kind = "buy"
  BY <1>1 DEF KindOf
<1>6. SettleOf(r)' /\ ~HoldsTx(r)' /\ req'[r].seen = {}
  BY <1>2, <1>3, <1>5, BuyGoesOn
<1>7. KindOf(r)'
  BY <1>1, <1>4, <1>5, <1>6 DEF KindOf
<1>8. OfferOf(r)' /\ HoldsAcct(r)
  BY <1>1, <1>2, <1>4 DEF OfferOf, HoldsAcct, Larger
<1> QED BY <1>1, <1>2, <1>3, <1>6, <1>7, <1>8, GotoKeeps

(* The holder of an account's row is alone with it. *)
LEMMA HoldsAlone ==
  ASSUME IInv, NEW r \in Requests, HoldsAcct(r)
  PROVE  \A q \in Requests : q # r /\ HoldsAcct(q) => req[q].acct # req[r].acct
BY DEF IInv, AcctLockExclusive

(* A balance that covers the price stays a natural number. *)
LEMMA TransferEffect ==
  ASSUME TypeOK, NEW u \in Users, NEW v \in Users, u # v, NEW m \in Nat, NEW n \in Nat,
         balance[u] >= m, Transfer(u, m, v, n)
  PROVE  balance' \in [Users -> Nat]
<1>1. balance[u] - m \in Nat /\ balance[v] + n \in Nat
  BY NatSum, NatDiff DEF TypeOK
<1>2. balance' = [balance EXCEPT ![u] = balance[u] - m, ![v] = balance[v] + n]
  BY DEF Transfer, TypeOK
<1> QED BY <1>1, <1>2 DEF TypeOK

(* The balance a session works with is the present one or one it loaded.   *)
LEMMA SeenIsCopy ==
  ASSUME TypeOK, NEW r \in Requests, NEW u \in Users
  PROVE  /\ SeenBalance(r, u) \in Nat
         /\ \/ SeenBalance(r, u) = balance[u]
            \/ <<u, SeenBalance(r, u)>> \in req[r].seen
<1> DEFINE copies == {p \in req[r].seen : p[1] = u}
<1>1. req[r].seen \in SUBSET (Users \X Nat)
  BY DEF TypeOK, ReqType
<1>2. CASE copies = {}
  BY <1>2 DEF SeenBalance, TypeOK
<1>3. CASE copies # {}
  <2>1. PICK p : p = CHOOSE q \in copies : TRUE
    OBVIOUS
  <2>2. p \in copies
    BY <1>3, <2>1
  <2>3. p \in Users \X Nat /\ p \in req[r].seen /\ p[1] = u
    BY <1>1, <2>2
  <2>4. p = <<u, p[2]>> /\ p[2] \in Nat
    BY <2>3
  <2>5. SeenBalance(r, u) = p[2]
    BY <1>3, <2>1 DEF SeenBalance
  <2> QED BY <2>3, <2>4, <2>5
<1> QED BY <1>2, <1>3

LEMMA CreditEffect ==
  ASSUME TypeOK, NEW r \in Requests, NEW u \in Users, NEW n \in Nat, Credit(r, u, n)
  PROVE  balance' \in [Users -> Nat]
<1>1. SeenBalance(r, u) + n \in Nat
  BY SeenIsCopy, NatSum
<1> QED BY <1>1 DEF TypeOK, Credit

LEMMA BuyLockSecondKeeps ==
  ASSUME IInv, NEW r \in Requests, BuyLockSecond(r)
  PROVE  IInv'
<1>1. TypeOK /\ KindOf(r) /\ OfferOf(r) /\ req[r].pc = "lockSecond" /\ HoldsAcct(r)
  BY DEF IInv, BuyLockSecond, HoldsAcct
<1>2. /\ req[r].acct \in Accounts /\ req[r].user \in Users /\ req[r].seller \in Users
      /\ req[r].sell \in Nat
  BY <1>1, HeldListing, PricesAssumption
<1>3. AccountOf(req[r].acct)
  BY <1>2 DEF IInv
<1>4. req[r].price \in Prices
  BY <1>1, <1>3, LargerPrice DEF OfferOf, AccountOf
<1>5. CASE /\ Affords(r)
           /\ Transfer(req[r].user, req[r].price, req[r].seller, req[r].sell)
           /\ HandOver(req[r].acct, req[r].user)
           /\ Goto(r, "done")
           /\ UNCHANGED <<tx, paid, ledger>>
  <2>0. RowsKept
    BY <1>5 DEF RowsKept
  <2>1. balance' \in [Users -> Nat]
    BY <1>1, <1>2, <1>4, <1>5, TransferEffect, PricesAssumption DEF Affords, OfferOf
  <2>2. /\ acct' \in [Accounts -> AcctType]
        /\ \A b \in Accounts : b # req[r].acct => acct'[b] = acct[b]
        /\ acct'[req[r].acct].owner = req[r].user
        /\ ~acct'[req[r].acct].sale /\ acct'[req[r].acct].seller = None
    BY <1>1, <1>2, <1>5, HandOverEffect
  <2>3. TypeOK'
    BY <1>1, <1>5, <2>0, <2>1, <2>2, DoneOf DEF TypeOK
  <2>4. \A t \in Txs : BillOf(t)' /\ ValueOf(t)'
    BY <1>5 DEF IInv, BillOf, ValueOf
  <2> QED BY <1>1, <1>2, <1>5, <2>0, <2>2, <2>3, <2>4, HoldsAlone, TradeKeeps
<1>6. CASE Goto(r, "invoice") /\ UNCHANGED <<balance, acct, tx, paid, ledger>>
  <2>1. "invoice" \in InFlight
    BY DEF InFlight
  <2>2. /\ req'[r].pc = "invoice" /\ req'[r].kind = req[r].kind
        /\ req'[r].user = req[r].user /\ req'[r].acct = req[r].acct
        /\ req'[r].price = req[r].price
    BY <1>1, <1>6, <2>1, GotoEffect
  <2>3. req[r].kind = "buy"
    BY <1>1 DEF KindOf
  <2>4. SettleOf(r)' /\ ~HoldsTx(r)' /\ req'[r].seen = {}
    BY <1>6, <2>1, <2>3, BuyGoesOn
  <2>5. KindOf(r)' /\ OfferOf(r)' /\ ~HoldsAcct(r)'
    BY <1>1, <1>4, <2>2, <2>3, <2>4 DEF KindOf, OfferOf, HoldsAcct
  <2> QED BY <1>1, <1>6, <2>1, <2>4, <2>5, GotoKeeps
<1> QED BY <1>5, <1>6 DEF BuyLockSecond

LEMMA BuyInvoiceKeeps ==
  ASSUME IInv, NEW r \in Requests, NEW t \in Txs, BuyInvoice(r, t)
  PROVE  IInv'
<1>1. TypeOK /\ KindOf(r) /\ OfferOf(r) /\ req[r].pc = "invoice"
  BY DEF IInv, BuyInvoice
<1>2. req[r].user \in Users /\ req[r].acct \in Accounts /\ req[r].price \in Prices
  BY <1>1 DEF KindOf, OfferOf
<1> DEFINE row == [status |-> "pending", buyer |-> req[r].user, acct |-> req[r].acct,
                   amount |-> req[r].price]
<1>3. /\ row \in TxType /\ row.status = "pending" /\ row.buyer = req[r].user
      /\ row.acct = req[r].acct /\ row.amount = req[r].price
  BY <1>2, PricesAssumption DEF TxType
<1>4. tx' = [tx EXCEPT ![t] = row] /\ Goto(r, "done") /\ UNCHANGED <<balance, acct, paid, ledger>>
  BY DEF BuyInvoice
<1> HIDE DEF row
<1>5. tx' \in [Txs -> TxType] /\ tx'[t] = row /\ \A x \in Txs : x # t => tx'[x] = tx[x]
  BY <1>1, <1>3, <1>4 DEF TypeOK
<1>6. t \notin paid /\ tx[t].status = "none" /\ BillOf(t) /\ ValueOf(t)
  BY DEF BuyInvoice, IInv, BillOf
<1>7. BillOf(t)' /\ ValueOf(t)'
  BY <1>2, <1>3, <1>4, <1>5, <1>6 DEF BillOf, ValueOf
<1>8. \A x \in Txs : BillOf(x)' /\ ValueOf(x)'
  BY <1>4, <1>5, <1>7 DEF IInv, BillOf, ValueOf
<1>9. RowsKept
  BY <1>5, <1>6 DEF RowsKept
<1>10. /\ req' \in [Requests -> ReqType]
       /\ \A q \in Requests : q # r => req'[q] = req[q]
       /\ KindOf(r)' /\ SettleOf(r)' /\ OfferOf(r)' /\ ~HoldsAcct(r)' /\ ~HoldsTx(r)'
  BY <1>4, <1>9, DoneOf
<1>11. TypeOK'
  BY <1>1, <1>4, <1>5, <1>10 DEF TypeOK
<1>12. \A a \in Accounts : AccountOf(a)'
  BY <1>4 DEF IInv, AccountOf
<1>13. \A q \in Requests : HoldsTx(q) => tx'[req[q].tx].status = tx[req[q].tx].status
  BY <1>5, <1>6 DEF IInv, SettleOf, HoldsTx
<1> QED BY <1>1, <1>4, <1>8, <1>9, <1>10, <1>11, <1>12, <1>13, StepKeeps

LEMMA PaidKeeps ==
  ASSUME IInv, NEW t \in Txs, GatewayPaid(t)
  PROVE  IInv'
<1> USE DEF GatewayPaid, IInv
<1>1. TypeOK'
  BY DEF TypeOK
<1>2. \A x \in Txs : BillOf(x)' /\ ValueOf(x)'
  BY DEF BillOf, ValueOf
<1>3. \A a \in Accounts : AccountOf(a)'
  BY DEF AccountOf
<1>4. \A r \in Requests : KindOf(r)' /\ SettleOf(r)' /\ OfferOf(r)'
  BY DEF KindOf, SettleOf, OfferOf, HoldsAcct, HoldsTx
<1>5. AcctLockExclusive' /\ TxLockExclusive' /\ ListingIsOwners'
  BY DEF AcctLockExclusive, TxLockExclusive, ListingIsOwners, HoldsAcct, HoldsTx, Transferred
<1> QED BY <1>1, <1>2, <1>3, <1>4, <1>5

(* A rejected invoice keeps what it is for. *)
LEMMA RejectEffect ==
  ASSUME IInv, NEW r \in Requests, req[r].kind \in Settlers, Reject(r)
  PROVE  /\ tx' \in [Txs -> TxType] /\ RowsKept
         /\ \A x \in Txs : BillOf(x)' /\ ValueOf(x)'
         /\ \A x \in Txs : x # req[r].tx => tx'[x] = tx[x]
         /\ \A x \in Txs : tx[x].status # "none" => tx'[x].amount = tx[x].amount
<1>1. TypeOK
  BY DEF IInv
<1>2. PICK t \in Txs : t = req[r].tx /\ tx[t].status # "none"
  BY DEF IInv, SettleOf
<1>3. tx[t] \in TxType
  BY <1>1 DEF TypeOK
<1> DEFINE row == [tx[t] EXCEPT !.status = "rejected"]
<1>4. /\ row \in TxType /\ row.status = "rejected" /\ row.buyer = tx[t].buyer
      /\ row.acct = tx[t].acct /\ row.amount = tx[t].amount
  BY <1>3 DEF TxType
<1>5. tx' = [tx EXCEPT ![t] = row]
  BY <1>2 DEF Reject
<1> HIDE DEF row
<1>6. tx' \in [Txs -> TxType] /\ tx'[t] = row /\ \A x \in Txs : x # t => tx'[x] = tx[x]
  BY <1>1, <1>4, <1>5 DEF TypeOK
<1>7. RowsKept
  BY <1>4, <1>6 DEF RowsKept
<1>8. \A x \in Txs : BillOf(x)' /\ ValueOf(x)'
  <2> TAKE x \in Txs
  <2>1. BillOf(x) /\ ValueOf(x) /\ paid' = paid /\ ledger' = ledger
    BY DEF IInv, Reject
  <2>2. CASE x = t
    BY <1>2, <1>4, <1>6, <2>1, <2>2 DEF BillOf, ValueOf
  <2>3. CASE x # t
    BY <1>6, <2>1, <2>3 DEF BillOf, ValueOf
  <2> QED BY <2>2, <2>3
<1> QED BY <1>2, <1>4, <1>6, <1>7, <1>8

LEMMA RejectKeeps ==
  ASSUME IInv, NEW r \in Requests, req[r].kind \in Settlers, req[r].pc # "done", Reject(r),
         HoldsTx(r) \/ FreeFor(r, TxRow(req[r].tx))
  PROVE  IInv'
<1>1. /\ tx' \in [Txs -> TxType] /\ RowsKept
      /\ \A x \in Txs : BillOf(x)' /\ ValueOf(x)'
      /\ \A x \in Txs : x # req[r].tx => tx'[x] = tx[x]
  BY RejectEffect
<1>2. /\ req' \in [Requests -> ReqType]
      /\ \A q \in Requests : q # r => req'[q] = req[q]
      /\ KindOf(r)' /\ SettleOf(r)' /\ OfferOf(r)' /\ ~HoldsAcct(r)' /\ ~HoldsTx(r)'
  BY <1>1, DoneOf DEF Reject
<1>3. \A q \in Requests : q # r /\ HoldsTx(q) => req[q].tx # req[r].tx
  BY HoldsTxAlone, TxFreeForNotHeld
<1>4. \A q \in Requests : q # r /\ HoldsTx(q) => tx'[req[q].tx].status = tx[req[q].tx].status
  BY <1>1, <1>3 DEF IInv, SettleOf, HoldsTx
<1>5. TypeOK' /\ \A a \in Accounts : AccountOf(a)'
  BY <1>1, <1>2 DEF IInv, TypeOK, AccountOf, Reject
<1> QED BY <1>1, <1>2, <1>4, <1>5, StepKeeps DEF Reject

(* A settlement that goes on without touching a row. *)
LEMMA SettlerGoesOn ==
  ASSUME IInv, NEW r \in Requests, req[r].kind \in Settlers, req[r].pc # "done",
         NEW pc \in {"lockBuyer", "lockAcct"}, Goto(r, pc),
         UNCHANGED <<balance, acct, tx, paid, ledger>>,
         HoldsTx(r) \/ FreeFor(r, TxRow(req[r].tx)),
         req[r].kind = "webhook" => req[r].verdict = "approved",
         req[r].kind = "check" => req[r].tx \in paid,
         req[r].kind # "webhook" => tx[req[r].tx].status = "pending",
         pc # "lockBuyer" => req[r].verdict # "rejected"
  PROVE  IInv'
<1>1. TypeOK /\ KindOf(r) /\ SettleOf(r) /\ pc \in InFlight /\ pc # "done"
  BY DEF IInv, InFlight
<1>2. /\ req'[r].pc = pc /\ req'[r].kind = req[r].kind /\ req'[r].tx = req[r].tx
      /\ req'[r].user = req[r].user /\ req'[r].acct = req[r].acct
      /\ req'[r].verdict = req[r].verdict
  BY <1>1, GotoEffect
<1>3. KindOf(r)' /\ OfferOf(r)' /\ ~HoldsAcct(r)'
  BY <1>1, <1>2 DEF KindOf, OfferOf, HoldsAcct, Settlers
<1>4. SettleOf(r)'
  BY <1>1, <1>2 DEF SettleOf, HoldsTx
<1> QED BY <1>1, <1>3, <1>4, GotoKeeps

LEMMA WebhookLockTxKeeps ==
  ASSUME IInv, NEW r \in Requests, WebhookLockTx(r)
  PROVE  IInv'
<1>1. /\ req[r].pc = "lockTx" /\ req[r].kind = "webhook" /\ req[r].kind \in Settlers
      /\ FreeFor(r, TxRow(req[r].tx)) /\ SettleOf(r)
  BY DEF WebhookLockTx, LocksTx, Settlers, IInv
<1>2. CASE req[r].verdict = "rejected"
  BY <1>1, <1>2, RejectKeeps DEF WebhookLockTx
<1>3. CASE req[r].verdict # "rejected"
  <2>1. req[r].verdict = "approved"
    BY <1>1, <1>3 DEF SettleOf
  <2> QED BY <1>1, <1>3, <2>1, SettlerGoesOn DEF WebhookLockTx
<1> QED BY <1>2, <1>3

LEMMA CheckLockTxKeeps ==
  ASSUME IInv, NEW r \in Requests, CheckLockTx(r)
  PROVE  IInv'
<1>1. /\ req[r].pc = "lockTx" /\ req[r].kind = "check" /\ req[r].kind \in Settlers
      /\ FreeFor(r, TxRow(req[r].tx))
  BY DEF CheckLockTx, LocksTx, Settlers
<1>2. CASE Rollback(r)
  BY <1>1, <1>2, RollbackKeeps
<1>3. CASE Reject(r)
  BY <1>1, <1>3, RejectKeeps
<1>4. CASE /\ tx[req[r].tx].status = "pending" /\ req[r].tx \in paid
           /\ Goto(r, "lockBuyer")
           /\ UNCHANGED <<balance, acct, tx, paid, ledger>>
  BY <1>1, <1>4, SettlerGoesOn
<1> QED BY <1>2, <1>3, <1>4 DEF CheckLockTx

LEMMA OwnerLockTxKeeps ==
  ASSUME IInv, NEW r \in Requests, OwnerLockTx(r)
  PROVE  IInv'
<1>1. /\ req[r].pc = "lockTx" /\ req[r].kind = "owner"
      /\ FreeFor(r, TxRow(req[r].tx)) /\ TypeOK /\ KindOf(r) /\ SettleOf(r)
  BY DEF OwnerLockTx, LocksTx, IInv
<1>2. CASE tx[req[r].tx].status # "pending"
  BY <1>1, <1>2, RollbackKeeps DEF OwnerLockTx
<1>3. CASE tx[req[r].tx].status = "pending"
  <2> DEFINE c == req[r].seen \cup {<<req[r].user, SeenBalance(r, req[r].user)>>}
             rec == [req[r] EXCEPT !.pc = "lockBuyer", !.seen = c]
  <2>1. req[r] \in ReqType /\ req[r].user \in Users
    BY <1>1 DEF TypeOK, KindOf
  <2>2. c \in SUBSET (Users \X Nat)
    BY <1>1, <2>1, SeenIsCopy DEF ReqType
  <2>3. req' = [req EXCEPT ![r] = rec] /\ UNCHANGED <<balance, acct, tx, paid, ledger>>
    BY <1>3 DEF OwnerLockTx
  <2> HIDE DEF c
  <2>4. /\ rec \in ReqType /\ rec.pc = "lockBuyer" /\ rec.kind = "owner"
        /\ rec.tx = req[r].tx /\ rec.user = req[r].user /\ rec.acct = req[r].acct
        /\ rec.verdict = req[r].verdict
    BY <1>1, <2>1, <2>2 DEF ReqType, InFlight
  <2> HIDE DEF rec
  <2>5. /\ req' \in [Requests -> ReqType] /\ req'[r] = rec
        /\ \A q \in Requests : q # r => req'[q] = req[q]
    BY <1>1, <2>3, <2>4 DEF TypeOK
  <2>6. KindOf(r)' /\ OfferOf(r)' /\ ~HoldsAcct(r)'
    BY <1>1, <2>4, <2>5 DEF KindOf, OfferOf, HoldsAcct, Settlers
  <2>7. SettleOf(r)'
    BY <1>1, <1>3, <2>3, <2>4, <2>5 DEF SettleOf, HoldsTx, Settlers
  <2>8. \A q \in Requests : q # r /\ HoldsTx(q) => req[q].tx # req'[r].tx
    BY <1>1, <2>4, <2>5, TxFreeForNotHeld
  <2> QED BY <1>1, <2>3, <2>5, <2>6, <2>7, <2>8, MoveKeeps
<1> QED BY <1>2, <1>3

LEMMA SettleLockBuyerKeeps ==
  ASSUME IInv, NEW r \in Requests, SettleLockBuyer(r)
  PROVE  IInv'
<1>1. req[r].pc = "lockBuyer" /\ KindOf(r) /\ SettleOf(r)
  BY DEF SettleLockBuyer, IInv
<1>2. req[r].kind \in Settlers /\ HoldsTx(r)
  BY <1>1 DEF KindOf, HoldsTx
<1>3. CASE req[r].verdict = "rejected"
  BY <1>1, <1>2, <1>3, RejectKeeps DEF SettleLockBuyer
<1>4. CASE req[r].verdict # "rejected"
  BY <1>1, <1>2, <1>4, SettlerGoesOn DEF SettleLockBuyer, SettleOf
<1> QED BY <1>3, <1>4

(* Approving an invoice keeps what it is for and counts one ledger row. *)
LEMMA ApproveKeeps ==
  ASSUME IInv, NEW r \in Requests, HoldsTx(r), NEW c \in Categories, Approve(req[r].tx, c),
         paid' = paid
  PROVE  /\ tx' \in [Txs -> TxType] /\ ledger' \in [Txs -> [Categories -> Nat]]
         /\ \A x \in Txs : BillOf(x)' /\ ValueOf(x)'
         /\ RowsKept
         /\ \A q \in Requests : q # r /\ HoldsTx(q) =>
              tx'[req[q].tx].status = tx[req[q].tx].status
<1>1. TypeOK
  BY DEF IInv
<1>0. PICK t \in Txs : t = req[r].tx /\ BillOf(t) /\ tx[t].status # "none"
  BY DEF IInv, SettleOf, HoldsTx
<1>2. /\ tx' \in [Txs -> TxType] /\ ledger' \in [Txs -> [Categories -> Nat]]
      /\ \A x \in Txs : x # t => tx'[x] = tx[x] /\ ledger'[x] = ledger[x]
      /\ tx'[t].status = "approved" /\ tx'[t].buyer = tx[t].buyer
      /\ tx'[t].acct = tx[t].acct /\ tx'[t].amount = tx[t].amount
  BY <1>0, <1>1, ApproveEffect
<1>3. BillOf(t)' /\ ValueOf(t)'
  BY <1>0, <1>2 DEF BillOf, ValueOf
<1>4. \A x \in Txs : BillOf(x)' /\ ValueOf(x)'
  BY <1>2, <1>3 DEF IInv, BillOf, ValueOf
<1>5. RowsKept
  BY <1>2 DEF RowsKept
<1>6. \A q \in Requests : q # r /\ HoldsTx(q) =>
        tx'[req[q].tx].status = tx[req[q].tx].status
  BY <1>0, <1>2, HoldsTxAlone DEF IInv, SettleOf, HoldsTx
<1> QED BY <1>2, <1>4, <1>5, <1>6

(* A settlement knows its invoice. *)
LEMMA SettlesInvoice ==
  ASSUME IInv, NEW r \in Requests, req[r].kind \in Settlers
  PROVE  /\ req[r].tx \in Txs
         /\ req[r].user = tx[req[r].tx].buyer /\ req[r].user \in Users
         /\ req[r].acct = tx[req[r].tx].acct /\ req[r].acct \in Accounts
         /\ tx[req[r].tx].amount \in Prices
         /\ tx[req[r].tx].status # "none"
<1>1. req[r].tx \in Txs
  BY DEF IInv, SettleOf
<1> QED BY <1>1 DEF IInv, SettleOf, BillOf

LEMMA SettleLockAcctKeeps ==
  ASSUME IInv, NEW r \in Requests, SettleLockAcct(r)
  PROVE  IInv'
<1> DEFINE a == req[r].acct
           rec == [req[r] EXCEPT !.pc = "lockSeller", !.seller = acct[a].seller,
                                 !.sell = acct[a].sell]
<1>1. /\ TypeOK /\ KindOf(r) /\ SettleOf(r) /\ req[r].pc = "lockAcct"
      /\ req[r].kind \in Settlers /\ HoldsTx(r)
  BY DEF IInv, SettleLockAcct, HoldsTx
<1>2. a \in Accounts /\ AccountOf(a)
  BY <1>1 DEF KindOf, IInv, Settlers
<1>3. CASE /\ acct[a].sale /\ FreeFor(r, AcctRow(a))
           /\ req' = [req EXCEPT ![r] = rec]
           /\ UNCHANGED <<balance, acct, tx, paid, ledger>>
  <2>1. acct[a].seller \in Users /\ acct[a].sell \in Nat
    BY <1>2, <1>3, PricesAssumption DEF AccountOf
  <2>2. req[r] \in ReqType
    BY <1>1 DEF TypeOK
  <2>3. /\ rec \in ReqType /\ rec.pc = "lockSeller" /\ rec.kind = req[r].kind
        /\ rec.user = req[r].user /\ rec.acct = a /\ rec.tx = req[r].tx
        /\ rec.seller = acct[a].seller /\ rec.sell = acct[a].sell
        /\ rec.verdict = req[r].verdict
    BY <1>1, <2>1, <2>2 DEF ReqType, InFlight
  <2> HIDE DEF rec
  <2>4. /\ req' \in [Requests -> ReqType] /\ req'[r] = rec
        /\ \A q \in Requests : q # r => req'[q] = req[q]
    BY <1>1, <1>3, <2>3 DEF TypeOK
  <2>5. KindOf(r)' /\ OfferOf(r)'
    BY <1>1, <1>3, <2>3, <2>4 DEF KindOf, OfferOf, HoldsAcct, Settlers
  <2>7. SettleOf(r)'
    BY <1>1, <1>3, <2>3, <2>4 DEF SettleOf, HoldsTx
  <2>8. \A q \in Requests : q # r /\ HoldsTx(q) => req[q].tx # req'[r].tx
    BY <1>1, <2>3, <2>4, HoldsTxAlone
  <2>6. \A q \in Requests : q # r /\ HoldsAcct(q) => req[q].acct # req'[r].acct
    BY <1>3, <2>3, <2>4, FreeForNotHeld
  <2> QED BY <1>1, <1>3, <2>4, <2>5, <2>6, <2>7, <2>8, MoveKeeps
<1>4. CASE FallbackCredit(r) /\ Goto(r, "done") /\ UNCHANGED <<acct, paid>>
  <2>1. req[r].tx \in Txs /\ req[r].user \in Users /\ tx[req[r].tx].amount \in Nat
    BY <1>1, SettlesInvoice, PricesAssumption
  <2>2. "topup_fallback" \in Categories /\ Approve(req[r].tx, "topup_fallback")
    BY <1>4 DEF Categories, FallbackCredit
  <2>3. balance' \in [Users -> Nat]
    BY <1>1, <1>4, <2>1, CreditEffect DEF FallbackCredit
  <2>4. /\ tx' \in [Txs -> TxType] /\ ledger' \in [Txs -> [Categories -> Nat]]
        /\ \A x \in Txs : BillOf(x)' /\ ValueOf(x)'
        /\ RowsKept
        /\ \A q \in Requests : q # r /\ HoldsTx(q) =>
             tx'[req[q].tx].status = tx[req[q].tx].status
    BY <1>1, <1>4, <2>2, ApproveKeeps
  <2>5. /\ req' \in [Requests -> ReqType]
        /\ \A q \in Requests : q # r => req'[q] = req[q]
        /\ KindOf(r)' /\ SettleOf(r)' /\ OfferOf(r)' /\ ~HoldsAcct(r)' /\ ~HoldsTx(r)'
    BY <1>4, <2>4, DoneOf
  <2>6. TypeOK'
    BY <1>1, <1>4, <2>3, <2>4, <2>5 DEF TypeOK
  <2>7. \A b \in Accounts : AccountOf(b)'
    BY <1>4 DEF IInv, AccountOf
  <2> QED BY <1>1, <1>4, <2>4, <2>5, <2>6, <2>7, StepKeeps
<1> QED BY <1>3, <1>4 DEF SettleLockAcct

LEMMA SettleLockSellerKeeps ==
  ASSUME IInv, NEW r \in Requests, SettleLockSeller(r)
  PROVE  IInv'
<1>1. TypeOK /\ KindOf(r) /\ req[r].pc = "lockSeller" /\ HoldsAcct(r)
  BY DEF IInv, SettleLockSeller, HoldsAcct
<1>2. HoldsTx(r)
  BY <1>1 DEF KindOf, HoldsTx
<1>3. /\ req[r].acct \in Accounts /\ req[r].user \in Users /\ req[r].seller \in Users
      /\ req[r].sell \in Nat
  BY <1>1, HeldListing, PricesAssumption
<1>5. /\ Credit(r, req[r].seller, req[r].sell)
      /\ HandOver(req[r].acct, req[r].user) /\ Approve(req[r].tx, "marketplace_sell")
      /\ Goto(r, "done") /\ paid' = paid
  BY DEF SettleLockSeller
<1>6. balance' \in [Users -> Nat]
  BY <1>1, <1>3, <1>5, CreditEffect
<1>7. /\ acct' \in [Accounts -> AcctType]
      /\ \A b \in Accounts : b # req[r].acct => acct'[b] = acct[b]
      /\ acct'[req[r].acct].owner = req[r].user
      /\ ~acct'[req[r].acct].sale /\ acct'[req[r].acct].seller = None
  BY <1>1, <1>3, <1>5, HandOverEffect
<1>8. "marketplace_sell" \in Categories
  BY DEF Categories
<1>9. /\ tx' \in [Txs -> TxType] /\ ledger' \in [Txs -> [Categories -> Nat]]
      /\ \A x \in Txs : BillOf(x)' /\ ValueOf(x)'
      /\ RowsKept
      /\ \A q \in Requests : q # r /\ HoldsTx(q) =>
           tx'[req[q].tx].status = tx[req[q].tx].status
  BY <1>2, <1>5, <1>8, ApproveKeeps
<1>10. req' \in [Requests -> ReqType]
  BY <1>5, <1>9, DoneOf
<1>11. TypeOK'
  BY <1>1, <1>5, <1>6, <1>7, <1>9, <1>10 DEF TypeOK
<1> QED BY <1>1, <1>3, <1>5, <1>7, <1>9, <1>11, HoldsAlone, TradeKeeps

LEMMA TransferCommitKeeps ==
  ASSUME IInv, NEW r \in Requests, TransferCommit(r)
  PROVE  IInv'
<1>1. TypeOK /\ KindOf(r) /\ req[r].pc = "transfer"
  BY DEF IInv, TransferCommit
<1>2. PICK a \in Accounts : a = req[r].acct
  BY <1>1 DEF KindOf
<1> DEFINE row == [acct[a] EXCEPT !.owner = req[r].user]
<1>who. req[r].user \in Users /\ req[r].kind = "transfer"
  BY <1>1 DEF KindOf
<1>3. /\ Free(AcctRow(a)) /\ Goto(r, "done") /\ UNCHANGED <<balance, tx, paid, ledger>>
      /\ acct' = [acct EXCEPT ![a] = row]
  BY <1>2 DEF TransferCommit
<1>4. acct[a] \in AcctType /\ AccountOf(a)
  BY <1>1, <1>2 DEF TypeOK, IInv
<1>5. /\ row \in AcctType /\ row.owner = req[r].user /\ row.sale = acct[a].sale
      /\ row.seller = acct[a].seller /\ row.sell = acct[a].sell /\ row.buy = acct[a].buy
  BY <1>who, <1>2, <1>4 DEF AcctType
<1> HIDE DEF row
<1>6. /\ acct' \in [Accounts -> AcctType] /\ acct'[a] = row
      /\ \A b \in Accounts : b # a => acct'[b] = acct[b]
  BY <1>1, <1>2, <1>3, <1>5 DEF TypeOK
<1>kept. RowsKept
  BY <1>3 DEF RowsKept
<1>7. /\ req' \in [Requests -> ReqType]
      /\ \A q \in Requests : q # r => req'[q] = req[q]
      /\ KindOf(r)' /\ SettleOf(r)' /\ OfferOf(r)' /\ ~HoldsAcct(r)' /\ ~HoldsTx(r)'
  BY <1>3, <1>kept, DoneOf
<1>8. TypeOK'
  BY <1>1, <1>3, <1>6, <1>7 DEF TypeOK
<1>9. AccountOf(a)'
  BY <1>who, <1>4, <1>5, <1>6 DEF AccountOf
<1>10. \A b \in Accounts : AccountOf(b)'
  BY <1>6, <1>9 DEF IInv, AccountOf
<1>11. \A t \in Txs : BillOf(t)' /\ ValueOf(t)'
  BY <1>3 DEF IInv, BillOf, ValueOf
<1>12. req'[r].kind = "transfer" /\ req'[r].acct = a /\ req'[r].pc = "done"
  BY <1>who, <1>1, <1>2, <1>3, GotoEffect
<1>13. Transferred(a)'
  BY <1>12 DEF Transferred
<1>14. \A q \in Requests : q # r /\ HoldsAcct(q) => acct'[req[q].acct] = acct[req[q].acct]
  BY <1>3, <1>6, FreeNotHeld, HeldListing
<1> QED BY <1>1, <1>2, <1>3, <1>5, <1>6, <1>7, <1>8, <1>10, <1>11, <1>13, <1>14, <1>kept, StepKeeps

-----------------------------------------------------------------------------

LEMMA InitHolds == Init => IInv
<1> SUFFICES ASSUME Init PROVE IInv
  OBVIOUS
<1>1. balance \in [Users -> Nat]
  BY WealthAssumption DEF Init
<1>2. \A a \in Accounts : /\ acct[a] \in AcctType /\ acct[a].owner \in Users
                          /\ ~acct[a].sale /\ acct[a].seller = None
  <2> TAKE a \in Accounts
  <2>1. PICK u \in Users : acct[a] = [owner |-> u, sale |-> FALSE, seller |-> None,
                                      sell |-> 0, buy |-> 0]
    BY DEF Init
  <2> QED BY <2>1 DEF AcctType
<1>3. acct \in [Accounts -> AcctType]
  BY <1>2 DEF Init
<1>4. \A t \in Txs : tx[t] = NoTx
  BY DEF Init
<1>5. NoTx \in TxType /\ NoTx.status = "none"
  BY DEF NoTx, TxType
<1>6. \A r \in Requests : req[r] = NoReq
  BY DEF Init
<1>7. NoReq \in ReqType /\ NoReq.kind = "none" /\ NoReq.pc = "idle" /\ NoReq.seen = {}
  BY DEF NoReq, ReqType
<1>8. \A t \in Txs, c \in Categories : ledger[t][c] = 0
  BY DEF Init
<1>9. TypeOK
  BY <1>1, <1>3, <1>5, <1>7 DEF Init, TypeOK
<1>10. \A a \in Accounts : AccountOf(a)
  BY <1>2 DEF AccountOf
<1>11. \A t \in Txs : BillOf(t) /\ ValueOf(t)
  BY <1>4, <1>5, <1>8 DEF Init, BillOf, ValueOf
<1>12. \A r \in Requests : KindOf(r) /\ SettleOf(r) /\ OfferOf(r) /\ ~HoldsAcct(r) /\ ~HoldsTx(r)
  BY <1>6, <1>7 DEF KindOf, SettleOf, OfferOf, HoldsAcct, HoldsTx, Settlers
<1>13. AcctLockExclusive /\ TxLockExclusive /\ ListingIsOwners
  BY <1>2, <1>12 DEF AcctLockExclusive, TxLockExclusive, ListingIsOwners
<1> QED BY <1>9, <1>10, <1>11, <1>12, <1>13 DEF IInv

LEMMA CancelKeeps ==
  ASSUME IInv, NEW a \in Accounts,
         CancelInvalidListing(a) \/ \E u \in Users : CancelSellAccount(u, a)
  PROVE  IInv'
BY EndListing DEF CancelInvalidListing, CancelSellAccount

LEMMA RequestStepKeeps ==
  ASSUME IInv, NEW r \in Requests, Step(r) \/ Abort(r)
  PROVE  IInv'
<1>1. CASE BuyValidate(r)
  BY <1>1, BuyValidateKeeps
<1>2. CASE BuyLockAcct(r)
  BY <1>2, BuyLockAcctKeeps
<1>3. CASE BuyLockFirst(r)
  BY <1>3, BuyLockFirstKeeps
<1>4. CASE BuyLockSecond(r)
  BY <1>4, BuyLockSecondKeeps
<1>5. CASE \E t \in Txs : BuyInvoice(r, t)
  BY <1>5, BuyInvoiceKeeps
<1>6. CASE WebhookLockTx(r) \/ CheckLockTx(r) \/ OwnerLockTx(r) \/ SettleLockBuyer(r)
  BY <1>6, WebhookLockTxKeeps, CheckLockTxKeeps, OwnerLockTxKeeps, SettleLockBuyerKeeps
<1>7. CASE SettleLockAcct(r)
  BY <1>7, SettleLockAcctKeeps
<1>8. CASE SettleLockSeller(r)
  BY <1>8, SettleLockSellerKeeps
<1>9. CASE TransferCommit(r)
  BY <1>9, TransferCommitKeeps
<1>10. "done" \notin InFlight
  BY DEF InFlight
<1>11. CASE DeadlockVictim(r)
  BY <1>10, <1>11, VictimInFlight, RollbackKeeps DEF DeadlockVictim
<1>12. CASE Abort(r)
  BY <1>10, <1>12, RollbackKeeps DEF Abort
<1> QED BY <1>1, <1>2, <1>3, <1>4, <1>5, <1>6, <1>7, <1>8, <1>9, <1>11, <1>12 DEF Step

LEMMA NextKeeps == IInv /\ [Next]_vars => IInv'
<1> SUFFICES ASSUME IInv, [Next]_vars PROVE IInv'
  OBVIOUS
<1>1. CASE \E u \in Users, S \in SUBSET Accounts : SellAccounts(u, S)
  BY <1>1, SellKeeps
<1>2. CASE \/ \E u \in Users, a \in Accounts : CancelSellAccount(u, a)
           \/ \E a \in Accounts : CancelInvalidListing(a)
  BY <1>2, CancelKeeps
<1>3. CASE \E t \in Txs : GatewayPaid(t)
  BY <1>3, PaidKeeps
<1>4. CASE \E r \in Requests : Begin(r) \/ Step(r) \/ Abort(r)
  BY <1>4, BeginKeeps, RequestStepKeeps
<1>5. CASE UNCHANGED vars
  <2> USE <1>5 DEF vars, IInv
  <2>1. TypeOK' /\ AcctLockExclusive' /\ TxLockExclusive' /\ ListingIsOwners'
    BY DEF TypeOK, AcctLockExclusive, TxLockExclusive, ListingIsOwners, HoldsAcct, HoldsTx,
           Transferred
  <2>2. \A a \in Accounts : AccountOf(a)'
    BY DEF AccountOf
  <2>3. \A t \in Txs : BillOf(t)' /\ ValueOf(t)'
    BY DEF BillOf, ValueOf
  <2>4. \A r \in Requests : KindOf(r)' /\ SettleOf(r)' /\ OfferOf(r)'
    BY DEF KindOf, SettleOf, OfferOf, HoldsAcct, HoldsTx
  <2> QED BY <2>1, <2>2, <2>3, <2>4
<1> QED BY <1>1, <1>2, <1>3, <1>4, <1>5 DEF Next

(* The invariant that the theorems below need. *)
THEOREM Inductive == Spec => []IInv
<1> QED BY InitHolds, NextKeeps, PTL DEF Spec

(* Rows and requests keep their types; no balance becomes negative,        *)
(* although the price is read before the balances are locked (buy_account).*)
THEOREM TypeCorrect == Spec => []TypeOK
<1>1. IInv => TypeOK
  BY DEF IInv
<1> QED BY <1>1, Inductive, PTL

(* The seller who will be paid for a listed account owns it, whatever      *)
(* purchases, cancellations and settlements of the account overlap         *)
(* (buy_account, cancel_sell_account, fulfill_wallet_transaction).         *)
THEOREM ListingStaysWithOwner == Spec => []ListingIsOwners
<1>1. IInv => ListingIsOwners
  BY DEF IInv
<1> QED BY <1>1, Inductive, PTL

(* A step that settles an invoice again. *)
SettledAgain ==
  \A t \in Txs : Settlements(t) > 0 /\ Settlements(t)' > Settlements(t) =>
    \E r \in Requests : /\ req[r].kind = "webhook" /\ req[r].tx = t
                        /\ req[r].pc \in InFlight /\ req'[r].pc = "done"

(* A pending invoice was never settled, and that is what a status check    *)
(* and the owner hold.                                                     *)
LEMMA ApproveSettlesOnce ==
  ASSUME IInv, NEW r \in Requests, HoldsTx(r), NEW c \in Categories, Approve(req[r].tx, c),
         Goto(r, "done")
  PROVE  SettledAgain
<1>1. TypeOK /\ SettleOf(r)
  BY DEF IInv
<1>2. PICK t \in Txs : t = req[r].tx
  BY <1>1 DEF SettleOf, HoldsTx
<1>3. \A x \in Txs : x # t => ledger'[x] = ledger[x]
  BY <1>1, <1>2, ApproveEffect
<1>4. \A x \in Txs : Settlements(x) \in Nat
  BY <1>1, NatSum DEF TypeOK, Settlements, Categories
<1>5. \A x \in Txs : x # t => ~(Settlements(x)' > Settlements(x))
  BY <1>3, <1>4 DEF Settlements
<1>6. ASSUME Settlements(t) > 0, req[r].kind # "webhook" PROVE FALSE
  <2>1. tx[t].status = "pending"
    BY <1>1, <1>2, <1>6 DEF SettleOf, HoldsTx
  <2>2. \A d \in Categories : ledger[t][d] \in Nat /\ ~(ledger[t][d] > 0)
    BY <1>1, <2>1 DEF IInv, ValueOf, TypeOK
  <2>3. ledger[t]["marketplace_sell"] = 0 /\ ledger[t]["topup_fallback"] = 0
    BY <2>2 DEF Categories
  <2> QED BY <1>6, <2>3 DEF Settlements
<1>7. req[r].pc \in InFlight /\ req'[r].pc = "done"
  BY <1>1, GotoEffect DEF HoldsTx, InFlight
<1> QED BY <1>2, <1>5, <1>6, <1>7 DEF SettledAgain

LEMMA SameLedgerSettles ==
  ASSUME TypeOK, ledger' = ledger
  PROVE  SettledAgain
<1>1. \A t \in Txs : Settlements(t) \in Nat /\ Settlements(t)' = Settlements(t)
  BY NatSum DEF TypeOK, Settlements, Categories
<1> QED BY <1>1 DEF SettledAgain

LEMMA StepSettlesAgain == IInv /\ [Next]_vars => SettledAgain
<1> SUFFICES ASSUME IInv, [Next]_vars PROVE SettledAgain
  OBVIOUS
<1>1. CASE ledger' = ledger
  BY <1>1, SameLedgerSettles DEF IInv
<1>2. ASSUME NEW r \in Requests, SettleLockAcct(r) PROVE SettledAgain
  <2>1. HoldsTx(r)
    BY <1>2 DEF SettleLockAcct, HoldsTx
  <2>2. CASE FallbackCredit(r) /\ Goto(r, "done")
    BY <2>1, <2>2, ApproveSettlesOnce DEF FallbackCredit, Categories
  <2> QED BY <1>1, <1>2, <2>2 DEF SettleLockAcct
<1>3. ASSUME NEW r \in Requests, SettleLockSeller(r) PROVE SettledAgain
  <2>1. HoldsTx(r)
    BY <1>3 DEF SettleLockSeller, HoldsTx, IInv, KindOf
  <2> QED BY <1>3, <2>1, ApproveSettlesOnce DEF SettleLockSeller, Categories
<1>4. ASSUME NEW r \in Requests,
             \/ Begin(r) \/ BuyValidate(r) \/ BuyLockAcct(r) \/ BuyLockFirst(r)
             \/ BuyLockSecond(r) \/ Abort(r)
             \/ (\E t \in Txs : BuyInvoice(r, t)) \/ WebhookLockTx(r) \/ CheckLockTx(r)
             \/ OwnerLockTx(r) \/ SettleLockBuyer(r) \/ TransferCommit(r)
             \/ DeadlockVictim(r)
      PROVE  ledger' = ledger
  BY <1>4 DEF Begin, BuyBegin, WebhookBegin, CheckBegin, OwnerBegin, TransferBegin, BuyValidate,
    BuyLockAcct, BuyLockFirst, BuyLockSecond, Abort, BuyInvoice, WebhookLockTx, CheckLockTx,
    OwnerLockTx, SettleLockBuyer, TransferCommit, DeadlockVictim, Rollback, Reject
<1>5. CASE \/ \E u \in Users, S \in SUBSET Accounts : SellAccounts(u, S)
           \/ \E u \in Users, a \in Accounts : CancelSellAccount(u, a)
           \/ \E a \in Accounts : CancelInvalidListing(a)
           \/ \E t \in Txs : GatewayPaid(t)
           \/ UNCHANGED vars
  BY <1>1, <1>5 DEF SellAccounts, CancelSellAccount, CancelInvalidListing, GatewayPaid, vars
<1>6. CASE \E r \in Requests : Begin(r) \/ Step(r) \/ Abort(r)
  BY <1>1, <1>2, <1>3, <1>4, <1>6 DEF Step
<1> QED BY <1>5, <1>6 DEF Next

(* An invoice is settled once, by whoever comes first: the status check    *)
(* and the owner re-check its status under the lock, and only a webhook    *)
(* that read it before may settle it again (check_topup_status,            *)
(* admin_update_transaction_status, klikqris_webhook).                     *)
THEOREM SettledAgainNeedsWebhook == Spec => SettledTwiceOnlyByWebhook
<1>1. IInv /\ [Next]_vars => [SettledAgain]_vars
  BY StepSettlesAgain
<1>2. Spec => [][SettledAgain]_vars
  BY <1>1, Inductive, PTL DEF Spec
<1> QED BY <1>2 DEF SettledTwiceOnlyByWebhook, SettledAgain

(* The accounts of a step: who may have lost one, and how. *)
OwnerStep ==
  \A a \in Accounts : acct'[a].owner # acct[a].owner /\ ~Transferred(a)' =>
    acct[a].sale /\ acct[a].seller = acct[a].owner /\ ~acct'[a].sale

(* A sale takes the account from the owner who listed it. *)
LEMMA SaleMovesOwner ==
  ASSUME IInv, NEW r \in Requests, HoldsAcct(r), Goto(r, "done"),
         HandOver(req[r].acct, req[r].user)
  PROVE  OwnerStep
<1>1. TypeOK /\ ListingIsOwners
  BY DEF IInv
<1>2. req[r].acct \in Accounts /\ req[r].user \in Users /\ acct[req[r].acct].sale
  BY HeldListing
<1>3. /\ \A b \in Accounts : b # req[r].acct => acct'[b] = acct[b]
      /\ ~acct'[req[r].acct].sale
  BY <1>1, <1>2, HandOverEffect
<1>4. \A q \in Requests : q # r => req'[q] = req[q]
  BY <1>1, GotoEffect
<1>5. req[r].pc # "done"
  BY DEF HoldsAcct
<1>6. \A a \in Accounts : Transferred(a) => Transferred(a)'
  BY <1>4, <1>5, TransferredStays
<1>7. SUFFICES ASSUME NEW a \in Accounts, acct'[a].owner # acct[a].owner, ~Transferred(a)'
               PROVE  acct[a].sale /\ acct[a].seller = acct[a].owner /\ ~acct'[a].sale
  BY DEF OwnerStep
<1>8. a = req[r].acct
  BY <1>3, <1>7
<1>9. ~Transferred(a)
  BY <1>6, <1>7
<1> QED BY <1>1, <1>2, <1>3, <1>8, <1>9 DEF ListingIsOwners

(* A step that keeps the owner of every account. *)
LEMMA OwnersStay ==
  ASSUME \A a \in Accounts : acct'[a].owner = acct[a].owner
  PROVE  OwnerStep
BY DEF OwnerStep

LEMMA UnlistKeepsOwners ==
  ASSUME TypeOK, NEW a \in Accounts, acct' = [acct EXCEPT ![a] = Unlisted(a)]
  PROVE  OwnerStep
BY UnlistEffect, OwnersStay

LEMMA StepMovesOwner == IInv /\ [Next]_vars => OwnerStep
<1> SUFFICES ASSUME IInv, [Next]_vars PROVE OwnerStep
  OBVIOUS
<1>1. CASE acct' = acct
  BY <1>1, OwnersStay
<1>2. CASE \E u \in Users, S \in SUBSET Accounts : SellAccounts(u, S)
  <2>1. PICK u \in Users, S \in SUBSET Accounts : SellAccounts(u, S)
    BY <1>2
  <2>2. PICK p : acct' = [a \in Accounts |-> IF a \notin S THEN acct[a] ELSE
                  [owner |-> u, sale |-> TRUE, seller |-> u, sell |-> p[a][1],
                   buy |-> EffectiveBuyPrice(p[a][1], p[a][2])]]
    BY <2>1 DEF SellAccounts
  <2>3. \A a \in S : acct[a].owner = u
    BY <2>1 DEF SellAccounts
  <2>4. \A a \in Accounts : acct'[a].owner = acct[a].owner
    BY <2>2, <2>3
  <2> QED BY <2>4, OwnersStay
<1>3. CASE \E a \in Accounts : \/ CancelInvalidListing(a)
                               \/ \E u \in Users : CancelSellAccount(u, a)
  BY <1>3, UnlistKeepsOwners DEF CancelInvalidListing, CancelSellAccount, IInv
<1>4. ASSUME NEW r \in Requests, BuyValidate(r)
      PROVE  OwnerStep
  <2>1. req[r].acct \in Accounts
    BY <1>4 DEF IInv, KindOf, BuyValidate
  <2> QED BY <1>1, <1>4, <2>1, UnlistKeepsOwners DEF BuyValidate, Rollback, IInv
<1>5. ASSUME NEW r \in Requests, BuyLockSecond(r)
      PROVE  OwnerStep
  BY <1>1, <1>5, SaleMovesOwner DEF BuyLockSecond, HoldsAcct
<1>6. ASSUME NEW r \in Requests, SettleLockSeller(r)
      PROVE  OwnerStep
  BY <1>6, SaleMovesOwner DEF SettleLockSeller, HoldsAcct
<1>7. ASSUME NEW r \in Requests, TransferCommit(r)
      PROVE  OwnerStep
  <2>1. TypeOK /\ KindOf(r) /\ req[r].pc = "transfer" /\ Goto(r, "done")
    BY <1>7 DEF IInv, TransferCommit
  <2>2. PICK a \in Accounts : a = req[r].acct
    BY <2>1 DEF KindOf
  <2>3. req[r].kind = "transfer"
    BY <2>1 DEF KindOf
  <2>4. req'[r].kind = "transfer" /\ req'[r].acct = a /\ req'[r].pc = "done"
    BY <2>1, <2>2, <2>3, GotoEffect
  <2>5. Transferred(a)'
    BY <2>4 DEF Transferred
  <2>6. \A b \in Accounts : b # a => acct'[b] = acct[b]
    BY <1>7, <2>1, <2>2 DEF TransferCommit, TypeOK
  <2> QED BY <2>5, <2>6 DEF OwnerStep
<1>8. ASSUME NEW r \in Requests,
             \/ Begin(r) \/ BuyLockAcct(r) \/ BuyLockFirst(r) \/ Abort(r)
             \/ (\E t \in Txs : BuyInvoice(r, t)) \/ WebhookLockTx(r) \/ CheckLockTx(r)
             \/ OwnerLockTx(r) \/ SettleLockBuyer(r) \/ SettleLockAcct(r) \/ DeadlockVictim(r)
      PROVE  acct' = acct
  BY <1>8 DEF Begin, BuyBegin, WebhookBegin, CheckBegin, OwnerBegin, TransferBegin, BuyLockAcct,
    BuyLockFirst, Abort, BuyInvoice, WebhookLockTx, CheckLockTx, OwnerLockTx, SettleLockBuyer,
    SettleLockAcct, DeadlockVictim, Rollback, Reject
<1>9. CASE (\E t \in Txs : GatewayPaid(t)) \/ UNCHANGED vars
  BY <1>1, <1>9 DEF GatewayPaid, vars
<1>10. CASE \E r \in Requests : Begin(r) \/ Step(r) \/ Abort(r)
  BY <1>1, <1>4, <1>5, <1>6, <1>7, <1>8, <1>10 DEF Step
<1> QED BY <1>2, <1>3, <1>9, <1>10 DEF Next

(* But for the owner's transfer, an account changes hands only out of a    *)
(* listing of its owner, which ends with it: neither a second buyer nor a  *)
(* late webhook takes it from the one who paid (buy_account,               *)
(* fulfill_wallet_transaction).                                            *)
THEOREM OwnersMoveOnlyBySale == Spec => OwnerMovesOnlyBySale
<1>1. IInv /\ [Next]_vars => [OwnerStep]_vars
  BY StepMovesOwner
<1>2. Spec => [][OwnerStep]_vars
  BY <1>1, Inductive, PTL DEF Spec
<1> QED BY <1>2 DEF OwnerMovesOnlyBySale, OwnerStep

-----------------------------------------------------------------------------
(* Rings of waiters. *)

LEMMA LeastNat ==
  ASSUME NEW T, T \subseteq Nat, T # {}
  PROVE  \E m \in T : \A n \in T : m <= n
<1>1. PICK m \in T : \A n \in T : <<n, m>> \notin OpToRel(<, Nat)
  BY WFMin, NatLessThanWellFounded
<1>2. \A n \in T : ~(n < m)
  BY <1>1 DEF OpToRel
<1> QED BY <1>2

(* A purchase holds the account while it asks for the first user, and the  *)
(* user with the smaller number besides while it asks for the other.       *)
LEMMA PurchaseLocks ==
  ASSUME IInv, NEW r \in Requests, req[r].kind \notin Settlers, Held(r) # {}
  PROVE  /\ \/ /\ req[r].pc = "lockFirst"
               /\ Held(r) = {AcctRow(req[r].acct)}
               /\ Wanted(r) = {UserRow(First(r))}
            \/ /\ req[r].pc = "lockSecond"
               /\ Held(r) = {AcctRow(req[r].acct), UserRow(First(r))}
               /\ Wanted(r) = {UserRow(Second(r))}
         /\ First(r) \in Nat /\ Second(r) \in Nat /\ First(r) < Second(r)
<1>1. KindOf(r) /\ OfferOf(r)
  BY DEF IInv
<1>2. req[r].pc \in {"lockFirst", "lockSecond"}
  BY <1>1 DEF Held, Locked, KindOf
<1>3. req[r].user \in Nat /\ req[r].seller \in Nat /\ req[r].user # req[r].seller
  BY <1>1, <1>2, HeldListing, UsersAssumption DEF HoldsAcct, OfferOf
<1>4. First(r) \in Nat /\ Second(r) \in Nat /\ First(r) < Second(r)
  BY <1>3 DEF First, Second
<1>5. CASE req[r].pc = "lockFirst"
  BY <1>4, <1>5 DEF Held, Locked, Wanted
<1>6. CASE req[r].pc = "lockSecond"
  BY <1>4, <1>6 DEF Held, Locked, Wanted
<1> QED BY <1>2, <1>5, <1>6

LEMMA RowsDiffer ==
  /\ \A u, a : UserRow(u) # AcctRow(a)
  /\ \A u, v : UserRow(u) = UserRow(v) => u = v
BY DEF UserRow, AcctRow

(* In a ring of purchases every one would hold a first user below which    *)
(* another one holds its own: there is no such ring.                       *)
LEMMA NoRingOfPurchases ==
  ASSUME IInv, NEW S \in SUBSET Requests, Cycle(S), \A r \in S : req[r].kind \notin Settlers
  PROVE  FALSE
<1>1. \A r \in S : Held(r) # {}
  BY DEF Cycle, WaitsFor
<1>2. \A r \in S : /\ \/ /\ req[r].pc = "lockFirst"
                         /\ Held(r) = {AcctRow(req[r].acct)}
                         /\ Wanted(r) = {UserRow(First(r))}
                      \/ /\ req[r].pc = "lockSecond"
                         /\ Held(r) = {AcctRow(req[r].acct), UserRow(First(r))}
                         /\ Wanted(r) = {UserRow(Second(r))}
                   /\ First(r) \in Nat /\ Second(r) \in Nat /\ First(r) < Second(r)
  BY <1>1, PurchaseLocks
<1>3. \A q \in S : \E u : Wanted(q) = {UserRow(u)}
  BY <1>2
<1>4. ASSUME NEW r \in S
      PROVE  req[r].pc = "lockSecond"
  <2>1. PICK q \in S : WaitsFor(q, r)
    BY DEF Cycle
  <2>2. PICK u : Wanted(q) = {UserRow(u)}
    BY <1>3
  <2>3. UserRow(u) \in Held(r)
    BY <2>1, <2>2 DEF WaitsFor
  <2>4. Held(r) # {AcctRow(req[r].acct)}
    BY <2>3, RowsDiffer
  <2> QED BY <1>2, <2>4
<1>5. ASSUME NEW r \in S
      PROVE  \E q \in S : First(r) = Second(q)
  <2>1. PICK q \in S : WaitsFor(q, r)
    BY DEF Cycle
  <2>2. Wanted(q) = {UserRow(Second(q))} /\ Held(r) = {AcctRow(req[r].acct), UserRow(First(r))}
    BY <1>2, <1>4
  <2>3. UserRow(Second(q)) = UserRow(First(r))
    BY <2>1, <2>2, RowsDiffer DEF WaitsFor
  <2> QED BY <2>3, RowsDiffer
<1>6. S # {}
  BY DEF Cycle
<1> DEFINE T == {First(r) : r \in S}
<1>7. PICK m \in T : \A n \in T : m <= n
  <2>1. T \subseteq Nat /\ T # {}
    BY <1>2, <1>6
  <2> QED BY <2>1, LeastNat
<1>8. PICK r \in S : m = First(r)
  OBVIOUS
<1>9. PICK q \in S : First(r) = Second(q)
  BY <1>5
<1>10. First(q) < First(r) /\ First(q) \in T /\ First(q) \in Nat /\ First(r) \in Nat
  BY <1>2, <1>9
<1> QED BY <1>7, <1>8, <1>10

(* Purchases alone never wait for each other in a ring: the two users are  *)
(* locked in the order of their identifiers (buy_account); a ring needs a  *)
(* settlement, which locks the buyer before the account.                   *)
THEOREM RingsNeedSettlement == Spec => []RingNeedsSettlement
<1>1. IInv => RingNeedsSettlement
  BY NoRingOfPurchases DEF RingNeedsSettlement
<1> QED BY <1>1, Inductive, PTL

-----------------------------------------------------------------------------
(* Marketplace implements AccountMarket: every step of a request is one   *)
(* step of a market without requests and locks, or changes nothing there. *)

(* The abstract state of an account that is listed, and of one that is not. *)
LEMMA OfferStands ==
  ASSUME IInv, NEW a \in Accounts, acct[a].sale
  PROVE  /\ offerBar[a] \in AM!Offers
         /\ offerBar[a].seller = acct[a].seller
         /\ offerBar[a].gets = acct[a].sell
         /\ offerBar[a].costs = Larger(acct[a].buy, acct[a].sell)
         /\ offerBar[a].gets <= offerBar[a].costs
<1>1. AccountOf(a)
  BY DEF IInv
<1>2. Larger(acct[a].buy, acct[a].sell) \in Prices /\ acct[a].sell <= Larger(acct[a].buy, acct[a].sell)
  BY <1>1, LargerPrice DEF AccountOf
<1> QED BY <1>1, <1>2 DEF offerBar, AccountOf, AM!Offers

LEMMA NoOffer ==
  ASSUME NEW a \in Accounts, ~acct[a].sale
  PROVE  offerBar[a] = None
BY DEF offerBar

LEMMA BillStands ==
  ASSUME IInv, NEW t \in Txs, tx[t].status # "none"
  PROVE  /\ billBar[t] \in AM!Bills
         /\ billBar[t].buyer = tx[t].buyer
         /\ billBar[t].acct = tx[t].acct
         /\ billBar[t].amount = tx[t].amount
BY DEF IInv, BillOf, billBar, AM!Bills

(* An account that leaves the market takes its offer along. *)
LEMMA OfferEnds ==
  ASSUME NEW a \in Accounts, \A b \in Accounts : b # a => acct'[b] = acct[b],
         ~acct'[a].sale
  PROVE  /\ offerBar' = [offerBar EXCEPT ![a] = None]
         /\ ownerBar' = [ownerBar EXCEPT ![a] = acct'[a].owner]
         /\ acct'[a].owner = acct[a].owner => ownerBar' = ownerBar
BY DEF offerBar, ownerBar

LEMMA SameAccounts == acct' = acct => offerBar' = offerBar /\ ownerBar' = ownerBar
BY DEF offerBar, ownerBar

LEMMA SameInvoices == tx' = tx => billBar' = billBar
BY DEF billBar

LEMMA SameLedger == ledger' = ledger => settledBar' = settledBar
BY DEF settledBar, Settlements

(* The requests map to the copies that are out and to the owner's word.    *)
LEMMA SameRequests ==
  ASSUME req' = req, paid' = paid
  PROVE  copiesBar' = copiesBar /\ paidBar' = paidBar
BY DEF copiesBar, paidBar, OwnerApproves

LEMMA CopiesMove ==
  ASSUME NEW r \in Requests, \A q \in Requests : q # r => req'[q] = req[q]
  PROVE  /\ req'[r].seen = req[r].seen => copiesBar' = copiesBar
         /\ req'[r].seen = {} => copiesBar' \in SUBSET copiesBar
         /\ \A c : req'[r].seen = req[r].seen \cup {c} => copiesBar' = copiesBar \cup {c}
<1>1. \A c : c \in copiesBar <=> \E q \in Requests : c \in req[q].seen
  BY DEF copiesBar
<1>2. \A c : c \in copiesBar' <=> \E q \in Requests : c \in req'[q].seen
  BY DEF copiesBar
<1>3. req'[r].seen = req[r].seen => copiesBar' = copiesBar
  BY <1>1, <1>2
<1>4. req'[r].seen = {} => copiesBar' \in SUBSET copiesBar
  BY <1>1, <1>2
<1>5. \A c : req'[r].seen = req[r].seen \cup {c} => copiesBar' = copiesBar \cup {c}
  <2> TAKE c
  <2> HAVE req'[r].seen = req[r].seen \cup {c}
  <2>1. \A d : d \in copiesBar' <=> d \in copiesBar \cup {c}
    BY <1>1, <1>2
  <2> QED BY <2>1
<1> QED BY <1>3, <1>4, <1>5

LEMMA OwnerKeepsWord ==
  ASSUME NEW r \in Requests, \A q \in Requests : q # r => req'[q] = req[q], paid' = paid,
         req'[r].kind = req[r].kind, req'[r].tx = req[r].tx, req'[r].verdict = req[r].verdict
  PROVE  paidBar' = paidBar
<1>1. \A t : t \in OwnerApproves <=>
              \E q \in Requests : req[q].kind = "owner" /\ req[q].verdict = "approved" /\ req[q].tx = t
  BY DEF OwnerApproves
<1>2. \A t : t \in OwnerApproves' <=>
              \E q \in Requests : req'[q].kind = "owner" /\ req'[q].verdict = "approved" /\ req'[q].tx = t
  BY DEF OwnerApproves
<1>3. \A q \in Requests : /\ req'[q].kind = req[q].kind /\ req'[q].tx = req[q].tx
                          /\ req'[q].verdict = req[q].verdict
  OBVIOUS
<1>4. ASSUME NEW t
      PROVE  t \in OwnerApproves' <=> t \in OwnerApproves
  <2>1. t \in OwnerApproves <=>
          \E q \in Requests : req[q].kind = "owner" /\ req[q].verdict = "approved" /\ req[q].tx = t
    BY <1>1
  <2>2. t \in OwnerApproves' <=>
          \E q \in Requests : req'[q].kind = "owner" /\ req'[q].verdict = "approved" /\ req'[q].tx = t
    BY <1>2
  <2> QED BY <2>1, <2>2, <1>3
<1>5. OwnerApproves' = OwnerApproves
  BY <1>4
<1> QED BY <1>5 DEF paidBar

(* A request that begins, and speaks for an invoice if it is the owner's.  *)
LEMMA OwnerGivesWord ==
  ASSUME NEW r \in Requests, \A q \in Requests : q # r => req'[q] = req[q], paid' = paid,
         req[r].kind # "owner"
  PROVE  paidBar' = IF req'[r].kind = "owner" /\ req'[r].verdict = "approved"
                      THEN paidBar \cup {req'[r].tx} ELSE paidBar
<1>1. \A t : t \in OwnerApproves <=>
              \E q \in Requests : req[q].kind = "owner" /\ req[q].verdict = "approved" /\ req[q].tx = t
  BY DEF OwnerApproves
<1>2. \A t : t \in OwnerApproves' <=>
              \E q \in Requests : req'[q].kind = "owner" /\ req'[q].verdict = "approved" /\ req'[q].tx = t
  BY DEF OwnerApproves
<1>3. CASE req'[r].kind = "owner" /\ req'[r].verdict = "approved"
  <2>1. \A t : t \in OwnerApproves' <=> t \in OwnerApproves \cup {req'[r].tx}
    BY <1>1, <1>2, <1>3
  <2>2. OwnerApproves' = OwnerApproves \cup {req'[r].tx}
    BY <2>1
  <2> QED BY <1>3, <2>2 DEF paidBar
<1>4. CASE ~(req'[r].kind = "owner" /\ req'[r].verdict = "approved")
  <2>1. \A t : t \in OwnerApproves' <=> t \in OwnerApproves
    BY <1>1, <1>2, <1>4
  <2>2. OwnerApproves' = OwnerApproves
    BY <2>1
  <2> QED BY <1>4, <2>2 DEF paidBar
<1> QED BY <1>3, <1>4

(* What Goto does to the copies and to the owner's word. *)
LEMMA GotoCopies ==
  ASSUME IInv, NEW r \in Requests, NEW pc \in InFlight \cup {"done"}, Goto(r, pc)
  PROVE  /\ paid' = paid => paidBar' = paidBar
         /\ pc # "done" => copiesBar' = copiesBar
         /\ pc = "done" => copiesBar' \in SUBSET copiesBar
         /\ pc = "done" /\ req[r].seen = {} => copiesBar' = copiesBar
<1>1. TypeOK
  BY DEF IInv
<1>2. \A q \in Requests : q # r => req'[q] = req[q]
  BY <1>1, GotoEffect
<1>3. /\ req'[r].kind = req[r].kind /\ req'[r].tx = req[r].tx
      /\ req'[r].verdict = req[r].verdict
      /\ req'[r].seen = IF pc = "done" THEN {} ELSE req[r].seen
  BY <1>1, GotoEffect
<1> QED BY <1>2, <1>3, CopiesMove, OwnerKeepsWord

(* An approved invoice is settled once more, for the same thing. *)
LEMMA ApproveSettles ==
  ASSUME IInv, NEW t \in Txs, tx[t].status # "none", NEW c \in Categories, Approve(t, c)
  PROVE  billBar' = billBar /\ settledBar' = [settledBar EXCEPT ![t] = @ + 1]
<1>1. TypeOK
  BY DEF IInv
<1>2. /\ \A x \in Txs : x # t => tx'[x] = tx[x] /\ ledger'[x] = ledger[x]
      /\ tx'[t].status = "approved" /\ tx'[t].buyer = tx[t].buyer
      /\ tx'[t].acct = tx[t].acct /\ tx'[t].amount = tx[t].amount
      /\ ledger'[t][c] = ledger[t][c] + 1
      /\ \A d \in Categories : d # c => ledger'[t][d] = ledger[t][d]
  BY <1>1, ApproveEffect
<1>3. billBar' = billBar
  BY <1>2 DEF billBar
<1>4. ledger[t]["marketplace_sell"] \in Nat /\ ledger[t]["topup_fallback"] \in Nat
  BY <1>1 DEF TypeOK, Categories
<1>5. Settlements(t)' = Settlements(t) + 1
  BY <1>2, <1>4 DEF Categories, Settlements
<1>7. \A x \in Txs : x # t => Settlements(x)' = Settlements(x)
  BY <1>2 DEF Settlements
<1>6. settledBar' = [settledBar EXCEPT ![t] = @ + 1]
  BY <1>5, <1>7 DEF settledBar
<1> QED BY <1>3, <1>6

LEMMA Stutter ==
  ASSUME UNCHANGED <<balance, acct, tx, ledger, copiesBar, paidBar>>
  PROVE  UNCHANGED AM!vars
BY SameAccounts, SameInvoices, SameLedger DEF AM!vars

(* A request that goes on, and one that leaves without effect. *)
LEMMA GoOnStutters ==
  ASSUME IInv, NEW r \in Requests, NEW pc \in InFlight, Goto(r, pc),
         UNCHANGED <<balance, acct, tx, paid, ledger>>
  PROVE  UNCHANGED AM!vars
<1>1. pc \in InFlight \cup {"done"} /\ pc # "done"
  BY DEF InFlight
<1> QED BY <1>1, GotoCopies, Stutter

LEMMA RollbackForgets ==
  ASSUME IInv, NEW r \in Requests, Rollback(r)
  PROVE  AM!Forget
<1>1. Goto(r, "done") /\ UNCHANGED <<balance, acct, tx, paid, ledger>>
  BY DEF Rollback
<1>2. copiesBar' \in SUBSET copiesBar /\ paidBar' = paidBar
  BY <1>1, GotoCopies
<1> QED BY <1>1, <1>2, SameAccounts, SameInvoices, SameLedger DEF AM!Forget

LEMMA RejectForgets ==
  ASSUME IInv, NEW r \in Requests, req[r].kind \in Settlers, Reject(r)
  PROVE  AM!Forget
<1>1. Goto(r, "done") /\ UNCHANGED <<balance, acct, paid, ledger>>
  BY DEF Reject
<1>2. copiesBar' \in SUBSET copiesBar /\ paidBar' = paidBar
  BY <1>1, GotoCopies
<1>3. /\ RowsKept /\ \A x \in Txs : x # req[r].tx => tx'[x] = tx[x]
      /\ \A x \in Txs : tx[x].status # "none" => tx'[x].amount = tx[x].amount
  BY RejectEffect
<1>4. billBar' = billBar
  <2>1. ASSUME NEW x \in Txs PROVE billBar'[x] = billBar[x]
    <3>1. CASE tx[x].status # "none"
      BY <1>3, <3>1 DEF RowsKept, billBar
    <3>2. CASE tx[x].status = "none"
      <4>1. x # req[r].tx
        BY <3>2 DEF IInv, SettleOf
      <4> QED BY <1>3, <4>1 DEF billBar
    <3> QED BY <3>1, <3>2
  <2> QED BY <2>1 DEF billBar
<1> QED BY <1>1, <1>2, <1>4, SameAccounts, SameLedger DEF AM!Forget

LEMMA InitRefines == Init => AM!Init
<1> SUFFICES ASSUME Init PROVE AM!Init
  OBVIOUS
<1>1. IInv
  BY InitHolds
<1>2. balance \in [Users -> Nat] /\ ownerBar \in [Accounts -> Users]
  BY <1>1 DEF IInv, TypeOK, AccountOf, ownerBar
<1>3. \A a \in Accounts : ~acct[a].sale
  BY DEF Init
<1>4. offerBar = [a \in Accounts |-> None]
  BY <1>3 DEF offerBar
<1>5. \A t \in Txs : tx[t].status = "none"
  BY DEF Init, NoTx
<1>6. billBar = [t \in Txs |-> None]
  BY <1>5 DEF billBar
<1>7. settledBar = [t \in Txs |-> 0]
  BY DEF Init, settledBar, Settlements, Categories
<1>8. \A r \in Requests : req[r].kind = "none" /\ req[r].seen = {}
  BY DEF Init, NoReq
<1>9. copiesBar = {} /\ paidBar = {}
  BY <1>8 DEF Init, copiesBar, paidBar, OwnerApproves
<1> QED BY <1>2, <1>4, <1>6, <1>7, <1>9 DEF Init, AM!Init

(* Listing a batch is one step of the market. *)
LEMMA SellRefines ==
  ASSUME IInv, IInv', NEW u \in Users, NEW S \in SUBSET Accounts, SellAccounts(u, S)
  PROVE  AM!Sell(u, S)
<1>1. \A a \in S : acct[a].owner = u /\ ~acct[a].sale
  BY DEF SellAccounts
<1>2. PICK p : acct' = [a \in Accounts |-> IF a \notin S THEN acct[a] ELSE
                  [owner |-> u, sale |-> TRUE, seller |-> u, sell |-> p[a][1],
                   buy |-> EffectiveBuyPrice(p[a][1], p[a][2])]]
  BY DEF SellAccounts
<1>3. /\ \A a \in S : acct'[a].owner = u /\ acct'[a].sale /\ acct'[a].seller = u
      /\ \A a \in Accounts : a \notin S => acct'[a] = acct[a]
  BY <1>2
<1>4. ownerBar' = ownerBar
  BY <1>1, <1>3 DEF ownerBar
<1>5. \A a \in S : ownerBar[a] = u /\ offerBar[a] = None
  BY <1>1 DEF ownerBar, offerBar
<1> DEFINE new == [a \in S |-> offerBar'[a]]
<1>6. \A a \in S : /\ offerBar'[a] \in AM!Offers /\ offerBar'[a].seller = u
                   /\ offerBar'[a].gets <= offerBar'[a].costs
  <2> TAKE a \in S
  <2>1. AccountOf(a)' /\ acct'[a].sale /\ acct'[a].seller = u
    BY <1>3 DEF IInv
  <2>2. /\ Larger(acct'[a].buy, acct'[a].sell) \in Prices
        /\ acct'[a].sell <= Larger(acct'[a].buy, acct'[a].sell)
    BY <2>1, LargerPrice DEF AccountOf
  <2> QED BY <2>1, <2>2 DEF offerBar, AccountOf, AM!Offers
<1>7. new \in [S -> AM!Offers] /\ \A a \in S : new[a].seller = u /\ new[a].gets <= new[a].costs
  BY <1>6
<1>8. offerBar' = [a \in Accounts |-> IF a \in S THEN new[a] ELSE offerBar[a]]
  BY <1>3 DEF offerBar
<1>9. UNCHANGED <<balance, billBar, paidBar, settledBar, copiesBar>>
  BY SameInvoices, SameLedger, SameRequests DEF SellAccounts
<1> HIDE DEF new
<1> QED BY <1>4, <1>5, <1>7, <1>8, <1>9 DEF AM!Sell

(* A listing that ends is an offer that is taken back. *)
LEMMA CancelRefines ==
  ASSUME IInv, NEW a \in Accounts, acct[a].sale, acct' = [acct EXCEPT ![a] = Unlisted(a)],
         UNCHANGED <<balance, tx, ledger, copiesBar, paidBar>>
  PROVE  AM!Cancel(a)
<1>1. TypeOK
  BY DEF IInv
<1>2. /\ \A b \in Accounts : b # a => acct'[b] = acct[b]
      /\ acct'[a].owner = acct[a].owner /\ ~acct'[a].sale
  BY <1>1, UnlistEffect
<1>3. offerBar' = [offerBar EXCEPT ![a] = None] /\ ownerBar' = ownerBar
  BY <1>2, OfferEnds
<1> QED BY <1>3, OfferStands, SameInvoices, SameLedger DEF AM!Cancel

(* A sale out of a held listing is a sale out of the offer that stands. *)
LEMMA HandOverRefines ==
  ASSUME IInv, NEW a \in Accounts, NEW u \in Users, HandOver(a, u)
  PROVE  AM!HandOver(a, u)
<1>1. TypeOK
  BY DEF IInv
<1>2. /\ \A b \in Accounts : b # a => acct'[b] = acct[b]
      /\ acct'[a].owner = u /\ ~acct'[a].sale
  BY <1>1, HandOverEffect
<1> QED BY <1>2, OfferEnds DEF AM!HandOver

LEMMA BuyRefines ==
  ASSUME IInv, NEW r \in Requests, BuyLockSecond(r)
  PROVE  (\E a \in Accounts, u \in Users : AM!Buy(u, a)) \/ UNCHANGED AM!vars
<1>1. OfferOf(r) /\ HoldsAcct(r) /\ req[r].pc = "lockSecond"
  BY DEF IInv, BuyLockSecond, HoldsAcct
<1>2. PICK a \in Accounts : a = req[r].acct
  BY <1>1, HeldListing
<1>3. PICK u \in Users : u = req[r].user
  BY <1>1, HeldListing
<1>4. /\ acct[a].sale /\ acct[a].seller = req[r].seller /\ acct[a].sell = req[r].sell
      /\ req[r].seller # u /\ req[r].price = Larger(acct[a].buy, acct[a].sell)
  BY <1>1, <1>2, <1>3 DEF OfferOf
<1>5. /\ offerBar[a] \in AM!Offers /\ offerBar[a].seller = req[r].seller
      /\ offerBar[a].gets = req[r].sell /\ offerBar[a].costs = req[r].price
  BY <1>4, OfferStands
<1>6. CASE /\ Affords(r)
           /\ Transfer(req[r].user, req[r].price, req[r].seller, req[r].sell)
           /\ HandOver(req[r].acct, req[r].user)
           /\ Goto(r, "done")
           /\ UNCHANGED <<tx, paid, ledger>>
  <2>0. copiesBar' = copiesBar /\ paidBar' = paidBar
    BY <1>1, <1>6, GotoCopies DEF IInv, KindOf, Settlers
  <2>1. AM!HandOver(a, u)
    BY <1>2, <1>3, <1>6, HandOverRefines
  <2>2. balance[u] >= offerBar[a].costs
    BY <1>3, <1>5, <1>6 DEF Affords
  <2>3. balance' = [balance EXCEPT ![u] = @ - offerBar[a].costs,
                                   ![offerBar[a].seller] = @ + offerBar[a].gets]
    BY <1>3, <1>5, <1>6 DEF Transfer
  <2>4. AM!Buy(u, a)
    BY <1>4, <1>5, <1>6, <2>0, <2>1, <2>2, <2>3, SameInvoices, SameLedger DEF AM!Buy
  <2> QED BY <2>4
<1>7. CASE Goto(r, "invoice") /\ UNCHANGED <<balance, acct, tx, paid, ledger>>
  BY <1>7, GoOnStutters DEF InFlight
<1> QED BY <1>6, <1>7 DEF BuyLockSecond

LEMMA InvoiceRefines ==
  ASSUME IInv, NEW r \in Requests, NEW t \in Txs, BuyInvoice(r, t)
  PROVE  AM!Invoice(t)
<1>1. KindOf(r) /\ OfferOf(r) /\ req[r].pc = "invoice" /\ TypeOK
  BY DEF IInv, BuyInvoice
<1> DEFINE b == [buyer |-> req[r].user, acct |-> req[r].acct, amount |-> req[r].price]
<1>2. b \in AM!Bills
  BY <1>1 DEF KindOf, OfferOf, AM!Bills
<1>3. /\ tx'[t].status = "pending" /\ tx'[t].buyer = req[r].user
      /\ tx'[t].acct = req[r].acct /\ tx'[t].amount = req[r].price
      /\ \A x \in Txs : x # t => tx'[x] = tx[x]
  BY <1>1 DEF BuyInvoice, TypeOK
<1>4. billBar' = [billBar EXCEPT ![t] = b]
  BY <1>3 DEF billBar
<1>5. billBar[t] = None
  BY DEF billBar, BuyInvoice
<1>7. Goto(r, "done") /\ paid' = paid /\ req[r].seen = {}
  BY <1>1 DEF BuyInvoice, KindOf, Settlers
<1>8. copiesBar' = copiesBar /\ paidBar' = paidBar
  BY <1>7, GotoCopies
<1>6. UNCHANGED <<balance, ownerBar, offerBar, paidBar, settledBar, copiesBar>>
  BY <1>8, SameAccounts, SameLedger DEF BuyInvoice
<1> HIDE DEF b
<1> QED BY <1>2, <1>4, <1>5, <1>6 DEF AM!Invoice

LEMMA PaidRefines ==
  ASSUME IInv, NEW t \in Txs, GatewayPaid(t)
  PROVE  AM!Pay(t)
<1>1. paidBar' = paidBar \cup {t} /\ copiesBar' = copiesBar
  BY DEF GatewayPaid, paidBar, copiesBar, OwnerApproves
<1> QED BY <1>1, BillStands, SameAccounts, SameInvoices, SameLedger DEF GatewayPaid, AM!Pay

(* What a settlement knows is what the abstract invoice says. *)
LEMMA SettlesBill ==
  ASSUME IInv, NEW r \in Requests, HoldsTx(r), req[r].pc # "lockBuyer"
  PROVE  /\ req[r].tx \in Txs /\ req[r].tx \in paidBar
         /\ tx[req[r].tx].status # "none"
         /\ billBar[req[r].tx] \in AM!Bills
         /\ billBar[req[r].tx].buyer = req[r].user
         /\ billBar[req[r].tx].acct = req[r].acct
         /\ billBar[req[r].tx].amount = tx[req[r].tx].amount
<1>1. req[r].kind \in Settlers /\ SettleOf(r)
  BY DEF HoldsTx, IInv
<1>2. req[r].tx \in paid \/ (req[r].kind = "owner" /\ req[r].verdict = "approved")
  BY <1>1 DEF SettleOf, Settlers
<1>3. req[r].tx \in paidBar
  BY <1>2 DEF paidBar, OwnerApproves
<1> QED BY <1>1, <1>3, SettlesInvoice, BillStands

(* The credit is written over the present balance or over a copy that is   *)
(* out.                                                                    *)
LEMMA CreditRefines ==
  ASSUME IInv, NEW r \in Requests, NEW u \in Users, NEW n, Credit(r, u, n)
  PROVE  AM!Credit(u, n)
<1>1. \/ SeenBalance(r, u) = balance[u]
      \/ <<u, SeenBalance(r, u)>> \in req[r].seen
  BY SeenIsCopy DEF IInv
<1>2. CASE SeenBalance(r, u) = balance[u]
  BY <1>2 DEF Credit, AM!Credit
<1>3. CASE <<u, SeenBalance(r, u)>> \in req[r].seen
  <2>1. <<u, SeenBalance(r, u)>> \in copiesBar
    BY <1>3 DEF copiesBar
  <2> QED BY <2>1 DEF Credit, AM!Credit
<1> QED BY <1>1, <1>2, <1>3

(* A settlement begins. *)
LEMMA SettleBeginRefines ==
  ASSUME IInv, NEW r \in Requests, NEW t \in Txs,
         WebhookBegin(r, t) \/ CheckBegin(r, t) \/ OwnerBegin(r, t)
  PROVE  (\E u \in Users : AM!Note(u)) \/ UNCHANGED AM!vars
<1>1. /\ UNCHANGED <<balance, acct, tx, paid, ledger>> /\ req[r].kind = "none"
      /\ req[r].seen = {} /\ TypeOK
  BY DEF IInv, KindOf, Settlers, WebhookBegin, CheckBegin, OwnerBegin
<1>2. tx[t].status # "none" /\ tx[t].buyer \in Users /\ billBar[t] \in AM!Bills
  <2>1. tx[t].status # "none"
    BY DEF WebhookBegin, CheckBegin, OwnerBegin
  <2> QED BY <2>1, BillStands DEF IInv, BillOf
<1>3. ASSUME NEW rec, req' = [req EXCEPT ![r] = rec]
      PROVE  req'[r] = rec /\ \A q \in Requests : q # r => req'[q] = req[q]
  BY <1>1, <1>3 DEF TypeOK
<1>4. UNCHANGED <<balance, ownerBar, offerBar, billBar, settledBar>>
  BY <1>1, SameAccounts, SameInvoices, SameLedger
<1>5. CASE WebhookBegin(r, t)
  <2> DEFINE v == IF t \in paid THEN "approved" ELSE "rejected"
             rec == [Begun("webhook", t) EXCEPT !.verdict = v]
  <2>1. req' = [req EXCEPT ![r] = rec]
    BY <1>5 DEF WebhookBegin
  <2>2. rec.kind = "webhook" /\ rec.seen = {}
    BY DEF Begun, NoReq
  <2> HIDE DEF rec
  <2>3. req'[r] = rec /\ \A q \in Requests : q # r => req'[q] = req[q]
    BY <1>3, <2>1
  <2>4. copiesBar' = copiesBar /\ paidBar' = paidBar
    BY <1>1, <2>2, <2>3, CopiesMove, OwnerGivesWord
  <2> QED BY <1>1, <2>4, Stutter
<1>6. CASE CheckBegin(r, t)
  <2> DEFINE c == <<tx[t].buyer, balance[tx[t].buyer]>>
             rec == [Begun("check", t) EXCEPT !.seen = {c}]
  <2>1. req' = [req EXCEPT ![r] = rec]
    BY <1>6 DEF CheckBegin
  <2>2. rec.kind = "check" /\ rec.seen = req[r].seen \cup {c}
    BY <1>1 DEF Begun, NoReq
  <2> HIDE DEF rec
  <2>3. req'[r] = rec /\ \A q \in Requests : q # r => req'[q] = req[q]
    BY <1>3, <2>1
  <2>4. copiesBar' = copiesBar \cup {c} /\ paidBar' = paidBar
    BY <1>1, <2>2, <2>3, CopiesMove, OwnerGivesWord
  <2>5. AM!Note(tx[t].buyer)
    BY <1>4, <2>4 DEF AM!Note
  <2> QED BY <1>2, <2>5
<1>7. CASE OwnerBegin(r, t)
  <2> DEFINE c == <<Owner, balance[Owner]>>
  <2>1. PICK v \in {"approved", "rejected"} :
          req' = [req EXCEPT ![r] = [Begun("owner", t) EXCEPT !.verdict = v, !.seen = {c}]]
    BY <1>7 DEF OwnerBegin
  <2> DEFINE rec == [Begun("owner", t) EXCEPT !.verdict = v, !.seen = {c}]
  <2>2. /\ rec.kind = "owner" /\ rec.seen = req[r].seen \cup {c} /\ rec.tx = t
        /\ rec.verdict = v
    BY <1>1 DEF Begun, NoReq
  <2>3. req' = [req EXCEPT ![r] = rec]
    BY <2>1
  <2> HIDE DEF rec
  <2>4. req'[r] = rec /\ \A q \in Requests : q # r => req'[q] = req[q]
    BY <1>3, <2>3
  <2>5. copiesBar' = copiesBar \cup {c} /\ (paidBar' = paidBar \/ paidBar' = paidBar \cup {t})
    BY <1>1, <2>2, <2>4, CopiesMove, OwnerGivesWord
  <2>6. AM!Note(Owner)
    BY <1>2, <1>4, <2>5 DEF AM!Note
  <2> QED BY <2>6, OwnerAssumption
<1> QED BY <1>5, <1>6, <1>7

(* The owner's session reads the invoice's user with the invoice. *)
LEMMA OwnerLockTxRefines ==
  ASSUME IInv, NEW r \in Requests, OwnerLockTx(r)
  PROVE  AM!Next \/ UNCHANGED AM!vars
<1>1. TypeOK /\ KindOf(r) /\ req[r].kind = "owner"
  BY DEF OwnerLockTx, LocksTx, IInv
<1>2. CASE Rollback(r)
  BY <1>2, RollbackForgets DEF AM!Next
<1>3. CASE tx[req[r].tx].status = "pending"
  <2>1. PICK u \in Users : u = req[r].user
    BY <1>1 DEF KindOf
  <2> DEFINE c == <<u, SeenBalance(r, u)>>
             rec == [req[r] EXCEPT !.pc = "lockBuyer", !.seen = req[r].seen \cup {c}]
  <2>2. req' = [req EXCEPT ![r] = rec] /\ UNCHANGED <<balance, acct, tx, paid, ledger>>
    BY <1>3, <2>1 DEF OwnerLockTx
  <2>3. /\ rec.kind = req[r].kind /\ rec.tx = req[r].tx /\ rec.verdict = req[r].verdict
        /\ rec.seen = req[r].seen \cup {c}
    BY <1>1 DEF TypeOK, ReqType
  <2> HIDE DEF rec
  <2>4. req'[r] = rec /\ \A q \in Requests : q # r => req'[q] = req[q]
    BY <1>1, <2>2 DEF TypeOK
  <2>5. paidBar' = paidBar
    BY <2>2, <2>3, <2>4, OwnerKeepsWord
  <2>6. CASE SeenBalance(r, u) = balance[u]
    <3>1. copiesBar' = copiesBar \cup {<<u, balance[u]>>}
      BY <2>3, <2>4, <2>6, CopiesMove
    <3>2. AM!Note(u)
      BY <2>2, <2>5, <3>1, SameAccounts, SameInvoices, SameLedger DEF AM!Note
    <3> QED BY <3>2 DEF AM!Next
  <2>7. CASE c \in req[r].seen
    <3>1. req'[r].seen = req[r].seen
      BY <2>3, <2>4, <2>7
    <3>2. copiesBar' = copiesBar
      BY <2>4, <3>1, CopiesMove
    <3> QED BY <2>2, <2>5, <3>2, Stutter
  <2> QED BY <1>1, <2>6, <2>7, SeenIsCopy
<1> QED BY <1>2, <1>3 DEF OwnerLockTx

LEMMA FallbackRefines ==
  ASSUME IInv, NEW r \in Requests, SettleLockAcct(r)
  PROVE  (\E t \in Txs : AM!Settle(t)) \/ UNCHANGED AM!vars
<1>1. HoldsTx(r) /\ req[r].pc # "lockBuyer" /\ req[r].kind \in Settlers
  BY DEF SettleLockAcct, HoldsTx
<1>2. PICK t \in Txs : t = req[r].tx
  BY <1>1, SettlesBill
<1>3. /\ t \in paidBar /\ tx[t].status # "none" /\ billBar[t] \in AM!Bills
      /\ billBar[t].buyer = req[r].user /\ billBar[t].acct = req[r].acct
      /\ billBar[t].amount = tx[t].amount
  BY <1>1, <1>2, SettlesBill
<1>4. req[r].acct \in Accounts /\ req[r].user \in Users
  BY <1>1, SettlesInvoice
<1>5. CASE /\ ~acct[req[r].acct].sale /\ FallbackCredit(r) /\ Goto(r, "done")
           /\ UNCHANGED <<acct, paid>>
  <2>1. offerBar[billBar[t].acct] = None
    BY <1>3, <1>4, <1>5, NoOffer
  <2>2. AM!Credit(billBar[t].buyer, billBar[t].amount)
    BY <1>2, <1>3, <1>4, <1>5, CreditRefines DEF FallbackCredit
  <2>3. Approve(t, "topup_fallback") /\ "topup_fallback" \in Categories
    BY <1>2, <1>5 DEF FallbackCredit, Categories
  <2>4. billBar' = billBar /\ settledBar' = [settledBar EXCEPT ![t] = @ + 1]
    BY <1>3, <2>3, ApproveSettles
  <2>5. copiesBar' \in SUBSET copiesBar /\ paidBar' = paidBar
    BY <1>5, GotoCopies
  <2>6. AM!Settle(t)
    BY <1>3, <1>5, <2>1, <2>2, <2>4, <2>5, SameAccounts DEF AM!Settle
  <2> QED BY <2>6
<1> DEFINE a == req[r].acct
           rec == [req[r] EXCEPT !.pc = "lockSeller", !.seller = acct[a].seller,
                                 !.sell = acct[a].sell]
<1>6. CASE req' = [req EXCEPT ![r] = rec] /\ UNCHANGED <<balance, acct, tx, paid, ledger>>
  <2>1. TypeOK
    BY DEF IInv
  <2>2. /\ rec.kind = req[r].kind /\ rec.tx = req[r].tx /\ rec.verdict = req[r].verdict
        /\ rec.seen = req[r].seen
    BY <2>1 DEF TypeOK, ReqType
  <2> HIDE DEF rec
  <2>3. req'[r] = rec /\ \A q \in Requests : q # r => req'[q] = req[q]
    BY <1>6, <2>1 DEF TypeOK
  <2>4. copiesBar' = copiesBar /\ paidBar' = paidBar
    BY <1>6, <2>2, <2>3, CopiesMove, OwnerKeepsWord
  <2> QED BY <1>6, <2>4, Stutter
<1> QED BY <1>5, <1>6 DEF SettleLockAcct

LEMMA SettleRefines ==
  ASSUME IInv, NEW r \in Requests, SettleLockSeller(r)
  PROVE  \E t \in Txs : AM!Settle(t)
<1>1. HoldsTx(r) /\ HoldsAcct(r) /\ req[r].pc # "lockBuyer"
  BY DEF IInv, KindOf, SettleLockSeller, HoldsAcct, HoldsTx
<1>2. PICK t \in Txs : t = req[r].tx
  BY <1>1, SettlesBill
<1>3. /\ t \in paidBar /\ tx[t].status # "none" /\ billBar[t] \in AM!Bills
      /\ billBar[t].buyer = req[r].user /\ billBar[t].acct = req[r].acct
  BY <1>1, <1>2, SettlesBill
<1>4. /\ req[r].acct \in Accounts /\ req[r].user \in Users /\ acct[req[r].acct].sale
      /\ acct[req[r].acct].seller = req[r].seller /\ acct[req[r].acct].sell = req[r].sell
  BY <1>1, HeldListing
<1> DEFINE o == offerBar[req[r].acct]
<1>5. o \in AM!Offers /\ o.seller = req[r].seller /\ o.gets = req[r].sell
  BY <1>4, OfferStands
<1>6. AM!Credit(o.seller, o.gets)
  BY <1>1, <1>5, HeldListing, CreditRefines DEF SettleLockSeller
<1>7. AM!HandOver(req[r].acct, req[r].user)
  BY <1>4, HandOverRefines DEF SettleLockSeller
<1>8. Approve(t, "marketplace_sell") /\ "marketplace_sell" \in Categories
  BY <1>2 DEF SettleLockSeller, Categories
<1>9. billBar' = billBar /\ settledBar' = [settledBar EXCEPT ![t] = @ + 1]
  BY <1>3, <1>8, ApproveSettles
<1>10. copiesBar' \in SUBSET copiesBar /\ paidBar' = paidBar
  BY GotoCopies DEF SettleLockSeller
<1>11. AM!Settle(t)
  BY <1>3, <1>5, <1>6, <1>7, <1>9, <1>10 DEF AM!Settle, SettleLockSeller
<1> QED BY <1>11

LEMMA TransferRefines ==
  ASSUME IInv, NEW r \in Requests, TransferCommit(r)
  PROVE  \E a \in Accounts, u \in Users : AM!Reassign(a, u)
<1>1. KindOf(r) /\ req[r].pc = "transfer" /\ TypeOK
  BY DEF IInv, TransferCommit
<1>2. PICK a \in Accounts, u \in Users : a = req[r].acct /\ u = req[r].user
  BY <1>1 DEF KindOf
<1>3. acct' = [acct EXCEPT ![a] = [acct[a] EXCEPT !.owner = u]]
  BY <1>2 DEF TransferCommit
<1>4. acct[a] \in AcctType /\ acct \in [Accounts -> AcctType]
  BY <1>1 DEF TypeOK
<1>5. /\ acct'[a].owner = u /\ acct'[a].sale = acct[a].sale
      /\ acct'[a].seller = acct[a].seller /\ acct'[a].sell = acct[a].sell
      /\ acct'[a].buy = acct[a].buy
      /\ \A b \in Accounts : b # a => acct'[b] = acct[b]
  BY <1>3, <1>4 DEF AcctType
<1>6. ownerBar' = [ownerBar EXCEPT ![a] = u]
  BY <1>5 DEF ownerBar
<1>7. offerBar' = offerBar
  BY <1>5 DEF offerBar, Larger
<1>8. copiesBar' = copiesBar /\ paidBar' = paidBar
  BY <1>1, GotoCopies DEF TransferCommit, KindOf, Settlers
<1>9. AM!Reassign(a, u)
  BY <1>6, <1>7, <1>8, SameInvoices, SameLedger DEF TransferCommit, AM!Reassign
<1> QED BY <1>9

-----------------------------------------------------------------------------

LEMMA RequestRefines ==
  ASSUME IInv, NEW r \in Requests, Begin(r) \/ Step(r) \/ Abort(r)
  PROVE  AM!Next \/ UNCHANGED AM!vars
<1>1. CASE Begin(r)
  <2>1. CASE \E t \in Txs : WebhookBegin(r, t) \/ CheckBegin(r, t) \/ OwnerBegin(r, t)
    BY <2>1, SettleBeginRefines DEF AM!Next
  <2>2. CASE \/ \E u \in Users, a \in Accounts : BuyBegin(r, u, a)
             \/ \E a \in Accounts, u \in Targets : TransferBegin(r, a, u)
    <3>1. PICK rec : /\ req' = [req EXCEPT ![r] = rec] /\ rec.seen = {} /\ rec.kind # "owner"
                     /\ req[r].pc = "idle"
                     /\ UNCHANGED <<balance, acct, tx, paid, ledger>>
      <4>1. CASE \E u \in Users, a \in Accounts : BuyBegin(r, u, a)
        <5>1. PICK u \in Users, a \in Accounts : BuyBegin(r, u, a)
          BY <4>1
        <5> DEFINE new == [NoReq EXCEPT !.kind = "buy", !.user = u, !.acct = a, !.pc = "validate"]
        <5>2. new.seen = {} /\ new.kind # "owner"
          BY DEF NoReq
        <5>3. /\ req' = [req EXCEPT ![r] = new] /\ req[r].pc = "idle"
              /\ UNCHANGED <<balance, acct, tx, paid, ledger>>
          BY <5>1 DEF BuyBegin
        <5> QED BY <5>2, <5>3
      <4>2. CASE \E a \in Accounts, u \in Targets : TransferBegin(r, a, u)
        <5>1. PICK a \in Accounts, u \in Targets : TransferBegin(r, a, u)
          BY <4>2
        <5> DEFINE new == [NoReq EXCEPT !.kind = "transfer", !.user = u, !.acct = a, !.pc = "transfer"]
        <5>2. new.seen = {} /\ new.kind # "owner"
          BY DEF NoReq
        <5>3. /\ req' = [req EXCEPT ![r] = new] /\ req[r].pc = "idle"
              /\ UNCHANGED <<balance, acct, tx, paid, ledger>>
          BY <5>1 DEF TransferBegin
        <5> QED BY <5>2, <5>3
      <4> QED BY <2>2, <4>1, <4>2
    <3>2. req[r].kind = "none" /\ req[r].seen = {} /\ TypeOK
      BY <3>1 DEF IInv, KindOf, Settlers
    <3>3. req'[r] = rec /\ \A q \in Requests : q # r => req'[q] = req[q]
      BY <3>1, <3>2 DEF TypeOK
    <3>4. copiesBar' = copiesBar /\ paidBar' = paidBar
      BY <3>1, <3>2, <3>3, CopiesMove, OwnerGivesWord
    <3> QED BY <3>1, <3>4, Stutter
  <2> QED BY <1>1, <2>1, <2>2 DEF Begin
<1>8. CASE BuyLockAcct(r)
  <2> DEFINE a == acct[req[r].acct]
             rec == [req[r] EXCEPT !.pc = "lockFirst", !.seller = a.seller,
                                   !.sell = a.sell, !.price = Larger(a.buy, a.sell)]
  <2>1. CASE Rollback(r)
    BY <2>1, RollbackForgets DEF AM!Next
  <2>2. CASE req' = [req EXCEPT ![r] = rec] /\ UNCHANGED <<balance, acct, tx, paid, ledger>>
    <3>1. TypeOK
      BY DEF IInv
    <3>2. /\ rec.kind = req[r].kind /\ rec.tx = req[r].tx /\ rec.verdict = req[r].verdict
          /\ rec.seen = req[r].seen
      BY <3>1 DEF TypeOK, ReqType
    <3> HIDE DEF rec
    <3>3. req'[r] = rec /\ \A q \in Requests : q # r => req'[q] = req[q]
      BY <2>2, <3>1 DEF TypeOK
    <3>4. copiesBar' = copiesBar /\ paidBar' = paidBar
      BY <2>2, <3>2, <3>3, CopiesMove, OwnerKeepsWord
    <3> QED BY <2>2, <3>4, Stutter
  <2> QED BY <1>8, <2>1, <2>2 DEF BuyLockAcct
<1>9. CASE BuyLockFirst(r)
  BY <1>9, GoOnStutters DEF BuyLockFirst, InFlight
<1>10. CASE DeadlockVictim(r) \/ Abort(r)
  BY <1>10, RollbackForgets DEF DeadlockVictim, Abort, AM!Next
<1>11. CASE WebhookLockTx(r) \/ CheckLockTx(r) \/ SettleLockBuyer(r)
  <2>1. req[r].kind \in Settlers
    BY <1>11 DEF WebhookLockTx, CheckLockTx, SettleLockBuyer, LocksTx, IInv, KindOf, Settlers
  <2>2. \/ Rollback(r) \/ Reject(r)
        \/ \E pc \in {"lockBuyer", "lockAcct"} :
             Goto(r, pc) /\ UNCHANGED <<balance, acct, tx, paid, ledger>>
    BY <1>11 DEF WebhookLockTx, CheckLockTx, SettleLockBuyer
  <2>3. "lockBuyer" \in InFlight /\ "lockAcct" \in InFlight
    BY DEF InFlight
  <2> QED BY <2>1, <2>2, <2>3, RollbackForgets, RejectForgets, GoOnStutters DEF AM!Next
<1>12. CASE OwnerLockTx(r)
  BY <1>12, OwnerLockTxRefines
<1>2. CASE BuyValidate(r)
  <2>1. req[r].acct \in Accounts /\ req[r].seen = {}
    BY <1>2 DEF IInv, KindOf, BuyValidate, Settlers
  <2>2. CASE Goto(r, "lockAcct") /\ UNCHANGED <<balance, acct, tx, paid, ledger>>
    BY <2>2, GoOnStutters DEF InFlight
  <2>3. CASE Rollback(r)
    BY <2>3, RollbackForgets DEF AM!Next
  <2>4. CASE /\ acct[req[r].acct].sale /\ Goto(r, "done")
             /\ acct' = [acct EXCEPT ![req[r].acct] = Unlisted(req[r].acct)]
             /\ UNCHANGED <<balance, tx, paid, ledger>>
    <3>1. copiesBar' = copiesBar /\ paidBar' = paidBar
      BY <2>1, <2>4, GotoCopies
    <3> QED BY <2>1, <2>4, <3>1, CancelRefines DEF AM!Next
  <2> QED BY <1>2, <2>2, <2>3, <2>4 DEF BuyValidate
<1>3. CASE BuyLockSecond(r)
  BY <1>3, BuyRefines DEF AM!Next
<1>4. CASE \E t \in Txs : BuyInvoice(r, t)
  BY <1>4, InvoiceRefines DEF AM!Next
<1>5. CASE SettleLockAcct(r)
  BY <1>5, FallbackRefines DEF AM!Next
<1>6. CASE SettleLockSeller(r)
  BY <1>6, SettleRefines DEF AM!Next
<1>7. CASE TransferCommit(r)
  BY <1>7, TransferRefines DEF AM!Next
<1> QED BY <1>1, <1>2, <1>3, <1>4, <1>5, <1>6, <1>7, <1>8, <1>9, <1>10, <1>11, <1>12 DEF Step

LEMMA NextRefines == IInv /\ IInv' /\ [Next]_vars => [AM!Next]_(AM!vars)
<1> SUFFICES ASSUME IInv, IInv', [Next]_vars PROVE AM!Next \/ UNCHANGED AM!vars
  OBVIOUS
<1>1. CASE \E u \in Users, S \in SUBSET Accounts : SellAccounts(u, S)
  BY <1>1, SellRefines DEF AM!Next
<1>2. CASE \E a \in Accounts : \/ CancelInvalidListing(a)
                               \/ \E u \in Users : CancelSellAccount(u, a)
  <2>1. PICK a \in Accounts : \/ CancelInvalidListing(a)
                              \/ \E u \in Users : CancelSellAccount(u, a)
    BY <1>2
  <2>2. AM!Cancel(a)
    BY <2>1, CancelRefines, SameRequests DEF CancelInvalidListing, CancelSellAccount
  <2> QED BY <2>2 DEF AM!Next
<1>3. CASE \E t \in Txs : GatewayPaid(t)
  BY <1>3, PaidRefines DEF AM!Next
<1>4. CASE \E r \in Requests : Begin(r) \/ Step(r) \/ Abort(r)
  BY <1>4, RequestRefines
<1>5. CASE UNCHANGED vars
  BY <1>5, Stutter, SameRequests DEF vars
<1> QED BY <1>1, <1>2, <1>3, <1>4, <1>5 DEF Next

(* The marketplace implements AccountMarket: the row locks make every      *)
(* purchase and every settlement a single step, in which the buyer pays    *)
(* and the seller gets what the offer says at that very moment             *)
(* (buy_account, fulfill_wallet_transaction).                              *)
THEOREM MarketIsAtomic == Spec => AtomicMarket
<1>1. Spec => [][AM!Next]_(AM!vars)
  BY Inductive, NextRefines, PTL DEF Spec
<1>2. Spec => AM!Init
  BY InitRefines DEF Spec
<1> QED BY <1>1, <1>2 DEF AtomicMarket, AM!Spec
=============================================================================
