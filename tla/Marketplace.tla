---------------------------- MODULE Marketplace ----------------------------
(***************************************************************************)
(* The account marketplace: listing, cancelling, the session check, the    *)
(* purchase from the balance, the purchase by invoice, the settlement of   *)
(* that invoice by a payment webhook, by the status check of the buyer's   *)
(* browser or by the owner, and the owner's transfer of accounts, all      *)
(* concurrent.                                                             *)
(*                                                                         *)
(* A purchase and a settlement take several row locks, one SELECT ... FOR  *)
(* UPDATE at a time, and keep them to the end of the database transaction. *)
(* Purchases and webhooks load the users for the first time when they lock *)
(* them (buy_account's API expunges current_user), so their balances are   *)
(* current.  A status check has loaded its user, and the owner himself and *)
(* the invoice's user, before the lock: it writes that copy (`seen').  The *)
(* webhook re-checks the status of its invoice in the copy it read before  *)
(* the lock, which is always pending; the other two read it with the lock. *)
(* Handlers that lock one row only, in the statement they start with, are  *)
(* single steps.                                                           *)
(***************************************************************************)
EXTENDS Integers

CONSTANTS
  Users,      \* rows of "user"; the numbers order them as their UUIDs do
  Accounts,   \* rows of telegram_accounts
  Txs,        \* identifiers of wallet_transactions of type marketplace
  Requests,   \* HTTP requests; each is used for one request only
  Prices,     \* prices the rules can give
  Wealth,     \* balances at the start
  Targets,    \* users the owner may transfer accounts to
  Owner,      \* the owner of the platform, a user as well
  None        \* the absent user, account or transaction

ASSUME UsersAssumption == Users \subseteq Nat
ASSUME PricesAssumption == Prices \subseteq Nat \ {0}
ASSUME WealthAssumption == Wealth \subseteq Nat
ASSUME TargetsAssumption == Targets \subseteq Users
ASSUME OwnerAssumption == Owner \in Users
ASSUME NoneAssumption == None \notin Users \cup Accounts \cup Txs

VARIABLES
  balance,  \* user.balance
  acct,     \* telegram_accounts
  tx,       \* wallet_transactions
  paid,     \* invoices the gateway has seen the payment of
  ledger,   \* wallet_ledgers: rows per invoice and category
  req       \* the requests

vars == <<balance, acct, tx, paid, ledger, req>>

Categories == {"marketplace_sell", "topup_fallback"}
Settlers == {"webhook", "check", "owner"}
InFlight == {"validate", "lockTx", "lockBuyer", "lockAcct", "lockFirst",
             "lockSecond", "lockSeller", "invoice", "transfer"}

NoTx == [status |-> "none", buyer |-> None, acct |-> None, amount |-> 0]
NoReq == [kind |-> "none", pc |-> "idle", user |-> None, acct |-> None,
          tx |-> None, seller |-> None, sell |-> 0, price |-> 0,
          verdict |-> "none", seen |-> {}]

AcctType == [owner : Users, sale : BOOLEAN, seller : Users \cup {None},
             sell : Nat, buy : Nat]
TxType == [status : {"none", "pending", "approved", "rejected"}, buyer : Users \cup {None},
           acct : Accounts \cup {None}, amount : Nat]
ReqType == [kind : Settlers \cup {"none", "buy", "transfer"},
            pc : InFlight \cup {"idle", "done"},
            user : Users \cup {None}, acct : Accounts \cup {None},
            tx : Txs \cup {None}, seller : Users \cup {None},
            sell : Nat, price : Nat,
            verdict : {"none", "approved", "rejected"},
            seen : SUBSET (Users \X Nat)]   \* balances its session has loaded

TypeOK ==
  /\ balance \in [Users -> Nat]
  /\ acct \in [Accounts -> AcctType]
  /\ tx \in [Txs -> TxType]
  /\ paid \subseteq Txs
  /\ ledger \in [Txs -> [Categories -> Nat]]
  /\ req \in [Requests -> ReqType]

Init ==
  /\ balance \in [Users -> Wealth]
  /\ acct \in [Accounts -> {[owner |-> u, sale |-> FALSE, seller |-> None,
                             sell |-> 0, buy |-> 0] : u \in Users}]
  /\ tx = [t \in Txs |-> NoTx]
  /\ paid = {}
  /\ ledger = [t \in Txs |-> [c \in Categories |-> 0]]
  /\ req = [r \in Requests |-> NoReq]

Larger(m, n) == IF m >= n THEN m ELSE n

-----------------------------------------------------------------------------
(* Row locks *)

UserRow(u) == <<"user", u>>
AcctRow(a) == <<"acct", a>>
TxRow(t) == <<"tx", t>>

(* Mutant: the buyer is always locked first. *)
BuyerFirst(r) == req[r].user
(* buy_account locks its two users in the order of their identifiers. *)
First(r) == IF req[r].user < req[r].seller THEN req[r].user ELSE req[r].seller
Second(r) == IF First(r) = req[r].user THEN req[r].seller ELSE req[r].user

Locked(r) ==
  CASE req[r].pc = "lockFirst"  -> {AcctRow(req[r].acct)}
    [] req[r].pc = "lockSecond" -> {AcctRow(req[r].acct), UserRow(First(r))}
    [] req[r].pc = "lockBuyer"  -> {TxRow(req[r].tx)}
    [] req[r].pc = "lockAcct" /\ req[r].kind \in Settlers ->
         {TxRow(req[r].tx), UserRow(req[r].user)}
    [] req[r].pc = "lockSeller" ->
         {TxRow(req[r].tx), UserRow(req[r].user), AcctRow(req[r].acct)}
    [] OTHER -> {}

(* Mutant: the account is read without FOR UPDATE. *)
HeldNoAcct(r) == Locked(r) \ {AcctRow(req[r].acct)}

(* Mutant: a buyer refused as the seller leaves without a rollback. *)
HeldAfterRefusal(r) ==
  IF req[r].pc = "done" /\ req[r].kind = "buy" /\ req[r].user = acct[req[r].acct].seller
    THEN {AcctRow(req[r].acct)} ELSE Locked(r)

(* The rows request r has locked. *)
Held(r) == Locked(r)

(* The row whose lock request r asks for next. *)
Wanted(r) ==
  CASE req[r].pc = "lockTx"     -> {TxRow(req[r].tx)}
    [] req[r].pc = "lockBuyer"  -> {UserRow(req[r].user)}
    [] req[r].pc = "lockAcct"   -> {AcctRow(req[r].acct)}
    [] req[r].pc = "lockFirst"  -> {UserRow(First(r))}
    [] req[r].pc = "lockSecond" -> {UserRow(Second(r))}
    [] req[r].pc = "lockSeller" -> {UserRow(req[r].seller)}
    [] OTHER -> {}

FreeFor(r, row) == \A q \in Requests \ {r} : row \notin Held(q)
Free(row) == \A q \in Requests : row \notin Held(q)

WaitsFor(r, q) == q # r /\ Wanted(r) \cap Held(q) # {}

(* A set of requests that wait for each other in a ring. *)
Cycle(S) == /\ S # {}
            /\ \A r \in S : /\ \E q \in S : WaitsFor(r, q)
                            /\ \E q \in S : WaitsFor(q, r)

-----------------------------------------------------------------------------
(* Listing *)

Unlisted(a) == [acct[a] EXCEPT !.sale = FALSE, !.seller = None, !.sell = 0, !.buy = 0]

(* _effective_buy_price *)
EffectiveBuyPrice(sell, buy) == Larger(buy, sell)

(* sell_accounts: the whole batch is listed, or none of it.  The prices   *)
(* come from the rules in force at that moment.                           *)
SellAccounts(u, S) ==
  /\ S # {}
  /\ \A a \in S : acct[a].owner = u /\ ~acct[a].sale /\ Free(AcctRow(a))
  /\ \E p \in [S -> Prices \X Prices] :
       acct' = [a \in Accounts |-> IF a \notin S THEN acct[a] ELSE
                  [owner |-> u, sale |-> TRUE, seller |-> u, sell |-> p[a][1],
                   buy |-> EffectiveBuyPrice(p[a][1], p[a][2])]]
  /\ UNCHANGED <<balance, tx, paid, ledger, req>>

(* cancel_sell_account *)
CancelSellAccount(u, a) ==
  /\ acct[a].sale /\ Free(AcctRow(a))
  /\ u \in {acct[a].seller, acct[a].owner}
  /\ acct' = [acct EXCEPT ![a] = Unlisted(a)]
  /\ UNCHANGED <<balance, tx, paid, ledger, req>>

(* The health loop finds the session of a listing expired. *)
CancelInvalidListing(a) ==
  /\ acct[a].sale /\ Free(AcctRow(a))
  /\ acct' = [acct EXCEPT ![a] = Unlisted(a)]
  /\ UNCHANGED <<balance, tx, paid, ledger, req>>

-----------------------------------------------------------------------------

(* The request goes on; a session that ends forgets what it has loaded.    *)
Goto(r, pc) ==
  req' = [req EXCEPT ![r].pc = pc, ![r].seen = IF pc = "done" THEN {} ELSE @]

(* The request leaves by rollback: an error answer, an exception, a lost  *)
(* connection or a killed process.                                        *)
Rollback(r) ==
  /\ Goto(r, "done")
  /\ UNCHANGED <<balance, acct, tx, paid, ledger>>

Abort(r) == req[r].pc \in InFlight /\ Rollback(r)

(* PostgreSQL ends one transaction of a ring of waiters. *)
DeadlockVictim(r) ==
  /\ \E S \in SUBSET Requests : r \in S /\ Cycle(S)
  /\ Rollback(r)

(* record_ledger_entry *)
Transfer(from, price, to, gain) ==
  balance' = [balance EXCEPT ![from] = @ - price, ![to] = @ + gain]

(* Mutant: the sold account keeps the seller of its last listing. *)
HandOverKeepingSeller(a, buyer) ==
  acct' = [acct EXCEPT ![a] = [Unlisted(a) EXCEPT !.owner = buyer, !.seller = acct[a].seller]]

(* The sold account gets its new owner and leaves the market. *)
HandOver(a, buyer) == acct' = [acct EXCEPT ![a] = [Unlisted(a) EXCEPT !.owner = buyer]]

-----------------------------------------------------------------------------
(* POST /marketplace/buy/{account_id} *)

(* validate_listing_session reads the listing, then gives up its read     *)
(* transaction for the network call.                                      *)
BuyBegin(r, u, a) ==
  /\ req[r].pc = "idle"
  /\ acct[a].sale
  /\ req' = [req EXCEPT ![r] = [NoReq EXCEPT !.kind = "buy", !.user = u,
                                             !.acct = a, !.pc = "validate"]]
  /\ UNCHANGED <<balance, acct, tx, paid, ledger>>

(* Telegram's answer: usable, unknown (503), or invalid, in which case    *)
(* the listing is cancelled if it is still there.                         *)
BuyValidate(r) ==
  /\ req[r].pc = "validate"
  /\ \/ /\ Goto(r, "lockAcct")
        /\ UNCHANGED <<balance, acct, tx, paid, ledger>>
     \/ Rollback(r)
     \/ /\ acct[req[r].acct].sale /\ Free(AcctRow(req[r].acct))
        /\ acct' = [acct EXCEPT ![req[r].acct] = Unlisted(req[r].acct)]
        /\ Goto(r, "done")
        /\ UNCHANGED <<balance, tx, paid, ledger>>

(* The listing is locked and its prices are read; a listing that is gone, *)
(* or the buyer's own, ends the request.                                  *)
BuyLockAcct(r) ==
  LET a == acct[req[r].acct] IN
  /\ req[r].pc = "lockAcct" /\ req[r].kind = "buy"
  /\ IF ~a.sale THEN Rollback(r)
     ELSE /\ FreeFor(r, AcctRow(req[r].acct))
          /\ IF a.seller = req[r].user THEN Rollback(r)
             ELSE /\ req' = [req EXCEPT ![r] =
                       [@ EXCEPT !.pc = "lockFirst", !.seller = a.seller,
                                 !.sell = a.sell, !.price = Larger(a.buy, a.sell)]]
                  /\ UNCHANGED <<balance, acct, tx, paid, ledger>>

BuyLockFirst(r) ==
  /\ req[r].pc = "lockFirst"
  /\ FreeFor(r, UserRow(First(r)))
  /\ Goto(r, "lockSecond")
  /\ UNCHANGED <<balance, acct, tx, paid, ledger>>

(* Mutant: the balance is compared with what the seller gets. *)
AffordsSellPrice(r) == balance[req[r].user] >= req[r].sell

Affords(r) == balance[req[r].user] >= req[r].price

(* Both users are locked: the buyer pays from the balance, or asked for   *)
(* another way to pay, or cannot pay, and gets an invoice after all locks *)
(* are released.                                                          *)
BuyLockSecond(r) ==
  /\ req[r].pc = "lockSecond"
  /\ FreeFor(r, UserRow(Second(r)))
  /\ \/ /\ Affords(r)
        /\ Transfer(req[r].user, req[r].price, req[r].seller, req[r].sell)
        /\ HandOver(req[r].acct, req[r].user)
        /\ Goto(r, "done")
        /\ UNCHANGED <<tx, paid, ledger>>
     \/ /\ Goto(r, "invoice")
        /\ UNCHANGED <<balance, acct, tx, paid, ledger>>

(* The gateway has answered and the invoice is inserted; the listing is   *)
(* not reserved.                                                          *)
BuyInvoice(r, t) ==
  /\ req[r].pc = "invoice"
  /\ tx[t].status = "none"
  /\ tx' = [tx EXCEPT ![t] = [status |-> "pending", buyer |-> req[r].user,
                              acct |-> req[r].acct, amount |-> req[r].price]]
  /\ Goto(r, "done")
  /\ UNCHANGED <<balance, acct, paid, ledger>>

-----------------------------------------------------------------------------
(* Payment of the invoice and the webhook that settles it. *)

GatewayPaid(t) ==
  /\ tx[t].status # "none"
  /\ paid' = paid \cup {t}
  /\ t \notin paid
  /\ UNCHANGED <<balance, acct, tx, ledger, req>>

(* user.balance as the session sees it after the locking SELECT: the copy *)
(* it has loaded before, if it has.                                       *)
SeenBalance(r, u) ==
  LET copies == {p \in req[r].seen : p[1] = u}
  IN  IF copies = {} THEN balance[u] ELSE (CHOOSE p \in copies : TRUE)[2]

Begun(kind, t) == [NoReq EXCEPT !.kind = kind, !.tx = t, !.user = tx[t].buyer,
                                !.acct = tx[t].acct, !.pc = "lockTx"]

(* The webhook's unlocked read; only a pending invoice goes on. *)
WebhookBegin(r, t) ==
  /\ req[r].pc = "idle"
  /\ tx[t].status = "pending"
  /\ req' = [req EXCEPT ![r] = [Begun("webhook", t) EXCEPT
                                   !.verdict = IF t \in paid THEN "approved" ELSE "rejected"]]
  /\ UNCHANGED <<balance, acct, tx, paid, ledger>>

(* check_topup_status: get_current_user has loaded the buyer. *)
CheckBegin(r, t) ==
  /\ req[r].pc = "idle"
  /\ tx[t].status # "none"
  /\ req' = [req EXCEPT ![r] = [Begun("check", t) EXCEPT
                                   !.seen = {<<tx[t].buyer, balance[tx[t].buyer]>>}]]
  /\ UNCHANGED <<balance, acct, tx, paid, ledger>>

(* admin_update_transaction_status: get_current_user has loaded the owner. *)
OwnerBegin(r, t) ==
  /\ req[r].pc = "idle"
  /\ tx[t].status # "none"
  /\ \E v \in {"approved", "rejected"} :
       req' = [req EXCEPT ![r] = [Begun("owner", t) EXCEPT
                                    !.verdict = v, !.seen = {<<Owner, balance[Owner]>>}]]
  /\ UNCHANGED <<balance, acct, tx, paid, ledger>>

(* The invoice is rejected and the request is over. *)
Reject(r) ==
  /\ tx' = [tx EXCEPT ![req[r].tx].status = "rejected"]
  /\ Goto(r, "done")
  /\ UNCHANGED <<balance, acct, paid, ledger>>

LocksTx(r, kind) == /\ req[r].pc = "lockTx" /\ req[r].kind = kind
                    /\ FreeFor(r, TxRow(req[r].tx))

(* The payload says PAID or EXPIRED; the copy says pending. *)
WebhookLockTx(r) ==
  /\ LocksTx(r, "webhook")
  /\ IF req[r].verdict = "rejected" THEN Reject(r)
     ELSE /\ Goto(r, "lockBuyer")
          /\ UNCHANGED <<balance, acct, tx, paid, ledger>>

(* Mutant: the status check does not look at the locked row's status. *)
CheckLockTxAny(r) ==
  /\ LocksTx(r, "check")
  /\ IF req[r].tx \in paid
       THEN Goto(r, "lockBuyer") /\ UNCHANGED <<balance, acct, tx, paid, ledger>>
       ELSE Rollback(r)

(* The gateway or the chain is asked with the row locked: paid, expired,   *)
(* or no news.                                                            *)
CheckLockTx(r) ==
  /\ LocksTx(r, "check")
  /\ \/ Rollback(r)
     \/ /\ tx[req[r].tx].status = "pending" /\ req[r].tx \notin paid
        /\ Reject(r)
     \/ /\ tx[req[r].tx].status = "pending" /\ req[r].tx \in paid
        /\ Goto(r, "lockBuyer")
        /\ UNCHANGED <<balance, acct, tx, paid, ledger>>

(* selectinload reads the invoice's user with the locked invoice. *)
OwnerLockTx(r) ==
  /\ LocksTx(r, "owner")
  /\ IF tx[req[r].tx].status # "pending" THEN Rollback(r)
     ELSE /\ req' = [req EXCEPT ![r] = [@ EXCEPT
                 !.pc = "lockBuyer",
                 !.seen = req[r].seen \cup {<<req[r].user, SeenBalance(r, req[r].user)>>}]]
          /\ UNCHANGED <<balance, acct, tx, paid, ledger>>

SettleLockBuyer(r) ==
  /\ req[r].pc = "lockBuyer"
  /\ FreeFor(r, UserRow(req[r].user))
  /\ IF req[r].verdict = "rejected" THEN Reject(r)
     ELSE /\ Goto(r, "lockAcct")
          /\ UNCHANGED <<balance, acct, tx, paid, ledger>>

(* tx.status = "approved" and the ledger row of the credit. *)
Approve(t, category) ==
  /\ tx' = [tx EXCEPT ![t].status = "approved"]
  /\ ledger' = [ledger EXCEPT ![t][category] = @ + 1]

(* record_ledger_entry: the session's copy of the balance is written. *)
Credit(r, u, n) == balance' = [balance EXCEPT ![u] = SeenBalance(r, u) + n]

(* The account is gone: its price goes to the buyer's balance. *)
FallbackCredit(r) ==
  /\ Credit(r, req[r].user, tx[req[r].tx].amount)
  /\ Approve(req[r].tx, "topup_fallback")

(* fulfill_wallet_transaction, marketplace branch: the account is locked  *)
(* if it is still listed, by whomever and at whatever price.              *)
SettleLockAcct(r) ==
  LET a == req[r].acct IN
  /\ req[r].pc = "lockAcct" /\ req[r].kind \in Settlers
  /\ IF acct[a].sale
       THEN /\ FreeFor(r, AcctRow(a))
            /\ req' = [req EXCEPT ![r] = [@ EXCEPT !.pc = "lockSeller",
                          !.seller = acct[a].seller, !.sell = acct[a].sell]]
            /\ UNCHANGED <<balance, acct, tx, paid, ledger>>
       ELSE /\ FallbackCredit(r)
            /\ Goto(r, "done")
            /\ UNCHANGED <<acct, paid>>

SettleLockSeller(r) ==
  /\ req[r].pc = "lockSeller"
  /\ FreeFor(r, UserRow(req[r].seller))
  /\ Credit(r, req[r].seller, req[r].sell)
  /\ HandOver(req[r].acct, req[r].user)
  /\ Approve(req[r].tx, "marketplace_sell")
  /\ Goto(r, "done")
  /\ UNCHANGED paid

-----------------------------------------------------------------------------
(* transfer_accounts: the for_sale check is made on an unlocked read; the *)
(* UPDATE of user_id comes after the clean-up of jobs and clients.        *)

TransferBegin(r, a, u) ==
  /\ req[r].pc = "idle"
  /\ acct[a].owner # u /\ ~acct[a].sale
  /\ req' = [req EXCEPT ![r] = [NoReq EXCEPT !.kind = "transfer", !.user = u,
                                             !.acct = a, !.pc = "transfer"]]
  /\ UNCHANGED <<balance, acct, tx, paid, ledger>>

TransferCommit(r) ==
  /\ req[r].pc = "transfer"
  /\ Free(AcctRow(req[r].acct))
  /\ acct' = [acct EXCEPT ![req[r].acct].owner = req[r].user]
  /\ Goto(r, "done")
  /\ UNCHANGED <<balance, tx, paid, ledger>>

-----------------------------------------------------------------------------

Step(r) == \/ BuyValidate(r)
           \/ BuyLockAcct(r)
           \/ BuyLockFirst(r)
           \/ BuyLockSecond(r)
           \/ \E t \in Txs : BuyInvoice(r, t)
           \/ WebhookLockTx(r)
           \/ CheckLockTx(r)
           \/ OwnerLockTx(r)
           \/ SettleLockBuyer(r)
           \/ SettleLockAcct(r)
           \/ SettleLockSeller(r)
           \/ TransferCommit(r)
           \/ DeadlockVictim(r)

Begin(r) == \/ \E u \in Users, a \in Accounts : BuyBegin(r, u, a)
            \/ \E t \in Txs : WebhookBegin(r, t) \/ CheckBegin(r, t) \/ OwnerBegin(r, t)
            \/ \E a \in Accounts, u \in Targets : TransferBegin(r, a, u)

Next == \/ \E u \in Users, S \in SUBSET Accounts : SellAccounts(u, S)
        \/ \E u \in Users, a \in Accounts : CancelSellAccount(u, a)
        \/ \E a \in Accounts : CancelInvalidListing(a)
        \/ \E t \in Txs : GatewayPaid(t)
        \/ \E r \in Requests : Begin(r) \/ Step(r) \/ Abort(r)

(* A request that can move moves, and PostgreSQL resolves a ring of       *)
(* waiters after deadlock_timeout.                                        *)
Fairness == \A r \in Requests : WF_vars(Step(r))

Spec == Init /\ [][Next]_vars
FairSpec == Spec /\ Fairness

-----------------------------------------------------------------------------
(* Properties *)

(* transfer_accounts checks for_sale in an unlocked read: the account may *)
(* be listed when its owner is changed.                                   *)
Transferred(a) == \E r \in Requests : req[r].kind = "transfer" /\ req[r].acct = a /\ req[r].pc = "done"

(* But for the owner's transfer, an account changes hands only out of a   *)
(* listing made by its owner, and the listing ends with it: neither a     *)
(* second buyer nor a late webhook takes it from the one who paid.        *)
OwnerMovesOnlyBySale ==
  [][\A a \in Accounts : acct'[a].owner # acct[a].owner /\ ~Transferred(a)' =>
       acct[a].sale /\ acct[a].seller = acct[a].owner /\ ~acct'[a].sale]_vars

(* A sale clears the listing: the seller who will be paid for a listed    *)
(* account owns it, and an account off the market names no seller, unless *)
(* a transfer overtook the listing.                                       *)
ListingIsOwners ==
  \A a \in Accounts :
    /\ ~acct[a].sale => acct[a].seller = None
    /\ acct[a].sale /\ ~Transferred(a) => acct[a].seller = acct[a].owner

(* An invoice is settled once: what its buyer got, the account or the      *)
(* money, is given again only by a webhook that read the invoice while it  *)
(* was pending and settles it although another request has since.  Status  *)
(* checks and the owner read it with the lock.                             *)
Settlements(t) == ledger[t]["marketplace_sell"] + ledger[t]["topup_fallback"]

SettledTwiceOnlyByWebhook ==
  [][\A t \in Txs : Settlements(t) > 0 /\ Settlements(t)' > Settlements(t) =>
       \E r \in Requests : /\ req[r].kind = "webhook" /\ req[r].tx = t
                           /\ req[r].pc \in InFlight /\ req'[r].pc = "done"]_vars

(* A purchase is never in a ring with another purchase: users are locked  *)
(* in a fixed order under the account lock.  A ring needs a settlement.   *)
RingNeedsSettlement ==
  \A S \in SUBSET Requests : Cycle(S) => \E r \in S : req[r].kind \in Settlers

(* Every row lock is held to the end of its transaction, so purchases and *)
(* settlements behave as single steps of a market without requests: the   *)
(* buyer pays and the seller gets what the offer says at that very moment *)
(* (buy_account, fulfill_wallet_transaction).  Only the balance that a     *)
(* status check or the owner credits may be the one loaded earlier.        *)
ownerBar == [a \in Accounts |-> acct[a].owner]
offerBar ==
  [a \in Accounts |-> IF ~acct[a].sale THEN None
     ELSE [seller |-> acct[a].seller, gets |-> acct[a].sell,
           costs |-> Larger(acct[a].buy, acct[a].sell)]]
billBar ==
  [t \in Txs |-> IF tx[t].status = "none" THEN None
     ELSE [buyer |-> tx[t].buyer, acct |-> tx[t].acct, amount |-> tx[t].amount]]
settledBar == [t \in Txs |-> Settlements(t)]
copiesBar == UNION {req[r].seen : r \in Requests}

(* The payment of an invoice, or the owner's word for it. *)
OwnerApproves == {req[r].tx : r \in {q \in Requests : req[q].kind = "owner" /\ req[q].verdict = "approved"}}
paidBar == paid \cup OwnerApproves

AM == INSTANCE AccountMarket
        WITH owner <- ownerBar, offer <- offerBar, bill <- billBar, settled <- settledBar,
             paid <- paidBar, copies <- copiesBar

(* The marketplace implements AccountMarket. *)
AtomicMarket == AM!Spec

(* Every request ends, rings of waiters included. *)
RequestsFinish ==
  \A r \in Requests : req[r].pc \in InFlight ~> req[r].pc = "done"
=============================================================================
