------------------------- MODULE WalletSettlement -------------------------
(***************************************************************************)
(* Settlement of wallet transactions: the payment webhooks, the status     *)
(* check the buyer's browser polls, the owner's manual settlement and the  *)
(* withdrawal request, all running concurrently against the same rows.     *)
(*                                                                         *)
(* A request owns one SQLAlchemy session.  The session's identity map      *)
(* keeps the attributes of a row it has already loaded: a later            *)
(* SELECT ... FOR UPDATE takes the row lock but does not refresh them      *)
(* (only populate_existing does, and no handler of this module asks for    *)
(* it).  The fields st and bal of a request are the copies of              *)
(* WalletTransaction.status and User.balance that its session holds.       *)
(* An UPDATE writes the copy, so it overwrites whatever was committed      *)
(* since the copy was taken.  Row locks are held to the end of the         *)
(* database transaction.                                                   *)
(***************************************************************************)
EXTENDS Integers, FiniteSets

CONSTANTS
  Users,         \* rows of "user"
  Txs,           \* identifiers of wallet_transactions
  Requests,      \* HTTP requests; each is used for one request only
  Amounts,       \* amounts an invoice or a withdrawal can have
  InvoiceTypes,  \* the invoice types of this instance
  None           \* the absent user or transaction

ASSUME AmountsAssumption == Amounts \subseteq Nat \ {0}
ASSUME TypesAssumption == InvoiceTypes \subseteq {"topup", "subscription", "smm"}
ASSUME NoneAssumption == None \notin Users \cup Txs

VARIABLES
  balance,    \* user.balance
  tx,         \* wallet_transactions
  ledger,     \* wallet_ledgers: rows per reference_id and category
  order,      \* status of the SMM order an invoice pays for
  delivered,  \* subscription activations, orders accepted by the SMM provider
  gateway,    \* what the payment gateway knows of an invoice
  req,        \* the requests and their sessions
  late,       \* history: requests whose copy of the balance was overtaken
  drift       \* history: users whose balance was written from such a copy

vars == <<balance, tx, ledger, order, delivered, gateway, req, late, drift>>

Pending == "pending"
Final == {"approved", "rejected"}
Categories == {"topup", "topup_fallback", "withdraw", "withdraw_refund"}
InFlight == {"lockTx", "lockUser", "provider", "commit"}
Replies == {"ok", "failed", "exception"}

NoTx == [type |-> "none", user |-> None, amount |-> 0, status |-> "none"]
NoReq == [kind |-> "none", pc |-> "idle", tx |-> None, user |-> None,
          amount |-> 0, verdict |-> "none", st |-> "none", bal |-> 0,
          reply |-> "none"]

TxType == [type : InvoiceTypes \cup {"withdraw", "none"},
           user : Users \cup {None},
           amount : Amounts \cup {0},
           status : Final \cup {Pending, "none"}]

ReqType == [kind : {"none", "webhook", "check", "admin", "withdraw"},
            pc : InFlight \cup {"idle", "done"},
            tx : Txs \cup {None},
            user : Users \cup {None},
            amount : Amounts \cup {0},
            verdict : Final \cup {"none"},
            st : Final \cup {Pending, "none"},
            bal : Nat,
            reply : Replies \cup {"none"}]

TypeOK ==
  /\ balance \in [Users -> Nat]
  /\ tx \in [Txs -> TxType]
  /\ ledger \in [Txs -> [Categories -> Nat]]
  /\ order \in [Txs -> {"none", "Awaiting Payment", "Pending", "Failed"}]
  /\ delivered \in [Txs -> Nat]
  /\ gateway \in [Txs -> {"open", "paid", "expired"}]
  /\ req \in [Requests -> ReqType]

Init ==
  /\ balance = [u \in Users |-> 0]
  /\ tx = [t \in Txs |-> NoTx]
  /\ ledger = [t \in Txs |-> [c \in Categories |-> 0]]
  /\ order = [t \in Txs |-> "none"]
  /\ delivered = [t \in Txs |-> 0]
  /\ gateway = [t \in Txs |-> "open"]
  /\ req = [r \in Requests |-> NoReq]
  /\ late = {} /\ drift = {}

-----------------------------------------------------------------------------
(* Row locks.  FOR UPDATE waits while another session holds the row. *)

HoldsTx(r) == /\ req[r].kind # "withdraw"
              /\ req[r].pc \in {"lockUser", "provider", "commit"}

(* Mutant: a failed request returns its connection without a rollback. *)
HoldsUserAfterRefusal(r) ==
  \/ req[r].pc \in {"provider", "commit"}
  \/ req[r].pc = "done" /\ req[r].kind = "withdraw" /\ tx[req[r].tx].status = "none"

HoldsUser(r) == req[r].pc \in {"provider", "commit"}

(* Mutant: the transaction is read without FOR UPDATE. *)
TxFreeNoLock(t) == t \in Txs

TxFree(t) == \A q \in Requests : HoldsTx(q) => req[q].tx # t

UserFree(u) == \A q \in Requests : HoldsUser(q) => req[q].user # u

(* generate_wallet_tx_id: an identifier no row and no request uses. *)
FreshId(t) == /\ tx[t].status = "none"
              /\ \A r \in Requests : req[r].tx # t

-----------------------------------------------------------------------------
(* Invoices: one INSERT committed at the end of the request.  The amount is *)
(* what the user will be credited, or what the plan or the order costs.     *)

CreateInvoice(t, type, u, a) ==
  /\ type \in InvoiceTypes
  /\ FreshId(t)
  /\ tx' = [tx EXCEPT ![t] = [type |-> type, user |-> u, amount |-> a,
                              status |-> Pending]]
  /\ UNCHANGED <<balance, ledger, delivered, gateway, req>>

RequestTopup(t, u, a) ==
  CreateInvoice(t, "topup", u, a) /\ UNCHANGED order

CheckoutInvoice(t, u, a) ==
  CreateInvoice(t, "subscription", u, a) /\ UNCHANGED order

OrderInvoice(t, u, a) ==
  /\ CreateInvoice(t, "smm", u, a)
  /\ order' = [order EXCEPT ![t] = "Awaiting Payment"]

(* The gateway sees the payment, or lets the QRIS code expire. *)
GatewayResolve(t) ==
  /\ tx[t].type \in InvoiceTypes
  /\ gateway[t] = "open"
  /\ \E s \in {"paid", "expired"} : gateway' = [gateway EXCEPT ![t] = s]
  /\ UNCHANGED <<balance, tx, ledger, order, delivered, req>>

(* Mutant: a webhook status other than PAID is taken for a payment. *)
VerdictOfAny(t) == IF gateway[t] = "open" THEN "rejected" ELSE "approved"

(* What a webhook payload or a status answer asks for. *)
VerdictOf(t) == IF gateway[t] = "paid" THEN "approved" ELSE "rejected"

-----------------------------------------------------------------------------
(* First read of each request. *)

(* A delivery, first or repeated, of the gateway's notification.  The     *)
(* transaction is read without a lock; a settled one is acknowledged.     *)
DeliverWebhook(r, t) ==
  /\ req[r].pc = "idle"
  /\ tx[t].type \in InvoiceTypes
  /\ gateway[t] # "open"
  /\ req' = [req EXCEPT ![r] =
       [NoReq EXCEPT !.kind = "webhook", !.tx = t, !.user = tx[t].user,
                     !.verdict = VerdictOf(t),
                     !.st = IF tx[t].status = Pending THEN Pending ELSE "none",
                     !.pc = IF tx[t].status = Pending THEN "lockTx" ELSE "done"]]
  /\ UNCHANGED <<balance, tx, ledger, order, delivered, gateway>>

(* check_topup_status: get_current_user has put the User row, with its    *)
(* balance of that moment, in the session.                                *)
BeginCheck(r, t) ==
  /\ req[r].pc = "idle"
  /\ tx[t].type \in InvoiceTypes
  /\ req' = [req EXCEPT ![r] =
       [NoReq EXCEPT !.kind = "check", !.tx = t, !.user = tx[t].user,
                     !.bal = balance[tx[t].user], !.pc = "lockTx"]]
  /\ UNCHANGED <<balance, tx, ledger, order, delivered, gateway>>

BeginAdmin(r, t) ==
  /\ req[r].pc = "idle"
  /\ tx[t].status # "none"
  /\ \E v \in Final :
       req' = [req EXCEPT ![r] =
         [NoReq EXCEPT !.kind = "admin", !.tx = t, !.user = tx[t].user,
                       !.verdict = v, !.pc = "lockTx"]]
  /\ UNCHANGED <<balance, tx, ledger, order, delivered, gateway>>

(* request_withdraw up to the row lock; the one-time code is checked      *)
(* before it.                                                             *)
BeginWithdraw(r, t, u, a) ==
  /\ req[r].pc = "idle"
  /\ FreshId(t)
  /\ req' = [req EXCEPT ![r] =
       [NoReq EXCEPT !.kind = "withdraw", !.tx = t, !.user = u, !.amount = a,
                     !.bal = balance[u], !.pc = "lockUser"]]
  /\ UNCHANGED <<balance, tx, ledger, order, delivered, gateway>>

-----------------------------------------------------------------------------
(* End of a request: the transaction is over and its locks are released. *)

Ended(r) == [req[r] EXCEPT !.pc = "done", !.st = "none", !.bal = 0,
                           !.reply = "none"]

Finish(r) == req' = [req EXCEPT ![r] = Ended(r)]

(* An exception, a lost connection or a killed process: get_db rolls back. *)
Abort(r) ==
  /\ req[r].pc \in InFlight
  /\ Finish(r)
  /\ UNCHANGED <<balance, tx, ledger, order, delivered, gateway>>

SetStatus(t, s) == tx' = [tx EXCEPT ![t].status = s]

(* Commit of a request that only changes the status of its transaction. *)
CommitStatus(r, s) ==
  /\ SetStatus(req[r].tx, s)
  /\ Finish(r)
  /\ UNCHANGED <<balance, ledger, order, delivered, gateway>>

-----------------------------------------------------------------------------
(* SELECT ... FOR UPDATE on the wallet transaction. *)

(* Mutant: the locked row's status is not looked at. *)
SeenStatusUnchecked(r) == IF req[r].kind = "none" THEN "none" ELSE Pending

(* tx.status as the session sees it after the locking SELECT. *)
SeenStatus(r) == IF req[r].kind = "webhook" THEN req[r].st
                                            ELSE tx[req[r].tx].status

(* klikqris_webhook, paymenku_webhook *)
WebhookLockTx(r) ==
  /\ req[r].pc = "lockTx" /\ req[r].kind = "webhook"
  /\ TxFree(req[r].tx)
  /\ IF SeenStatus(r) # Pending
       THEN Finish(r) /\ UNCHANGED <<balance, tx, ledger, order, delivered, gateway>>
     ELSE IF req[r].verdict = "rejected"
       THEN CommitStatus(r, "rejected")
     ELSE /\ req' = [req EXCEPT ![r] = [@ EXCEPT !.pc = "lockUser"]]
          /\ UNCHANGED <<balance, tx, ledger, order, delivered, gateway>>

(* check_topup_status: the gateway or the chain is asked while the row is *)
(* locked; no answer, or an unpaid invoice, ends the request.             *)
CheckLockTx(r) ==
  /\ req[r].pc = "lockTx" /\ req[r].kind = "check"
  /\ TxFree(req[r].tx)
  /\ \/ /\ Finish(r)
        /\ UNCHANGED <<balance, tx, ledger, order, delivered, gateway>>
     \/ /\ SeenStatus(r) = Pending
        /\ gateway[req[r].tx] = "expired"
        /\ CommitStatus(r, "rejected")
     \/ /\ SeenStatus(r) = Pending
        /\ gateway[req[r].tx] = "paid"
        /\ req' = [req EXCEPT ![r] = [@ EXCEPT !.pc = "lockUser", !.st = Pending,
                                               !.verdict = "approved"]]
        /\ UNCHANGED <<balance, tx, ledger, order, delivered, gateway>>

(* admin_update_transaction_status: selectinload reads the user row here, *)
(* before it is locked.                                                   *)
AdminLockTx(r) ==
  /\ req[r].pc = "lockTx" /\ req[r].kind = "admin"
  /\ TxFree(req[r].tx)
  /\ IF SeenStatus(r) # Pending
       THEN Finish(r)
       ELSE req' = [req EXCEPT ![r] = [@ EXCEPT !.pc = "lockUser", !.st = Pending,
                                                !.bal = balance[req[r].user]]]
  /\ UNCHANGED <<balance, tx, ledger, order, delivered, gateway>>

-----------------------------------------------------------------------------
(* SELECT ... FOR UPDATE on the user, and what follows it. *)

(* Mutant: every handler takes the balance its session loaded first. *)
SeenBalanceStale(r) == req[r].bal

(* user.balance as the session sees it after the locking SELECT: only the *)
(* webhooks load the row for the first time there.                        *)
SeenBalance(r) == IF req[r].kind = "webhook" THEN balance[req[r].user]
                                             ELSE req[r].bal

(* record_ledger_entry *)
Credit(u, bal, a, t, category) ==
  /\ balance' = [balance EXCEPT ![u] = bal + a]
  /\ ledger' = [ledger EXCEPT ![t][category] = @ + 1]

(* Mutant: a debit does not look at the balance. *)
DebitUnchecked(u, bal, a, t, category) ==
  /\ balance' = [balance EXCEPT ![u] = bal - a]
  /\ ledger' = [ledger EXCEPT ![t][category] = @ + 1]

Debit(u, bal, a, t, category) ==
  /\ bal >= a
  /\ balance' = [balance EXCEPT ![u] = bal - a]
  /\ ledger' = [ledger EXCEPT ![t][category] = @ + 1]

(* request_withdraw: 400 if the balance seen is too small, otherwise the  *)
(* pending row and the DEBIT are committed together.                      *)
WithdrawLockUser(r) ==
  /\ req[r].pc = "lockUser" /\ req[r].kind = "withdraw"
  /\ UserFree(req[r].user)
  /\ \/ /\ SeenBalance(r) < req[r].amount
        /\ UNCHANGED <<balance, tx, ledger>>
     \/ /\ Debit(req[r].user, SeenBalance(r), req[r].amount, req[r].tx, "withdraw")
        /\ tx' = [tx EXCEPT ![req[r].tx] =
                    [type |-> "withdraw", user |-> req[r].user,
                     amount |-> req[r].amount, status |-> Pending]]
  /\ Finish(r)
  /\ UNCHANGED <<order, delivered, gateway>>

(* The owner settles a withdrawal; a rejection refunds it. *)
AdminSettleWithdraw(r) ==
  LET t == req[r].tx IN
  /\ req[r].pc = "lockUser" /\ req[r].kind = "admin"
  /\ UserFree(req[r].user)
  /\ tx[t].type = "withdraw"
  /\ IF req[r].verdict = "rejected"
       THEN Credit(req[r].user, SeenBalance(r), tx[t].amount, t, "withdraw_refund")
       ELSE UNCHANGED <<balance, ledger>>
  /\ SetStatus(t, req[r].verdict)
  /\ Finish(r)
  /\ UNCHANGED <<order, delivered, gateway>>

(* Mutant: a manual approval sets the status and fulfils nothing. *)
AdminResolveInvoice(r) ==
  /\ req[r].pc = "lockUser" /\ req[r].kind = "admin"
  /\ UserFree(req[r].user)
  /\ tx[req[r].tx].type \in InvoiceTypes
  /\ CommitStatus(r, req[r].verdict)

(* The owner rejects an invoice by hand. *)
AdminRejectInvoice(r) ==
  /\ req[r].pc = "lockUser" /\ req[r].kind = "admin"
  /\ UserFree(req[r].user)
  /\ tx[req[r].tx].type \in InvoiceTypes
  /\ req[r].verdict = "rejected"
  /\ CommitStatus(r, "rejected")

(* fulfill_wallet_transaction is about to run on this invoice type. *)
Fulfils(r, type) ==
  /\ req[r].pc = "lockUser"
  /\ UserFree(req[r].user)
  /\ tx[req[r].tx].type = type
  /\ req[r].verdict = "approved"

FulfilTopup(r) ==
  LET t == req[r].tx IN
  /\ Fulfils(r, "topup")
  /\ Credit(req[r].user, SeenBalance(r), tx[t].amount, t, "topup")
  /\ SetStatus(t, "approved")
  /\ Finish(r)
  /\ UNCHANGED <<order, delivered, gateway>>

(* The plan is activated, or its note cannot be read and the money goes   *)
(* to the balance.                                                        *)
FulfilSubscription(r) ==
  LET t == req[r].tx IN
  /\ Fulfils(r, "subscription")
  /\ \/ /\ delivered' = [delivered EXCEPT ![t] = @ + 1]
        /\ UNCHANGED <<balance, ledger>>
     \/ /\ Credit(req[r].user, SeenBalance(r), tx[t].amount, t, "topup_fallback")
        /\ UNCHANGED delivered
  /\ SetStatus(t, "approved")
  /\ Finish(r)
  /\ UNCHANGED <<order, gateway>>

(* The smm branch awaits the provider with both rows locked. *)
FulfilSmmCall(r) ==
  /\ Fulfils(r, "smm")
  /\ req' = [req EXCEPT ![r] = [@ EXCEPT !.pc = "provider", !.bal = SeenBalance(r)]]
  /\ UNCHANGED <<balance, tx, ledger, order, delivered, gateway>>

(* create_order: accepted and answered; refused; accepted, but the answer *)
(* is lost (call_smm_api reports a failure); or not understood, which     *)
(* raises inside the branch.                                              *)
ProviderReply(r) ==
  /\ req[r].pc = "provider"
  /\ \E reply \in Replies, accepted \in BOOLEAN :
       /\ reply = "ok" => accepted
       /\ req' = [req EXCEPT ![r] = [@ EXCEPT !.pc = "commit", !.reply = reply]]
       /\ delivered' = [delivered EXCEPT ![req[r].tx] =
                          IF accepted THEN @ + 1 ELSE @]
  /\ UNCHANGED <<balance, tx, ledger, order, gateway>>

(* The order becomes Pending, or the money goes to the balance and the    *)
(* order becomes Failed (not after an exception).                         *)
FulfilSmmCommit(r) ==
  LET t == req[r].tx IN
  /\ req[r].pc = "commit"
  /\ IF req[r].reply = "ok"
       THEN UNCHANGED <<balance, ledger>>
       ELSE Credit(req[r].user, req[r].bal, tx[t].amount, t, "topup_fallback")
  /\ order' = [order EXCEPT ![t] = CASE req[r].reply = "ok" -> "Pending"
                                     [] req[r].reply = "failed" -> "Failed"
                                     [] OTHER -> @]
  /\ SetStatus(t, "approved")
  /\ Finish(r)
  /\ UNCHANGED <<delivered, gateway>>

-----------------------------------------------------------------------------

Create(t) == \E u \in Users, a \in Amounts :
               \/ RequestTopup(t, u, a)
               \/ CheckoutInvoice(t, u, a)
               \/ OrderInvoice(t, u, a)

Begin(r) == \E t \in Txs :
              \/ DeliverWebhook(r, t)
              \/ BeginCheck(r, t)
              \/ BeginAdmin(r, t)
              \/ \E u \in Users, a \in Amounts : BeginWithdraw(r, t, u, a)

Step(r) == \/ WebhookLockTx(r)
           \/ CheckLockTx(r)
           \/ AdminLockTx(r)
           \/ WithdrawLockUser(r)
           \/ AdminSettleWithdraw(r)
           \/ AdminRejectInvoice(r)
           \/ FulfilTopup(r)
           \/ FulfilSubscription(r)
           \/ FulfilSmmCall(r)
           \/ ProviderReply(r)
           \/ FulfilSmmCommit(r)

(* Nothing in flight: the server waits for the next request. *)
Quiet == /\ \A r \in Requests : req[r].pc \in {"idle", "done"}
         /\ UNCHANGED vars

-----------------------------------------------------------------------------
(* History: which commits overtook which copies of a balance. *)

(* The request holds a copy of its user's balance: get_current_user and   *)
(* selectinload load the row before it is locked, a webhook with the lock. *)
Loaded(r) ==
  \/ req[r].kind \in {"check", "withdraw"} /\ req[r].pc \in InFlight
  \/ req[r].kind = "admin" /\ req[r].pc = "lockUser"
  \/ HoldsUser(r)

(* This step ends a request of u, and commits a row of the ledger. *)
Books(r) == req[r].pc \in InFlight /\ req'[r].pc = "done" /\ ledger' # ledger
Booked(u) == \E r \in Requests : Books(r) /\ req[r].user = u

History ==
  /\ late' = {q \in Requests : /\ req'[q].pc \in InFlight
                              /\ (q \in late \/ (Loaded(q) /\ Booked(req[q].user)))}
  /\ drift' = drift \cup {u \in Users : \E r \in late : Books(r) /\ req[r].user = u}

-----------------------------------------------------------------------------

Next == /\ \/ \E t \in Txs : Create(t) \/ GatewayResolve(t)
           \/ \E r \in Requests : Begin(r) \/ Step(r) \/ Abort(r)
           \/ Quiet
        /\ History

(* PostgreSQL grants a row lock to a waiter and asyncio resumes a ready   *)
(* coroutine: a request that can move moves.                              *)
Fairness == \A r \in Requests : WF_vars(Step(r) /\ History)

Spec == Init /\ [][Next]_vars
FairSpec == Spec /\ Fairness

-----------------------------------------------------------------------------
(* Properties *)

(* A withdrawal is debited exactly once when it is requested, refunded    *)
(* exactly once if the owner rejects it, and never refunded otherwise,    *)
(* whatever other settlements race with the owner's                       *)
(* (request_withdraw, admin_update_transaction_status).                   *)
WithdrawalAccounted ==
  \A t \in Txs : tx[t].type = "withdraw" =>
    /\ ledger[t]["withdraw"] = 1
    /\ ledger[t]["withdraw_refund"] = IF tx[t].status = "rejected" THEN 1 ELSE 0

(* The status check and the owner's settlement lock the transaction when  *)
(* they first read it: while they hold it, it really is pending.  The     *)
(* webhooks, which read it before, are the exception.                     *)
FreshUnderLock ==
  \A r \in Requests :
    HoldsTx(r) /\ req[r].kind # "webhook" => tx[req[r].tx].status = Pending

(* The commit, in this step, of a webhook that read the invoice while it  *)
(* was pending.                                                           *)
CommitOfEarlyReader(t) ==
  \E r \in Requests : /\ req[r].kind = "webhook" /\ req[r].tx = t /\ req[r].st = Pending
                      /\ req[r].pc \in InFlight /\ req'[r].pc = "done"

CreditsOf(t) == ledger[t]["topup"] + ledger[t]["topup_fallback"]

(* An invoice that has been credited is credited again only by a webhook   *)
(* that read it while it was pending and settles it although another       *)
(* request has settled it since; status checks and the owner, who read it  *)
(* under the lock, never credit twice.                                     *)
CreditedTwiceOnlyByWebhook ==
  [][\A t \in Txs : CreditsOf(t) > 0 /\ CreditsOf(t)' > CreditsOf(t) =>
       tx[t].status \in Final /\ CommitOfEarlyReader(t)]_vars

(* Money enters a balance as a top-up only if the gateway saw the payment *)
(* or the owner approved the invoice.                                     *)
CreditIsBacked ==
  \A t \in Txs : ledger[t]["topup"] > 0 =>
    \/ gateway[t] = "paid"
    \/ \E r \in Requests : /\ req[r].kind = "admin" /\ req[r].tx = t
                           /\ req[r].verdict = "approved"

(* An approved invoice gave its buyer something: a credit, an active plan *)
(* or an order at the provider.  An order the provider refused has been   *)
(* refunded to the balance, and one shown as Pending exists there.        *)
ApprovedGivesValue ==
  \A t \in Txs :
    /\ tx[t].type \in InvoiceTypes /\ tx[t].status = "approved" =>
         ledger[t]["topup"] + ledger[t]["topup_fallback"] + delivered[t] > 0
    /\ order[t] = "Failed" => ledger[t]["topup_fallback"] > 0
    /\ order[t] = "Pending" => delivered[t] > 0

(* A settled transaction changes its status again only by the commit of a *)
(* webhook that read it while it was pending.                             *)
SettledChangesOnlyByWebhook ==
  [][\A t \in Txs : tx[t].status \in Final /\ tx'[t].status # tx[t].status =>
       CommitOfEarlyReader(t)]_vars

(* The units of money of u that the ledger's rows of some categories move. *)
Units(u, categories) ==
  UNION {{<<t, c>>} \X ((1..ledger[t][c]) \X (1..tx[t].amount)) :
           t \in {x \in Txs : tx[x].user = u}, c \in categories}

(* sum(CREDIT) - sum(DEBIT) = balance, as reconcile_user_balance computes  *)
(* it: no credit or debit that the ledger records is lost from a balance   *)
(* or hidden by another one, also when the SMM provider is called in       *)
(* between.  The exception is a balance somebody wrote from a copy that    *)
(* was loaded before the lock and overtaken by another commit.             *)
BalanceReconciles ==
  \A u \in Users \ drift :
    balance[u] + Cardinality(Units(u, {"withdraw"}))
      = Cardinality(Units(u, Categories \ {"withdraw"}))

(* A webhook, which loads the balance with the lock, is never overtaken.   *)
WebhookNotLate == \A r \in late : req[r].kind # "webhook"

(* The books of the wallet. *)
Reconciled == BalanceReconciles /\ WebhookNotLate

(* The transaction row is locked before the user row, so no request waits *)
(* for ever.                                                              *)
RequestsFinish ==
  \A r \in Requests : req[r].pc \in InFlight ~> req[r].pc = "done"

=============================================================================
