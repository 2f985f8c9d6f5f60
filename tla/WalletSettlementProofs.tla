----------------------- MODULE WalletSettlementProofs -----------------------
(***************************************************************************)
(* TLAPS proofs about WalletSettlement, for every set of users,            *)
(* transactions, requests and amounts.                                     *)
(***************************************************************************)
EXTENDS WalletSettlement, FiniteSetTheorems, TLAPS

(* A row exists exactly when it has a type, it then belongs to a user, and *)
(* an identifier no row uses yet has no ledger entries.                    *)
TxOK ==
  \A t \in Txs :
    /\ tx[t].type = "none" <=> tx[t].status = "none"
    /\ tx[t].status # "none" => tx[t].user \in Users /\ tx[t].amount \in Amounts
    /\ tx[t].status = "none" => /\ ledger[t]["withdraw"] = 0
                                /\ ledger[t]["withdraw_refund"] = 0
    /\ tx[t].status = Pending => ledger[t]["withdraw_refund"] = 0

(* A settling request works on an existing row and on its user; only the   *)
(* owner's settlement may work on a withdrawal; only an SMM invoice is at   *)
(* the provider.                                                           *)
SettlerOK ==
  \A r \in Requests :
    /\ req[r].kind \in {"webhook", "check", "admin"} =>
         /\ req[r].tx \in Txs
         /\ tx[req[r].tx].status # "none"
         /\ req[r].user = tx[req[r].tx].user
    /\ req[r].kind \in {"webhook", "check"} => tx[req[r].tx].type # "withdraw"
    /\ req[r].pc \in {"provider", "commit"} =>
         req[r].kind # "withdraw" /\ tx[req[r].tx].type = "smm"
    /\ req[r].pc = "lockTx" => req[r].kind # "withdraw"
    /\ req[r].pc \in InFlight => req[r].kind # "none"
    /\ req[r].kind = "admin" => req[r].verdict \in Final

(* A withdrawal in flight owns an identifier that nothing else uses.       *)
WithdrawerOK ==
  \A r \in Requests :
    req[r].kind = "withdraw" /\ req[r].pc \in InFlight =>
      /\ req[r].tx \in Txs
      /\ req[r].user \in Users
      /\ req[r].amount \in Amounts
      /\ tx[req[r].tx].status = "none"
      /\ \A q \in Requests : q # r => req[q].tx # req[r].tx

(* Two requests never hold the row lock of the same transaction.           *)
TxLockExclusive ==
  \A r, q \in Requests :
    HoldsTx(r) /\ HoldsTx(q) /\ req[r].tx = req[q].tx => r = q

IInv == /\ TypeOK
        /\ TxOK
        /\ SettlerOK
        /\ WithdrawerOK
        /\ TxLockExclusive
        /\ FreshUnderLock
        /\ WithdrawalAccounted

-----------------------------------------------------------------------------
Settlers == {"webhook", "check", "admin"}

(* Sums of naturals, for the leaves that only need the type. *)
LEMMA NatSum == \A m, n \in Nat : m + n \in Nat
OBVIOUS

(* A request that has the provider's answer. *)
LEMMA ReplyRecord ==
  ASSUME NEW q \in ReqType, NEW reply \in Replies
  PROVE  LET rec == [q EXCEPT !.pc = "commit", !.reply = reply]
         IN  /\ rec \in ReqType /\ rec.kind = q.kind /\ rec.tx = q.tx
             /\ rec.user = q.user /\ rec.verdict = q.verdict /\ rec.pc = "commit"
<1> DEFINE rec == [q EXCEPT !.pc = "commit", !.reply = reply]
<1>1. /\ rec.kind = q.kind /\ rec.tx = q.tx /\ rec.user = q.user
      /\ rec.verdict = q.verdict /\ rec.pc = "commit"
  BY DEF ReqType
<1>2. rec \in ReqType
  BY DEF ReqType, InFlight
<1> QED BY <1>1, <1>2

(* What the building blocks of the actions do, field by field. *)

(* Finish ends the request and leaves the others alone. *)
LEMMA FinishEffect ==
  ASSUME TypeOK, NEW r \in Requests, Finish(r)
  PROVE  /\ req' \in [Requests -> ReqType]
         /\ \A q \in Requests : q # r => req'[q] = req[q]
         /\ req'[r].pc = "done"
         /\ req'[r].kind = req[r].kind
         /\ req'[r].tx = req[r].tx
         /\ req'[r].user = req[r].user
         /\ req'[r].verdict = req[r].verdict
<1>1. req[r] \in ReqType
  BY DEF TypeOK
<1>2. Ended(r) \in ReqType
  BY <1>1 DEF ReqType, Ended
<1>3. /\ Ended(r).pc = "done"
      /\ Ended(r).kind = req[r].kind
      /\ Ended(r).tx = req[r].tx
      /\ Ended(r).user = req[r].user
      /\ Ended(r).verdict = req[r].verdict
  BY <1>1 DEF ReqType, Ended
<1> QED BY <1>2, <1>3 DEF Finish, TypeOK

(* SetStatus changes the status of one row and nothing else. *)
LEMMA StatusEffect ==
  ASSUME TypeOK, NEW t \in Txs, NEW s \in Final, SetStatus(t, s)
  PROVE  /\ tx' \in [Txs -> TxType]
         /\ \A x \in Txs : x # t => tx'[x] = tx[x]
         /\ tx'[t].status = s
         /\ tx'[t].type = tx[t].type
         /\ tx'[t].user = tx[t].user
         /\ tx'[t].amount = tx[t].amount
<1>1. tx[t] \in TxType
  BY DEF TypeOK
<1> DEFINE row == [tx[t] EXCEPT !.status = s]
<1>2. /\ row \in TxType
      /\ row.status = s
      /\ row.type = tx[t].type
      /\ row.user = tx[t].user
      /\ row.amount = tx[t].amount
  BY <1>1 DEF TxType
<1>3. tx' = [tx EXCEPT ![t] = row]
  BY DEF SetStatus
<1> HIDE DEF row
<1> QED BY <1>2, <1>3 DEF TypeOK

(* A ledger entry is appended to one reference and one category. *)
LEMMA LedgerEffect ==
  ASSUME TypeOK, NEW t \in Txs, NEW c \in Categories,
         ledger' = [ledger EXCEPT ![t][c] = @ + 1]
  PROVE  /\ ledger' \in [Txs -> [Categories -> Nat]]
         /\ \A x \in Txs : x # t => ledger'[x] = ledger[x]
         /\ \A d \in Categories : d # c => ledger'[t][d] = ledger[t][d]
         /\ ledger'[t][c] = ledger[t][c] + 1
<1>1. ledger[t] \in [Categories -> Nat]
  BY DEF TypeOK
<1> DEFINE row == [ledger[t] EXCEPT ![c] = @ + 1]
<1>2. /\ row \in [Categories -> Nat]
      /\ \A d \in Categories : d # c => row[d] = ledger[t][d]
      /\ row[c] = ledger[t][c] + 1
  BY <1>1
<1>3. ledger' = [ledger EXCEPT ![t] = row]
  OBVIOUS
<1> HIDE DEF row
<1> QED BY <1>2, <1>3 DEF TypeOK

(* The kinds a request can have, from its type. *)
LEMMA KindInType ==
  ASSUME TypeOK, NEW q \in Requests
  PROVE  req[q].kind \in Settlers \cup {"none", "withdraw"}
<1>1. req[q] \in ReqType
  BY DEF TypeOK
<1> QED BY <1>1 DEF ReqType, Settlers

(* A request that holds a row lock works on an existing transaction. *)
LEMMA HolderInTxs ==
  ASSUME IInv, NEW q \in Requests, HoldsTx(q)
  PROVE  req[q].tx \in Txs
<1>1. req[q].kind \in Settlers
  BY KindInType DEF IInv, SettlerOK, HoldsTx, InFlight
<1> QED BY <1>1 DEF IInv, SettlerOK, Settlers

-----------------------------------------------------------------------------
(* The two ways in which a settling request steps: it moves without        *)
(* touching the database, or it commits.                                   *)

(* A settling request that moves keeps the invariant if it works on an     *)
(* existing row and holds that row's lock only because it held it before   *)
(* or because it was free.                                                 *)
LEMMA SettlerMoves ==
  ASSUME IInv, NEW r \in Requests, TypeOK', UNCHANGED <<tx, ledger>>,
         \A q \in Requests : q # r => req'[q] = req[q],
         req'[r].kind \in Settlers,
         req'[r].tx \in Txs,
         tx[req'[r].tx].status # "none",
         req'[r].user = tx[req'[r].tx].user,
         req'[r].kind # "admin" => tx[req'[r].tx].type # "withdraw",
         req'[r].kind = "admin" => req'[r].verdict \in Final,
         req'[r].pc \in {"provider", "commit"} => tx[req'[r].tx].type = "smm",
         HoldsTx(r)' =>
           \/ HoldsTx(r) /\ req'[r].tx = req[r].tx /\ req'[r].kind = req[r].kind
           \/ /\ TxFree(req'[r].tx)
              /\ req'[r].kind = "webhook" \/ tx[req'[r].tx].status = Pending
  PROVE  IInv'
<1>1. TxOK' /\ WithdrawalAccounted'
  BY DEF IInv, TxOK, WithdrawalAccounted
<1>2. SettlerOK'
  BY DEF IInv, SettlerOK, Settlers
<1>3. WithdrawerOK'
  BY DEF IInv, WithdrawerOK, Settlers
<1>4. TxLockExclusive'
  BY DEF IInv, TxLockExclusive, HoldsTx, TxFree
<1>5. FreshUnderLock'
  BY DEF IInv, FreshUnderLock, HoldsTx
<1> QED BY <1>1, <1>2, <1>3, <1>4, <1>5 DEF IInv

(* A request that holds or just took the lock of an invoice commits a      *)
(* status and writes no withdrawal entry.                                  *)
LEMMA SettlerCommits ==
  ASSUME IInv, NEW r \in Requests, NEW s \in Final, TypeOK',
         req[r].kind \in Settlers,
         tx[req[r].tx].type # "withdraw",
         HoldsTx(r) \/ TxFree(req[r].tx),
         SetStatus(req[r].tx, s), Finish(r),
         \A x \in Txs : /\ ledger'[x]["withdraw"] = ledger[x]["withdraw"]
                        /\ ledger'[x]["withdraw_refund"] = ledger[x]["withdraw_refund"]
  PROVE  IInv'
<1> DEFINE t == req[r].tx
<1>0. TypeOK /\ t \in Txs /\ tx[t].status # "none"
  BY DEF IInv, SettlerOK, Settlers
<1>1. /\ \A q \in Requests : q # r => req'[q] = req[q]
      /\ req'[r].pc = "done"
      /\ req'[r].kind = req[r].kind
      /\ req'[r].tx = t
      /\ req'[r].user = req[r].user
      /\ req'[r].verdict = req[r].verdict
  BY <1>0, FinishEffect
<1>2. /\ \A x \in Txs : x # t => tx'[x] = tx[x]
      /\ tx'[t].status = s
      /\ tx'[t].type = tx[t].type
      /\ tx'[t].user = tx[t].user
      /\ tx'[t].amount = tx[t].amount
  BY <1>0, StatusEffect
<1> HIDE DEF t
<1>3. TxOK'
  BY <1>0, <1>2 DEF IInv, TxOK, Final, Pending
<1>4. SettlerOK'
  <2>1. \A q \in Requests : req[q].kind \in Settlers \cup {"none", "withdraw"}
    BY <1>0, KindInType
  <2>2. \A q \in Requests : req[q].kind \in Settlers =>
          /\ req[q].tx \in Txs
          /\ tx'[req[q].tx].status # "none"
          /\ tx'[req[q].tx].type = tx[req[q].tx].type
          /\ tx'[req[q].tx].user = tx[req[q].tx].user
    BY <1>0, <1>2 DEF IInv, SettlerOK, Settlers, Final
  <2> SUFFICES ASSUME NEW q \in Requests
               PROVE  SettlerOK!(q)'
    BY DEF SettlerOK
  <2>3. CASE q = r
    BY <1>1, <2>1, <2>2, <2>3 DEF IInv, SettlerOK, InFlight, Settlers, t
  <2>4. CASE q # r
    BY <1>1, <2>1, <2>2, <2>4 DEF IInv, SettlerOK, InFlight, Settlers
  <2> QED BY <2>3, <2>4
<1>5. WithdrawerOK'
  BY <1>0, <1>1, <1>2 DEF IInv, WithdrawerOK, Settlers
<1>6. TxLockExclusive'
  BY <1>1 DEF IInv, TxLockExclusive, HoldsTx
<1>7. FreshUnderLock'
  <2> SUFFICES ASSUME NEW q \in Requests, HoldsTx(q)', req'[q].kind # "webhook"
               PROVE  tx'[req'[q].tx].status = Pending
    BY DEF FreshUnderLock
  <2>1. q # r /\ req'[q] = req[q] /\ HoldsTx(q)
    BY <1>1 DEF HoldsTx
  <2>2. req[q].tx # t
    BY <2>1 DEF IInv, TxLockExclusive, TxFree, t
  <2>3. req[q].tx \in Txs
    BY <2>1, HolderInTxs
  <2> QED BY <1>2, <2>1, <2>2, <2>3 DEF IInv, FreshUnderLock
<1>8. WithdrawalAccounted'
  BY <1>0, <1>2 DEF IInv, WithdrawalAccounted, t
<1> QED BY <1>3, <1>4, <1>5, <1>6, <1>7, <1>8 DEF IInv

-----------------------------------------------------------------------------
(* Every action preserves the invariant. *)

USE DEF Settlers

(* The invariant depends on the other variables through TypeOK only. *)
LEMMA Frame ==
  ASSUME IInv, TypeOK', tx' = tx, ledger' = ledger, req' = req
  PROVE  IInv'
<1>1. TxOK' /\ SettlerOK' /\ WithdrawerOK'
  BY DEF IInv, TxOK, SettlerOK, WithdrawerOK
<1>2. TxLockExclusive' /\ FreshUnderLock' /\ WithdrawalAccounted'
  BY DEF IInv, TxLockExclusive, FreshUnderLock, HoldsTx, WithdrawalAccounted
<1> QED BY <1>1, <1>2 DEF IInv

(* A new invoice takes an unused identifier. *)
LEMMA CreateStep ==
  ASSUME IInv, NEW t \in Txs, NEW u \in Users, NEW a \in Amounts,
         NEW type, CreateInvoice(t, type, u, a),
         order' \in [Txs -> {"none", "Awaiting Payment", "Pending", "Failed"}]
  PROVE  IInv'
<1> DEFINE row == [type |-> type, user |-> u, amount |-> a, status |-> Pending]
<1>1. type \in InvoiceTypes /\ type # "withdraw" /\ type # "none"
  BY TypesAssumption DEF CreateInvoice
<1>2. row \in TxType
  BY <1>1 DEF TxType
<1>3. /\ row.type = type /\ row.user = u /\ row.amount = a /\ row.status = Pending
  OBVIOUS
<1> HIDE DEF row
<1>4. /\ tx' = [tx EXCEPT ![t] = row]
      /\ UNCHANGED <<balance, ledger, delivered, gateway, req>>
      /\ tx[t].status = "none"
      /\ \A r \in Requests : req[r].tx # t
  BY DEF CreateInvoice, FreshId, row
<1>5. TypeOK'
  BY <1>2, <1>4 DEF IInv, TypeOK
<1>6. \A x \in Txs : x # t => tx'[x] = tx[x]
  BY <1>4 DEF IInv, TypeOK
<1>7. tx'[t] = row
  BY <1>4 DEF IInv, TypeOK
<1>8. TxOK'
  BY <1>1, <1>3, <1>4, <1>6, <1>7 DEF IInv, TxOK, Pending
<1>9. SettlerOK'
  <2> SUFFICES ASSUME NEW q \in Requests
               PROVE  SettlerOK!(q)'
    BY DEF SettlerOK
  <2>1. req[q].kind \in Settlers \cup {"none", "withdraw"}
    BY KindInType DEF IInv
  <2>2. req[q].kind \in Settlers => req[q].tx \in Txs /\ tx'[req[q].tx] = tx[req[q].tx]
    BY <1>4, <1>6 DEF IInv, SettlerOK
  <2> QED BY <1>4, <2>1, <2>2 DEF IInv, SettlerOK, InFlight
<1>10. WithdrawerOK'
  <2> SUFFICES ASSUME NEW q \in Requests, req'[q].kind = "withdraw", req'[q].pc \in InFlight
               PROVE  WithdrawerOK!(q)!2'
    BY DEF WithdrawerOK
  <2>1. req' = req /\ req[q].tx # t
    BY <1>4
  <2>2. WithdrawerOK!(q)!2
    BY <2>1 DEF IInv, WithdrawerOK
  <2>3. tx'[req[q].tx] = tx[req[q].tx]
    BY <1>6, <2>1, <2>2
  <2> QED BY <2>1, <2>2, <2>3
<1>11. TxLockExclusive'
  BY <1>4 DEF IInv, TxLockExclusive, HoldsTx
<1>12. FreshUnderLock'
  <2> SUFFICES ASSUME NEW q \in Requests, HoldsTx(q)', req'[q].kind # "webhook"
               PROVE  tx'[req'[q].tx].status = Pending
    BY DEF FreshUnderLock
  <2>1. req'[q] = req[q] /\ HoldsTx(q) /\ req[q].tx # t
    BY <1>4 DEF HoldsTx
  <2>2. req[q].tx \in Txs
    BY <2>1, HolderInTxs
  <2> QED BY <1>6, <2>1, <2>2 DEF IInv, FreshUnderLock
<1>13. WithdrawalAccounted'
  BY <1>1, <1>3, <1>4, <1>6, <1>7 DEF IInv, WithdrawalAccounted
<1> QED BY <1>5, <1>8, <1>9, <1>10, <1>11, <1>12, <1>13 DEF IInv

(* The gateway's own steps touch no row of the invariant. *)
LEMMA GatewayStep ==
  ASSUME IInv, NEW t \in Txs, GatewayResolve(t)
  PROVE  IInv'
<1>1. TypeOK'
  BY DEF GatewayResolve, IInv, TypeOK
<1>2. tx' = tx /\ ledger' = ledger /\ req' = req
  BY DEF GatewayResolve
<1> QED BY <1>1, <1>2, Frame


(* The first read of a webhook, a status check or the owner. *)
LEMMA SettlerBegins ==
  ASSUME IInv, NEW r \in Requests, NEW t \in Txs, NEW rec \in ReqType,
         req' = [req EXCEPT ![r] = rec],
         UNCHANGED <<balance, tx, ledger, order, delivered, gateway>>,
         rec.kind \in Settlers, rec.tx = t, rec.user = tx[t].user,
         rec.pc \in {"lockTx", "done"},
         tx[t].status # "none",
         rec.kind # "admin" => tx[t].type # "withdraw",
         rec.kind = "admin" => rec.verdict \in Final
  PROVE  IInv'
<1>1. TypeOK'
  BY DEF IInv, TypeOK
<1>2. req'[r] = rec /\ \A q \in Requests : q # r => req'[q] = req[q]
  BY DEF IInv, TypeOK
<1>3. ~HoldsTx(r)'
  BY <1>2 DEF HoldsTx
<1> QED BY <1>1, <1>2, <1>3, SettlerMoves

(* A webhook reads its transaction without a lock. *)
LEMMA DeliverWebhookStep ==
  ASSUME IInv, NEW r \in Requests, NEW t \in Txs, DeliverWebhook(r, t)
  PROVE  IInv'
<1> DEFINE rec == [NoReq EXCEPT !.kind = "webhook", !.tx = t, !.user = tx[t].user,
                     !.verdict = VerdictOf(t),
                     !.st = IF tx[t].status = Pending THEN Pending ELSE "none",
                     !.pc = IF tx[t].status = Pending THEN "lockTx" ELSE "done"]
<1>1. tx[t].type # "none" /\ tx[t].type # "withdraw"
  BY TypesAssumption DEF DeliverWebhook
<1>2. tx[t].status # "none" /\ tx[t].user \in Users
  BY <1>1 DEF IInv, TxOK
<1>3. rec \in ReqType /\ rec.kind = "webhook" /\ rec.tx = t /\ rec.user = tx[t].user
      /\ rec.pc \in {"lockTx", "done"}
  BY <1>2 DEF ReqType, NoReq, VerdictOf, Final, InFlight, Pending
<1>4. /\ req' = [req EXCEPT ![r] = rec]
      /\ UNCHANGED <<balance, tx, ledger, order, delivered, gateway>>
  BY DEF DeliverWebhook
<1> HIDE DEF rec
<1> QED BY <1>1, <1>2, <1>3, <1>4, SettlerBegins

(* The status check begins. *)
LEMMA BeginCheckStep ==
  ASSUME IInv, NEW r \in Requests, NEW t \in Txs, BeginCheck(r, t)
  PROVE  IInv'
<1> DEFINE rec == [NoReq EXCEPT !.kind = "check", !.tx = t, !.user = tx[t].user,
                     !.bal = balance[tx[t].user], !.pc = "lockTx"]
<1>1. tx[t].type # "none" /\ tx[t].type # "withdraw"
  BY TypesAssumption DEF BeginCheck
<1>2. tx[t].status # "none" /\ tx[t].user \in Users
  BY <1>1 DEF IInv, TxOK
<1>3. balance[tx[t].user] \in Nat
  BY <1>2 DEF IInv, TypeOK
<1>4. rec \in ReqType /\ rec.kind = "check" /\ rec.tx = t /\ rec.user = tx[t].user
      /\ rec.pc = "lockTx"
  BY <1>2, <1>3 DEF ReqType, NoReq, InFlight
<1>5. /\ req' = [req EXCEPT ![r] = rec]
      /\ UNCHANGED <<balance, tx, ledger, order, delivered, gateway>>
  BY DEF BeginCheck
<1> HIDE DEF rec
<1> QED BY <1>1, <1>2, <1>4, <1>5, SettlerBegins

(* The owner's settlement begins. *)
LEMMA BeginAdminStep ==
  ASSUME IInv, NEW r \in Requests, NEW t \in Txs, BeginAdmin(r, t)
  PROVE  IInv'
<1>1. PICK v \in Final :
        req' = [req EXCEPT ![r] =
          [NoReq EXCEPT !.kind = "admin", !.tx = t, !.user = tx[t].user,
                        !.verdict = v, !.pc = "lockTx"]]
  BY DEF BeginAdmin
<1> DEFINE rec == [NoReq EXCEPT !.kind = "admin", !.tx = t, !.user = tx[t].user,
                        !.verdict = v, !.pc = "lockTx"]
<1>2. tx[t].status # "none" /\ tx[t].user \in Users
  BY DEF IInv, TxOK, BeginAdmin
<1>3. rec \in ReqType /\ rec.kind = "admin" /\ rec.tx = t /\ rec.user = tx[t].user
      /\ rec.pc = "lockTx" /\ rec.verdict \in Final
  BY <1>2 DEF ReqType, NoReq, InFlight
<1>4. /\ req' = [req EXCEPT ![r] = rec]
      /\ UNCHANGED <<balance, tx, ledger, order, delivered, gateway>>
  BY <1>1 DEF BeginAdmin
<1> HIDE DEF rec
<1> QED BY <1>2, <1>3, <1>4, SettlerBegins

(* A withdrawal reserves an identifier nothing else uses. *)
LEMMA BeginWithdrawStep ==
  ASSUME IInv, NEW r \in Requests, NEW t \in Txs, NEW u \in Users, NEW a \in Amounts,
         BeginWithdraw(r, t, u, a)
  PROVE  IInv'
<1> DEFINE rec == [NoReq EXCEPT !.kind = "withdraw", !.tx = t, !.user = u, !.amount = a,
                     !.bal = balance[u], !.pc = "lockUser"]
<1>1. balance[u] \in Nat
  BY DEF IInv, TypeOK
<1>2. rec \in ReqType /\ rec.kind = "withdraw" /\ rec.tx = t /\ rec.user = u
      /\ rec.amount = a /\ rec.pc = "lockUser"
  BY <1>1 DEF ReqType, NoReq, InFlight
<1>3. /\ req' = [req EXCEPT ![r] = rec]
      /\ tx' = tx /\ ledger' = ledger
      /\ UNCHANGED <<balance, order, delivered, gateway>>
      /\ tx[t].status = "none"
      /\ \A q \in Requests : req[q].tx # t
  BY DEF BeginWithdraw, FreshId
<1> HIDE DEF rec
<1>4. TypeOK'
  BY <1>2, <1>3 DEF IInv, TypeOK
<1>5. req'[r] = rec /\ \A q \in Requests : q # r => req'[q] = req[q]
  BY <1>3 DEF IInv, TypeOK
<1>6. TxOK' /\ WithdrawalAccounted'
  BY <1>3 DEF IInv, TxOK, WithdrawalAccounted
<1>7. SettlerOK'
  BY <1>2, <1>3, <1>5 DEF IInv, SettlerOK
<1>8. WithdrawerOK'
  BY <1>2, <1>3, <1>5 DEF IInv, WithdrawerOK
<1>9. TxLockExclusive'
  BY <1>2, <1>5 DEF IInv, TxLockExclusive, HoldsTx
<1>10. FreshUnderLock'
  BY <1>2, <1>3, <1>5 DEF IInv, FreshUnderLock, HoldsTx
<1> QED BY <1>4, <1>6, <1>7, <1>8, <1>9, <1>10 DEF IInv

(* A request that ends without a commit changes nothing but itself. *)
LEMMA RollbackStep ==
  ASSUME IInv, NEW r \in Requests, req[r].pc \in InFlight, Finish(r),
         UNCHANGED <<balance, tx, ledger, order, delivered, gateway>>
  PROVE  IInv'
<1>1. /\ req' \in [Requests -> ReqType]
      /\ \A q \in Requests : q # r => req'[q] = req[q]
      /\ req'[r].pc = "done"
      /\ req'[r].kind = req[r].kind
      /\ req'[r].tx = req[r].tx
      /\ req'[r].user = req[r].user
      /\ req'[r].verdict = req[r].verdict
  BY FinishEffect DEF IInv
<1>2. TypeOK'
  BY <1>1 DEF IInv, TypeOK
<1>3. TxOK' /\ WithdrawalAccounted'
  BY DEF IInv, TxOK, WithdrawalAccounted
<1>4. SettlerOK'
  BY <1>1 DEF IInv, SettlerOK, InFlight
<1>5. WithdrawerOK'
  BY <1>1 DEF IInv, WithdrawerOK, InFlight
<1>6. TxLockExclusive'
  BY <1>1 DEF IInv, TxLockExclusive, HoldsTx
<1>7. FreshUnderLock'
  BY <1>1 DEF IInv, FreshUnderLock, HoldsTx
<1> QED BY <1>2, <1>3, <1>4, <1>5, <1>6, <1>7 DEF IInv

(* A crash or an error undoes the request's transaction. *)
LEMMA AbortStep ==
  ASSUME IInv, NEW r \in Requests, Abort(r)
  PROVE  IInv'
BY RollbackStep DEF Abort

(* The types after a commit of a status without a ledger entry. *)
LEMMA CommitStatusStep ==
  ASSUME IInv, NEW r \in Requests, NEW s \in Final, CommitStatus(r, s),
         req[r].kind \in Settlers, tx[req[r].tx].type # "withdraw",
         HoldsTx(r) \/ TxFree(req[r].tx)
  PROVE  IInv'
<1>1. req[r].tx \in Txs /\ TypeOK
  BY DEF IInv, SettlerOK
<1>2. tx' \in [Txs -> TxType] /\ req' \in [Requests -> ReqType]
  BY <1>1, StatusEffect, FinishEffect DEF CommitStatus
<1>3. TypeOK'
  BY <1>2 DEF IInv, TypeOK, CommitStatus
<1> QED BY <1>3, SettlerCommits DEF CommitStatus

(* A settling request that goes on waiting for the user row. *)
LEMMA SettlerGoesOn ==
  ASSUME IInv, NEW r \in Requests, NEW rec \in ReqType,
         UNCHANGED <<balance, tx, ledger, order, gateway>>,
         delivered' \in [Txs -> Nat],
         req' = [req EXCEPT ![r] = rec],
         req[r].kind \in Settlers,
         rec.kind = req[r].kind, rec.tx = req[r].tx, rec.user = req[r].user,
         rec.kind = "admin" => rec.verdict = req[r].verdict,
         rec.pc \in {"provider", "commit"} => tx[rec.tx].type = "smm",
         \/ HoldsTx(r)
         \/ TxFree(rec.tx) /\ (rec.kind = "webhook" \/ tx[rec.tx].status = Pending)
  PROVE  IInv'
<1>1. TypeOK'
  BY DEF IInv, TypeOK
<1>2. req'[r] = rec /\ \A q \in Requests : q # r => req'[q] = req[q]
  BY DEF IInv, TypeOK
<1>3. /\ rec.tx \in Txs
      /\ tx[rec.tx].status # "none"
      /\ rec.user = tx[rec.tx].user
      /\ rec.kind # "admin" => tx[rec.tx].type # "withdraw"
      /\ rec.kind = "admin" => rec.verdict \in Final
  BY DEF IInv, SettlerOK
<1> QED BY <1>1, <1>2, <1>3, SettlerMoves

(* The webhook locks the row: it may be settled by now. *)
LEMMA WebhookLockTxStep ==
  ASSUME IInv, NEW r \in Requests, WebhookLockTx(r)
  PROVE  IInv'
<1>1. /\ req[r].kind \in Settlers /\ req[r].kind = "webhook"
      /\ req[r].pc \in InFlight /\ TxFree(req[r].tx)
      /\ tx[req[r].tx].type # "withdraw"
  BY DEF WebhookLockTx, InFlight, IInv, SettlerOK
<1>2. CASE SeenStatus(r) # Pending
  BY <1>1, <1>2, RollbackStep DEF WebhookLockTx
<1>3. CASE SeenStatus(r) = Pending /\ req[r].verdict = "rejected"
  BY <1>1, <1>3, CommitStatusStep DEF WebhookLockTx, Final
<1>4. CASE SeenStatus(r) = Pending /\ req[r].verdict # "rejected"
  <2> DEFINE rec == [req[r] EXCEPT !.pc = "lockUser"]
  <2>1. req' = [req EXCEPT ![r] = rec]
        /\ UNCHANGED <<balance, tx, ledger, order, delivered, gateway>>
    BY <1>4 DEF WebhookLockTx
  <2>2. req[r] \in ReqType
    BY DEF IInv, TypeOK
  <2>3. rec \in ReqType /\ rec.kind = req[r].kind /\ rec.tx = req[r].tx
        /\ rec.user = req[r].user /\ rec.pc = "lockUser"
    BY <2>2 DEF ReqType, InFlight
  <2>4. delivered' \in [Txs -> Nat]
    BY <2>1 DEF IInv, TypeOK
  <2> HIDE DEF rec
  <2> QED BY <1>1, <2>1, <2>3, <2>4, SettlerGoesOn
<1> QED BY <1>2, <1>3, <1>4

(* The status check locks the row when it first reads it. *)
LEMMA CheckLockTxStep ==
  ASSUME IInv, NEW r \in Requests, CheckLockTx(r)
  PROVE  IInv'
<1>1. /\ req[r].kind \in Settlers /\ req[r].kind = "check"
      /\ req[r].pc \in InFlight /\ TxFree(req[r].tx)
      /\ tx[req[r].tx].type # "withdraw"
  BY DEF CheckLockTx, InFlight, IInv, SettlerOK
<1>2. CASE Finish(r) /\ UNCHANGED <<balance, tx, ledger, order, delivered, gateway>>
  BY <1>1, <1>2, RollbackStep
<1>3. CASE CommitStatus(r, "rejected")
  BY <1>1, <1>3, CommitStatusStep DEF Final
<1> DEFINE rec == [req[r] EXCEPT !.pc = "lockUser", !.st = Pending, !.verdict = "approved"]
<1>4. CASE /\ SeenStatus(r) = Pending
           /\ req' = [req EXCEPT ![r] = rec]
           /\ UNCHANGED <<balance, tx, ledger, order, delivered, gateway>>
  <2>1. tx[req[r].tx].status = Pending
    BY <1>1, <1>4 DEF SeenStatus
  <2>2. req[r] \in ReqType
    BY DEF IInv, TypeOK
  <2>3. rec \in ReqType /\ rec.kind = req[r].kind /\ rec.tx = req[r].tx
        /\ rec.user = req[r].user /\ rec.pc = "lockUser"
    BY <2>2 DEF ReqType, InFlight, Final
  <2>4. delivered' \in [Txs -> Nat]
    BY <1>4 DEF IInv, TypeOK
  <2> HIDE DEF rec
  <2> QED BY <1>1, <1>4, <2>1, <2>3, <2>4, SettlerGoesOn
<1> QED BY <1>2, <1>3, <1>4 DEF CheckLockTx

(* The owner's settlement locks the row when it first reads it. *)
LEMMA AdminLockTxStep ==
  ASSUME IInv, NEW r \in Requests, AdminLockTx(r)
  PROVE  IInv'
<1>1. /\ req[r].kind \in Settlers /\ req[r].kind = "admin"
      /\ req[r].pc \in InFlight /\ TxFree(req[r].tx)
      /\ req[r].user = tx[req[r].tx].user /\ req[r].tx \in Txs
      /\ tx[req[r].tx].status # "none"
  BY DEF AdminLockTx, InFlight, IInv, SettlerOK
<1>2. CASE SeenStatus(r) # Pending
  BY <1>1, <1>2, RollbackStep DEF AdminLockTx
<1>3. CASE SeenStatus(r) = Pending
  <2> DEFINE rec == [req[r] EXCEPT !.pc = "lockUser", !.st = Pending,
                                   !.bal = balance[req[r].user]]
  <2>1. req' = [req EXCEPT ![r] = rec]
        /\ UNCHANGED <<balance, tx, ledger, order, delivered, gateway>>
    BY <1>3 DEF AdminLockTx
  <2>2. req[r] \in ReqType
    BY DEF IInv, TypeOK
  <2>3. balance[req[r].user] \in Nat
    BY <1>1 DEF IInv, TypeOK, TxOK
  <2>4. rec \in ReqType /\ rec.kind = req[r].kind /\ rec.tx = req[r].tx
        /\ rec.user = req[r].user /\ rec.pc = "lockUser"
        /\ rec.verdict = req[r].verdict
    BY <2>2, <2>3 DEF ReqType, InFlight
  <2>5. delivered' \in [Txs -> Nat]
    BY <2>1 DEF IInv, TypeOK
  <2>6. tx[req[r].tx].status = Pending
    BY <1>1, <1>3 DEF SeenStatus
  <2> HIDE DEF rec
  <2> QED BY <1>1, <2>1, <2>4, <2>5, <2>6, SettlerGoesOn
<1> QED BY <1>2, <1>3

(* The withdrawal is inserted and debited, or refused. *)
LEMMA WithdrawLockUserStep ==
  ASSUME IInv, NEW r \in Requests, WithdrawLockUser(r)
  PROVE  IInv'
<1> DEFINE t == req[r].tx
           u == req[r].user
           a == req[r].amount
           row == [type |-> "withdraw", user |-> u, amount |-> a, status |-> Pending]
<1>1. /\ req[r].kind = "withdraw" /\ req[r].pc \in InFlight
      /\ t \in Txs /\ u \in Users /\ a \in Amounts
      /\ tx[t].status = "none"
      /\ \A q \in Requests : q # r => req[q].tx # t
  BY DEF WithdrawLockUser, InFlight, IInv, WithdrawerOK
<1>2. Finish(r) /\ UNCHANGED <<order, delivered, gateway>>
  BY DEF WithdrawLockUser
<1>3. CASE UNCHANGED <<balance, tx, ledger>>
  BY <1>1, <1>2, <1>3, RollbackStep
<1>4. CASE /\ Debit(u, SeenBalance(r), a, t, "withdraw")
           /\ tx' = [tx EXCEPT ![t] = row]
  <2>1. req[r].bal \in Nat /\ a \in Nat
    <3>1. req[r] \in ReqType
      BY DEF IInv, TypeOK
    <3> QED BY <1>1, <3>1, AmountsAssumption DEF ReqType
  <2>2. SeenBalance(r) = req[r].bal
    BY <1>1 DEF SeenBalance
  <2>3. balance' \in [Users -> Nat]
    <3>1. req[r].bal - a \in Nat
      BY <1>4, <2>1, <2>2 DEF Debit
    <3> QED BY <1>1, <1>4, <2>2, <3>1 DEF Debit, IInv, TypeOK
  <2>4. /\ ledger' \in [Txs -> [Categories -> Nat]]
        /\ \A x \in Txs : x # t => ledger'[x] = ledger[x]
        /\ ledger'[t]["withdraw_refund"] = ledger[t]["withdraw_refund"]
        /\ ledger'[t]["withdraw"] = ledger[t]["withdraw"] + 1
    BY <1>1, <1>4, LedgerEffect DEF Debit, Categories, IInv
  <2>5. /\ req' \in [Requests -> ReqType]
        /\ \A q \in Requests : q # r => req'[q] = req[q]
        /\ req'[r].pc = "done"
        /\ req'[r].kind = "withdraw"
    BY <1>1, <1>2, FinishEffect DEF IInv
  <2>6. row \in TxType /\ row.type = "withdraw" /\ row.user = u /\ row.amount = a
        /\ row.status = Pending
    BY <1>1 DEF TxType
  <2> HIDE DEF row
  <2>7. tx' \in [Txs -> TxType] /\ tx'[t] = row /\ \A x \in Txs : x # t => tx'[x] = tx[x]
    BY <1>1, <1>4, <2>6 DEF IInv, TypeOK
  <2>8. TypeOK'
    BY <1>2, <2>3, <2>4, <2>5, <2>7 DEF IInv, TypeOK
  <2>9. TxOK'
    BY <1>1, <2>4, <2>6, <2>7 DEF IInv, TxOK, Pending
  <2>10. \A q \in Requests : q # r /\ req[q].tx \in Txs => tx'[req[q].tx] = tx[req[q].tx]
    BY <1>1, <2>7
  <2>11. SettlerOK'
    <3> SUFFICES ASSUME NEW q \in Requests
                 PROVE  SettlerOK!(q)'
      BY DEF SettlerOK
    <3>1. CASE q = r
      BY <3>1, <2>5 DEF InFlight
    <3>2. CASE q # r
      <4>1. req[q].kind \in Settlers \cup {"none", "withdraw"}
        BY KindInType DEF IInv
      <4> QED BY <3>2, <4>1, <2>5, <2>10 DEF IInv, SettlerOK, InFlight
    <3> QED BY <3>1, <3>2
  <2>12. WithdrawerOK'
    <3> SUFFICES ASSUME NEW q \in Requests, req'[q].kind = "withdraw", req'[q].pc \in InFlight
                 PROVE  WithdrawerOK!(q)!2'
      BY DEF WithdrawerOK
    <3>1. q # r /\ req'[q] = req[q]
      BY <2>5 DEF InFlight
    <3>2. WithdrawerOK!(q)!2
      BY <3>1 DEF IInv, WithdrawerOK
    <3>3. \A p \in Requests : req'[p].tx = req[p].tx
      BY <1>1, <1>2, FinishEffect DEF IInv
    <3> QED BY <3>1, <3>2, <3>3, <2>10
  <2>13. TxLockExclusive'
    BY <2>5 DEF IInv, TxLockExclusive, HoldsTx
  <2>14. FreshUnderLock'
    <3> SUFFICES ASSUME NEW q \in Requests, HoldsTx(q)', req'[q].kind # "webhook"
                 PROVE  tx'[req'[q].tx].status = Pending
      BY DEF FreshUnderLock
    <3>1. q # r /\ req'[q] = req[q] /\ HoldsTx(q)
      BY <2>5 DEF HoldsTx
    <3>2. req[q].tx \in Txs
      BY <3>1, HolderInTxs
    <3> QED BY <3>1, <3>2, <2>10 DEF IInv, FreshUnderLock
  <2>15. WithdrawalAccounted'
    <3>1. ledger[t]["withdraw"] = 0 /\ ledger[t]["withdraw_refund"] = 0
      BY <1>1 DEF IInv, TxOK
    <3>2. tx'[t].status # "rejected"
      BY <2>6, <2>7 DEF Pending
    <3> SUFFICES ASSUME NEW x \in Txs, tx'[x].type = "withdraw"
                 PROVE  WithdrawalAccounted!(x)!2'
      BY DEF WithdrawalAccounted
    <3>3. CASE x = t
      BY <3>1, <3>2, <3>3, <2>4
    <3>4. CASE x # t
      BY <3>4, <2>4, <2>7 DEF IInv, WithdrawalAccounted
    <3> QED BY <3>3, <3>4
  <2> QED BY <2>8, <2>9, <2>11, <2>12, <2>13, <2>14, <2>15 DEF IInv
<1> QED BY <1>3, <1>4 DEF WithdrawLockUser

(* The owner holds the lock of a pending withdrawal: it has not been       *)
(* refunded yet, so a rejection refunds it once.                           *)
LEMMA AdminSettleWithdrawStep ==
  ASSUME IInv, NEW r \in Requests, AdminSettleWithdraw(r)
  PROVE  IInv'
<1> DEFINE t == req[r].tx
           s == req[r].verdict
<1>1. /\ req[r].kind = "admin" /\ req[r].pc \in InFlight /\ HoldsTx(r)
      /\ t \in Txs /\ tx[t].type = "withdraw"
      /\ req[r].user = tx[t].user /\ tx[t].status # "none"
  BY DEF AdminSettleWithdraw, InFlight, IInv, SettlerOK, HoldsTx
<1>2. /\ tx[t].status = Pending
      /\ tx[t].user \in Users /\ tx[t].amount \in Amounts
      /\ ledger[t]["withdraw"] = 1 /\ ledger[t]["withdraw_refund"] = 0
  BY <1>1 DEF IInv, FreshUnderLock, TxOK, WithdrawalAccounted
<1>3. /\ Finish(r) /\ SetStatus(t, s) /\ UNCHANGED <<order, delivered, gateway>>
      /\ IF s = "rejected"
           THEN Credit(req[r].user, SeenBalance(r), tx[t].amount, t, "withdraw_refund")
           ELSE UNCHANGED <<balance, ledger>>
  BY DEF AdminSettleWithdraw
<1>4. req[r].bal \in Nat /\ SeenBalance(r) = req[r].bal /\ tx[t].amount \in Nat
  <2>1. req[r] \in ReqType
    BY DEF IInv, TypeOK
  <2> QED BY <1>1, <1>2, <2>1, AmountsAssumption DEF ReqType, SeenBalance
<1>5. s \in Final
  BY <1>1 DEF IInv, SettlerOK
<1>6. /\ \A q \in Requests : q # r => req'[q] = req[q]
      /\ req' \in [Requests -> ReqType]
      /\ req'[r].pc = "done"
      /\ req'[r].kind = req[r].kind
      /\ req'[r].tx = t
      /\ req'[r].user = req[r].user
      /\ req'[r].verdict = req[r].verdict
  BY <1>3, FinishEffect DEF IInv
<1>7. /\ tx' \in [Txs -> TxType]
      /\ \A x \in Txs : x # t => tx'[x] = tx[x]
      /\ tx'[t].status = s
      /\ tx'[t].type = tx[t].type
      /\ tx'[t].user = tx[t].user
      /\ tx'[t].amount = tx[t].amount
  BY <1>1, <1>3, <1>5, StatusEffect DEF IInv
<1>8. /\ balance' \in [Users -> Nat]
      /\ ledger' \in [Txs -> [Categories -> Nat]]
      /\ \A x \in Txs : x # t => ledger'[x] = ledger[x]
      /\ ledger'[t]["withdraw"] = 1
      /\ ledger'[t]["withdraw_refund"] = IF s = "rejected" THEN 1 ELSE 0
  <2>1. CASE s = "rejected"
    <3>1. Credit(req[r].user, req[r].bal, tx[t].amount, t, "withdraw_refund")
      BY <1>3, <1>4, <2>1
    <3>2. balance' \in [Users -> Nat]
      <4>1. req[r].bal + tx[t].amount \in Nat
        BY <1>4
      <4> QED BY <1>1, <1>2, <3>1, <4>1 DEF Credit, IInv, TypeOK
    <3>3. /\ ledger' \in [Txs -> [Categories -> Nat]]
          /\ \A x \in Txs : x # t => ledger'[x] = ledger[x]
          /\ ledger'[t]["withdraw"] = ledger[t]["withdraw"]
          /\ ledger'[t]["withdraw_refund"] = ledger[t]["withdraw_refund"] + 1
      BY <1>1, <3>1, LedgerEffect DEF Credit, Categories, IInv
    <3> QED BY <1>2, <2>1, <3>2, <3>3
  <2>2. CASE s # "rejected"
    BY <1>2, <1>3, <2>2 DEF IInv, TypeOK
  <2> QED BY <2>1, <2>2
<1> HIDE DEF t, s
<1>9. TypeOK'
  BY <1>3, <1>6, <1>7, <1>8 DEF IInv, TypeOK
<1>10. TxOK'
  BY <1>1, <1>2, <1>5, <1>7, <1>8 DEF IInv, TxOK, Final, Pending
<1>11. \A q \in Requests : req'[q].tx = req[q].tx /\ req'[q].kind = req[q].kind
  BY <1>6 DEF t
<1>12. SettlerOK'
  <2> SUFFICES ASSUME NEW q \in Requests
               PROVE  SettlerOK!(q)'
    BY DEF SettlerOK
  <2>1. req[q].kind \in Settlers \cup {"none", "withdraw"}
    BY KindInType DEF IInv
  <2>2. req[q].kind \in Settlers =>
          /\ req[q].tx \in Txs
          /\ tx'[req[q].tx].status # "none"
          /\ tx'[req[q].tx].type = tx[req[q].tx].type
          /\ tx'[req[q].tx].user = tx[req[q].tx].user
    BY <1>1, <1>5, <1>7 DEF IInv, SettlerOK, Final
  <2>3. CASE q = r
    BY <1>1, <1>6, <2>2, <2>3 DEF IInv, SettlerOK, InFlight, t
  <2>4. CASE q # r
    BY <1>6, <2>1, <2>2, <2>4 DEF IInv, SettlerOK, InFlight
  <2> QED BY <2>3, <2>4
<1>13. WithdrawerOK'
  <2> SUFFICES ASSUME NEW q \in Requests, req'[q].kind = "withdraw", req'[q].pc \in InFlight
               PROVE  WithdrawerOK!(q)!2'
    BY DEF WithdrawerOK
  <2>1. q # r /\ req'[q] = req[q]
    BY <1>6 DEF InFlight
  <2>2. WithdrawerOK!(q)!2
    BY <2>1 DEF IInv, WithdrawerOK
  <2>3. tx'[req[q].tx] = tx[req[q].tx]
    BY <1>1, <1>7, <2>2
  <2> QED BY <1>11, <2>1, <2>2, <2>3
<1>14. TxLockExclusive'
  BY <1>6 DEF IInv, TxLockExclusive, HoldsTx
<1>15. FreshUnderLock'
  <2> SUFFICES ASSUME NEW q \in Requests, HoldsTx(q)', req'[q].kind # "webhook"
               PROVE  tx'[req'[q].tx].status = Pending
    BY DEF FreshUnderLock
  <2>1. q # r /\ req'[q] = req[q] /\ HoldsTx(q)
    BY <1>6 DEF HoldsTx
  <2>2. req[q].tx # t
    BY <1>1, <2>1 DEF IInv, TxLockExclusive, t
  <2>3. req[q].tx \in Txs
    BY <2>1, HolderInTxs
  <2> QED BY <1>7, <2>1, <2>2, <2>3 DEF IInv, FreshUnderLock
<1>16. WithdrawalAccounted'
  BY <1>7, <1>8 DEF IInv, WithdrawalAccounted
<1> QED BY <1>9, <1>10, <1>12, <1>13, <1>14, <1>15, <1>16 DEF IInv

(* The owner rejects an invoice. *)
LEMMA AdminRejectInvoiceStep ==
  ASSUME IInv, NEW r \in Requests, AdminRejectInvoice(r)
  PROVE  IInv'
<1>1. /\ req[r].kind \in Settlers /\ HoldsTx(r)
      /\ tx[req[r].tx].type # "withdraw"
      /\ CommitStatus(r, "rejected")
  BY TypesAssumption DEF AdminRejectInvoice, HoldsTx
<1> QED BY <1>1, CommitStatusStep DEF Final

(* Who fulfils an invoice: a settling request, under the row lock. *)
LEMMA FulfilsFacts ==
  ASSUME IInv, NEW r \in Requests, NEW type \in {"topup", "subscription", "smm"},
         Fulfils(r, type)
  PROVE  /\ req[r].kind \in Settlers /\ HoldsTx(r)
         /\ tx[req[r].tx].type = type
         /\ SeenBalance(r) \in Nat
<1>1. req[r].kind \in Settlers \cup {"none", "withdraw"} /\ req[r].pc \in InFlight
  BY KindInType DEF IInv, Fulfils, InFlight
<1>2. req[r].kind # "withdraw"
  <2> SUFFICES ASSUME req[r].kind = "withdraw" PROVE FALSE
    OBVIOUS
  <2>1. req[r].tx \in Txs /\ tx[req[r].tx].status = "none"
    BY <1>1 DEF IInv, WithdrawerOK
  <2>2. tx[req[r].tx].type = "none"
    BY <2>1 DEF IInv, TxOK
  <2> QED BY <2>2 DEF Fulfils
<1>3. req[r].kind \in Settlers
  BY <1>1, <1>2 DEF IInv, SettlerOK
<1>4. SeenBalance(r) \in Nat
  <2>1. req[r] \in ReqType
    BY DEF IInv, TypeOK
  <2>2. req[r].bal \in Nat
    BY <2>1 DEF ReqType
  <2>3. req[r].user \in Users
    BY <1>3 DEF IInv, SettlerOK, TxOK
  <2> QED BY <2>2, <2>3 DEF SeenBalance, IInv, TypeOK
<1> QED BY <1>2, <1>3, <1>4 DEF Fulfils, HoldsTx

(* A commit that credits the invoice's amount to its user. *)
LEMMA CreditCommitStep ==
  ASSUME IInv, NEW r \in Requests, NEW c \in {"topup", "topup_fallback"}, NEW bal \in Nat,
         req[r].kind \in Settlers, HoldsTx(r), tx[req[r].tx].type # "withdraw",
         Credit(req[r].user, bal, tx[req[r].tx].amount, req[r].tx, c),
         SetStatus(req[r].tx, "approved"), Finish(r),
         order' \in [Txs -> {"none", "Awaiting Payment", "Pending", "Failed"}],
         delivered' \in [Txs -> Nat], gateway' = gateway
  PROVE  IInv'
<1> DEFINE t == req[r].tx
<1>1. /\ t \in Txs /\ TypeOK /\ req[r].user \in Users /\ tx[t].amount \in Amounts
      /\ "approved" \in Final
  BY DEF IInv, SettlerOK, TxOK, Final
<1>2. tx' \in [Txs -> TxType] /\ req' \in [Requests -> ReqType]
  BY <1>1, StatusEffect, FinishEffect
<1>3. /\ ledger' \in [Txs -> [Categories -> Nat]]
      /\ \A x \in Txs : x # t => ledger'[x] = ledger[x]
      /\ ledger'[t]["withdraw"] = ledger[t]["withdraw"]
      /\ ledger'[t]["withdraw_refund"] = ledger[t]["withdraw_refund"]
  BY <1>1, LedgerEffect DEF Credit, Categories
<1>4. bal + tx[t].amount \in Nat
  <2>1. tx[t].amount \in Nat
    BY <1>1, AmountsAssumption
  <2> QED BY <2>1, NatSum
<1>5. balance' \in [Users -> Nat]
  BY <1>1, <1>4 DEF Credit, TypeOK
<1>6. TypeOK'
  BY <1>1, <1>2, <1>3, <1>5 DEF TypeOK
<1>7. \A x \in Txs : /\ ledger'[x]["withdraw"] = ledger[x]["withdraw"]
                     /\ ledger'[x]["withdraw_refund"] = ledger[x]["withdraw_refund"]
  BY <1>3
<1> HIDE DEF t
<1> QED BY <1>1, <1>6, <1>7, SettlerCommits

(* A commit that delivers without a ledger entry. *)
LEMMA DeliverCommitStep ==
  ASSUME IInv, NEW r \in Requests,
         req[r].kind \in Settlers, HoldsTx(r), tx[req[r].tx].type # "withdraw",
         UNCHANGED <<balance, ledger>>,
         SetStatus(req[r].tx, "approved"), Finish(r),
         order' \in [Txs -> {"none", "Awaiting Payment", "Pending", "Failed"}],
         delivered' \in [Txs -> Nat], gateway' = gateway
  PROVE  IInv'
<1>1. req[r].tx \in Txs /\ TypeOK /\ "approved" \in Final
  BY DEF IInv, SettlerOK, Final
<1>2. tx' \in [Txs -> TxType] /\ req' \in [Requests -> ReqType]
  BY <1>1, StatusEffect, FinishEffect
<1>3. TypeOK'
  BY <1>1, <1>2 DEF TypeOK
<1> QED BY <1>1, <1>3, SettlerCommits

(* A paid top-up is credited. *)
LEMMA FulfilTopupStep ==
  ASSUME IInv, NEW r \in Requests, FulfilTopup(r)
  PROVE  IInv'
<1>1. /\ req[r].kind \in Settlers /\ HoldsTx(r) /\ tx[req[r].tx].type # "withdraw"
      /\ SeenBalance(r) \in Nat
  BY FulfilsFacts DEF FulfilTopup
<1>2. /\ order' \in [Txs -> {"none", "Awaiting Payment", "Pending", "Failed"}]
      /\ delivered' \in [Txs -> Nat] /\ gateway' = gateway
  BY DEF FulfilTopup, IInv, TypeOK
<1> QED BY <1>1, <1>2, CreditCommitStep DEF FulfilTopup

(* A paid subscription is activated, or credited instead. *)
LEMMA FulfilSubscriptionStep ==
  ASSUME IInv, NEW r \in Requests, FulfilSubscription(r)
  PROVE  IInv'
<1>1. /\ req[r].kind \in Settlers /\ HoldsTx(r) /\ tx[req[r].tx].type # "withdraw"
      /\ SeenBalance(r) \in Nat
  BY FulfilsFacts DEF FulfilSubscription
<1>2. /\ order' \in [Txs -> {"none", "Awaiting Payment", "Pending", "Failed"}]
      /\ delivered' \in [Txs -> Nat] /\ gateway' = gateway
  <2>1. req[r].tx \in Txs
    BY <1>1, HolderInTxs
  <2>0. delivered[req[r].tx] \in Nat
    BY <2>1 DEF IInv, TypeOK
  <2>2. delivered[req[r].tx] + 1 \in Nat
    BY <2>0, NatSum
  <2>3. delivered' \in [Txs -> Nat]
    BY <2>1, <2>2 DEF FulfilSubscription, IInv, TypeOK
  <2> QED BY <2>3 DEF FulfilSubscription, IInv, TypeOK
<1>3. SetStatus(req[r].tx, "approved") /\ Finish(r)
  BY DEF FulfilSubscription
<1>4. CASE UNCHANGED <<balance, ledger>>
  BY <1>1, <1>2, <1>3, <1>4, DeliverCommitStep
<1>5. CASE Credit(req[r].user, SeenBalance(r), tx[req[r].tx].amount, req[r].tx,
                  "topup_fallback")
  BY <1>1, <1>2, <1>3, <1>5, CreditCommitStep
<1> QED BY <1>4, <1>5 DEF FulfilSubscription

(* The provider is called under the locks. *)
LEMMA FulfilSmmCallStep ==
  ASSUME IInv, NEW r \in Requests, FulfilSmmCall(r)
  PROVE  IInv'
<1> DEFINE rec == [req[r] EXCEPT !.pc = "provider", !.bal = SeenBalance(r)]
<1>1. /\ req[r].kind \in Settlers /\ HoldsTx(r) /\ tx[req[r].tx].type = "smm"
      /\ SeenBalance(r) \in Nat
  BY FulfilsFacts DEF FulfilSmmCall
<1>2. req' = [req EXCEPT ![r] = rec]
      /\ UNCHANGED <<balance, tx, ledger, order, delivered, gateway>>
  BY DEF FulfilSmmCall
<1>3. req[r] \in ReqType
  BY DEF IInv, TypeOK
<1>4. rec \in ReqType /\ rec.kind = req[r].kind /\ rec.tx = req[r].tx
      /\ rec.user = req[r].user /\ rec.verdict = req[r].verdict
  BY <1>1, <1>3 DEF ReqType, InFlight
<1>5. delivered' \in [Txs -> Nat]
  BY <1>2 DEF IInv, TypeOK
<1> HIDE DEF rec
<1> QED BY <1>1, <1>2, <1>4, <1>5, SettlerGoesOn

(* Who waits for the provider. *)
LEMMA AtProvider ==
  ASSUME IInv, NEW r \in Requests, req[r].pc \in {"provider", "commit"}
  PROVE  /\ req[r].kind \in Settlers /\ HoldsTx(r) /\ req[r].tx \in Txs
         /\ tx[req[r].tx].type = "smm" /\ req[r].bal \in Nat
<1>1. req[r].kind \in Settlers \cup {"none", "withdraw"}
  BY KindInType DEF IInv
<1>2. /\ req[r].kind \in Settlers /\ tx[req[r].tx].type = "smm"
  BY <1>1 DEF IInv, SettlerOK, InFlight
<1>3. req[r] \in ReqType
  BY DEF IInv, TypeOK
<1>4. req[r].bal \in Nat
  BY <1>3 DEF ReqType
<1> QED BY <1>2, <1>4 DEF HoldsTx, IInv, SettlerOK

(* The provider's answer arrives, or does not. *)
LEMMA ProviderReplyStep ==
  ASSUME IInv, NEW r \in Requests, ProviderReply(r)
  PROVE  IInv'
<1>1. PICK reply \in Replies, accepted \in BOOLEAN :
        /\ req' = [req EXCEPT ![r] = [@ EXCEPT !.pc = "commit", !.reply = reply]]
        /\ delivered' = [delivered EXCEPT ![req[r].tx] = IF accepted THEN @ + 1 ELSE @]
  BY DEF ProviderReply
<1> DEFINE rec == [req[r] EXCEPT !.pc = "commit", !.reply = reply]
<1>2. /\ req[r].kind \in Settlers /\ HoldsTx(r) /\ tx[req[r].tx].type = "smm"
      /\ req[r].tx \in Txs
  BY AtProvider DEF ProviderReply
<1>3. req' = [req EXCEPT ![r] = rec] /\ UNCHANGED <<balance, tx, ledger, order, gateway>>
  BY <1>1 DEF ProviderReply
<1>4. req[r] \in ReqType
  BY DEF IInv, TypeOK
<1>5. rec \in ReqType /\ rec.kind = req[r].kind /\ rec.tx = req[r].tx
      /\ rec.user = req[r].user /\ rec.verdict = req[r].verdict
  BY <1>4, ReplyRecord
<1>6. delivered' \in [Txs -> Nat]
  <2> DEFINE n == IF accepted THEN delivered[req[r].tx] + 1 ELSE delivered[req[r].tx]
  <2>1. delivered[req[r].tx] \in Nat
    BY <1>2 DEF IInv, TypeOK
  <2>2. n \in Nat
    BY <2>1
  <2>3. delivered' = [delivered EXCEPT ![req[r].tx] = n]
    BY <1>1
  <2> HIDE DEF n
  <2> QED BY <1>2, <2>2, <2>3 DEF IInv, TypeOK
<1> HIDE DEF rec
<1> QED BY <1>2, <1>3, <1>5, <1>6, SettlerGoesOn

(* The order is stored, or refunded, and the invoice approved. *)
LEMMA FulfilSmmCommitStep ==
  ASSUME IInv, NEW r \in Requests, FulfilSmmCommit(r)
  PROVE  IInv'
<1>1. /\ req[r].kind \in Settlers /\ HoldsTx(r) /\ tx[req[r].tx].type # "withdraw"
      /\ req[r].tx \in Txs /\ req[r].bal \in Nat
  BY AtProvider DEF FulfilSmmCommit
<1>2. /\ order' \in [Txs -> {"none", "Awaiting Payment", "Pending", "Failed"}]
      /\ delivered' \in [Txs -> Nat] /\ gateway' = gateway
  BY <1>1 DEF FulfilSmmCommit, IInv, TypeOK
<1>3. SetStatus(req[r].tx, "approved") /\ Finish(r)
  BY DEF FulfilSmmCommit
<1>4. CASE UNCHANGED <<balance, ledger>>
  BY <1>1, <1>2, <1>3, <1>4, DeliverCommitStep
<1>5. CASE Credit(req[r].user, req[r].bal, tx[req[r].tx].amount, req[r].tx,
                  "topup_fallback")
  BY <1>1, <1>2, <1>3, <1>5, CreditCommitStep
<1> QED BY <1>4, <1>5 DEF FulfilSmmCommit

-----------------------------------------------------------------------------
(* The invariant is inductive. *)

(* The inductive invariant holds at the start. *)
LEMMA InitIInv == Init => IInv
<1> SUFFICES ASSUME Init PROVE IInv
  OBVIOUS
<1>1. NoTx \in TxType /\ NoTx.type = "none" /\ NoTx.status = "none"
  BY DEF NoTx, TxType
<1>2. NoReq \in ReqType /\ NoReq.kind = "none" /\ NoReq.pc = "idle"
  BY DEF NoReq, ReqType
<1>3. /\ tx = [t \in Txs |-> NoTx]
      /\ req = [r \in Requests |-> NoReq]
      /\ ledger = [t \in Txs |-> [c \in Categories |-> 0]]
  BY DEF Init
<1>4. TypeOK
  BY <1>1, <1>2 DEF Init, TypeOK
<1>5. TxOK
  BY <1>1, <1>3 DEF TxOK, Categories, Pending
<1>6. SettlerOK /\ WithdrawerOK /\ TxLockExclusive /\ FreshUnderLock
  BY <1>2, <1>3 DEF SettlerOK, WithdrawerOK, TxLockExclusive, FreshUnderLock, HoldsTx, InFlight
<1>7. WithdrawalAccounted
  BY <1>1, <1>3 DEF WithdrawalAccounted
<1> QED BY <1>4, <1>5, <1>6, <1>7 DEF IInv

(* Every step preserves it. *)
LEMMA NextIInv == IInv /\ [Next]_vars => IInv'
<1> SUFFICES ASSUME IInv, [Next]_vars PROVE IInv'
  OBVIOUS
<1>1. CASE UNCHANGED vars
  <2>1. TypeOK'
    BY <1>1 DEF vars, IInv, TypeOK
  <2> QED BY <1>1, <2>1, Frame DEF vars
<1>2. ASSUME NEW t \in Txs, NEW u \in Users, NEW a \in Amounts,
             RequestTopup(t, u, a) \/ CheckoutInvoice(t, u, a)
      PROVE  IInv'
  <2>1. order' \in [Txs -> {"none", "Awaiting Payment", "Pending", "Failed"}]
    BY <1>2 DEF RequestTopup, CheckoutInvoice, IInv, TypeOK
  <2> QED BY <1>2, <2>1, CreateStep DEF RequestTopup, CheckoutInvoice
<1>3. ASSUME NEW t \in Txs, NEW u \in Users, NEW a \in Amounts, OrderInvoice(t, u, a)
      PROVE  IInv'
  <2>1. order' \in [Txs -> {"none", "Awaiting Payment", "Pending", "Failed"}]
    BY <1>3 DEF OrderInvoice, IInv, TypeOK
  <2> QED BY <1>3, <2>1, CreateStep DEF OrderInvoice
<1>4. ASSUME NEW r \in Requests, Begin(r)
      PROVE  IInv'
  BY <1>4, DeliverWebhookStep, BeginCheckStep, BeginAdminStep, BeginWithdrawStep DEF Begin
<1>5. ASSUME NEW r \in Requests, Step(r)
      PROVE  IInv'
  BY <1>5, WebhookLockTxStep, CheckLockTxStep, AdminLockTxStep, WithdrawLockUserStep,
     AdminSettleWithdrawStep, AdminRejectInvoiceStep, FulfilTopupStep, FulfilSubscriptionStep,
     FulfilSmmCallStep, ProviderReplyStep, FulfilSmmCommitStep DEF Step
<1> QED BY <1>1, <1>2, <1>3, <1>4, <1>5, GatewayStep, AbortStep DEF Next, Create, Quiet

(* It holds in every reachable state. *)
LEMMA Invariance == Spec => []IInv
<1> QED BY InitIInv, NextIInv, PTL DEF Spec

(* Type correctness of the settlement model, in particular that no balance *)
(* ever becomes negative although debits check a copy of it.               *)
THEOREM TypeCorrect == Spec => []TypeOK
<1>1. IInv => TypeOK
  BY DEF IInv
<1> QED BY <1>1, Invariance, PTL

(* request_withdraw and admin_update_transaction_status: a withdrawal is   *)
(* debited once, and refunded once exactly when it is rejected, for any    *)
(* number of requests.                                                     *)
THEOREM WithdrawalsAreAccounted == Spec => []WithdrawalAccounted
<1>1. IInv => WithdrawalAccounted
  BY DEF IInv
<1> QED BY <1>1, Invariance, PTL

(* The status seen under the lock by the status check and by the owner is  *)
(* the committed one.                                                      *)
THEOREM LockedReadIsFresh == Spec => []FreshUnderLock
<1>1. IInv => FreshUnderLock
  BY DEF IInv
<1> QED BY <1>1, Invariance, PTL

-----------------------------------------------------------------------------
(* What invoices are worth, and which settlements may be repeated.        *)

OwnerApproved(t) ==
  \E r \in Requests : req[r].kind = "admin" /\ req[r].tx = t /\ req[r].verdict = "approved"

(* What an invoice has been credited and has delivered.  One that is not   *)
(* settled has been credited nothing, so whoever knows that it is pending   *)
(* credits it for the first time.                                          *)
InvoiceOK(t) ==
  /\ tx[t].status \notin Final => CreditsOf(t) = 0
  /\ ledger[t]["topup"] > 0 => gateway[t] = "paid" \/ OwnerApproved(t)
  /\ tx[t].type \in InvoiceTypes /\ tx[t].status = "approved" =>
       CreditsOf(t) + delivered[t] > 0
  /\ order[t] = "Failed" => ledger[t]["topup_fallback"] > 0
  /\ order[t] = "Pending" => delivered[t] > 0

(* What the verdict, the reply and the balance that a request carries are  *)
(* worth: the gateway saw the payment, the provider has the order, and a    *)
(* webhook that waits for the provider knows the balance of the user it     *)
(* has locked.                                                             *)
EvidenceOK(r) ==
  /\ req[r].pc = "idle" => req[r].kind = "none"
  /\ req[r].kind \in {"webhook", "check"} /\ req[r].verdict = "approved" =>
       gateway[req[r].tx] = "paid"
  /\ req[r].pc = "commit" /\ req[r].reply = "ok" => delivered[req[r].tx] > 0
  /\ req[r].kind = "webhook" /\ HoldsUser(r) => req[r].bal = balance[req[r].user]
  /\ req[r].kind = "webhook" /\ req[r].pc \in InFlight => req[r].st = Pending

(* Two requests never hold the row lock of the same user.                  *)
UserLockExclusive ==
  \A r, q \in Requests :
    HoldsUser(r) /\ HoldsUser(q) /\ req[r].user = req[q].user => r = q

CInv == /\ \A t \in Txs : InvoiceOK(t)
        /\ \A r \in Requests : EvidenceOK(r)
        /\ UserLockExclusive

-----------------------------------------------------------------------------
(* What a request was is remembered: it is used once. *)

Keeps(r) == /\ req'[r].kind = req[r].kind
            /\ req'[r].tx = req[r].tx
            /\ req'[r].kind = "admin" => req'[r].verdict = req[r].verdict

(* A delivery and an owner's approval stay on record. *)
LEMMA Remembered ==
  ASSUME CInv, NEW t \in Txs,
         \A q \in Requests : req[q].pc # "idle" => Keeps(q)
  PROVE  OwnerApproved(t) => OwnerApproved(t)'
<1>1. \A q \in Requests : req[q].kind # "none" => Keeps(q)
  BY DEF CInv, EvidenceOK
<1>3. ASSUME OwnerApproved(t) PROVE OwnerApproved(t)'
  <2>1. PICK q \in Requests : req[q].kind = "admin" /\ req[q].tx = t
                              /\ req[q].verdict = "approved"
    BY <1>3 DEF OwnerApproved
  <2>2. req'[q].kind = "admin" /\ req'[q].tx = t /\ req'[q].verdict = "approved"
    BY <1>1, <2>1 DEF Keeps
  <2> QED BY <2>2 DEF OwnerApproved
<1> QED BY <1>3

(* An invoice none of whose rows changes, while deliveries are counted. *)
LEMMA InvoiceStays ==
  ASSUME IInv, IInv', CInv, NEW t \in Txs,
         \A q \in Requests : req[q].pc # "idle" => Keeps(q),
         tx'[t] = tx[t], ledger'[t] = ledger[t], order'[t] = order[t],
         gateway[t] = "paid" => gateway'[t] = "paid",
         delivered'[t] >= delivered[t]
  PROVE  InvoiceOK(t)'
<1>1. InvoiceOK(t)
  BY DEF CInv
<1>2. /\ delivered[t] \in Nat /\ delivered'[t] \in Nat
      /\ ledger[t]["topup"] \in Nat /\ ledger[t]["topup_fallback"] \in Nat
  BY DEF IInv, TypeOK, Categories
<1>3. CreditsOf(t)' = CreditsOf(t) /\ CreditsOf(t) \in Nat
  BY <1>2 DEF CreditsOf
<1>4. OwnerApproved(t) => OwnerApproved(t)'
  BY Remembered
<1>5. /\ delivered[t] > 0 => delivered'[t] > 0
      /\ CreditsOf(t) + delivered[t] > 0 => CreditsOf(t) + delivered'[t] > 0
  BY <1>2, <1>3
<1> QED BY <1>1, <1>3, <1>4, <1>5 DEF InvoiceOK

(* What another request carries stays good while no request works on its   *)
(* user under its lock.                                                    *)
LEMMA EvidenceStays ==
  ASSUME IInv, IInv', CInv, NEW q \in Requests, req'[q] = req[q],
         \A t \in Txs : gateway[t] = "paid" => gateway'[t] = "paid",
         \A t \in Txs : delivered'[t] >= delivered[t],
         HoldsUser(q) => balance'[req[q].user] = balance[req[q].user]
  PROVE  EvidenceOK(q)'
<1>1. EvidenceOK(q)
  BY DEF CInv
<1>2. req[q].kind \in {"webhook", "check"} => req[q].tx \in Txs
  BY DEF IInv, SettlerOK
<1>3. req[q].pc = "commit" => req[q].tx \in Txs
  BY AtProvider
<1>4. \A t \in Txs : delivered[t] \in Nat /\ delivered'[t] \in Nat
  BY DEF IInv, TypeOK
<1>5. \A t \in Txs : delivered[t] > 0 => delivered'[t] > 0
  BY <1>4
<1> QED BY <1>1, <1>2, <1>3, <1>5 DEF EvidenceOK, HoldsUser

(* Who holds a user's row holds that of an existing user. *)
LEMMA UserHeld ==
  ASSUME IInv, NEW q \in Requests, HoldsUser(q)
  PROVE  req[q].user \in Users
<1>1. req[q].kind \in Settlers
  BY AtProvider DEF HoldsUser, Settlers
<1> QED BY <1>1 DEF IInv, SettlerOK, TxOK, Settlers

(* A request that moves, or ends without a commit. *)
LEMMA MovesKeep ==
  ASSUME IInv, IInv', CInv, NEW r \in Requests,
         UNCHANGED <<balance, tx, ledger, order, gateway>>,
         \A t \in Txs : delivered'[t] >= delivered[t],
         \A q \in Requests : q # r => req'[q] = req[q],
         req[r].pc # "idle" => Keeps(r),
         EvidenceOK(r)',
         HoldsUser(r)' => \/ HoldsUser(r) /\ req'[r].user = req[r].user
                          \/ UserFree(req'[r].user)
  PROVE  CInv'
<1>1. \A q \in Requests : req[q].pc # "idle" => Keeps(q)
  BY DEF Keeps
<1>2. \A t \in Txs : InvoiceOK(t)'
  BY <1>1, InvoiceStays
<1>3. \A q \in Requests : EvidenceOK(q)'
  BY EvidenceStays
<1>4. UserLockExclusive'
  BY DEF CInv, UserLockExclusive, HoldsUser, UserFree
<1> QED BY <1>2, <1>3, <1>4 DEF CInv

(* A request that commits, with the lock of the user whose balance it      *)
(* changes.                                                                *)
LEMMA CommitsKeep ==
  ASSUME IInv, IInv', CInv, NEW r \in Requests, NEW t \in Txs, req[r].tx = t,
         Finish(r), gateway' = gateway,
         \A x \in Txs : delivered'[x] >= delivered[x],
         \A x \in Txs : x # t => /\ tx'[x] = tx[x] /\ ledger'[x] = ledger[x]
                                 /\ order'[x] = order[x],
         InvoiceOK(t)',
         req[r].pc # "idle",
         \A u \in Users : u # req[r].user => balance'[u] = balance[u],
         balance' = balance \/ HoldsUser(r) \/ UserFree(req[r].user)
  PROVE  CInv'
<1>1. /\ \A q \in Requests : q # r => req'[q] = req[q]
      /\ req'[r].pc = "done" /\ req'[r].kind = req[r].kind /\ req'[r].tx = req[r].tx
      /\ req'[r].user = req[r].user /\ req'[r].verdict = req[r].verdict
  BY FinishEffect DEF IInv
<1>2. \A q \in Requests : req[q].pc # "idle" => Keeps(q)
  BY <1>1 DEF Keeps
<1>3. \A x \in Txs : InvoiceOK(x)'
  BY <1>2, InvoiceStays
<1>4. EvidenceOK(r)'
  BY <1>1 DEF CInv, EvidenceOK, HoldsUser, InFlight
<1>5. ASSUME NEW q \in Requests, q # r PROVE EvidenceOK(q)'
  <2>1. HoldsUser(q) => balance'[req[q].user] = balance[req[q].user]
    BY <1>5, UserHeld DEF CInv, UserLockExclusive, UserFree
  <2> QED BY <1>1, <1>5, <2>1, EvidenceStays
<1>6. UserLockExclusive'
  BY <1>1 DEF CInv, UserLockExclusive, HoldsUser
<1> QED BY <1>3, <1>4, <1>5, <1>6 DEF CInv

-----------------------------------------------------------------------------
(* Every action keeps it. *)

USE DEF Settlers

(* Nothing is delivered. *)
LEMMA NoDelivery ==
  ASSUME TypeOK, delivered' = delivered
  PROVE  \A t \in Txs : delivered'[t] >= delivered[t]
<1> SUFFICES ASSUME NEW t \in Txs PROVE delivered'[t] >= delivered[t]
  OBVIOUS
<1>1. delivered[t] \in Nat
  BY DEF TypeOK
<1> QED BY <1>1

(* A request that ends without a commit. *)
LEMMA RollbackKeeps ==
  ASSUME IInv, IInv', CInv, NEW r \in Requests, req[r].pc \in InFlight, Finish(r),
         UNCHANGED <<balance, tx, ledger, order, delivered, gateway>>
  PROVE  CInv'
<1>1. /\ \A q \in Requests : q # r => req'[q] = req[q]
      /\ req'[r].pc = "done" /\ req'[r].kind = req[r].kind /\ req'[r].tx = req[r].tx
      /\ req'[r].verdict = req[r].verdict
  BY FinishEffect DEF IInv
<1>2. EvidenceOK(r)' /\ Keeps(r)
  BY <1>1 DEF CInv, EvidenceOK, HoldsUser, Keeps, InFlight
<1>3. \A t \in Txs : delivered'[t] >= delivered[t]
  BY NoDelivery DEF IInv
<1> QED BY <1>1, <1>2, <1>3, MovesKeep DEF HoldsUser

(* A request that goes on with another record. *)
LEMMA GoesOnKeeps ==
  ASSUME IInv, IInv', CInv, NEW r \in Requests, NEW rec,
         req' = [req EXCEPT ![r] = rec],
         UNCHANGED <<balance, tx, ledger, order, delivered, gateway>>,
         req[r].pc # "idle" =>
           /\ rec.kind = req[r].kind /\ rec.tx = req[r].tx
           /\ rec.kind = "admin" => rec.verdict = req[r].verdict,
         rec.pc \in {"lockTx", "lockUser", "done"},
         rec.kind \in {"webhook", "check"} /\ rec.verdict = "approved" =>
           gateway[rec.tx] = "paid",
         rec.kind = "webhook" /\ rec.pc \in InFlight => rec.st = Pending
  PROVE  CInv'
<1>1. req'[r] = rec /\ \A q \in Requests : q # r => req'[q] = req[q]
  BY DEF IInv, TypeOK
<1>2. EvidenceOK(r)' /\ (req[r].pc # "idle" => Keeps(r))
  BY <1>1 DEF EvidenceOK, HoldsUser, Keeps
<1>3. \A t \in Txs : delivered'[t] >= delivered[t]
  BY NoDelivery DEF IInv
<1>4. ~HoldsUser(r)'
  BY <1>1 DEF HoldsUser
<1> QED BY <1>1, <1>2, <1>3, <1>4, MovesKeep

(* The first read of a request. *)
LEMMA BeginKeeps ==
  ASSUME IInv, IInv', CInv, NEW r \in Requests, Begin(r)
  PROVE  CInv'
<1>1. ASSUME NEW t \in Txs, DeliverWebhook(r, t) PROVE CInv'
  <2> DEFINE rec == [NoReq EXCEPT !.kind = "webhook", !.tx = t, !.user = tx[t].user,
                       !.verdict = VerdictOf(t),
                       !.st = IF tx[t].status = Pending THEN Pending ELSE "none",
                       !.pc = IF tx[t].status = Pending THEN "lockTx" ELSE "done"]
  <2>1. /\ rec.kind = "webhook" /\ rec.tx = t /\ rec.pc \in {"lockTx", "done"}
        /\ rec.verdict = "approved" => gateway[t] = "paid"
        /\ rec.pc \in InFlight => rec.st = Pending
    BY DEF NoReq, VerdictOf, InFlight
  <2>2. /\ req' = [req EXCEPT ![r] = rec] /\ req[r].pc = "idle"
        /\ UNCHANGED <<balance, tx, ledger, order, delivered, gateway>>
    BY <1>1 DEF DeliverWebhook
  <2> HIDE DEF rec
  <2> QED BY <2>1, <2>2, GoesOnKeeps
<1>2. ASSUME NEW t \in Txs, BeginCheck(r, t) PROVE CInv'
  <2> DEFINE rec == [NoReq EXCEPT !.kind = "check", !.tx = t, !.user = tx[t].user,
                       !.bal = balance[tx[t].user], !.pc = "lockTx"]
  <2>1. rec.kind = "check" /\ rec.pc = "lockTx" /\ rec.verdict = "none"
    BY DEF NoReq
  <2>2. /\ req' = [req EXCEPT ![r] = rec] /\ req[r].pc = "idle"
        /\ UNCHANGED <<balance, tx, ledger, order, delivered, gateway>>
    BY <1>2 DEF BeginCheck
  <2> HIDE DEF rec
  <2> QED BY <2>1, <2>2, GoesOnKeeps
<1>3. ASSUME NEW t \in Txs, BeginAdmin(r, t) PROVE CInv'
  <2>1. PICK v \in Final :
          req' = [req EXCEPT ![r] =
            [NoReq EXCEPT !.kind = "admin", !.tx = t, !.user = tx[t].user,
                          !.verdict = v, !.pc = "lockTx"]]
    BY <1>3 DEF BeginAdmin
  <2> DEFINE rec == [NoReq EXCEPT !.kind = "admin", !.tx = t, !.user = tx[t].user,
                       !.verdict = v, !.pc = "lockTx"]
  <2>2. rec.kind = "admin" /\ rec.pc = "lockTx"
    BY DEF NoReq
  <2>3. /\ req' = [req EXCEPT ![r] = rec] /\ req[r].pc = "idle"
        /\ UNCHANGED <<balance, tx, ledger, order, delivered, gateway>>
    BY <1>3, <2>1 DEF BeginAdmin
  <2> HIDE DEF rec
  <2> QED BY <2>2, <2>3, GoesOnKeeps
<1>4. ASSUME NEW t \in Txs, NEW u \in Users, NEW a \in Amounts, BeginWithdraw(r, t, u, a)
      PROVE  CInv'
  <2> DEFINE rec == [NoReq EXCEPT !.kind = "withdraw", !.tx = t, !.user = u, !.amount = a,
                       !.bal = balance[u], !.pc = "lockUser"]
  <2>1. rec.kind = "withdraw" /\ rec.pc = "lockUser"
    BY DEF NoReq
  <2>2. /\ req' = [req EXCEPT ![r] = rec] /\ req[r].pc = "idle"
        /\ UNCHANGED <<balance, tx, ledger, order, delivered, gateway>>
    BY <1>4 DEF BeginWithdraw
  <2> HIDE DEF rec
  <2> QED BY <2>1, <2>2, GoesOnKeeps
<1> QED BY <1>1, <1>2, <1>3, <1>4 DEF Begin

(* An invoice is rejected: nothing is credited for it. *)
LEMMA RejectKeeps ==
  ASSUME IInv, IInv', CInv, NEW r \in Requests, CommitStatus(r, "rejected"),
         req[r].kind \in Settlers, req[r].pc \in InFlight
  PROVE  CInv'
<1>1. PICK t \in Txs : t = req[r].tx
  BY DEF IInv, SettlerOK
<1>2. /\ Finish(r) /\ SetStatus(t, "rejected")
      /\ UNCHANGED <<balance, ledger, order, delivered, gateway>>
  BY <1>1 DEF CommitStatus
<1>3. /\ \A x \in Txs : x # t => tx'[x] = tx[x]
      /\ tx'[t].status = "rejected"
  BY <1>2, StatusEffect DEF IInv, Final
<1>4. \A q \in Requests : req[q].pc # "idle" => Keeps(q)
  BY <1>2, FinishEffect DEF IInv, Keeps
<1>5. InvoiceOK(t)'
  BY <1>2, <1>3, <1>4, Remembered DEF CInv, InvoiceOK, CreditsOf, Final
<1>6. \A x \in Txs : delivered'[x] >= delivered[x]
  BY <1>2, NoDelivery DEF IInv
<1> QED BY <1>1, <1>2, <1>3, <1>5, <1>6, CommitsKeep DEF InFlight

(* SELECT ... FOR UPDATE on the transaction. *)
LEMMA LockTxKeeps ==
  ASSUME IInv, IInv', CInv, NEW r \in Requests,
         WebhookLockTx(r) \/ CheckLockTx(r) \/ AdminLockTx(r)
  PROVE  CInv'
<1>0. req[r].pc \in InFlight /\ req[r].pc # "idle" /\ req[r].kind \in Settlers
      /\ req[r] \in ReqType
  BY DEF WebhookLockTx, CheckLockTx, AdminLockTx, InFlight, IInv, TypeOK
<1>1. CASE Finish(r) /\ UNCHANGED <<balance, tx, ledger, order, delivered, gateway>>
  BY <1>0, <1>1, RollbackKeeps
<1>2. CASE CommitStatus(r, "rejected")
  BY <1>0, <1>2, RejectKeeps
<1>3. ASSUME NEW rec, req' = [req EXCEPT ![r] = rec],
             rec.kind = req[r].kind, rec.tx = req[r].tx,
             rec.kind = "admin" => rec.verdict = req[r].verdict,
             rec.pc = "lockUser",
             UNCHANGED <<balance, tx, ledger, order, delivered, gateway>>,
             rec.kind \in {"webhook", "check"} /\ rec.verdict = "approved" =>
               gateway[rec.tx] = "paid",
             rec.kind = "webhook" => rec.st = Pending
      PROVE  CInv'
  BY <1>0, <1>3, GoesOnKeeps
<1>4. CASE WebhookLockTx(r) /\ req' = [req EXCEPT ![r] = [@ EXCEPT !.pc = "lockUser"]]
           /\ UNCHANGED <<balance, tx, ledger, order, delivered, gateway>>
  <2> DEFINE rec == [req[r] EXCEPT !.pc = "lockUser"]
  <2>1. rec.kind = req[r].kind /\ rec.tx = req[r].tx /\ rec.verdict = req[r].verdict
        /\ rec.pc = "lockUser" /\ rec.st = req[r].st
    BY <1>0 DEF ReqType
  <2>2. req' = [req EXCEPT ![r] = rec]
    BY <1>4
  <2> HIDE DEF rec
  <2>3. rec.kind \in {"webhook", "check"} /\ rec.verdict = "approved" =>
          gateway[rec.tx] = "paid"
    BY <2>1 DEF CInv, EvidenceOK
  <2>4. rec.kind = "webhook" => rec.st = Pending
    BY <1>0, <2>1 DEF CInv, EvidenceOK
  <2> QED BY <1>3, <2>4, <1>4, <2>1, <2>2, <2>3
<1>5. CASE CheckLockTx(r) /\ gateway[req[r].tx] = "paid"
           /\ req' = [req EXCEPT ![r] = [@ EXCEPT !.pc = "lockUser", !.st = Pending,
                                                  !.verdict = "approved"]]
           /\ UNCHANGED <<balance, tx, ledger, order, delivered, gateway>>
  <2> DEFINE rec == [req[r] EXCEPT !.pc = "lockUser", !.st = Pending, !.verdict = "approved"]
  <2>1. rec.kind = "check" /\ rec.kind = req[r].kind /\ rec.tx = req[r].tx
        /\ rec.pc = "lockUser"
    BY <1>0, <1>5 DEF ReqType, CheckLockTx
  <2>2. req' = [req EXCEPT ![r] = rec]
    BY <1>5
  <2> HIDE DEF rec
  <2> QED BY <1>3, <1>5, <2>1, <2>2
<1>6. CASE AdminLockTx(r)
           /\ req' = [req EXCEPT ![r] = [@ EXCEPT !.pc = "lockUser", !.st = Pending,
                                                  !.bal = balance[req[r].user]]]
           /\ UNCHANGED <<balance, tx, ledger, order, delivered, gateway>>
  <2> DEFINE rec == [req[r] EXCEPT !.pc = "lockUser", !.st = Pending,
                                   !.bal = balance[req[r].user]]
  <2>1. rec.kind = "admin" /\ rec.kind = req[r].kind /\ rec.tx = req[r].tx
        /\ rec.pc = "lockUser" /\ rec.verdict = req[r].verdict
    BY <1>0, <1>6 DEF ReqType, AdminLockTx
  <2>2. req' = [req EXCEPT ![r] = rec]
    BY <1>6
  <2> HIDE DEF rec
  <2> QED BY <1>3, <1>6, <2>1, <2>2
<1>7. CASE WebhookLockTx(r)
  BY <1>1, <1>2, <1>4, <1>7 DEF WebhookLockTx
<1>8. CASE CheckLockTx(r)
  BY <1>1, <1>2, <1>5, <1>8 DEF CheckLockTx
<1>9. CASE AdminLockTx(r)
  BY <1>1, <1>6, <1>9 DEF AdminLockTx
<1> QED BY <1>7, <1>8, <1>9

(* A withdrawal is requested: nothing is credited for it. *)
LEMMA WithdrawKeeps ==
  ASSUME IInv, IInv', CInv, NEW r \in Requests, WithdrawLockUser(r)
  PROVE  CInv'
<1>1. /\ req[r].kind = "withdraw" /\ req[r].pc \in InFlight /\ req[r].pc # "idle"
      /\ req[r].tx \in Txs /\ req[r].user \in Users /\ req[r].amount \in Amounts
      /\ tx[req[r].tx].status = "none"
      /\ UserFree(req[r].user) /\ Finish(r) /\ UNCHANGED <<order, delivered, gateway>>
  BY DEF WithdrawLockUser, InFlight, IInv, WithdrawerOK
<1>2. PICK t \in Txs : t = req[r].tx
  BY <1>1
<1>3. CASE UNCHANGED <<balance, tx, ledger>>
  BY <1>1, <1>3, RollbackKeeps
<1>4. CASE /\ Debit(req[r].user, SeenBalance(r), req[r].amount, req[r].tx, "withdraw")
           /\ tx' = [tx EXCEPT ![t] = [type |-> "withdraw", user |-> req[r].user,
                                       amount |-> req[r].amount, status |-> Pending]]
  <2> DEFINE row == [type |-> "withdraw", user |-> req[r].user,
                     amount |-> req[r].amount, status |-> Pending]
  <2>1. row.type = "withdraw" /\ row.status = Pending
    OBVIOUS
  <2>2. tx' = [tx EXCEPT ![t] = row]
    BY <1>4
  <2> HIDE DEF row
  <2>3. tx'[t] = row /\ \A x \in Txs : x # t => tx'[x] = tx[x]
    BY <2>2 DEF IInv, TypeOK
  <2>4. /\ \A x \in Txs : x # t => ledger'[x] = ledger[x]
        /\ ledger'[t]["topup"] = ledger[t]["topup"]
        /\ ledger'[t]["topup_fallback"] = ledger[t]["topup_fallback"]
    BY <1>2, <1>4, LedgerEffect DEF Debit, Categories, IInv
  <2>5. \A u \in Users : u # req[r].user => balance'[u] = balance[u]
    BY <1>4 DEF Debit, IInv, TypeOK
  <2>6. \A q \in Requests : req[q].pc # "idle" => Keeps(q)
    BY <1>1, FinishEffect DEF IInv, Keeps
  <2>7. tx'[t].status \notin Final /\ tx[t].status \notin Final /\ tx'[t].type \notin InvoiceTypes
    BY <1>1, <1>2, <2>1, <2>3, TypesAssumption DEF Final, Pending
  <2>8. InvoiceOK(t)'
    BY <1>1, <2>4, <2>6, <2>7, Remembered DEF CInv, InvoiceOK, CreditsOf
  <2>9. \A x \in Txs : delivered'[x] >= delivered[x]
    BY <1>1, NoDelivery DEF IInv
  <2>10. \A x \in Txs : x # t => tx'[x] = tx[x] /\ ledger'[x] = ledger[x] /\ order'[x] = order[x]
    BY <1>1, <2>3, <2>4
  <2> QED BY <1>1, <1>2, <2>5, <2>8, <2>9, <2>10, CommitsKeep
<1> QED BY <1>2, <1>3, <1>4 DEF WithdrawLockUser

(* The owner settles a withdrawal. *)
LEMMA SettleWithdrawKeeps ==
  ASSUME IInv, IInv', CInv, NEW r \in Requests, AdminSettleWithdraw(r)
  PROVE  CInv'
<1>1. /\ req[r].kind = "admin" /\ req[r].pc # "idle" /\ req[r].tx \in Txs
      /\ tx[req[r].tx].type = "withdraw" /\ req[r].verdict \in Final
      /\ UserFree(req[r].user) /\ Finish(r) /\ UNCHANGED <<order, delivered, gateway>>
      /\ SetStatus(req[r].tx, req[r].verdict)
  BY DEF AdminSettleWithdraw, IInv, SettlerOK
<1>2. PICK t \in Txs : t = req[r].tx
  BY <1>1
<1>3. /\ \A x \in Txs : x # t => tx'[x] = tx[x]
      /\ tx'[t].type = "withdraw" /\ tx'[t].status \in Final
  BY <1>1, <1>2, StatusEffect DEF IInv
<1>4. /\ \A x \in Txs : x # t => ledger'[x] = ledger[x]
      /\ ledger'[t]["topup"] = ledger[t]["topup"]
      /\ ledger'[t]["topup_fallback"] = ledger[t]["topup_fallback"]
      /\ \A u \in Users : u # req[r].user => balance'[u] = balance[u]
  <2>1. CASE req[r].verdict = "rejected"
    <3>1. Credit(req[r].user, SeenBalance(r), tx[t].amount, t, "withdraw_refund")
      BY <1>2, <2>1 DEF AdminSettleWithdraw
    <3>2. /\ \A x \in Txs : x # t => ledger'[x] = ledger[x]
          /\ ledger'[t]["topup"] = ledger[t]["topup"]
          /\ ledger'[t]["topup_fallback"] = ledger[t]["topup_fallback"]
      BY <3>1, LedgerEffect DEF Credit, Categories, IInv
    <3>3. \A u \in Users : u # req[r].user => balance'[u] = balance[u]
      BY <3>1 DEF Credit, IInv, TypeOK
    <3> QED BY <3>2, <3>3
  <2>2. CASE req[r].verdict # "rejected"
    BY <2>2 DEF AdminSettleWithdraw
  <2> QED BY <2>1, <2>2
<1>5. \A q \in Requests : req[q].pc # "idle" => Keeps(q)
  BY <1>1, FinishEffect DEF IInv, Keeps
<1>6. tx'[t].type \notin InvoiceTypes
  BY <1>3, TypesAssumption
<1>7. InvoiceOK(t)'
  BY <1>1, <1>3, <1>4, <1>5, <1>6, Remembered DEF CInv, InvoiceOK, CreditsOf
<1>8. \A x \in Txs : delivered'[x] >= delivered[x]
  BY <1>1, NoDelivery DEF IInv
<1>9. \A x \in Txs : x # t => tx'[x] = tx[x] /\ ledger'[x] = ledger[x] /\ order'[x] = order[x]
  BY <1>1, <1>3, <1>4
<1> QED BY <1>1, <1>2, <1>4, <1>7, <1>8, <1>9, CommitsKeep

(* The types of the numbers an invoice is worth. *)
LEMMA WorthInNat ==
  ASSUME TypeOK, TypeOK', NEW t \in Txs
  PROVE  /\ ledger[t]["topup"] \in Nat /\ ledger[t]["topup_fallback"] \in Nat
         /\ ledger'[t]["topup"] \in Nat /\ ledger'[t]["topup_fallback"] \in Nat
         /\ delivered[t] \in Nat /\ delivered'[t] \in Nat
<1>1. ledger[t] \in [Categories -> Nat] /\ delivered[t] \in Nat
  BY DEF TypeOK
<1>2. ledger'[t] \in [Categories -> Nat] /\ delivered'[t] \in Nat
  BY DEF TypeOK
<1> QED BY <1>1, <1>2 DEF Categories

(* A commit that credits: the first credit of the invoice, or a webhook's. *)
LEMMA CreditKeeps ==
  ASSUME IInv, IInv', CInv, NEW r \in Requests, NEW c \in {"topup", "topup_fallback"},
         NEW bal, req[r].kind \in Settlers, HoldsTx(r),
         c = "topup" => req[r].verdict = "approved",
         HoldsUser(r) \/ UserFree(req[r].user),
         Credit(req[r].user, bal, tx[req[r].tx].amount, req[r].tx, c),
         SetStatus(req[r].tx, "approved"), Finish(r),
         UNCHANGED <<delivered, gateway>>,
         \A x \in Txs : order'[x] = order[x] \/ (x = req[r].tx /\ order'[x] = "Failed"),
         order' = order \/ c = "topup_fallback"
  PROVE  CInv'
<1>0. TypeOK /\ TypeOK'
  BY DEF IInv
<1>1. PICK t \in Txs : t = req[r].tx
  BY HolderInTxs
<1>2. /\ \A x \in Txs : x # t => tx'[x] = tx[x]
      /\ tx'[t].status = "approved"
  BY <1>1, StatusEffect DEF IInv, Final
<1>3. /\ \A x \in Txs : x # t => ledger'[x] = ledger[x]
      /\ \A d \in Categories : d # c => ledger'[t][d] = ledger[t][d]
      /\ ledger'[t][c] = ledger[t][c] + 1
  <2>1. ledger' = [ledger EXCEPT ![t][c] = @ + 1]
    BY <1>1 DEF Credit
  <2>2. c \in Categories
    BY DEF Categories
  <2> QED BY <1>0, <2>1, <2>2, LedgerEffect
<1>4. \A u \in Users : u # req[r].user => balance'[u] = balance[u]
  BY DEF Credit, IInv, TypeOK
<1>5. /\ \A q \in Requests : req[q].pc # "idle" => Keeps(q)
      /\ req'[r].kind = req[r].kind /\ req'[r].tx = t /\ req'[r].verdict = req[r].verdict
  BY <1>1, FinishEffect DEF IInv, Keeps
<1>6. /\ ledger[t]["topup"] \in Nat /\ ledger[t]["topup_fallback"] \in Nat
      /\ ledger'[t]["topup"] \in Nat /\ ledger'[t]["topup_fallback"] \in Nat
      /\ delivered'[t] \in Nat
  BY <1>0, WorthInNat
<1>7. /\ CreditsOf(t)' = CreditsOf(t) + 1
      /\ c = "topup" => ledger'[t]["topup_fallback"] = ledger[t]["topup_fallback"]
      /\ c = "topup_fallback" => ledger'[t]["topup"] = ledger[t]["topup"]
      /\ c = "topup_fallback" => ledger'[t]["topup_fallback"] > 0
      /\ CreditsOf(t) \in Nat
  <2>1. CASE c = "topup"
    BY <1>3, <1>6, <2>1 DEF CreditsOf, Categories
  <2>2. CASE c = "topup_fallback"
    BY <1>3, <1>6, <2>2 DEF CreditsOf, Categories
  <2> QED BY <2>1, <2>2
<1>8. InvoiceOK(t)
  BY DEF CInv
<1>10. ledger'[t]["topup"] > 0 => gateway'[t] = "paid" \/ OwnerApproved(t)'
  <2>1. CASE c = "topup"
    <3>1. CASE req[r].kind = "admin"
      BY <1>5, <2>1, <3>1 DEF OwnerApproved
    <3>2. CASE req[r].kind # "admin"
      BY <1>1, <2>1, <3>2 DEF CInv, EvidenceOK
    <3> QED BY <3>1, <3>2
  <2>2. CASE c = "topup_fallback"
    BY <1>5, <1>7, <1>8, <2>2, Remembered DEF InvoiceOK
  <2> QED BY <2>1, <2>2
<1>11. CreditsOf(t)' + delivered'[t] > 0
  BY <1>6, <1>7
<1>12. order'[t] = "Failed" => ledger'[t]["topup_fallback"] > 0
  BY <1>1, <1>7, <1>8 DEF InvoiceOK
<1>13. order'[t] = "Pending" => delivered'[t] > 0
  BY <1>1, <1>8 DEF InvoiceOK
<1>14. InvoiceOK(t)'
  BY <1>2, <1>10, <1>11, <1>12, <1>13 DEF InvoiceOK, Final
<1>15. \A x \in Txs : delivered'[x] >= delivered[x]
  BY NoDelivery DEF IInv
<1>16. \A x \in Txs : x # t => tx'[x] = tx[x] /\ ledger'[x] = ledger[x] /\ order'[x] = order[x]
  BY <1>1, <1>2, <1>3
<1> QED BY <1>1, <1>4, <1>14, <1>15, <1>16, CommitsKeep DEF HoldsTx

(* A commit after a delivery. *)
LEMMA DeliveryKeeps ==
  ASSUME IInv, IInv', CInv, NEW r \in Requests, req[r].kind \in Settlers, HoldsTx(r),
         UNCHANGED <<balance, ledger, gateway>>,
         SetStatus(req[r].tx, "approved"), Finish(r),
         \A x \in Txs : delivered'[x] >= delivered[x],
         delivered'[req[r].tx] > 0,
         \A x \in Txs : order'[x] = order[x] \/ (x = req[r].tx /\ order'[x] = "Pending")
  PROVE  CInv'
<1>0. TypeOK /\ TypeOK'
  BY DEF IInv
<1>1. PICK t \in Txs : t = req[r].tx
  BY HolderInTxs
<1>2. /\ \A x \in Txs : x # t => tx'[x] = tx[x]
      /\ tx'[t].status = "approved"
  BY <1>1, StatusEffect DEF IInv, Final
<1>3. \A q \in Requests : req[q].pc # "idle" => Keeps(q)
  BY FinishEffect DEF IInv, Keeps
<1>4. /\ CreditsOf(t)' = CreditsOf(t) /\ CreditsOf(t) \in Nat /\ delivered'[t] \in Nat
  BY <1>0, WorthInNat DEF CreditsOf
<1>5. CreditsOf(t)' + delivered'[t] > 0
  BY <1>1, <1>4
<1>6. InvoiceOK(t)'
  BY <1>1, <1>2, <1>3, <1>4, <1>5, Remembered DEF CInv, InvoiceOK, Final
<1>7. \A x \in Txs : x # t => tx'[x] = tx[x] /\ ledger'[x] = ledger[x] /\ order'[x] = order[x]
  BY <1>1, <1>2
<1> QED BY <1>1, <1>6, <1>7, CommitsKeep DEF HoldsTx

(* What the actions that fulfil an invoice do. *)
LEMMA FulfilKeeps ==
  ASSUME IInv, IInv', CInv, NEW r \in Requests, FulfilTopup(r) \/ FulfilSubscription(r)
  PROVE  CInv'
<1>1. /\ req[r].kind \in Settlers /\ HoldsTx(r) /\ req[r].tx \in Txs
      /\ UserFree(req[r].user) /\ req[r].verdict = "approved"
  BY FulfilsFacts, HolderInTxs DEF FulfilTopup, FulfilSubscription, Fulfils
<1>2. CASE FulfilTopup(r)
  <2>1. /\ Credit(req[r].user, SeenBalance(r), tx[req[r].tx].amount, req[r].tx, "topup")
        /\ SetStatus(req[r].tx, "approved") /\ Finish(r)
        /\ UNCHANGED <<order, delivered, gateway>>
    BY <1>2 DEF FulfilTopup
  <2>2. \A x \in Txs : order'[x] = order[x]
    BY <2>1
  <2> QED BY <1>1, <2>1, <2>2, CreditKeeps
<1>3. CASE FulfilSubscription(r)
  <2>1. SetStatus(req[r].tx, "approved") /\ Finish(r) /\ UNCHANGED <<order, gateway>>
    BY <1>3 DEF FulfilSubscription
  <2>2. CASE /\ delivered' = [delivered EXCEPT ![req[r].tx] = @ + 1]
             /\ UNCHANGED <<balance, ledger>>
    <3>0. delivered \in [Txs -> Nat]
      BY DEF IInv, TypeOK
    <3>1. \A x \in Txs : delivered[x] \in Nat
      BY <3>0
    <3>2. /\ delivered'[req[r].tx] = delivered[req[r].tx] + 1
          /\ \A x \in Txs : x # req[r].tx => delivered'[x] = delivered[x]
      BY <1>1, <2>2, <3>0
    <3>3. /\ delivered'[req[r].tx] > 0
          /\ \A x \in Txs : delivered'[x] >= delivered[x]
      BY <1>1, <3>1, <3>2
    <3> QED BY <1>1, <2>1, <2>2, <3>3, DeliveryKeeps
  <2>3. CASE /\ Credit(req[r].user, SeenBalance(r), tx[req[r].tx].amount, req[r].tx,
                       "topup_fallback")
             /\ UNCHANGED delivered
    <3>1. \A x \in Txs : order'[x] = order[x]
      BY <2>1
    <3> QED BY <1>1, <2>1, <2>3, <3>1, CreditKeeps
  <2> QED BY <1>3, <2>2, <2>3 DEF FulfilSubscription
<1> QED BY <1>2, <1>3

(* The owner rejects an invoice. *)
LEMMA AdminRejectKeeps ==
  ASSUME IInv, IInv', CInv, NEW r \in Requests, AdminRejectInvoice(r)
  PROVE  CInv'
BY RejectKeeps DEF AdminRejectInvoice, InFlight

(* The provider is called: a webhook knows the balance it will write. *)
LEMMA SmmCallKeeps ==
  ASSUME IInv, IInv', CInv, NEW r \in Requests, FulfilSmmCall(r)
  PROVE  CInv'
<1> DEFINE rec == [req[r] EXCEPT !.pc = "provider", !.bal = SeenBalance(r)]
<1>1. /\ req[r].pc = "lockUser" /\ UserFree(req[r].user)
      /\ req' = [req EXCEPT ![r] = rec]
      /\ UNCHANGED <<balance, tx, ledger, order, delivered, gateway>>
  BY DEF FulfilSmmCall, Fulfils
<1>2. req[r] \in ReqType
  BY DEF IInv, TypeOK
<1>3. /\ rec.kind = req[r].kind /\ rec.tx = req[r].tx /\ rec.user = req[r].user
      /\ rec.verdict = req[r].verdict /\ rec.pc = "provider"
      /\ rec.bal = SeenBalance(r) /\ rec.st = req[r].st
  BY <1>2 DEF ReqType
<1> HIDE DEF rec
<1>4. req'[r] = rec /\ \A q \in Requests : q # r => req'[q] = req[q]
  BY <1>1 DEF IInv, TypeOK
<1>5. Keeps(r) /\ EvidenceOK(r)'
  BY <1>1, <1>3, <1>4 DEF Keeps, CInv, EvidenceOK, SeenBalance, InFlight
<1>6. \A t \in Txs : delivered'[t] >= delivered[t]
  BY <1>1, NoDelivery DEF IInv
<1> QED BY <1>1, <1>3, <1>4, <1>5, <1>6, MovesKeep

(* The provider's answer: an order it confirms exists. *)
LEMMA ReplyKeeps ==
  ASSUME IInv, IInv', CInv, NEW r \in Requests, ProviderReply(r)
  PROVE  CInv'
<1>1. PICK reply \in Replies, accepted \in BOOLEAN :
        /\ reply = "ok" => accepted
        /\ req' = [req EXCEPT ![r] = [@ EXCEPT !.pc = "commit", !.reply = reply]]
        /\ delivered' = [delivered EXCEPT ![req[r].tx] = IF accepted THEN @ + 1 ELSE @]
  BY DEF ProviderReply
<1> DEFINE rec == [req[r] EXCEPT !.pc = "commit", !.reply = reply]
<1>2. /\ req[r].pc = "provider" /\ req[r].tx \in Txs /\ HoldsUser(r)
      /\ UNCHANGED <<balance, tx, ledger, order, gateway>>
      /\ req' = [req EXCEPT ![r] = rec]
  BY <1>1, AtProvider DEF ProviderReply, HoldsUser
<1>3. req[r] \in ReqType
  BY DEF IInv, TypeOK
<1>4. /\ rec.kind = req[r].kind /\ rec.tx = req[r].tx /\ rec.user = req[r].user
      /\ rec.verdict = req[r].verdict /\ rec.pc = "commit"
      /\ rec.bal = req[r].bal /\ rec.reply = reply /\ rec.st = req[r].st
  BY <1>3 DEF ReqType
<1> HIDE DEF rec
<1>5. req'[r] = rec /\ \A q \in Requests : q # r => req'[q] = req[q]
  BY <1>2 DEF IInv, TypeOK
<1>6. /\ \A x \in Txs : delivered'[x] >= delivered[x]
      /\ reply = "ok" => delivered'[req[r].tx] > 0
  <2>1. \A x \in Txs : delivered[x] \in Nat
    BY DEF IInv, TypeOK
  <2>2. \A x \in Txs : x # req[r].tx => delivered'[x] = delivered[x]
    BY <1>1, <1>2 DEF IInv, TypeOK
  <2>3. CASE accepted
    <3>1. delivered'[req[r].tx] = delivered[req[r].tx] + 1
      BY <1>1, <1>2, <2>3 DEF IInv, TypeOK
    <3> QED BY <1>2, <2>1, <2>2, <3>1
  <2>4. CASE ~accepted
    <3>1. delivered'[req[r].tx] = delivered[req[r].tx]
      BY <1>1, <1>2, <2>4 DEF IInv, TypeOK
    <3>2. reply # "ok"
      BY <1>1, <2>4
    <3> QED BY <1>2, <2>1, <2>2, <3>1, <3>2
  <2> QED BY <2>3, <2>4
<1>7. EvidenceOK(r)
  BY DEF CInv
<1>8. Keeps(r) /\ EvidenceOK(r)'
  BY <1>2, <1>4, <1>5, <1>6, <1>7 DEF Keeps, EvidenceOK, InFlight
<1> QED BY <1>2, <1>4, <1>5, <1>6, <1>8, MovesKeep

(* The order is stored, or refunded. *)
LEMMA SmmCommitKeeps ==
  ASSUME IInv, IInv', CInv, NEW r \in Requests, FulfilSmmCommit(r)
  PROVE  CInv'
<1>1. /\ req[r].pc = "commit" /\ req[r].kind \in Settlers /\ HoldsTx(r) /\ HoldsUser(r)
      /\ req[r].tx \in Txs
      /\ SetStatus(req[r].tx, "approved") /\ Finish(r) /\ UNCHANGED <<delivered, gateway>>
  BY AtProvider DEF FulfilSmmCommit, HoldsUser
<1>2. order \in [Txs -> {"none", "Awaiting Payment", "Pending", "Failed"}]
  BY DEF IInv, TypeOK
<1>3. CASE req[r].reply = "ok"
  <2>1. order' = [order EXCEPT ![req[r].tx] = "Pending"] /\ UNCHANGED <<balance, ledger>>
    BY <1>3 DEF FulfilSmmCommit
  <2>2. \A x \in Txs : order'[x] = order[x] \/ (x = req[r].tx /\ order'[x] = "Pending")
    <3> TAKE x \in Txs
    <3> QED BY <1>2, <2>1
  <2>3. delivered'[req[r].tx] > 0
    BY <1>1, <1>3 DEF CInv, EvidenceOK
  <2>4. \A x \in Txs : delivered'[x] >= delivered[x]
    BY <1>1, NoDelivery DEF IInv
  <2> QED BY <1>1, <2>1, <2>2, <2>3, <2>4, DeliveryKeeps
<1>4. CASE req[r].reply # "ok"
  <2>1. Credit(req[r].user, req[r].bal, tx[req[r].tx].amount, req[r].tx, "topup_fallback")
    BY <1>4 DEF FulfilSmmCommit
  <2>2. order' = order \/ order' = [order EXCEPT ![req[r].tx] = "Failed"]
    <3>1. CASE req[r].reply = "failed"
      BY <3>1 DEF FulfilSmmCommit
    <3>2. CASE req[r].reply # "failed"
      BY <1>2, <1>4, <3>2 DEF FulfilSmmCommit
    <3> QED BY <3>1, <3>2
  <2>3. \A x \in Txs : order'[x] = order[x] \/ (x = req[r].tx /\ order'[x] = "Failed")
    <3> TAKE x \in Txs
    <3> QED BY <1>2, <2>2
  <2> QED BY <1>1, <2>1, <2>3, CreditKeeps
<1> QED BY <1>3, <1>4

(* A new invoice has been credited nothing. *)
LEMMA CreateKeeps ==
  ASSUME IInv, IInv', CInv, NEW t \in Txs, NEW u \in Users, NEW a \in Amounts, NEW type,
         CreateInvoice(t, type, u, a),
         order' = order \/ order' = [order EXCEPT ![t] = "Awaiting Payment"]
  PROVE  CInv'
<1>1. /\ UNCHANGED <<balance, ledger, delivered, gateway, req>> /\ tx[t].status = "none"
      /\ tx' = [tx EXCEPT ![t] = [type |-> type, user |-> u, amount |-> a,
                                  status |-> Pending]]
  BY DEF CreateInvoice, FreshId
<1>2. tx'[t].status = Pending /\ \A x \in Txs : x # t => tx'[x] = tx[x]
  BY <1>1 DEF IInv, TypeOK
<1>3. \A x \in Txs : x # t => order'[x] = order[x]
  BY DEF IInv, TypeOK
<1>4. order'[t] = order[t] \/ order'[t] = "Awaiting Payment"
  BY DEF IInv, TypeOK
<1>5. \A q \in Requests : Keeps(q)
  BY <1>1 DEF Keeps
<1>6. \A x \in Txs : delivered'[x] >= delivered[x]
  BY <1>1, NoDelivery DEF IInv
<1>7. \A x \in Txs : x # t => InvoiceOK(x)'
  BY <1>1, <1>2, <1>3, <1>5, <1>6, InvoiceStays
<1>8. InvoiceOK(t)'
  BY <1>1, <1>2, <1>4, <1>5, Remembered DEF CInv, InvoiceOK, CreditsOf, Final, Pending
<1>9. \A q \in Requests : EvidenceOK(q)'
  BY <1>1, <1>6, EvidenceStays
<1>10. UserLockExclusive'
  BY <1>1 DEF CInv, UserLockExclusive, HoldsUser
<1> QED BY <1>7, <1>8, <1>9, <1>10 DEF CInv

(* The gateway sees a payment, or lets the invoice expire. *)
LEMMA GatewayKeeps ==
  ASSUME IInv, IInv', CInv, NEW t \in Txs, GatewayResolve(t)
  PROVE  CInv'
<1>1. UNCHANGED <<balance, tx, ledger, order, delivered, req>>
  BY DEF GatewayResolve
<1>2. \A x \in Txs : gateway[x] = "paid" => gateway'[x] = "paid"
  BY DEF GatewayResolve, IInv, TypeOK
<1>3. \A q \in Requests : Keeps(q)
  BY <1>1 DEF Keeps
<1>4. \A x \in Txs : delivered'[x] >= delivered[x]
  BY <1>1, NoDelivery DEF IInv
<1>5. \A x \in Txs : InvoiceOK(x)'
  BY <1>1, <1>2, <1>3, <1>4, InvoiceStays
<1>6. \A q \in Requests : EvidenceOK(q)'
  BY <1>1, <1>2, <1>4, EvidenceStays
<1>7. UserLockExclusive'
  BY <1>1 DEF CInv, UserLockExclusive, HoldsUser
<1> QED BY <1>5, <1>6, <1>7 DEF CInv

-----------------------------------------------------------------------------
(* It is inductive. *)

(* It holds at the start. *)
LEMMA InitCInv == Init => CInv
<1> SUFFICES ASSUME Init PROVE CInv
  OBVIOUS
<1>1. /\ \A t \in Txs : /\ tx[t].status = "none" /\ ledger[t]["topup"] = 0
                        /\ ledger[t]["topup_fallback"] = 0 /\ order[t] = "none"
      /\ \A r \in Requests : /\ req[r].kind = "none" /\ req[r].pc = "idle"
  BY DEF Init, NoTx, NoReq, Categories
<1>2. \A t \in Txs : CreditsOf(t) = 0
  BY <1>1 DEF CreditsOf
<1>3. \A t \in Txs : InvoiceOK(t)
  BY <1>1, <1>2 DEF InvoiceOK, Final
<1>4. \A r \in Requests : EvidenceOK(r)
  BY <1>1 DEF EvidenceOK, HoldsUser
<1>5. UserLockExclusive
  BY <1>1 DEF UserLockExclusive, HoldsUser
<1> QED BY <1>3, <1>4, <1>5 DEF CInv

(* Every step keeps it, together with IInv. *)
LEMMA NextCInv == IInv /\ IInv' /\ CInv /\ [Next]_vars => CInv'
<1> SUFFICES ASSUME IInv, IInv', CInv, [Next]_vars PROVE CInv'
  OBVIOUS
<1>1. CASE UNCHANGED vars
  BY <1>1 DEF vars, CInv, InvoiceOK, CreditsOf, OwnerApproved, EvidenceOK,
              HoldsUser, UserLockExclusive
<1>2. ASSUME NEW t \in Txs, Create(t) PROVE CInv'
  BY <1>2, CreateKeeps DEF Create, RequestTopup, CheckoutInvoice, OrderInvoice
<1>3. ASSUME NEW r \in Requests, Step(r) PROVE CInv'
  BY <1>3, LockTxKeeps, WithdrawKeeps, SettleWithdrawKeeps, AdminRejectKeeps, FulfilKeeps,
     SmmCallKeeps, ReplyKeeps, SmmCommitKeeps DEF Step
<1>4. ASSUME NEW r \in Requests, Abort(r) PROVE CInv'
  BY <1>4, RollbackKeeps DEF Abort
<1> QED BY <1>1, <1>2, <1>3, <1>4, GatewayKeeps, BeginKeeps DEF Next, Quiet

(* Both hold in every reachable state. *)
LEMMA Invariants == Spec => [](IInv /\ CInv)
<1>1. Init => IInv /\ CInv
  BY InitIInv, InitCInv
<1>2. IInv /\ CInv /\ [Next]_vars => IInv' /\ CInv'
  BY NextIInv, NextCInv
<1> QED BY <1>1, <1>2, PTL DEF Spec

(* fulfill_wallet_transaction runs for a top-up only after the gateway saw *)
(* the payment or the owner approved it.                                   *)
THEOREM CreditsAreBacked == Spec => []CreditIsBacked
<1>1. CInv => CreditIsBacked
  BY DEF CInv, InvoiceOK, OwnerApproved, CreditIsBacked
<1> QED BY <1>1, Invariants, PTL

(* An approved invoice gave its buyer the money, the plan or the order,    *)
(* also if the provider refused, and however many settlements raced.       *)
THEOREM ApprovedInvoicesGiveValue == Spec => []ApprovedGivesValue
<1>1. IInv /\ CInv => ApprovedGivesValue
  BY DEF CInv, InvoiceOK, CreditsOf, ApprovedGivesValue
<1> QED BY <1>1, Invariants, PTL

-----------------------------------------------------------------------------
(* Steps. *)

(* A settled row is settled again only by an early reader. *)
StatusSettled ==
  \A t \in Txs : tx[t].status \in Final /\ tx'[t].status # tx[t].status =>
    CommitOfEarlyReader(t)

(* A commit under the row lock changes a pending row, or is a webhook's.   *)
LEMMA LockedCommitSettles ==
  ASSUME IInv, CInv, NEW r \in Requests, HoldsTx(r), NEW s \in Final,
         SetStatus(req[r].tx, s), Finish(r)
  PROVE  StatusSettled
<1>1. PICK t \in Txs : t = req[r].tx
  BY HolderInTxs
<1>2. \A x \in Txs : x # t => tx'[x] = tx[x]
  BY <1>1, StatusEffect DEF IInv
<1>3. req'[r].pc = "done"
  BY FinishEffect DEF IInv
<1>4. tx[t].status \in Final => CommitOfEarlyReader(t)
  BY <1>1, <1>3 DEF IInv, FreshUnderLock, CInv, EvidenceOK, CommitOfEarlyReader, HoldsTx,
                    InFlight, Final, Pending
<1> QED BY <1>2, <1>4 DEF StatusSettled

(* Every step settles as it should. *)
LEMMA StepSettles == IInv /\ CInv /\ [Next]_vars => StatusSettled
<1> SUFFICES ASSUME IInv, CInv, [Next]_vars PROVE StatusSettled
  OBVIOUS
<1>1. CASE tx' = tx
  BY <1>1 DEF StatusSettled
<1>2. ASSUME NEW t \in Txs, Create(t) PROVE StatusSettled
  <2>1. tx[t].status = "none" /\ \A x \in Txs : x # t => tx'[x] = tx[x]
    BY <1>2 DEF Create, RequestTopup, CheckoutInvoice, OrderInvoice, CreateInvoice, FreshId,
                IInv, TypeOK
  <2> QED BY <2>1 DEF StatusSettled, Final
<1>3. ASSUME NEW r \in Requests, WebhookLockTx(r) PROVE StatusSettled
  <2>1. CASE CommitStatus(r, "rejected")
    <3>1. PICK t \in Txs : t = req[r].tx
      BY <1>3 DEF WebhookLockTx, IInv, SettlerOK
    <3>2. \A x \in Txs : x # t => tx'[x] = tx[x]
      BY <2>1, <3>1, StatusEffect DEF CommitStatus, IInv, Final
    <3>3. req'[r].pc = "done"
      BY <2>1, FinishEffect DEF CommitStatus, IInv
    <3>4. CommitOfEarlyReader(t)
      BY <1>3, <3>1, <3>3 DEF WebhookLockTx, CommitOfEarlyReader, CInv, EvidenceOK, InFlight
    <3> QED BY <3>2, <3>4 DEF StatusSettled
  <2> QED BY <1>1, <1>3, <2>1 DEF WebhookLockTx
<1>4. ASSUME NEW r \in Requests, CheckLockTx(r) PROVE StatusSettled
  <2>1. CASE SeenStatus(r) = Pending /\ CommitStatus(r, "rejected")
    <3>1. PICK t \in Txs : t = req[r].tx
      BY <1>4 DEF CheckLockTx, IInv, SettlerOK
    <3>2. \A x \in Txs : x # t => tx'[x] = tx[x]
      BY <2>1, <3>1, StatusEffect DEF CommitStatus, IInv, Final
    <3>3. tx[t].status = Pending
      BY <1>4, <2>1, <3>1 DEF CheckLockTx, SeenStatus
    <3> QED BY <3>2, <3>3 DEF StatusSettled, Final, Pending
  <2> QED BY <1>1, <1>4, <2>1 DEF CheckLockTx
<1>5. ASSUME NEW r \in Requests, WithdrawLockUser(r) PROVE StatusSettled
  <2>1. PICK t \in Txs : t = req[r].tx /\ tx[t].status = "none"
    BY <1>5 DEF WithdrawLockUser, IInv, WithdrawerOK, InFlight
  <2>2. \A x \in Txs : x # t => tx'[x] = tx[x]
    BY <1>5, <2>1 DEF WithdrawLockUser, IInv, TypeOK
  <2> QED BY <2>1, <2>2 DEF StatusSettled, Final
<1>6. ASSUME NEW r \in Requests, AdminSettleWithdraw(r) \/ AdminRejectInvoice(r)
      PROVE  StatusSettled
  <2>1. HoldsTx(r) /\ req[r].verdict \in Final
    BY <1>6 DEF AdminSettleWithdraw, AdminRejectInvoice, HoldsTx, IInv, SettlerOK
  <2>2. SetStatus(req[r].tx, req[r].verdict) /\ Finish(r)
    BY <1>6 DEF AdminSettleWithdraw, AdminRejectInvoice, CommitStatus
  <2> QED BY <2>1, <2>2, LockedCommitSettles
<1>7. ASSUME NEW r \in Requests,
             FulfilTopup(r) \/ FulfilSubscription(r) \/ FulfilSmmCommit(r)
      PROVE  StatusSettled
  <2>1. SetStatus(req[r].tx, "approved") /\ Finish(r)
    BY <1>7 DEF FulfilTopup, FulfilSubscription, FulfilSmmCommit
  <2>2. HoldsTx(r)
    BY <1>7, FulfilsFacts, AtProvider DEF FulfilTopup, FulfilSubscription, FulfilSmmCommit
  <2> QED BY <2>1, <2>2, LockedCommitSettles DEF Final
<1>8. CASE \E t \in Txs : GatewayResolve(t)
  BY <1>1, <1>8 DEF GatewayResolve
<1>9. ASSUME NEW r \in Requests,
             Begin(r) \/ AdminLockTx(r) \/ FulfilSmmCall(r) \/ ProviderReply(r) \/ Abort(r)
      PROVE  StatusSettled
  BY <1>1, <1>9 DEF Begin, DeliverWebhook, BeginCheck, BeginAdmin, BeginWithdraw, AdminLockTx,
                    FulfilSmmCall, ProviderReply, Abort
<1> QED BY <1>1, <1>2, <1>3, <1>4, <1>5, <1>6, <1>7, <1>8, <1>9 DEF Next, Step, Quiet, vars

(* A settled transaction is settled again only by a webhook that read it   *)
(* while it was pending; status checks, the owner and new requests never   *)
(* reopen or turn it.                                                      *)
THEOREM SettledStaysSettled == Spec => SettledChangesOnlyByWebhook
<1>1. IInv /\ CInv /\ [Next]_vars =>
        [\A t \in Txs : tx[t].status \in Final /\ tx'[t].status # tx[t].status =>
           CommitOfEarlyReader(t)]_vars
  BY StepSettles DEF StatusSettled
<1> QED BY <1>1, Invariants, PTL DEF Spec, SettledChangesOnlyByWebhook

(* A step that raises the credits of an invoice. *)
CreditedAgain ==
  \A t \in Txs : CreditsOf(t) > 0 /\ CreditsOf(t)' > CreditsOf(t) =>
    tx[t].status \in Final /\ CommitOfEarlyReader(t)

(* A settlement that credits: it is the first one, or that of a webhook.   *)
LEMMA CreditAgain ==
  ASSUME IInv, IInv', CInv, NEW r \in Requests, NEW c \in {"topup", "topup_fallback"},
         NEW bal, req[r].kind \in Settlers, HoldsTx(r), Finish(r),
         Credit(req[r].user, bal, tx[req[r].tx].amount, req[r].tx, c)
  PROVE  CreditedAgain
<1>1. PICK t \in Txs : t = req[r].tx
  BY HolderInTxs
<1>2. TypeOK /\ c \in Categories
  BY DEF IInv, Categories
<1>3. \A x \in Txs : x # t => ledger'[x] = ledger[x]
  BY <1>1, <1>2, LedgerEffect DEF Credit
<1>4. \A x \in Txs : CreditsOf(x) \in Nat
  BY <1>2, WorthInNat DEF IInv, CreditsOf
<1>5. req'[r].pc = "done"
  BY FinishEffect DEF IInv
<1>6. ASSUME CreditsOf(t) > 0 PROVE tx[t].status \in Final /\ CommitOfEarlyReader(t)
  <2>1. CreditsOf(t) # 0
    BY <1>4, <1>6
  <2>2. tx[t].status \in Final
    BY <2>1 DEF CInv, InvoiceOK
  <2>3. req[r].kind = "webhook"
    BY <1>1, <2>2 DEF IInv, FreshUnderLock, Final, Pending
  <2>4. req[r].pc \in InFlight
    BY DEF HoldsTx, InFlight
  <2>5. req[r].st = Pending
    BY <2>3, <2>4 DEF CInv, EvidenceOK
  <2> QED BY <1>1, <1>5, <2>2, <2>3, <2>4, <2>5 DEF CommitOfEarlyReader
<1>7. \A x \in Txs : x # t => ~(CreditsOf(x)' > CreditsOf(x))
  BY <1>3, <1>4 DEF CreditsOf
<1> QED BY <1>6, <1>7 DEF CreditedAgain

(* Rows of the ledger about a withdrawal are no credits of an invoice. *)
LEMMA NoCreditAgain ==
  ASSUME TypeOK,
         \A x \in Txs : /\ ledger'[x]["topup"] = ledger[x]["topup"]
                        /\ ledger'[x]["topup_fallback"] = ledger[x]["topup_fallback"]
  PROVE  CreditedAgain
<1> SUFFICES ASSUME NEW t \in Txs PROVE ~(CreditsOf(t)' > CreditsOf(t))
  BY DEF CreditedAgain
<1>1. ledger[t] \in [Categories -> Nat]
  BY DEF TypeOK
<1>2. CreditsOf(t) \in Nat /\ CreditsOf(t)' = CreditsOf(t)
  BY <1>1 DEF CreditsOf, Categories
<1> QED BY <1>2

LEMMA StepCredits == IInv /\ IInv' /\ CInv /\ [Next]_vars => CreditedAgain
<1> SUFFICES ASSUME IInv, IInv', CInv, [Next]_vars PROVE CreditedAgain
  OBVIOUS
<1>1. CASE ledger' = ledger
  BY <1>1, NoCreditAgain DEF IInv
<1>2. ASSUME NEW r \in Requests, WithdrawLockUser(r) PROVE CreditedAgain
  <2>1. CASE ledger' = [ledger EXCEPT ![req[r].tx]["withdraw"] = @ + 1]
    <3>1. req[r].tx \in Txs
      BY <1>2 DEF WithdrawLockUser, IInv, WithdrawerOK, InFlight
    <3> QED BY <2>1, <3>1, LedgerEffect, NoCreditAgain DEF IInv, Categories
  <2> QED BY <1>1, <1>2, <2>1 DEF WithdrawLockUser, Debit
<1>3. ASSUME NEW r \in Requests, AdminSettleWithdraw(r) PROVE CreditedAgain
  <2>1. CASE ledger' = [ledger EXCEPT ![req[r].tx]["withdraw_refund"] = @ + 1]
    <3>1. req[r].tx \in Txs
      BY <1>3 DEF AdminSettleWithdraw, IInv, SettlerOK
    <3> QED BY <2>1, <3>1, LedgerEffect, NoCreditAgain DEF IInv, Categories
  <2> QED BY <1>1, <1>3, <2>1 DEF AdminSettleWithdraw, Credit
<1>4. ASSUME NEW r \in Requests, FulfilTopup(r) \/ FulfilSubscription(r) PROVE CreditedAgain
  <2>1. req[r].kind \in Settlers /\ HoldsTx(r) /\ Finish(r)
    BY <1>4, FulfilsFacts DEF FulfilTopup, FulfilSubscription
  <2>2. \/ ledger' = ledger
        \/ \E c \in {"topup", "topup_fallback"} :
             Credit(req[r].user, SeenBalance(r), tx[req[r].tx].amount, req[r].tx, c)
    BY <1>4 DEF FulfilTopup, FulfilSubscription
  <2> QED BY <1>1, <2>1, <2>2, CreditAgain
<1>5. ASSUME NEW r \in Requests, FulfilSmmCommit(r) PROVE CreditedAgain
  <2>1. req[r].kind \in Settlers /\ HoldsTx(r) /\ Finish(r)
    BY <1>5, AtProvider DEF FulfilSmmCommit
  <2> QED BY <1>1, <1>5, <2>1, CreditAgain DEF FulfilSmmCommit
<1>6. ASSUME NEW t \in Txs, Create(t) \/ GatewayResolve(t) PROVE CreditedAgain
  BY <1>1, <1>6 DEF Create, RequestTopup, CheckoutInvoice, OrderInvoice, CreateInvoice,
                    GatewayResolve
<1>7. ASSUME NEW r \in Requests,
             \/ Begin(r) \/ Abort(r)
             \/ WebhookLockTx(r) \/ CheckLockTx(r) \/ AdminLockTx(r)
             \/ AdminRejectInvoice(r) \/ FulfilSmmCall(r) \/ ProviderReply(r)
      PROVE  CreditedAgain
  BY <1>1, <1>7 DEF Begin, DeliverWebhook, BeginCheck, BeginAdmin, BeginWithdraw, Abort,
                    WebhookLockTx, CheckLockTx, AdminLockTx, AdminRejectInvoice, CommitStatus,
                    FulfilSmmCall, ProviderReply
<1> QED BY <1>1, <1>2, <1>3, <1>4, <1>5, <1>6, <1>7 DEF Next, Step, Quiet, vars

(* The re-check of the status under the row lock: whoever reads the status *)
(* with the lock, as the status check and the owner do, credits an invoice *)
(* once; a second credit is that of a webhook whose earlier read another   *)
(* settlement has overtaken.                                               *)
THEOREM CreditedTwiceNeedsWebhook == Spec => CreditedTwiceOnlyByWebhook
<1>1. IInv /\ IInv' /\ CInv /\ [Next]_vars =>
        [\A t \in Txs : CreditsOf(t) > 0 /\ CreditsOf(t)' > CreditsOf(t) =>
           tx[t].status \in Final /\ CommitOfEarlyReader(t)]_vars
  BY StepCredits DEF CreditedAgain
<1> QED BY <1>1, Invariants, PTL DEF Spec, CreditedTwiceOnlyByWebhook
=============================================================================
