-------------------------- MODULE OrderPlacement --------------------------
(***************************************************************************)
(* Placing SMM orders, one at a time or in a batch: the idempotency key    *)
(* kept in Redis, the debit committed before the provider is called, the   *)
(* calls, the refund of what the provider did not take, and the rows.      *)
(*                                                                         *)
(* get_current_user loads the User row at the start of the request; the    *)
(* row lock of the debit and of the refund does not refresh it, and        *)
(* expire_on_commit is off, so all three work on the same copy (req.bal).  *)
(* Every item costs 1.                                                     *)
(***************************************************************************)
EXTENDS Integers, FiniteSets

CONSTANTS
  Users,        \* rows of "user"
  Requests,     \* POST /orders and POST /orders/mass
  Keys,         \* values of X-Idempotency-Key
  MaxItems,     \* bound: items of a batch
  Wealth,       \* balance of every user at the start
  MaxExpiries,  \* bound: keys whose 60 seconds run out
  None          \* no key, no request

ASSUME ItemsAssumption == MaxItems \in Nat \ {0}
ASSUME WealthAssumption == Wealth \in Nat
ASSUME BoundsAssumption == MaxExpiries \in Nat
ASSUME NoneAssumption == None \notin Keys \cup Requests \cup Users
ASSUME RequestsAssumption == "none" \notin Requests /\ "PROCESSING" \notin Requests

Items == 1..MaxItems

VARIABLES
  balance,   \* user.balance
  debit,     \* wallet_ledgers: DEBIT of the request, category order_smm(_mass)
  refund,    \* wallet_ledgers: CREDIT of the request, category order_smm_refund
  rows,      \* orders: status of the rows the request inserted
  accepted,  \* items of the request the provider works on
  idem,      \* Redis: idempotency:order:<user>:<key>
  req,       \* the requests
  expiries   \* expired keys so far

vars == <<balance, debit, refund, rows, accepted, idem, req, expiries>>
store == <<balance, debit, refund, rows>>

InFlight == {"setnx", "getKey", "lockUser", "call", "refund", "store", "fail"}
Replies == {"ok", "failed", "exception"}

NoReq == [pc |-> "idle", mass |-> FALSE, user |-> None, key |-> None, n |-> 0,
          bal |-> 0, lock |-> FALSE, ok |-> {}, asked |-> 0, broken |-> FALSE]

ReqType == [pc : InFlight \cup {"idle", "done", "killed"}, mass : BOOLEAN,
            user : Users \cup {None}, key : Keys \cup {None}, n : 0..MaxItems,
            bal : Nat, lock : BOOLEAN, ok : SUBSET Items, asked : 0..MaxItems,
            broken : BOOLEAN]   \* the database failed it at or after its debit

TypeOK ==
  /\ balance \in [Users -> Nat]
  /\ debit \in [Requests -> 0..MaxItems]
  /\ refund \in [Requests -> 0..MaxItems]
  /\ rows \in [Requests -> [Items -> {"none", "Awaiting Payment", "Pending", "Failed"}]]
  /\ accepted \in [Requests -> SUBSET Items]
  /\ idem \in [Keys -> {"none", "PROCESSING"} \cup Requests]
  /\ req \in [Requests -> ReqType]
  /\ expiries \in 0..MaxExpiries

Init ==
  /\ balance = [u \in Users |-> Wealth]
  /\ debit = [r \in Requests |-> 0]
  /\ refund = [r \in Requests |-> 0]
  /\ rows = [r \in Requests |-> [i \in Items |-> "none"]]
  /\ accepted = [r \in Requests |-> {}]
  /\ idem = [k \in Keys |-> "none"]
  /\ req = [r \in Requests |-> NoReq]
  /\ expiries = 0

Goto(r, pc) == req' = [req EXCEPT ![r].pc = pc]

-----------------------------------------------------------------------------
(* api/orders.py: the idempotency key *)

(* A key, if the client sent one, is its user's own, and the two endpoints *)
(* keep theirs apart.                                                     *)
Begin(r, u, k, mass, n) ==
  /\ req[r].pc = "idle"
  /\ mass \/ n = 1
  /\ k # None => \A q \in Requests : req[q].key = k => req[q].user = u /\ req[q].mass = mass
  /\ req' = [req EXCEPT ![r] = [NoReq EXCEPT
       !.mass = mass, !.user = u, !.key = k, !.n = n, !.bal = balance[u],
       !.pc = IF k = None THEN "lockUser" ELSE "setnx"]]
  /\ UNCHANGED <<store, accepted, idem, expiries>>

(* Mutant: SET without NX. *)
VacantAlways(k) == idem[k] # None

Vacant(k) == idem[k] = "none"

(* SET NX EX 60, or 503 when Redis is away. *)
SetNx(r) ==
  LET k == req[r].key IN
  /\ req[r].pc = "setnx"
  /\ \/ /\ Vacant(k)
        /\ idem' = [idem EXCEPT ![k] = "PROCESSING"]
        /\ req' = [req EXCEPT ![r] = [@ EXCEPT !.pc = "lockUser", !.lock = TRUE]]
     \/ /\ ~Vacant(k)
        /\ Goto(r, "getKey")
        /\ UNCHANGED idem
     \/ /\ Goto(r, "done")
        /\ UNCHANGED idem
  /\ UNCHANGED <<store, accepted, expiries>>

(* 409 for an order in flight, the existing order for a finished one; a   *)
(* key that is gone by now lets the request through, without the lock.    *)
AfterGet(k) == IF idem[k] = "none" THEN "lockUser" ELSE "done"

(* GET, or 503 when Redis is away. *)
GetKey(r) ==
  /\ req[r].pc = "getKey"
  /\ \/ Goto(r, AfterGet(req[r].key))
     \/ Goto(r, "done")
  /\ UNCHANGED <<store, accepted, idem, expiries>>

(* SETEX with the order's identifier; a Redis error is only logged. *)
StoreResult(r) ==
  /\ req[r].pc = "store"
  /\ \/ req[r].lock /\ idem' = [idem EXCEPT ![req[r].key] = r]
     \/ UNCHANGED idem
  /\ Goto(r, "done")
  /\ UNCHANGED <<store, accepted, expiries>>

(* The error answer: the key is deleted, so that the client may retry. *)
Fail(r) ==
  /\ req[r].pc = "fail"
  /\ \/ req[r].lock /\ idem' = [idem EXCEPT ![req[r].key] = "none"]
     \/ UNCHANGED idem
  /\ Goto(r, "done")
  /\ UNCHANGED <<store, accepted, expiries>>

-----------------------------------------------------------------------------
(* place_order, place_mass_orders *)

(* The database fails, or the answer of a COMMIT is lost: `except Exception' *)
(* of the API frees the key and hands the error on.                       *)
Break(r) == req' = [req EXCEPT ![r].pc = "fail", ![r].broken = TRUE]

Affords(r) == req[r].bal >= req[r].n

(* FOR UPDATE, DEBIT and COMMIT, before any network call. *)
DebitUser(r) ==
  /\ req[r].pc = "lockUser"
  /\ Affords(r)
  /\ balance' = [balance EXCEPT ![req[r].user] = req[r].bal - req[r].n]
  /\ debit' = [debit EXCEPT ![r] = req[r].n]
  /\ \/ req' = [req EXCEPT ![r] = [@ EXCEPT !.pc = "call", !.bal = req[r].bal - req[r].n]]
     \/ Break(r)
  /\ UNCHANGED <<refund, rows, accepted, idem, expiries>>

(* Too little money, or another way to pay: an invoice and rows that wait *)
(* for its payment, or an error of the gateway or the database.           *)
InvoiceOrder(r) ==
  /\ req[r].pc = "lockUser"
  /\ \/ /\ rows' = [rows EXCEPT ![r] = [i \in Items |->
                      IF i <= req[r].n THEN "Awaiting Payment" ELSE "none"]]
        /\ Goto(r, "store")
     \/ /\ Goto(r, "fail")
        /\ UNCHANGED rows
  /\ UNCHANGED <<balance, debit, refund, accepted, idem, expiries>>

(* create_order for the next item: an accepted item may still be reported *)
(* as failed, when the answer is lost on the way.                         *)
CallProvider(r) ==
  LET i == req[r].asked + 1 IN
  /\ req[r].pc = "call" /\ i <= req[r].n
  /\ \E reply \in Replies, taken \in BOOLEAN :
       /\ reply = "ok" => taken
       /\ accepted' = [accepted EXCEPT ![r] = IF taken THEN @ \cup {i} ELSE @]
       /\ req' = [req EXCEPT ![r] = [@ EXCEPT !.asked = i,
                     !.ok = IF reply = "ok" THEN req[r].ok \cup {i} ELSE req[r].ok]]
  /\ UNCHANGED <<store, idem, expiries>>

(* The rows of a batch, or of the order that was taken. *)
Placed(r) == [i \in Items |-> IF i \in req[r].ok THEN "Pending"
                              ELSE IF i <= req[r].n /\ req[r].mass THEN "Failed"
                              ELSE "none"]

Called(r) == req[r].pc = "call" /\ req[r].asked = req[r].n

(* Everything was taken: the rows are committed. *)
CommitOrders(r) ==
  /\ Called(r) /\ Cardinality(req[r].ok) = req[r].n
  /\ rows' = [rows EXCEPT ![r] = Placed(r)]
  /\ Goto(r, "store") \/ Break(r)
  /\ UNCHANGED <<balance, debit, refund, accepted, idem, expiries>>

(* Mutant: a batch with one success keeps the money of its failures. *)
RefundDueAll(r) == IF req[r].ok = {} THEN req[r].n ELSE 0

(* total_cost - successful_cost *)
RefundDue(r) == req[r].n - Cardinality(req[r].ok)

(* FOR UPDATE, CREDIT of what was not taken, rows and COMMIT.  A single   *)
(* order ends in an error, a batch does not.                              *)
RefundUser(r) ==
  /\ Called(r) /\ Cardinality(req[r].ok) < req[r].n
  /\ balance' = [balance EXCEPT ![req[r].user] = req[r].bal + RefundDue(r)]
  /\ refund' = [refund EXCEPT ![r] = RefundDue(r)]
  /\ rows' = [rows EXCEPT ![r] = Placed(r)]
  /\ Goto(r, IF req[r].mass THEN "store" ELSE "fail") \/ Break(r)
  /\ UNCHANGED <<debit, accepted, idem, expiries>>

(* The rows or the refund cannot be written, and the debit is committed    *)
(* already.                                                               *)
CommitFails(r) ==
  /\ Called(r)
  /\ Break(r)
  /\ UNCHANGED <<store, accepted, idem, expiries>>

-----------------------------------------------------------------------------
(* The process is killed, or the client goes away and the task is         *)
(* cancelled: no handler runs, an open transaction is rolled back.        *)
Kill(r) ==
  /\ req[r].pc \in InFlight
  /\ Goto(r, "killed")
  /\ UNCHANGED <<store, accepted, idem, expiries>>

(* Mutant: a key is set without its EX. *)
TtlOverNever(k) == idem[k] = None

TtlOver(k) == idem[k] = "PROCESSING"

(* The 60 seconds of a PROCESSING key are over; a provider call alone may *)
(* take as long (httpx timeout 60).                                       *)
ExpireKey(k) ==
  /\ TtlOver(k) /\ expiries < MaxExpiries
  /\ idem' = [idem EXCEPT ![k] = "none"]
  /\ expiries' = expiries + 1
  /\ UNCHANGED <<store, accepted, req>>

Step(r) == \/ SetNx(r) \/ GetKey(r) \/ DebitUser(r) \/ InvoiceOrder(r)
           \/ CallProvider(r) \/ CommitOrders(r) \/ RefundUser(r)
           \/ CommitFails(r) \/ StoreResult(r) \/ Fail(r)

(* Nothing in flight: the server waits for the next request. *)
Quiet == /\ \A r \in Requests : req[r].pc \in {"idle", "done", "killed"}
         /\ UNCHANGED vars

Next == \/ \E r \in Requests :
             \/ \E u \in Users, k \in Keys \cup {None}, mass \in BOOLEAN, n \in Items :
                  Begin(r, u, k, mass, n)
             \/ Step(r)
             \/ Kill(r)
        \/ \E k \in Keys : ExpireKey(k)
        \/ Quiet

(* A request that can move moves, and Redis expires keys. *)
Fairness == /\ \A r \in Requests : WF_vars(Step(r))
            /\ \A k \in Keys : WF_vars(ExpireKey(k))

Spec == Init /\ [][Next]_vars
FairSpec == Spec /\ Fairness

-----------------------------------------------------------------------------
(* Properties *)

(* Charge of a request that has not been given back. *)
Net(r) == debit[r] - refund[r]

(* A request that has ended has charged exactly the items on record as     *)
(* Pending, batches with failed items included, unless it was killed or    *)
(* the database failed it after the debit: then all it charged stays, and  *)
(* nothing is on record (place_order, place_mass_orders).                  *)
ChargedForPending ==
  \A r \in Requests : req[r].pc = "done" =>
    LET pending == {i \in Items : rows[r][i] = "Pending"} IN
    \/ Net(r) = Cardinality(pending)
    \/ req[r].broken /\ Net(r) = req[r].n /\ pending = {}

(* Two requests with one key are both charged only if one of them slipped *)
(* in through a key that vanished between SET NX and GET, a key ran out    *)
(* while its request was still at work, or the database failed one after   *)
(* its debit, which frees the key.                                        *)
DoubleChargeNeedsGap ==
  \A r, q \in Requests :
    r # q /\ req[r].key = req[q].key /\ req[r].key # None /\ Net(r) > 0 /\ Net(q) > 0
      => expiries > 0 \/ ~req[r].lock \/ ~req[q].lock \/ req[r].broken \/ req[q].broken

(* A key does not stay PROCESSING for ever, whatever happened to the      *)
(* request that set it: the client can retry.                             *)
KeyIsFreed == \A k \in Keys : idem[k] = "PROCESSING" ~> idem[k] # "PROCESSING"
=============================================================================
