---------------------------- MODULE OrderRefunds ----------------------------
(***************************************************************************)
(* Status refresh and refund of the SMM orders of one user.  The           *)
(* background poll loop, the administrator and the user himself (Web)      *)
(* refresh in sessions of their own.  A session reads a batch of order     *)
(* rows without a lock, asks the provider for their statuses, and applies  *)
(* the answers in one database transaction: an order that may be due a     *)
(* refund is locked and read again (populate_existing), then its user is   *)
(* locked and credited.  A flush writes only the columns whose value       *)
(* differs from the one the session loaded; the locking SELECT flushes     *)
(* first, the web requests flush after every order, all before COMMIT.     *)
(***************************************************************************)
EXTENDS Integers, FiniteSets

CONSTANTS
  NOrders,     \* orders the provider has accepted
  Sessions,    \* concurrent refreshes, each used again and again
  Loop,        \* the session of smm_orders_poll_loop
  Web,         \* sessions of the user's own requests: the User row is loaded first
  Price,       \* total_price of an order
  Quantity,    \* quantity of an order
  BatchLimit,  \* orders in a round of the poll loop
  Outcomes,    \* bound: statuses the provider's orders go through
  MayOmit,     \* may an answer of the provider lack "remains"?
  MaxAborts    \* bound: crashes and lost connections

ASSUME OrdersAssumption == NOrders \in Nat \ {0}
ASSUME SessionsAssumption == Loop \in Sessions /\ Web \subseteq Sessions \ {Loop}
ASSUME NumbersAssumption == Price \in Nat \ {0} /\ Quantity \in Nat \ {0} /\ BatchLimit \in Nat \ {0}
ASSUME RefundBoundsAssumption == Outcomes \subseteq {"Processing", "Completed", "Canceled", "Partial"}
                           /\ MayOmit \in BOOLEAN /\ MaxAborts \in Nat

Orders == 1..NOrders   \* primary keys

VARIABLES
  order,    \* orders: status, remains, is_refunded, refunded_amount
  credits,  \* wallet_ledgers: CREDIT rows per order
  repaid,   \* user.balance, what these refunds contribute to it
  panel,    \* the provider's view of each order
  ses,      \* the sessions
  aborts

refundVars == <<order, credits, repaid, panel, ses, aborts>>
written == <<order, credits, repaid>>

Active == {"Pending", "Processing"}
Terminal == {"Completed", "Canceled", "Partial"}   \* Error is treated as Canceled
Statuses == Active \cup Terminal

Null == -1
Remains == 0..Quantity
View == [status : Statuses, remains : Remains \cup {Null}]
NoView == [status |-> "none", remains |-> Null]
Row == [status : Statuses, remains : Remains \cup {Null}, refunded : BOOLEAN, amount : 0..Price]
NewRow == [status |-> "Pending", remains |-> Null, refunded |-> FALSE, amount |-> 0]

(* at: the order being refunded (0: none); seen: the rows as loaded; ans: *)
(* the provider's answers; left: orders not yet applied; held, user: row  *)
(* locks; bal: the session's copy of the balance; due: credits of the     *)
(* open transaction.                                                      *)
SesType == [pc : {"idle", "open", "lockOrder", "lockUser", "flush"}, at : Orders \cup {0},
            seen : [Orders -> Row], ans : [Orders -> View \cup {NoView}],
            left : SUBSET Orders, held : SUBSET Orders, user : BOOLEAN,
            bal : Nat, due : [Orders -> 0..Price]]

NoSes == [pc |-> "idle", at |-> 0, seen |-> [o \in Orders |-> NewRow],
          ans |-> [o \in Orders |-> NoView], left |-> {}, held |-> {},
          user |-> FALSE, bal |-> 0, due |-> [o \in Orders |-> 0]]

RefundTypeOK ==
  /\ order \in [Orders -> Row]
  /\ credits \in [Orders -> Nat]
  /\ repaid \in Nat
  /\ panel \in [Orders -> View]
  /\ ses \in [Sessions -> SesType]
  /\ aborts \in 0..MaxAborts

RefundInit ==
  /\ order = [o \in Orders |-> NewRow]
  /\ credits = [o \in Orders |-> 0]
  /\ repaid = 0
  /\ panel = [o \in Orders |-> [status |-> "Pending", remains |-> Quantity]]
  /\ ses = [s \in Sessions |-> NoSes]
  /\ aborts = 0

-----------------------------------------------------------------------------
(* The provider works on an order, and finishes it or gives it up. *)
PanelMoves(o) ==
  /\ panel[o].status \in Active
  /\ \E v \in [status : Outcomes, remains : 0..panel[o].remains] :
       /\ v.status = "Completed" => v.remains = 0
       /\ v.status = "Canceled" => v.remains = panel[o].remains
       /\ v # panel[o]
       /\ panel' = [panel EXCEPT ![o] = v]
  /\ UNCHANGED <<written, ses, aborts>>

-----------------------------------------------------------------------------
(* Choosing and asking *)

(* Mutant: only active orders are selected. *)
IsPolledActive(o) == order[o].status \in Active

(* Pending, Processing, In progress, or Partial and not refunded. *)
IsPolled(o) == order[o].status \in Active \/ (order[o].status = "Partial" /\ ~order[o].refunded)

Polled == {o \in Orders : IsPolled(o)}

(* orders_to_check[:batch_limit], of rows that come in no particular order. *)
LoopBatches == {S \in SUBSET Polled :
                  (S = Polled /\ Cardinality(S) <= BatchLimit) \/ Cardinality(S) = BatchLimit}

(* refresh_all_pending, refresh_all_pending_orders: every order to poll;  *)
(* refresh_order_status: any one order.                                   *)
Batches(s) == IF s = Loop THEN LoopBatches \ {{}}
              ELSE ({Polled} \ {{}}) \cup {{o} : o \in Orders}

BeginRefresh(s) ==
  /\ ses[s].pc = "idle"
  /\ \E S \in Batches(s) :
       ses' = [ses EXCEPT ![s] = [NoSes EXCEPT !.pc = "open", !.left = S,
                 !.seen = [o \in Orders |-> IF o \in S THEN order[o] ELSE NewRow],
                 !.bal = IF s \in Web THEN repaid ELSE 0]]
  /\ UNCHANGED <<written, panel, aborts>>

(* check_order_status, answered. *)
Ask(s, o) ==
  /\ ses[s].pc = "open" /\ o \in ses[s].left /\ ses[s].ans[o] = NoView
  /\ \E rem \in {panel[o].remains} \cup (IF MayOmit THEN {Null} ELSE {}) :
       ses' = [ses EXCEPT ![s].ans[o] = [panel[o] EXCEPT !.remains = rem]]
  /\ UNCHANGED <<written, panel, aborts>>

(* What follows an order: a web request flushes, and so does the last one. *)
After(s, left) == IF s \in Web \/ left = {} THEN "flush" ELSE "open"

(* check_order_status, failed: the order is left as it is. *)
AskFails(s, o) ==
  LET left == ses[s].left \ {o} IN
  /\ ses[s].pc = "open" /\ o \in ses[s].left /\ ses[s].ans[o] = NoView
  /\ ses' = [ses EXCEPT ![s] = [@ EXCEPT !.left = left, !.pc = After(s, left)]]
  /\ UNCHANGED <<written, panel, aborts>>

-----------------------------------------------------------------------------
(* Applying the answers *)

Applied(s) == {o \in Orders : ses[s].ans[o] # NoView /\ o \notin ses[s].left}

NewRemains(s, o) == IF ses[s].ans[o].remains = Null THEN ses[s].seen[o].remains
                    ELSE ses[s].ans[o].remains

(* Columns the session has changed. *)
StatusChanged(s, o) == ses[s].ans[o].status # ses[s].seen[o].status
RemainsChanged(s, o) == NewRemains(s, o) # ses[s].seen[o].remains

Dirty(s) == {o \in Applied(s) : StatusChanged(s, o) \/ RemainsChanged(s, o)}

(* The row as the transaction sees and leaves it. *)
Written(s, o) ==
  IF o \notin Applied(s) THEN order[o] ELSE
  [status   |-> IF StatusChanged(s, o) THEN ses[s].ans[o].status ELSE order[o].status,
   remains  |-> IF RemainsChanged(s, o) THEN NewRemains(s, o) ELSE order[o].remains,
   refunded |-> order[o].refunded \/ ses[s].due[o] > 0,
   amount   |-> IF ses[s].due[o] > 0 THEN ses[s].due[o] ELSE order[o].amount]

(* Mutant: canceled orders are left to a later clean-up. *)
EligiblePartial(s, o) == ~ses[s].seen[o].refunded /\ ses[s].ans[o].status = "Partial"

(* process_order_refund_if_eligible goes on only for these. *)
Eligible(s, o) == /\ ~ses[s].seen[o].refunded
                  /\ ses[s].ans[o].status \in {"Canceled", "Partial"}

(* The attributes of the order are set; a refund may follow. *)
Apply(s, o) ==
  LET left == ses[s].left \ {o} IN
  /\ ses[s].pc = "open" /\ o \in ses[s].left /\ ses[s].ans[o] # NoView
  /\ ses' = [ses EXCEPT ![s] = [@ EXCEPT !.left = left,
                 !.pc = IF Eligible(s, o) THEN "lockOrder" ELSE After(s, left),
                 !.at = IF Eligible(s, o) THEN o ELSE 0]]
  /\ UNCHANGED <<written, panel, aborts>>

(* The rows a session is about to lock, and the next of them: a flush     *)
(* goes by primary key, the locking SELECT comes last.                    *)
ToFlush(s) == IF ses[s].pc \in {"lockOrder", "flush"} THEN Dirty(s) \ ses[s].held ELSE {}
NextRow(s) == IF ToFlush(s) # {} THEN {CHOOSE o \in ToFlush(s) : \A p \in ToFlush(s) : o <= p}
              ELSE IF ses[s].pc = "lockOrder" THEN {ses[s].at} \ ses[s].held
              ELSE {}

(* Mutant: the user row is read without FOR UPDATE. *)
HasUserUnlocked(q) == ses[q].user /\ q \notin Sessions

HasRow(q, o) == o \in ses[q].held
HasUser(q) == ses[q].user

LockRow(s) ==
  \E o \in NextRow(s) :
    /\ \A q \in Sessions \ {s} : ~HasRow(q, o)
    /\ ses' = [ses EXCEPT ![s].held = @ \cup {o}]
    /\ UNCHANGED <<written, panel, aborts>>

RefundAmount(status, remains) ==
  IF status = "Canceled" THEN Price
  ELSE IF remains > 0 THEN (Price * remains) \div Quantity
  ELSE 0

(* Mutant: without populate_existing, is_refunded is the one loaded. *)
RefundedNowStale(s, o) == ses[s].seen[o].refunded

(* is_refunded after the locking SELECT. *)
RefundedNow(s, o) == order[o].refunded

DueNow(s) == RefundAmount(ses[s].ans[ses[s].at].status, Written(s, ses[s].at).remains)

(* The order is locked.  It has been refunded meanwhile, or nothing is    *)
(* due, or its user is to be credited.                                    *)
ReadOrder(s) ==
  LET none == RefundedNow(s, ses[s].at) \/ DueNow(s) = 0 IN
  /\ ses[s].pc = "lockOrder" /\ NextRow(s) = {}
  /\ ses' = [ses EXCEPT ![s] = [@ EXCEPT
                 !.pc = IF none THEN After(s, ses[s].left) ELSE "lockUser",
                 !.at = IF none THEN 0 ELSE ses[s].at]]
  /\ UNCHANGED <<written, panel, aborts>>

(* A User row the session has loaded before is not read again. *)
LoadedBalance(s) == IF s \in Web \/ ses[s].user THEN ses[s].bal ELSE repaid

CreditUser(s) ==
  /\ ses[s].pc = "lockUser"
  /\ \A q \in Sessions \ {s} : ~HasUser(q)
  /\ ses' = [ses EXCEPT ![s] = [@ EXCEPT !.pc = After(s, ses[s].left), !.at = 0, !.user = TRUE,
                 !.bal = LoadedBalance(s) + DueNow(s),
                 !.due = [ses[s].due EXCEPT ![ses[s].at] = DueNow(s)]]]
  /\ UNCHANGED <<written, panel, aborts>>

(* A web request goes on with its next order. *)
Flushed(s) ==
  /\ ses[s].pc = "flush" /\ NextRow(s) = {} /\ ses[s].left # {}
  /\ ses' = [ses EXCEPT ![s].pc = "open"]
  /\ UNCHANGED <<written, panel, aborts>>

Commit(s) ==
  /\ ses[s].pc = "flush" /\ NextRow(s) = {} /\ ses[s].left = {}
  /\ order' = [o \in Orders |-> Written(s, o)]
  /\ credits' = [o \in Orders |-> IF ses[s].due[o] > 0 THEN credits[o] + 1 ELSE credits[o]]
  /\ repaid' = IF ses[s].user THEN ses[s].bal ELSE repaid
  /\ ses' = [ses EXCEPT ![s] = NoSes]
  /\ UNCHANGED <<panel, aborts>>

-----------------------------------------------------------------------------
(* A crash, a lost connection or an error: the transaction is undone. *)
Abort(s) ==
  /\ ses[s].pc # "idle" /\ aborts < MaxAborts
  /\ aborts' = aborts + 1
  /\ ses' = [ses EXCEPT ![s] = NoSes]
  /\ UNCHANGED <<written, panel>>

WaitsFor(s, q) == /\ s # q
                  /\ \/ ses[s].pc = "lockUser" /\ HasUser(q)
                     \/ \E o \in NextRow(s) : HasRow(q, o)

(* PostgreSQL aborts one of the sessions that wait in a ring. *)
DeadlockVictim(s) ==
  /\ \E C \in SUBSET Sessions :
       /\ s \in C
       /\ \A p \in C : (\E q \in C : WaitsFor(p, q)) /\ (\E q \in C : WaitsFor(q, p))
  /\ ses' = [ses EXCEPT ![s] = NoSes]
  /\ UNCHANGED <<written, panel, aborts>>

Work(s) == \/ \E o \in Orders : Ask(s, o) \/ AskFails(s, o) \/ Apply(s, o)
           \/ LockRow(s) \/ ReadOrder(s) \/ CreditUser(s) \/ Flushed(s) \/ Commit(s)
           \/ DeadlockVictim(s)

RefundNext == \/ \E o \in Orders : PanelMoves(o)
        \/ \E s \in Sessions : BeginRefresh(s) \/ Work(s) \/ Abort(s)

(* A session that can move moves, PostgreSQL grants row locks in the      *)
(* order of the queue, the poll loop starts again every minute, and the   *)
(* provider asked again and again about an order answers, "remains"       *)
(* included.                                                              *)
RefundFairness ==
  /\ \A s \in Sessions : WF_refundVars(Work(s)) /\ SF_refundVars(LockRow(s)) /\ SF_refundVars(CreditUser(s))
  /\ WF_refundVars(BeginRefresh(Loop))
  /\ \A o \in Orders : SF_refundVars(Ask(Loop, o) /\ ses'[Loop].ans[o] = panel[o])

RefundSpec == RefundInit /\ [][RefundNext]_refundVars
RefundFairSpec == RefundSpec /\ RefundFairness

-----------------------------------------------------------------------------
(* Properties *)

(* No order is credited twice, and is_refunded says exactly which ones    *)
(* were credited, however the refreshes interleave                        *)
(* (process_order_refund_if_eligible).                                    *)
RefundedOnce == \A o \in Orders : credits[o] = IF order[o].refunded THEN 1 ELSE 0

(* A row that reads Canceled has been paid back in full: there is no      *)
(* later refresh that would do it, since canceled orders are not polled.  *)
CanceledIsRefunded ==
  \A o \in Orders : order[o].status = "Canceled" => order[o].refunded /\ order[o].amount = Price

(* A refund is due to the order, and no other order is open. *)
DueAlone(o) ==
  /\ panel[o].status \in {"Canceled", "Partial"} /\ RefundAmount(panel[o].status, panel[o].remains) > 0
  /\ \A p \in Orders \ {o} : order[p].status = "Completed"

(* An order the provider has canceled, or left partly done with something *)
(* to give back, is refunded in the end, through failed calls, crashes,   *)
(* deadlocks and stale answers written over newer ones, if it is the only *)
(* one: two sessions that refresh several orders in different orders may  *)
(* lose every deadlock to each other.                                     *)
CancelIsRefunded == \A o \in Orders : DueAlone(o) ~> order[o].refunded

(* What the orders of the user were paid back; a sum of amounts is the     *)
(* number of their units.                                                 *)
UnitsOf(amount) == {u \in Orders \X (1..Price) : u[2] <= amount[u[1]]}
Refunded == Cardinality(UnitsOf([o \in Orders |-> order[o].amount]))

(* A refresh that did not load the user beforehand raises the balance by  *)
(* exactly the refunds it commits, whoever else is at work on that user.  *)
CreditIsExact ==
  [][\A s \in Sessions \ Web : ses[s].pc # "idle" /\ ses'[s].pc = "idle"
       => repaid' - repaid = Refunded' - Refunded]_refundVars
=============================================================================
