------------------------------ MODULE Checkout ------------------------------
(***************************************************************************)
(* Buying in the web front end, for one user and one tab: the pages that   *)
(* top up, subscribe, redeem, buy and sell accounts and order services,    *)
(* the invoice page that waits for a payment, the hooks they call and the  *)
(* queries those hooks refresh.  What a call does on the server is         *)
(* modelled in WalletSettlement, Marketplace and OrderPlacement; here it   *)
(* is one step.  A call and what its handler still has to do outlive the   *)
(* page that started them.                                                 *)
(***************************************************************************)
EXTENDS Integers, Sequences, QueryClient

CONSTANTS
  Calls,       \* requests that may be in flight at the same time
  Life,        \* ticks an invoice may be paid in
  PollPeriod,  \* ticks between two polls of the invoice page
  MaxBal, MaxInv, MaxClicks, MaxFaults

ASSUME CheckoutAssumption ==
  /\ {Life, PollPeriod, MaxBal, MaxInv, MaxClicks} \subseteq Nat \ {0} /\ MaxFaults \in Nat

VARIABLES
  srv,      \* the server: balance, plan, the account on sale, orders, voucher, invoices
  page,     \* where the tab is
  cur,      \* the invoice the page shows
  dlg,      \* the page's dialog: open, and the handler that holds it
  clock,    \* the invoice page's timers: timeLeft and the poll interval
  shownBal, \* user.balance of the auth store
  cache,    \* the QueryClient
  call,     \* the calls and their handlers
  off,      \* queries whose data no hook has promised to refresh
  clicks, faults

vars == <<srv, page, cur, dlg, clock, shownBal, cache, call, off, clicks, faults>>

Price == 1
Kinds == {"topup", "subscription", "marketplace", "smm"}
Statuses == {"none", "pending", "approved", "rejected"}
Queries == {"txs", "plan", "stock", "eligible"}
Pages == {"wallet", "subscriptions", "redeem", "buy", "sell", "order", "invoice"}

ServerType == [bal: 0..MaxBal, plan: BOOLEAN, acc: {"stock", "mine", "listed", "gone"},
               orders: 0..MaxInv + MaxClicks, voucher: BOOLEAN,
               inv: [1..MaxInv -> [kind: Kinds, st: Statuses, paid: BOOLEAN]]]
NoCall == [kind |-> "none", pc |-> "idle", ans |-> "none", arg |-> 0, mine |-> FALSE]
CallType == [kind: Kinds \cup {"none", "redeem", "sell", "check", "me"},
             pc: {"idle", "sent", "late", "answered", "me", "gotMe", "lists"},
             ans: {"none", "done", "invoice", "refused", "lost", "paid", "pending"},
             arg: 0..(MaxInv + MaxBal), mine: BOOLEAN]

(* What the server answers for each query. *)
Value(s, q) ==
  CASE q = "txs" -> [i \in 1..MaxInv |-> s.inv[i].st]
    [] q = "plan" -> s.plan
    [] q = "stock" -> s.acc = "stock"
    [] q = "eligible" -> s.acc = "mine"

Uses(p) == CASE p \in {"wallet", "invoice"} -> {"txs"}
             [] p = "subscriptions" -> {"plan", "txs"}
             [] p = "buy" -> {"stock"}
             [] p = "sell" -> {"eligible"}
             [] OTHER -> {}

ValueType(q) == IF q \in {"txs"} THEN [1..MaxInv -> Statuses] ELSE BOOLEAN

TypeOK ==
  /\ srv \in ServerType /\ page \in Pages /\ cur \in 0..MaxInv
  /\ dlg \in [open: BOOLEAN, busy: Calls \cup {"no"}]
  /\ clock \in [left: 0..Life, poll: 0..PollPeriod]
  /\ shownBal \in 0..MaxBal /\ call \in [Calls -> CallType] /\ off \subseteq Queries
  /\ DOMAIN cache = Queries /\ \A q \in Queries : cache[q] \in EntryType(ValueType(q))
  /\ clicks \in 0..MaxClicks /\ faults \in 0..MaxFaults

NoInvoice == [kind |-> "topup", st |-> "none", paid |-> FALSE]
Closed == [open |-> FALSE, busy |-> "no"]
Stopped == [left |-> 0, poll |-> PollPeriod]

Init ==
  /\ page \in Pages \ {"invoice"}
  /\ srv = [bal |-> 1, plan |-> FALSE, acc |-> IF page = "sell" THEN "mine" ELSE "stock",
            orders |-> 0, voucher |-> TRUE, inv |-> [i \in 1..MaxInv |-> NoInvoice]]
  /\ cur = 0 /\ dlg = Closed /\ clock = Stopped /\ shownBal = 1
  /\ cache = [q \in Queries |->
                IF q \in Uses(page) THEN Fetch(Unread(Value(srv, q))) ELSE Unread(Value(srv, q))]
  /\ call = [c \in Calls |-> NoCall] /\ off = {} /\ clicks = 0 /\ faults = MaxFaults

User == clicks < MaxClicks /\ clicks' = clicks + 1
(* MaxFaults bounds what goes wrong and what others do meanwhile. *)
Fault == faults > 0 /\ faults' = faults - 1
At(c, pc) == call[c].pc = pc
To(c, pc) == call' = [call EXCEPT ![c].pc = pc]
End(c) == call' = [call EXCEPT ![c] = NoCall]
Shown == Uses(page)

-----------------------------------------------------------------------------
(* The hooks: the queries their onSuccess invalidates *)

useRequestTopup == {"txs"}
useCheckoutSubscription == {"plan"}
useRedeemCode == {"plan"}
usePlaceOrder == {}
useBuyAccount == {"stock"}
(* Mutant: the hook leaves the list of what may be sold alone. *)
useSellAccountsStockOnly == {"stock"}
useSellAccounts == {"eligible", "stock"}
useCheckTopupStatus == {"txs", "stock", "eligible"}

Refreshes(kind) ==
  CASE kind = "topup" -> useRequestTopup
    [] kind = "subscription" -> useCheckoutSubscription
    [] kind = "redeem" -> useRedeemCode
    [] kind = "smm" -> usePlaceOrder
    [] kind = "marketplace" -> useBuyAccount
    [] kind = "sell" -> useSellAccounts
    [] kind = "check" -> useCheckTopupStatus
    [] OTHER -> {}

-----------------------------------------------------------------------------
(* The forms and dialogs *)

Free(c) == At(c, "idle") /\ \A d \in Calls : At(d, "idle") => c = CHOOSE x \in Calls : At(x, "idle")

(* A handler starts: its mutation, or its flag, disables the button. *)
Post(c, kind, arg) ==
  /\ User /\ Free(c) /\ dlg.busy = "no"
  /\ call' = [call EXCEPT ![c] = [kind |-> kind, pc |-> "sent", ans |-> "none", arg |-> arg, mine |-> TRUE]]
  /\ dlg' = [dlg EXCEPT !.busy = c]
  /\ UNCHANGED <<srv, page, cur, clock, shownBal, cache, off, faults>>

(* The wallet's top-up form: an amount in range and not submitting. *)
TopupForm(c) == page = "wallet" /\ Post(c, "topup", 0)

(* A plan's card opens the dialog unless the plan is the active one. *)
SelectPlan == page = "subscriptions" /\ ~(cache["plan"].has /\ cache["plan"].data)

(* The dialog pays from the balance when the store says it suffices, or   *)
(* by invoice.                                                             *)
PayPlan(c) ==
  /\ page = "subscriptions" /\ dlg.open
  /\ \/ shownBal >= Price /\ Post(c, "subscription", 1)
     \/ Post(c, "subscription", 0)

(* The voucher form, on its own page and in a dialog of the subscriptions. *)
RedeemForm(c) == page \in {"redeem", "subscriptions"} /\ Post(c, "redeem", 0)

SelectAccount == page = "buy" /\ cache["stock"].has /\ cache["stock"].data

ConfirmBuy(c) == page = "buy" /\ dlg.open /\ \E m \in {0, 1} : Post(c, "marketplace", m)

SelectForSale == page = "sell" /\ cache["eligible"].has /\ cache["eligible"].data

ConfirmSell(c) == page = "sell" /\ dlg.open /\ Post(c, "sell", 0)

SelectService == page = "order"

SubmitOrder(c) == page = "order" /\ dlg.open /\ \E m \in {0, 1} : Post(c, "smm", m)

OpenDialog ==
  /\ SelectPlan \/ SelectAccount \/ SelectForSale \/ SelectService
  /\ ~dlg.open /\ dlg' = [dlg EXCEPT !.open = TRUE]
  /\ UNCHANGED <<srv, page, cur, clock, shownBal, cache, call, off, clicks, faults>>

(* ConfirmDialog holds on while it is loading; the plain dialogs do not,  *)
(* and the order's dialog takes its mutation with it.                     *)
CloseDialog ==
  /\ User /\ dlg.open
  /\ page \in {"buy", "sell"} => dlg.busy = "no"
  /\ dlg' = [open |-> FALSE, busy |-> IF page = "order" THEN "no" ELSE dlg.busy]
  /\ UNCHANGED <<srv, page, cur, clock, shownBal, cache, call, off, faults>>

-----------------------------------------------------------------------------
(* The server's side of the calls *)

Pending(s) == {i \in 1..MaxInv : s.inv[i].st = "none"}

(* An invoice of the gateway; without one the call is refused. *)
Invoice(s, kind) ==
  IF Pending(s) = {} THEN [s |-> s, ans |-> "refused", i |-> 0]
  ELSE LET i == CHOOSE x \in Pending(s) : \A y \in Pending(s) : x <= y
       IN [s |-> [s EXCEPT !.inv[i] = [kind |-> kind, st |-> "pending", paid |-> FALSE]],
           ans |-> "invoice", i |-> i]

Done(s) == [s |-> s, ans |-> "done", i |-> 0]
Refused(s) == [s |-> s, ans |-> "refused", i |-> 0]

(* arg 1 pays from the balance when it suffices, and by invoice if not. *)
Subscribe(s, arg) ==
  IF arg = 1 /\ s.bal >= Price THEN Done([s EXCEPT !.bal = @ - Price, !.plan = TRUE])
  ELSE Invoice(s, "subscription")

Buy(s, arg) ==
  IF s.acc # "stock" THEN Refused(s)
  ELSE IF arg = 1 /\ s.bal >= Price THEN Done([s EXCEPT !.bal = @ - Price, !.acc = "mine"])
  ELSE Invoice(s, "marketplace")

Order(s, arg) ==
  IF arg = 1 /\ s.bal >= Price THEN Done([s EXCEPT !.bal = @ - Price, !.orders = @ + 1])
  ELSE Invoice(s, "smm")

(* A voucher is for balance or for a plan, and works once. *)
Redeem(s) == IF ~s.voucher THEN {Refused(s)}
             ELSE {Done([s EXCEPT !.voucher = FALSE, !.plan = TRUE])}
                  \cup {Done([s EXCEPT !.voucher = FALSE, !.bal = b + 1]) : b \in {s.bal} \cap 0..(MaxBal - 1)}

Sell(s) == IF s.acc = "mine" THEN Done([s EXCEPT !.acc = "listed"]) ELSE Refused(s)

(* settle: what a paid invoice was for; an account that is gone becomes   *)
(* balance.                                                               *)
Settled(s, i) ==
  LET t == [s EXCEPT !.inv[i].st = "approved"]
      credit == [t EXCEPT !.bal = IF @ < MaxBal THEN @ + 1 ELSE @]
  IN CASE s.inv[i].kind = "topup" -> credit
       [] s.inv[i].kind = "subscription" -> [t EXCEPT !.plan = TRUE]
       [] s.inv[i].kind = "smm" -> [t EXCEPT !.orders = @ + 1]
       [] s.inv[i].kind = "marketplace" -> IF s.acc = "stock" THEN [t EXCEPT !.acc = "mine"] ELSE credit

(* GET /wallet/topup/{id}/status settles an invoice the gateway has seen  *)
(* paid.                                                                   *)
Check(s, i) ==
  IF s.inv[i].st = "pending" /\ s.inv[i].paid THEN [s |-> Settled(s, i), ans |-> "paid", i |-> i]
  ELSE [s |-> s, ans |-> IF s.inv[i].st = "approved" THEN "paid" ELSE "pending", i |-> i]

Outcomes(s, k) ==
  CASE k.kind = "topup" -> {Invoice(s, "topup")}
    [] k.kind = "subscription" -> {Subscribe(s, k.arg)}
    [] k.kind = "marketplace" -> {Buy(s, k.arg)}
    [] k.kind = "smm" -> {Order(s, k.arg)}
    [] k.kind = "redeem" -> Redeem(s)
    [] k.kind = "sell" -> {Sell(s)}
    [] k.kind = "check" -> {Check(s, k.arg)}
    [] OTHER -> {}

(* The queries a change of the server falsifies. *)
Changed(s, t) == {q \in Queries : Value(s, q) # Value(t, q)}

(* What each hook says it refreshes when its call has succeeded, and the  *)
(* sale also when it has not.                                             *)
Promised(kind) ==
  CASE kind = "topup" -> {"txs"}
    [] kind = "subscription" -> {"plan"}
    [] kind = "redeem" -> {"plan"}
    [] kind = "marketplace" -> {"stock"}
    [] kind = "sell" -> {"eligible", "stock"}
    [] kind = "check" -> {"txs", "stock", "eligible"}
    [] OTHER -> {}

(* Paying a plan from the balance looks at no invoice: any answer is      *)
(* success to its handler.                                                *)
Seen(k, o) == IF k.kind = "subscription" /\ k.arg = 1 /\ o.ans = "invoice" THEN "done" ELSE o.ans

Answered(k, o) ==
  [k EXCEPT !.pc = "answered", !.ans = Seen(k, o), !.arg = IF o.ans = "invoice" THEN o.i ELSE k.arg]

(* The call is served and its answer arrives, or is lost on the way. *)
Serve(c) ==
  /\ At(c, "sent")
  /\ \E o \in Outcomes(srv, call[c]) :
       /\ srv' = o.s
       /\ \/ /\ call' = [call EXCEPT ![c] = Answered(call[c], o)]
             /\ off' = off \cup (Changed(srv, o.s) \ Promised(call[c].kind))
             /\ UNCHANGED faults
          \/ /\ Fault
             /\ call' = [call EXCEPT ![c] = [@ EXCEPT !.pc = "answered", !.ans = "lost"]]
             /\ off' = off \cup (Changed(srv, o.s) \ (IF call[c].kind = "sell" THEN Promised("sell") ELSE {}))
  /\ UNCHANGED <<page, cur, dlg, clock, shownBal, cache, clicks>>

(* The request never arrives; or a sale outlasts the 55 seconds its       *)
(* caller waits, and goes on.                                             *)
Lose(c) ==
  /\ At(c, "sent") /\ Fault
  /\ call' = [call EXCEPT ![c] = [@ EXCEPT !.pc = "answered", !.ans = "lost"]]
  /\ UNCHANGED <<srv, page, cur, dlg, clock, shownBal, cache, off, clicks>>

SaleTimesOut(c) ==
  /\ At(c, "sent") /\ call[c].kind = "sell" /\ Fault
  /\ \E d \in Calls \ {c} :
       /\ Free(d)
       /\ call' = [call EXCEPT ![c] = [@ EXCEPT !.pc = "answered", !.ans = "lost"],
                               ![d] = [call[c] EXCEPT !.pc = "late", !.mine = FALSE]]
  /\ UNCHANGED <<srv, page, cur, dlg, clock, shownBal, cache, off, clicks>>

LateSale(c) ==
  /\ At(c, "late")
  /\ srv' = Sell(srv).s
  /\ off' = off \cup Changed(srv, srv')
  /\ End(c)
  /\ UNCHANGED <<page, cur, dlg, clock, shownBal, cache, clicks, faults>>

(* The user pays at the bank or on the chain; the gateway calls back; an  *)
(* invoice nobody paid expires; somebody buys the account.                *)
Pay(i) ==
  /\ srv.inv[i].st = "pending" /\ ~srv.inv[i].paid
  /\ srv' = [srv EXCEPT !.inv[i].paid = TRUE]
  /\ UNCHANGED <<page, cur, dlg, clock, shownBal, cache, call, off, clicks, faults>>

Webhook(i) ==
  /\ Fault
  /\ srv.inv[i].st = "pending" /\ srv.inv[i].paid
  /\ srv' = Settled(srv, i)
  /\ off' = off \cup Changed(srv, srv')
  /\ UNCHANGED <<page, cur, dlg, clock, shownBal, cache, call, clicks>>

Expire(i) ==
  /\ Fault
  /\ srv.inv[i].st = "pending" /\ ~srv.inv[i].paid
  /\ srv' = [srv EXCEPT !.inv[i].st = "rejected"]
  /\ off' = off \cup Changed(srv, srv')
  /\ UNCHANGED <<page, cur, dlg, clock, shownBal, cache, call, clicks>>

OtherBuyer ==
  /\ Fault
  /\ srv.acc \in {"stock", "listed"}
  /\ srv' = [srv EXCEPT !.acc = "gone"]
  /\ off' = off \cup Changed(srv, srv')
  /\ UNCHANGED <<page, cur, dlg, clock, shownBal, cache, call, clicks>>

-----------------------------------------------------------------------------
(* What the handlers do with the answers *)

Release(c) == [dlg EXCEPT !.busy = IF @ = c THEN "no" ELSE @]

(* The end of the page's own check renders it, which restarts its poll. *)
Rendered(k) == IF k.kind = "check" /\ k.mine THEN [clock EXCEPT !.poll = PollPeriod] ELSE clock

(* router.push: the page that is left loses its dialog and its timers. *)
Arrive(p, i, old, before) ==
  /\ page' = p /\ cur' = i /\ dlg' = Closed /\ clock' = Stopped
  /\ cache' = MountAll(before, Uses(p) \ (IF p = page /\ i = cur THEN Uses(page) ELSE {}), old)

Invalidated(c) == InvalidateAll(cache, Refreshes(call[c].kind), Shown)
MissedBy(c) == off \cup Overtaken(cache, Refreshes(call[c].kind), Shown)

(* A refusal or an error: the toast, and the dialog stays; the sale       *)
(* refreshes all the same and closes when its outcome is unknown.         *)
HandleError(c) ==
  LET k == call[c] IN
  /\ At(c, "answered") /\ k.ans \in {"refused", "lost"}
  /\ \/ /\ k.kind = "sell"
        /\ cache' = Invalidated(c) /\ off' = MissedBy(c)
        /\ dlg' = IF k.ans = "lost" /\ k.mine THEN [Release(c) EXCEPT !.open = FALSE] ELSE Release(c)
     \/ k.kind # "sell" /\ dlg' = Release(c) /\ UNCHANGED <<cache, off>>
  /\ clock' = Rendered(k)
  /\ End(c)
  /\ UNCHANGED <<srv, page, cur, shownBal, clicks, faults>>

(* The answer holds an invoice: it is opened, wherever the user is by now. *)
OpenInvoice(c) ==
  LET k == call[c] IN
  /\ At(c, "answered") /\ k.ans = "invoice"
  /\ off' = MissedBy(c)
  /\ \E old \in BOOLEAN : Arrive("invoice", k.arg, old, Invalidated(c))
  /\ call' = [d \in Calls |-> IF d = c THEN NoCall ELSE [call[d] EXCEPT !.mine = FALSE]]
  /\ UNCHANGED <<srv, shownBal, clicks, faults>>

Shut(c) == [Release(c) EXCEPT !.open = FALSE]

(* What the handlers do to the dialog on success.  Setting the state of a *)
(* page that is gone changes nothing, but an order closes whatever dialog *)
(* the order page has open by then.                                       *)
handleCheckoutWithBalance(c) == IF call[c].mine THEN Shut(c) ELSE Release(c)
handleRedeemSubmit(c) == IF call[c].mine THEN Shut(c) ELSE Release(c)
handleSellConfirm(c) == IF call[c].mine THEN Shut(c) ELSE Release(c)
handleBuyConfirm(c) == Release(c)
handleSubmitOrder(c) == IF page = "order" THEN Closed ELSE Release(c)

(* The purchase is done.  All but the order then ask for the user, and    *)
(* the button is free again while they wait.                              *)
HandleDone(c) ==
  LET k == call[c] IN
  /\ At(c, "answered") /\ k.ans = "done"
  /\ cache' = Invalidated(c) /\ off' = MissedBy(c)
  /\ dlg' = CASE k.kind = "subscription" -> handleCheckoutWithBalance(c)
              [] k.kind = "redeem" -> handleRedeemSubmit(c)
              [] k.kind = "sell" -> handleSellConfirm(c)
              [] k.kind = "marketplace" -> handleBuyConfirm(c)
              [] k.kind = "smm" -> handleSubmitOrder(c)
  /\ IF k.kind = "smm" THEN End(c) ELSE To(c, "me")
  /\ UNCHANGED <<srv, page, cur, clock, shownBal, clicks, faults>>

(* fetchMe: the balance is read, and arrives; a failure keeps the old one. *)
ReadMe(c) ==
  /\ At(c, "me")
  /\ \/ call' = [call EXCEPT ![c] = [@ EXCEPT !.pc = "gotMe", !.arg = srv.bal]] /\ UNCHANGED faults
     \/ Fault /\ call' = [call EXCEPT ![c] = [@ EXCEPT !.pc = "gotMe", !.arg = shownBal]]
  /\ UNCHANGED <<srv, page, cur, dlg, clock, shownBal, cache, off, clicks>>

(* The buyer's page also awaits its two lists before it closes. *)
GotMe(c) ==
  /\ At(c, "gotMe")
  /\ shownBal' = IF call[c].arg <= MaxBal THEN call[c].arg ELSE shownBal
  /\ IF call[c].kind = "marketplace"
     THEN To(c, "lists") /\ cache' = RefetchAll(cache, {"stock"})
     ELSE End(c) /\ UNCHANGED cache
  /\ UNCHANGED <<srv, page, cur, dlg, clock, off, clicks, faults>>

ListsDone(c) ==
  /\ At(c, "lists") /\ Idle(cache["stock"])
  /\ dlg' = IF call[c].mine THEN [dlg EXCEPT !.open = FALSE] ELSE dlg
  /\ End(c)
  /\ UNCHANGED <<srv, page, cur, clock, shownBal, cache, off, clicks, faults>>

-----------------------------------------------------------------------------
(* The invoice page *)

Tx == IF cache["txs"].has /\ cur # 0 THEN cache["txs"].data[cur] ELSE "none"
Waiting == page = "invoice" /\ Tx = "pending"

(* A second passes on the page.  The countdown renders the page, which    *)
(* makes the mutation a new object and restarts the interval that polls.  *)
(* Mutant: the interval is restarted on every tick, the last included. *)
RestartedAlways(k) == PollPeriod
Restarted(k) == IF k.left > 0 THEN PollPeriod ELSE k.poll - 1

Tick ==
  /\ Waiting /\ clock.poll > 0
  /\ clock' = [left |-> IF clock.left > 0 THEN clock.left - 1 ELSE 0,
               poll |-> Restarted(clock)]
  /\ UNCHANGED <<srv, page, cur, dlg, shownBal, cache, call, off, clicks, faults>>

(* The interval fires: checkTopupStatus in the background, whose answer   *)
(* is back within a period.                                               *)
Poll(c) ==
  /\ Waiting /\ clock.poll = 0 /\ Free(c) /\ \A d \in Calls : call[d].kind # "check"
  /\ call' = [call EXCEPT ![c] = [NoCall EXCEPT !.kind = "check", !.pc = "sent", !.arg = cur, !.mine = TRUE]]
  /\ clock' = [clock EXCEPT !.poll = PollPeriod]
  /\ UNCHANGED <<srv, page, cur, dlg, shownBal, cache, off, clicks, faults>>

(* handleConfirmPayment *)
ConfirmPayment(c) == Waiting /\ Post(c, "check", cur)

(* Paid or not, the handler of the button refetches; the poll only when   *)
(* it was paid.                                                            *)
HandleCheck(c) ==
  LET k == call[c]
      paid == k.ans = "paid"
      before == IF paid THEN Invalidated(c) ELSE cache
  IN
  /\ At(c, "answered") /\ k.ans \in {"paid", "pending"}
  /\ cache' = IF (paid \/ dlg.busy = c) /\ page \in {"wallet", "invoice"}
              THEN RefetchAll(before, {"txs"}) ELSE before
  /\ off' = IF paid THEN MissedBy(c) ELSE off
  /\ dlg' = Release(c)
  /\ clock' = Rendered(k)
  /\ End(c)
  /\ UNCHANGED <<srv, page, cur, shownBal, clicks, faults>>

-----------------------------------------------------------------------------
(* Queries and navigation *)

(* The countdown starts when the page first sees the invoice pending. *)
Start(e) == IF page = "invoice" /\ cur # 0 /\ e.data[cur] = "pending" /\ Tx # "pending"
            THEN [Stopped EXCEPT !.left = Life] ELSE clock

ServeQuery(q) ==
  /\ cache[q].net = "sent"
  /\ cache' = [cache EXCEPT ![q] = Read(@, Value(srv, q))]
  /\ off' = off \ {q}
  /\ UNCHANGED <<srv, page, cur, dlg, clock, shownBal, call, clicks, faults>>

QueryArrives(q) ==
  /\ cache[q].net = "read"
  /\ cache' = [cache EXCEPT ![q] = Arrived(@)]
  /\ clock' = IF q = "txs" THEN Start(Arrived(cache[q])) ELSE clock
  /\ UNCHANGED <<srv, page, cur, dlg, shownBal, call, off, clicks, faults>>

QueryFails(q) ==
  /\ cache[q].net # "idle" /\ Fault
  /\ cache' = [cache EXCEPT ![q] = Failed(@)]
  /\ off' = off \cup {q}
  /\ UNCHANGED <<srv, page, cur, dlg, clock, shownBal, call, clicks>>

Listed(i) == cache["txs"].has /\ cache["txs"].data[i] # "none"

(* The receipt of a row of the wallet's history links to the payment page *)
(* while the row is pending.                                              *)
ReceiptLink(i) == page = "wallet" /\ Listed(i) /\ cache["txs"].data[i] = "pending"

(* The subscriptions page lists its own invoices, and links to them all. *)
PlanHistoryLink(i) == page = "subscriptions" /\ Listed(i) /\ srv.inv[i].kind = "subscription"

(* A link of the sidebar or of the page.  The calls go on without it. *)
Navigate(p, i) ==
  /\ User /\ p # page
  /\ IF i = 0 THEN p # "invoice" ELSE p = "invoice" /\ (ReceiptLink(i) \/ PlanHistoryLink(i))
  /\ \E old \in BOOLEAN : Arrive(p, i, old, cache)
  /\ call' = [c \in Calls |-> [call[c] EXCEPT !.mine = FALSE]]
  /\ UNCHANGED <<srv, shownBal, off, faults>>

-----------------------------------------------------------------------------
CallStep(c) == \/ Serve(c) \/ LateSale(c) \/ HandleError(c) \/ OpenInvoice(c) \/ HandleDone(c)
               \/ ReadMe(c) \/ GotMe(c) \/ ListsDone(c) \/ HandleCheck(c)

UserStep(c) == \/ TopupForm(c) \/ PayPlan(c) \/ RedeemForm(c) \/ ConfirmBuy(c) \/ ConfirmSell(c)
               \/ SubmitOrder(c) \/ ConfirmPayment(c)

Next ==
  \/ \E c \in Calls : CallStep(c) \/ UserStep(c) \/ Lose(c) \/ SaleTimesOut(c) \/ Poll(c)
  \/ \E q \in Queries : ServeQuery(q) \/ QueryArrives(q) \/ QueryFails(q)
  \/ \E i \in 1..MaxInv : Pay(i) \/ Webhook(i) \/ Expire(i)
  \/ \E p \in Pages, i \in 0..MaxInv : Navigate(p, i)
  \/ OpenDialog \/ CloseDialog \/ OtherBuyer \/ Tick

Spec == Init /\ [][Next]_vars

(* Calls are served and answered, timers fire, and the list of invoices,  *)
(* asked for over and over, arrives at last before a poll drops it; the   *)
(* other lists, users, payers and the gateway owe nothing.                *)
Fairness ==
  /\ \A c \in Calls : WF_vars(CallStep(c))
  /\ WF_vars(ServeQuery("txs")) /\ SF_vars(QueryArrives("txs"))
  /\ WF_vars(Tick) /\ WF_vars(\E c \in Calls : Poll(c))

FairSpec == Spec /\ Fairness

-----------------------------------------------------------------------------
Rest == \A c \in Calls : At(c, "idle")

(* Once the tab's calls are over, a page that is not loading shows what   *)
(* they did, wherever their hook promised to refresh it: late handlers,   *)
(* refetches that cross a write and lost answers included.                *)
OwnWritesShown ==
  \A q \in Shown \ off :
    (Rest /\ Idle(cache[q]) /\ cache[q].has) => cache[q].data = Value(srv, q)

(* A payment is noticed by the invoice page that waits for it, without a  *)
(* click and without the gateway's callback.                              *)
PaidUnseen == Waiting /\ srv.inv[cur].paid
PaymentNoticed == PaidUnseen ~> ~PaidUnseen

(* Both, in every state. *)
CheckoutSafe == TypeOK /\ OwnWritesShown
=============================================================================
