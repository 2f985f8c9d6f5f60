--------------------------- MODULE CheckoutProofs ---------------------------
(* Proof that a page of the checkout shows what its own calls did, whatever *)
(* the number of calls in flight, of invoices, clicks and faults.          *)
EXTENDS Checkout, FiniteSets, FiniteSetTheorems, WellFoundedInduction, TLAPS

(* The server, with the orders counted for themselves. *)
SrvShape == [bal: 0..MaxBal, plan: BOOLEAN, acc: {"stock", "mine", "listed", "gone"},
             orders: Nat, voucher: BOOLEAN,
             inv: [1..MaxInv -> [kind: Kinds, st: Statuses, paid: BOOLEAN]]]

(* What a call holds at the point where it stands. *)
CallOk(k) ==
  /\ k \in CallType
  /\ k.pc = "sent" /\ k.kind = "check" => k.arg \in 1..MaxInv
  /\ k.pc = "answered" /\ k.ans = "invoice" => k.arg \in 1..MaxInv
  /\ k.pc = "answered" /\ k.ans = "done" =>
       k.kind \in {"subscription", "redeem", "sell", "marketplace", "smm"}
  /\ k.pc = "answered" /\ k.ans \in {"paid", "pending"} => k.kind = "check"

DialogType == [open: BOOLEAN, busy: Calls \cup {"no"}]
ClockType == [left: 0..Life, poll: 0..PollPeriod]
CacheOk(f) == DOMAIN f = Queries /\ \A q \in Queries : f[q] \in EntryType(ValueType(q))

Shaped ==
  /\ srv \in SrvShape /\ page \in Pages /\ cur \in 0..MaxInv
  /\ dlg \in DialogType /\ clock \in ClockType
  /\ shownBal \in 0..MaxBal /\ off \subseteq Queries
  /\ call \in [Calls -> CallType] /\ \A c \in Calls : CallOk(call[c])
  /\ CacheOk(cache)
  /\ clicks \in 0..MaxClicks /\ faults \in 0..MaxFaults

(* Every order comes from a click of its own: it is placed, still being    *)
(* sent, or waits for the payment of an invoice.                           *)
Ordering(f) == {c \in Calls : f[c].pc = "sent" /\ f[c].kind = "smm"}
OpenInvoices(s) == {i \in 1..MaxInv : s.inv[i].st \in {"none", "pending"}}
Counted ==
  /\ IsFiniteSet(Ordering(call))
  /\ srv.orders + Cardinality(Ordering(call)) + Cardinality(OpenInvoices(srv)) <= MaxInv + clicks

(* The handler of an answered call still has to invalidate the query. *)
Owes(k, q) ==
  /\ k.pc = "answered" /\ q \in Refreshes(k.kind)
  /\ k.ans \in {"done", "invoice", "paid"} \/ k.kind = "sell"
Owed(f, q) == \E c \in Calls : Owes(f[c], q)

(* Nothing outdated is on its way to the entry, and what the entry holds   *)
(* at rest is the truth, or is marked stale and will be read when shown.   *)
Fine(e, v, shown) ==
  /\ e.net = "read" => e.got = v
  /\ e.net = "idle" /\ e.has => e.data = v \/ (e.stale /\ ~shown)

Told ==
  \A q \in Queries \ off : Owed(call, q) \/ Fine(cache[q], Value(srv, q), q \in Shown)

IInv == Shaped /\ Counted /\ Told

-----------------------------------------------------------------------------
(* One entry of the QueryClient *)

LEMMA EntryFields ==
  ASSUME NEW V, NEW e \in EntryType(V)
  PROVE  /\ e.has \in BOOLEAN /\ e.data \in V /\ e.stale \in BOOLEAN
         /\ e.net \in {"idle", "sent", "read"} /\ e.got \in V
BY DEF EntryType

LEMMA FetchOk ==
  ASSUME NEW V, NEW e \in EntryType(V)
  PROVE  /\ Fetch(e) \in EntryType(V)
         /\ Idle(e) => Fetch(e).net = "sent"
         /\ ~Idle(e) => Fetch(e) = e
BY DEF EntryType, Fetch, Idle

LEMMA RefetchOk ==
  ASSUME NEW V, NEW e \in EntryType(V)
  PROVE  /\ Refetch(e) \in EntryType(V)
         /\ e.has \/ Idle(e) => Refetch(e).net = "sent"
         /\ ~(e.has \/ Idle(e)) => Refetch(e) = e
BY DEF EntryType, Refetch, Idle

LEMMA InvalidateOk ==
  ASSUME NEW V, NEW e \in EntryType(V), NEW m \in BOOLEAN
  PROVE  /\ Invalidate(e, m) \in EntryType(V)
         /\ m => Invalidate(e, m).net # "idle"
         /\ ~m => Invalidate(e, m).net = e.net /\ Invalidate(e, m).stale
         /\ Invalidate(e, m).net = "read" => e.net = "read"
<1> DEFINE k == [e EXCEPT !.stale = TRUE]
<1>1. k \in EntryType(V) /\ k.net = e.net /\ k.has = e.has /\ k.stale
  BY DEF EntryType
<1>2. Invalidate(e, m) = IF m THEN Refetch(k) ELSE k
  BY DEF Invalidate
<1> HIDE DEF k
<1>3. CASE m
  <2>1. Invalidate(e, m) = Refetch(k)
    BY <1>2, <1>3
  <2>2. Refetch(k) \in EntryType(V) /\ (k.has \/ Idle(k) => Refetch(k).net = "sent")
        /\ (~(k.has \/ Idle(k)) => Refetch(k) = k)
    BY <1>1, RefetchOk
  <2> QED BY <1>1, <1>3, <2>1, <2>2 DEF Idle
<1>4. CASE ~m
  BY <1>1, <1>2, <1>4
<1> QED BY <1>3, <1>4

LEMMA MountOk ==
  ASSUME NEW V, NEW e \in EntryType(V), NEW old \in BOOLEAN
  PROVE  /\ Mount(e, old) \in EntryType(V)
         /\ Mount(e, old) = e \/ (Idle(e) /\ Mount(e, old).net = "sent")
         /\ Mount(e, old).net = "idle" => e.has /\ ~e.stale
<1>1. CASE ~e.has \/ e.stale \/ old
  <2>1. Mount(e, old) = Fetch(e)
    BY <1>1 DEF Mount
  <2> QED BY <2>1, FetchOk DEF Idle
<1>2. CASE ~(~e.has \/ e.stale \/ old)
  BY <1>2, EntryFields DEF Mount
<1> QED BY <1>1, <1>2

LEMMA AnswerOk ==
  ASSUME NEW V, NEW e \in EntryType(V), NEW v \in V
  PROVE  /\ Read(e, v) \in EntryType(V) /\ Read(e, v).net = "read" /\ Read(e, v).got = v
         /\ Arrived(e) \in EntryType(V) /\ Arrived(e).net = "idle" /\ Arrived(e).data = e.got
         /\ Failed(e) \in EntryType(V)
BY DEF EntryType, Read, Arrived, Failed

LEMMA UnreadOk ==
  ASSUME NEW V, NEW v \in V
  PROVE  Unread(v) \in EntryType(V) /\ ~Unread(v).has /\ Unread(v).net = "idle"
BY DEF EntryType, Unread

-----------------------------------------------------------------------------
(* What is fine stays fine *)

LEMMA FineRefetch ==
  ASSUME NEW V, NEW e \in EntryType(V), NEW v, NEW s \in BOOLEAN, Fine(e, v, s)
  PROVE  Fine(Refetch(e), v, s)
<1>1. CASE e.has \/ Idle(e)
  BY <1>1, RefetchOk DEF Fine
<1>2. CASE ~(e.has \/ Idle(e))
  BY <1>2, RefetchOk
<1> QED BY <1>1, <1>2

LEMMA FineInvalidate ==
  ASSUME NEW V, NEW e \in EntryType(V), NEW v, NEW s \in BOOLEAN,
         ~(e.net = "read" /\ Invalidate(e, s).net = "read")
  PROVE  Fine(Invalidate(e, s), v, s)
BY InvalidateOk DEF Fine

LEMMA FineMount ==
  ASSUME NEW V, NEW e \in EntryType(V), NEW v, NEW s \in BOOLEAN, NEW t \in BOOLEAN, NEW old \in BOOLEAN,
         Fine(e, v, s)
  PROVE  Fine(Mount(e, old), v, t)
<1>1. CASE Mount(e, old) = e
  BY <1>1, MountOk, EntryFields DEF Fine
<1>2. CASE Mount(e, old) # e
  BY <1>2, MountOk DEF Fine
<1> QED BY <1>1, <1>2

LEMMA FineLess ==
  ASSUME NEW e, NEW v, NEW s \in BOOLEAN, NEW t \in BOOLEAN, Fine(e, v, s), t => s
  PROVE  Fine(e, v, t)
BY DEF Fine

LEMMA FineAnswer ==
  ASSUME NEW V, NEW e \in EntryType(V), NEW v \in V, NEW s \in BOOLEAN
  PROVE  /\ Fine(Read(e, v), v, s)
         /\ e.net = "read" /\ Fine(e, v, s) => Fine(Arrived(e), v, s)
BY AnswerOk DEF Fine

-----------------------------------------------------------------------------
(* The server *)

LEMMA Bounds ==
  /\ Life \in Nat /\ PollPeriod \in Nat /\ MaxBal \in Nat /\ MaxInv \in Nat /\ MaxClicks \in Nat /\ MaxFaults \in Nat
  /\ Life > 0 /\ PollPeriod > 0 /\ MaxBal > 0
BY CheckoutAssumption

InvType == [kind: Kinds, st: Statuses, paid: BOOLEAN]

LEMMA SrvFields ==
  ASSUME NEW s \in SrvShape
  PROVE  /\ s.bal \in 0..MaxBal /\ s.plan \in BOOLEAN /\ s.acc \in {"stock", "mine", "listed", "gone"}
         /\ s.orders \in Nat /\ s.voucher \in BOOLEAN /\ s.inv \in [1..MaxInv -> InvType]
BY DEF SrvShape, InvType

LEMMA ValueOk ==
  ASSUME NEW s \in SrvShape, NEW q \in Queries
  PROVE  Value(s, q) \in ValueType(q)
<1>1. CASE q = "txs"
  BY <1>1, SrvFields DEF Value, ValueType, InvType
<1>2. CASE q # "txs"
  BY <1>2, SrvFields DEF Value, ValueType, Queries
<1> QED BY <1>1, <1>2

(* The server before and after a change: orders are paid for by a call or  *)
(* by an open invoice, and no invoice is opened that was not free.         *)
Advanced(s, t, ordered) ==
  /\ OpenInvoices(t) \subseteq OpenInvoices(s)
  /\ \/ t.orders = s.orders
     \/ t.orders = s.orders + 1 /\ ordered
     \/ t.orders = s.orders + 1 /\ \E i \in OpenInvoices(s) : i \notin OpenInvoices(t)

(* One invoice changes its state. *)
LEMMA InvoiceChanged ==
  ASSUME NEW f \in [1..MaxInv -> InvType], NEW i \in 1..MaxInv, NEW r \in InvType,
         NEW v, v = [f EXCEPT ![i] = r]
  PROVE  v \in [1..MaxInv -> InvType] /\ v[i] = r /\ \A j \in 1..MaxInv : j # i => v[j] = f[j]
OBVIOUS

LEMMA InvoiceOk ==
  ASSUME NEW s \in SrvShape, NEW kind \in Kinds, NEW o, o = Invoice(s, kind)
  PROVE  /\ o.s \in SrvShape /\ o.s.orders = s.orders /\ OpenInvoices(o.s) \subseteq OpenInvoices(s)
         /\ \/ o.ans = "refused" /\ o.s = s
            \/ o.ans = "invoice" /\ o.i \in 1..MaxInv
<1>1. CASE Pending(s) = {}
  BY <1>1 DEF Invoice
<1>2. CASE Pending(s) # {}
  <2> DEFINE i == CHOOSE x \in Pending(s) : \A y \in Pending(s) : x <= y
             r == [kind |-> kind, st |-> "pending", paid |-> FALSE]
             v == [s.inv EXCEPT ![i] = r]
             t == [s EXCEPT !.inv = v]
  <2>1. \E x \in Pending(s) : \A y \in Pending(s) : x <= y
    <3>1. Pending(s) \subseteq Nat
      BY Bounds DEF Pending
    <3>2. PICK n \in Pending(s) : \A m \in Pending(s) : ~(<<m, n>> \in OpToRel(<, Nat))
      BY <1>2, <3>1, NatLessThanWellFounded, WFMin
    <3>3. \A m \in Pending(s) : ~(m < n)
      BY <3>1, <3>2 DEF OpToRel
    <3>4. \A m \in Pending(s) : n <= m
      BY <3>1, <3>3
    <3> QED BY <3>4
  <2>2. i \in Pending(s)
    BY <2>1
  <2>3. i \in 1..MaxInv /\ s.inv[i].st = "none"
    BY <2>2 DEF Pending
  <2>4. r \in InvType /\ r.st = "pending"
    BY DEF InvType, Statuses
  <2>5. o.s = t /\ o.ans = "invoice" /\ o.i = i
    BY <1>2 DEF Invoice
  <2>v. v = [s.inv EXCEPT ![i] = r]
    OBVIOUS
  <2> HIDE DEF i, r, v
  <2>f. s.inv \in [1..MaxInv -> InvType]
    BY SrvFields
  <2>c. v \in [1..MaxInv -> InvType] /\ v[i] = r /\ \A j \in 1..MaxInv : j # i => v[j] = s.inv[j]
    BY <2>f, <2>3, <2>4, <2>v, InvoiceChanged
  <2>t. t \in SrvShape /\ t.orders = s.orders /\ t.inv = v
    BY <2>c DEF SrvShape, InvType
  <2> HIDE DEF t
  <2>6. /\ t \in SrvShape /\ t.orders = s.orders
        /\ t.inv[i] = r /\ \A j \in 1..MaxInv : j # i => t.inv[j] = s.inv[j]
    BY <2>c, <2>t
  <2>7. OpenInvoices(t) \subseteq OpenInvoices(s)
    BY <2>3, <2>6 DEF OpenInvoices
  <2> QED BY <2>3, <2>5, <2>6, <2>7
<1> QED BY <1>1, <1>2

(* The updates that settle a purchase. *)
LEMMA Bought ==
  ASSUME NEW s \in SrvShape, NEW b \in 0..MaxBal, NEW p \in BOOLEAN, NEW n \in Nat,
         NEW a \in {"stock", "mine", "listed", "gone"}, NEW v \in BOOLEAN
  PROVE  /\ [s EXCEPT !.bal = b, !.plan = p] \in SrvShape
         /\ [s EXCEPT !.bal = b, !.acc = a] \in SrvShape
         /\ [s EXCEPT !.bal = b, !.orders = n] \in SrvShape
         /\ [s EXCEPT !.voucher = v, !.plan = p] \in SrvShape
         /\ [s EXCEPT !.voucher = v, !.bal = b] \in SrvShape
         /\ [s EXCEPT !.acc = a] \in SrvShape /\ [s EXCEPT !.plan = p] \in SrvShape
         /\ [s EXCEPT !.bal = b] \in SrvShape /\ [s EXCEPT !.orders = n] \in SrvShape
BY DEF SrvShape

LEMMA SettledOk ==
  ASSUME NEW s \in SrvShape, NEW i \in 1..MaxInv, s.inv[i].st = "pending"
  PROVE  Settled(s, i) \in SrvShape /\ Advanced(s, Settled(s, i), FALSE)
<1> DEFINE r == [s.inv[i] EXCEPT !.st = "approved"]
           v == [s.inv EXCEPT ![i] = r]
           t == [s EXCEPT !.inv = v]
           b == IF t.bal < MaxBal THEN t.bal + 1 ELSE t.bal
           credit == [t EXCEPT !.bal = b]
           paid == [t EXCEPT !.plan = TRUE]
           placed == [t EXCEPT !.orders = t.orders + 1]
           mine == [t EXCEPT !.acc = "mine"]
<1>1. s.inv[i] \in InvType
  BY SrvFields
<1>2. r \in InvType /\ r.st = "approved"
  BY <1>1 DEF InvType, Statuses
<1>v. v = [s.inv EXCEPT ![i] = r]
  OBVIOUS
<1>3. s.inv[i].kind \in Kinds
  BY <1>1 DEF InvType
<1>4. Settled(s, i) \in {credit, paid, placed, mine}
  <2>1. t = [s EXCEPT !.inv[i].st = "approved"]
    OBVIOUS
  <2> HIDE DEF t
  <2> QED BY <1>3, <2>1 DEF Settled, Kinds
<1> HIDE DEF r, v
<1>f. s.inv \in [1..MaxInv -> InvType]
  BY SrvFields
<1>c. v \in [1..MaxInv -> InvType] /\ v[i] = r /\ \A j \in 1..MaxInv : j # i => v[j] = s.inv[j]
  BY <1>f, <1>2, <1>v, InvoiceChanged
<1>t. t \in SrvShape /\ t.orders = s.orders /\ t.inv = v
  BY <1>c DEF SrvShape, InvType
<1> HIDE DEF t
<1>5. /\ t \in SrvShape /\ t.orders = s.orders /\ t.orders \in Nat
      /\ t.inv[i] = r /\ \A j \in 1..MaxInv : j # i => t.inv[j] = s.inv[j]
  BY <1>c, <1>t, SrvFields
<1>6. b \in 0..MaxBal
  BY <1>5, SrvFields, Bounds
<1> HIDE DEF b
<1>7. /\ credit \in SrvShape /\ paid \in SrvShape /\ placed \in SrvShape /\ mine \in SrvShape
  <2>1. credit \in SrvShape
    BY <1>5, <1>6 DEF SrvShape
  <2>2. paid \in SrvShape
    BY <1>5 DEF SrvShape
  <2>3. placed \in SrvShape
    BY <1>5 DEF SrvShape
  <2>4. mine \in SrvShape
    BY <1>5 DEF SrvShape
  <2> QED BY <2>1, <2>2, <2>3, <2>4
<1>8. /\ credit.inv = t.inv /\ paid.inv = t.inv /\ placed.inv = t.inv /\ mine.inv = t.inv
      /\ credit.orders = t.orders /\ paid.orders = t.orders /\ mine.orders = t.orders
      /\ placed.orders = t.orders + 1
  BY <1>5 DEF SrvShape
<1> HIDE DEF credit, paid, placed, mine
<1>9. i \in OpenInvoices(s) /\ i \notin OpenInvoices(t) /\ OpenInvoices(t) \subseteq OpenInvoices(s)
  BY <1>2, <1>5 DEF OpenInvoices
<1>10. \A x \in {credit, paid, placed, mine} : OpenInvoices(x) = OpenInvoices(t)
  BY <1>8 DEF OpenInvoices
<1>11. \A x \in {credit, paid, placed, mine} : Advanced(s, x, FALSE)
  BY <1>5, <1>8, <1>9, <1>10 DEF Advanced
<1> QED BY <1>4, <1>7, <1>11

LEMMA Unadvanced ==
  ASSUME NEW s, NEW t, NEW b, t.orders = s.orders, OpenInvoices(t) \subseteq OpenInvoices(s)
  PROVE  Advanced(s, t, b)
BY DEF Advanced

(* What a call may find when it is served. *)
Answers(s, k, o) ==
  /\ o.s \in SrvShape /\ Advanced(s, o.s, k.kind = "smm")
  /\ o.ans \in {"done", "invoice", "refused", "paid", "pending"}
  /\ o.ans \in {"refused", "pending"} => o.s = s
  /\ o.ans = "invoice" => o.i \in 1..MaxInv
  /\ o.ans = "done" => k.kind \in {"subscription", "redeem", "sell", "marketplace", "smm"}
  /\ o.ans \in {"paid", "pending"} => k.kind = "check"

LEMMA InvoiceAnswers ==
  ASSUME NEW s \in SrvShape, NEW k, NEW kind \in Kinds
  PROVE  Answers(s, k, Invoice(s, kind))
<1> DEFINE o == Invoice(s, kind)
<1>1. o = Invoice(s, kind)
  OBVIOUS
<1> HIDE DEF o
<1>2. /\ o.s \in SrvShape /\ o.s.orders = s.orders /\ OpenInvoices(o.s) \subseteq OpenInvoices(s)
      /\ \/ o.ans = "refused" /\ o.s = s
         \/ o.ans = "invoice" /\ o.i \in 1..MaxInv
  BY <1>1, InvoiceOk
<1>3. Advanced(s, o.s, k.kind = "smm")
  BY <1>2, Unadvanced
<1>4. Answers(s, k, o)
  BY <1>2, <1>3 DEF Answers
<1> QED BY <1>1, <1>4

LEMMA RefusedAnswers ==
  ASSUME NEW s \in SrvShape, NEW k
  PROVE  Answers(s, k, Refused(s))
<1>1. Advanced(s, s, k.kind = "smm")
  BY Unadvanced
<1> QED BY <1>1 DEF Answers, Refused

LEMMA DoneAnswers ==
  ASSUME NEW s \in SrvShape, NEW k, NEW t \in SrvShape, t.inv = s.inv,
         t.orders = s.orders \/ (t.orders = s.orders + 1 /\ k.kind = "smm"),
         k.kind \in {"subscription", "redeem", "sell", "marketplace", "smm"}
  PROVE  Answers(s, k, Done(t))
<1>1. OpenInvoices(t) = OpenInvoices(s)
  BY DEF OpenInvoices
<1>2. Advanced(s, t, k.kind = "smm")
  BY <1>1 DEF Advanced
<1> QED BY <1>2 DEF Answers, Done

LEMMA SubscribeAnswers ==
  ASSUME NEW s \in SrvShape, NEW k, k.kind = "subscription"
  PROVE  Answers(s, k, Subscribe(s, k.arg))
<1>1. CASE k.arg = 1 /\ s.bal >= Price
  <2> DEFINE t == [s EXCEPT !.bal = @ - Price, !.plan = TRUE]
  <2>1. s.bal - 1 \in 0..MaxBal
    BY <1>1, SrvFields, Bounds DEF Price
  <2>2. t \in SrvShape /\ t.inv = s.inv /\ t.orders = s.orders
    BY <2>1 DEF SrvShape, Price
  <2>3. Subscribe(s, k.arg) = Done(t)
    BY <1>1 DEF Subscribe
  <2> HIDE DEF t
  <2>4. Answers(s, k, Done(t))
    BY <2>2, DoneAnswers
  <2> QED BY <2>3, <2>4
<1>2. CASE ~(k.arg = 1 /\ s.bal >= Price)
  BY <1>2, InvoiceAnswers DEF Subscribe, Kinds
<1> QED BY <1>1, <1>2

LEMMA BuyAnswers ==
  ASSUME NEW s \in SrvShape, NEW k, k.kind = "marketplace"
  PROVE  Answers(s, k, Buy(s, k.arg))
<1>1. CASE s.acc # "stock"
  BY <1>1, RefusedAnswers DEF Buy
<1>2. CASE s.acc = "stock" /\ k.arg = 1 /\ s.bal >= Price
  <2> DEFINE t == [s EXCEPT !.bal = @ - Price, !.acc = "mine"]
  <2>1. s.bal - 1 \in 0..MaxBal
    BY <1>2, SrvFields, Bounds DEF Price
  <2>2. t \in SrvShape /\ t.inv = s.inv /\ t.orders = s.orders
    BY <2>1 DEF SrvShape, Price
  <2>3. Buy(s, k.arg) = Done(t)
    BY <1>2 DEF Buy
  <2> HIDE DEF t
  <2>4. Answers(s, k, Done(t))
    BY <2>2, DoneAnswers
  <2> QED BY <2>3, <2>4
<1>3. CASE s.acc = "stock" /\ ~(k.arg = 1 /\ s.bal >= Price)
  BY <1>3, InvoiceAnswers DEF Buy, Kinds
<1> QED BY <1>1, <1>2, <1>3

LEMMA OrderAnswers ==
  ASSUME NEW s \in SrvShape, NEW k, k.kind = "smm"
  PROVE  Answers(s, k, Order(s, k.arg))
<1>1. CASE k.arg = 1 /\ s.bal >= Price
  <2> DEFINE t == [s EXCEPT !.bal = @ - Price, !.orders = @ + 1]
  <2>1. s.bal - 1 \in 0..MaxBal
    BY <1>1, SrvFields, Bounds DEF Price
  <2>n. s.orders + 1 \in Nat
    BY SrvFields
  <2>2. t \in SrvShape /\ t.inv = s.inv /\ t.orders = s.orders + 1
    BY <2>1, <2>n DEF SrvShape, Price
  <2>3. Order(s, k.arg) = Done(t)
    BY <1>1 DEF Order
  <2> HIDE DEF t
  <2>4. Answers(s, k, Done(t))
    BY <2>2, DoneAnswers
  <2> QED BY <2>3, <2>4
<1>2. CASE ~(k.arg = 1 /\ s.bal >= Price)
  BY <1>2, InvoiceAnswers DEF Order, Kinds
<1> QED BY <1>1, <1>2

LEMMA RedeemAnswers ==
  ASSUME NEW s \in SrvShape, NEW k, k.kind = "redeem", NEW o \in Redeem(s)
  PROVE  Answers(s, k, o)
<1>1. CASE ~s.voucher
  BY <1>1, RefusedAnswers DEF Redeem
<1>2. CASE s.voucher
  <2> DEFINE t == [s EXCEPT !.voucher = FALSE, !.plan = TRUE]
             u(b) == [s EXCEPT !.voucher = FALSE, !.bal = b + 1]
  <2>1. t \in SrvShape /\ t.inv = s.inv /\ t.orders = s.orders
    BY DEF SrvShape
  <2>2. ASSUME NEW b \in 0..(MaxBal - 1)
        PROVE  u(b) \in SrvShape /\ u(b).inv = s.inv /\ u(b).orders = s.orders
    <3>1. b + 1 \in 0..MaxBal
      BY Bounds
    <3> QED BY <3>1 DEF SrvShape
  <2>3. o \in {Done(t)} \cup {Done(u(b)) : b \in {s.bal} \cap 0..(MaxBal - 1)}
    BY <1>2 DEF Redeem
  <2> HIDE DEF t, u
  <2>4. Answers(s, k, Done(t))
    BY <2>1, DoneAnswers
  <2>5. \A b \in 0..(MaxBal - 1) : Answers(s, k, Done(u(b)))
    BY <2>2, DoneAnswers
  <2> QED BY <2>3, <2>4, <2>5
<1> QED BY <1>1, <1>2

LEMMA SellAnswers ==
  ASSUME NEW s \in SrvShape, NEW k, k.kind = "sell"
  PROVE  Answers(s, k, Sell(s))
<1>1. CASE s.acc = "mine"
  <2> DEFINE t == [s EXCEPT !.acc = "listed"]
  <2>2. t \in SrvShape /\ t.inv = s.inv /\ t.orders = s.orders
    BY DEF SrvShape
  <2>3. Sell(s) = Done(t)
    BY <1>1 DEF Sell
  <2> HIDE DEF t
  <2>4. Answers(s, k, Done(t))
    BY <2>2, DoneAnswers
  <2> QED BY <2>3, <2>4
<1>2. CASE s.acc # "mine"
  BY <1>2, RefusedAnswers DEF Sell
<1> QED BY <1>1, <1>2

LEMMA CheckAnswers ==
  ASSUME NEW s \in SrvShape, NEW k, k.kind = "check", k.arg \in 1..MaxInv
  PROVE  Answers(s, k, Check(s, k.arg))
<1> DEFINE t == Settled(s, k.arg)
<1>1. CASE s.inv[k.arg].st = "pending" /\ s.inv[k.arg].paid
  <2>1. t \in SrvShape /\ Advanced(s, t, FALSE)
    BY <1>1, SettledOk
  <2>2. Check(s, k.arg) = [s |-> t, ans |-> "paid", i |-> k.arg]
    BY <1>1 DEF Check
  <2> HIDE DEF t
  <2>3. Advanced(s, t, k.kind = "smm")
    BY <2>1 DEF Advanced
  <2> QED BY <2>1, <2>2, <2>3 DEF Answers
<1>2. CASE ~(s.inv[k.arg].st = "pending" /\ s.inv[k.arg].paid)
  <2>1. Advanced(s, s, k.kind = "smm")
    BY Unadvanced
  <2> QED BY <1>2, <2>1 DEF Answers, Check
<1> QED BY <1>1, <1>2

LEMMA OutcomeOk ==
  ASSUME NEW s \in SrvShape, NEW k, CallOk(k), k.pc = "sent", NEW o \in Outcomes(s, k)
  PROVE  Answers(s, k, o)
<1>1. k.kind \in Kinds \cup {"none", "redeem", "sell", "check", "me"}
  BY DEF CallOk, CallType
<1>2. CASE k.kind = "topup"
  BY <1>2, InvoiceAnswers DEF Outcomes, Kinds
<1>3. CASE k.kind = "subscription"
  BY <1>3, SubscribeAnswers DEF Outcomes
<1>4. CASE k.kind = "marketplace"
  BY <1>4, BuyAnswers DEF Outcomes
<1>5. CASE k.kind = "smm"
  BY <1>5, OrderAnswers DEF Outcomes
<1>6. CASE k.kind = "redeem"
  BY <1>6, RedeemAnswers DEF Outcomes
<1>7. CASE k.kind = "sell"
  BY <1>7, SellAnswers DEF Outcomes
<1>8. CASE k.kind = "check"
  BY <1>8, CheckAnswers DEF Outcomes, CallOk
<1>9. CASE k.kind \in {"none", "me"}
  BY <1>9 DEF Outcomes
<1> QED BY <1>1, <1>2, <1>3, <1>4, <1>5, <1>6, <1>7, <1>8, <1>9 DEF Kinds

-----------------------------------------------------------------------------
(* What happens on the server without a call *)

LEMMA PaidOk ==
  ASSUME NEW s \in SrvShape, NEW i \in 1..MaxInv, NEW p \in BOOLEAN, NEW t, t = [s EXCEPT !.inv[i].paid = p]
  PROVE  /\ t \in SrvShape /\ Advanced(s, t, FALSE)
         /\ \A q \in Queries : Value(t, q) = Value(s, q)
<1> DEFINE r == [s.inv[i] EXCEPT !.paid = p]
           v == [s.inv EXCEPT ![i] = r]
<1>1. s.inv \in [1..MaxInv -> InvType] /\ s.inv[i] \in InvType
  BY SrvFields
<1>2. r \in InvType /\ r.st = s.inv[i].st
  BY <1>1 DEF InvType
<1>3. /\ t \in [bal: 0..MaxBal, plan: BOOLEAN, acc: {"stock", "mine", "listed", "gone"},
                orders: Nat, voucher: BOOLEAN, inv: {v}]
      /\ t.plan = s.plan /\ t.acc = s.acc /\ t.orders = s.orders /\ t.inv = v
  BY DEF SrvShape
<1>v. v = [s.inv EXCEPT ![i] = r]
  OBVIOUS
<1> HIDE DEF r, v
<1>4. v \in [1..MaxInv -> InvType] /\ v[i] = r /\ \A j \in 1..MaxInv : j # i => v[j] = s.inv[j]
  BY <1>1, <1>2, <1>v, InvoiceChanged
<1>5. t \in SrvShape
  BY <1>3, <1>4 DEF SrvShape, InvType
<1>6. \A j \in 1..MaxInv : t.inv[j].st = s.inv[j].st
  BY <1>2, <1>3, <1>4
<1>7. OpenInvoices(t) \subseteq OpenInvoices(s)
  BY <1>6 DEF OpenInvoices
<1>8. Advanced(s, t, FALSE)
  BY <1>3, <1>7, Unadvanced
<1>9. ASSUME NEW q \in Queries PROVE Value(t, q) = Value(s, q)
  <2>1. CASE q = "txs"
    BY <1>6, <2>1 DEF Value
  <2>2. CASE q # "txs"
    <3>1. q \in {"plan", "stock", "eligible"}
      BY <2>2 DEF Queries
    <3> QED BY <1>3, <3>1 DEF Value
  <2> QED BY <2>1, <2>2
<1> QED BY <1>5, <1>8, <1>9

LEMMA RejectedOk ==
  ASSUME NEW s \in SrvShape, NEW i \in 1..MaxInv, NEW t, t = [s EXCEPT !.inv[i].st = "rejected"]
  PROVE  t \in SrvShape /\ Advanced(s, t, FALSE)
<1> DEFINE r == [s.inv[i] EXCEPT !.st = "rejected"]
           v == [s.inv EXCEPT ![i] = r]
<1>1. s.inv \in [1..MaxInv -> InvType] /\ s.inv[i] \in InvType
  BY SrvFields
<1>2. r \in InvType /\ r.st = "rejected"
  BY <1>1 DEF InvType, Statuses
<1>3. /\ t \in [bal: 0..MaxBal, plan: BOOLEAN, acc: {"stock", "mine", "listed", "gone"},
                orders: Nat, voucher: BOOLEAN, inv: {v}]
      /\ t.orders = s.orders /\ t.inv = v
  BY DEF SrvShape
<1>v. v = [s.inv EXCEPT ![i] = r]
  OBVIOUS
<1> HIDE DEF r, v
<1>4. v \in [1..MaxInv -> InvType] /\ v[i] = r /\ \A j \in 1..MaxInv : j # i => v[j] = s.inv[j]
  BY <1>1, <1>2, <1>v, InvoiceChanged
<1>5. t \in SrvShape
  BY <1>3, <1>4 DEF SrvShape, InvType
<1>6. OpenInvoices(t) \subseteq OpenInvoices(s)
  BY <1>2, <1>3, <1>4 DEF OpenInvoices
<1>7. Advanced(s, t, FALSE)
  BY <1>3, <1>6, Unadvanced
<1> QED BY <1>5, <1>7

LEMMA GoneOk ==
  ASSUME NEW s \in SrvShape, NEW t, t = [s EXCEPT !.acc = "gone"]
  PROVE  t \in SrvShape /\ Advanced(s, t, FALSE)
<1>1. t \in SrvShape /\ t.orders = s.orders /\ t.inv = s.inv
  BY DEF SrvShape
<1>2. OpenInvoices(t) \subseteq OpenInvoices(s)
  BY <1>1 DEF OpenInvoices
<1> QED BY <1>1, <1>2, Unadvanced

LEMMA LateSaleOk ==
  ASSUME NEW s \in SrvShape
  PROVE  Sell(s).s \in SrvShape /\ Advanced(s, Sell(s).s, FALSE)
<1>1. CASE s.acc = "mine"
  <2> DEFINE t == [s EXCEPT !.acc = "listed"]
  <2>1. t \in SrvShape /\ t.inv = s.inv /\ t.orders = s.orders
    BY DEF SrvShape
  <2>2. Sell(s).s = t
    BY <1>1 DEF Sell, Done
  <2> HIDE DEF t
  <2>3. OpenInvoices(t) \subseteq OpenInvoices(s)
    BY <2>1 DEF OpenInvoices
  <2> QED BY <2>1, <2>2, <2>3, Unadvanced
<1>2. CASE s.acc # "mine"
  BY <1>2, Unadvanced DEF Sell, Refused
<1> QED BY <1>1, <1>2

-----------------------------------------------------------------------------
(* The calls *)

LEMMA CallFields ==
  ASSUME NEW k \in CallType
  PROVE  /\ k.kind \in Kinds \cup {"none", "redeem", "sell", "check", "me"}
         /\ k.pc \in {"idle", "sent", "late", "answered", "me", "gotMe", "lists"}
         /\ k.ans \in {"none", "done", "invoice", "refused", "lost", "paid", "pending"}
         /\ k.arg \in 0..(MaxInv + MaxBal) /\ k.mine \in BOOLEAN
BY DEF CallType

LEMMA NoCallOk == CallOk(NoCall) /\ NoCall.pc = "idle"
<1>1. 0 \in 0..(MaxInv + MaxBal)
  BY Bounds
<1> QED BY <1>1 DEF NoCall, CallOk, CallType

(* One call changes. *)
LEMMA CallChanged ==
  ASSUME NEW f \in [Calls -> CallType], \A d \in Calls : CallOk(f[d]),
         NEW c \in Calls, NEW r, CallOk(r), NEW g, g = [f EXCEPT ![c] = r]
  PROVE  /\ g \in [Calls -> CallType] /\ \A d \in Calls : CallOk(g[d])
         /\ g[c] = r /\ \A d \in Calls : d # c => g[d] = f[d]
<1>1. r \in CallType
  BY DEF CallOk
<1>2. g \in [Calls -> CallType] /\ g[c] = r /\ \A d \in Calls : d # c => g[d] = f[d]
  BY <1>1
<1> QED BY <1>2

(* A call that has ended, or goes on to where it owes nothing. *)
LEMMA CallMoves ==
  ASSUME NEW k, CallOk(k), NEW p \in {"sent", "late", "me", "gotMe", "lists"}, p # "sent",
         NEW r, r = [k EXCEPT !.pc = p]
  PROVE  CallOk(r) /\ r.pc = p
<1>1. k \in CallType
  BY DEF CallOk
<1>2. r \in CallType /\ r.pc = p
  BY <1>1 DEF CallType
<1> QED BY <1>2 DEF CallOk

LEMMA OwedKeep ==
  ASSUME NEW f, NEW g, NEW c, NEW q, \A d \in Calls : d # c => g[d] = f[d],
         ~Owes(f[c], q), Owed(f, q)
  PROVE  Owed(g, q)
BY DEF Owed

LEMMA OrderingLess ==
  ASSUME NEW f, NEW g, NEW c, \A d \in Calls : d # c => g[d] = f[d],
         ~(g[c].pc = "sent" /\ g[c].kind = "smm")
  PROVE  Ordering(g) \subseteq Ordering(f) /\ c \notin Ordering(g)
BY DEF Ordering

-----------------------------------------------------------------------------
(* Orders are counted *)

LEMMA OpenFinite ==
  ASSUME NEW s
  PROVE  IsFiniteSet(OpenInvoices(s))
<1>1. IsFiniteSet(1..MaxInv)
  BY Bounds, FS_Interval
<1>2. OpenInvoices(s) \subseteq 1..MaxInv
  BY DEF OpenInvoices
<1> QED BY <1>1, <1>2, FS_Subset

LEMMA FewerOf ==
  ASSUME NEW A, IsFiniteSet(A), NEW B, B \subseteq A
  PROVE  /\ IsFiniteSet(B) /\ Cardinality(A) \in Nat /\ Cardinality(B) \in Nat
         /\ Cardinality(B) <= Cardinality(A)
         /\ (\E c \in A : c \notin B) => Cardinality(B) < Cardinality(A)
<1>1. IsFiniteSet(B) /\ Cardinality(B) <= Cardinality(A)
  BY FS_Subset
<1>2. Cardinality(A) \in Nat /\ Cardinality(B) \in Nat
  BY <1>1, FS_CardinalityType
<1>3. (\E c \in A : c \notin B) => Cardinality(B) # Cardinality(A)
  BY FS_Subset
<1> QED BY <1>1, <1>2, <1>3

LEMMA CountLess ==
  ASSUME NEW s \in SrvShape, NEW t \in SrvShape, NEW A, IsFiniteSet(A), NEW B, B \subseteq A,
         NEW b, Advanced(s, t, b), b => \E c \in A : c \notin B, NEW n \in Nat, NEW m \in Nat, n <= m,
         s.orders + Cardinality(A) + Cardinality(OpenInvoices(s)) <= MaxInv + n
  PROVE  /\ IsFiniteSet(B)
         /\ t.orders + Cardinality(B) + Cardinality(OpenInvoices(t)) <= MaxInv + m
<1> DEFINE S == OpenInvoices(s)
           T == OpenInvoices(t)
<1>1. IsFiniteSet(S) /\ T \subseteq S
  BY OpenFinite DEF Advanced
<1>2. /\ \/ t.orders = s.orders
         \/ t.orders = s.orders + 1 /\ b
         \/ t.orders = s.orders + 1 /\ \E i \in S : i \notin T
  BY DEF Advanced
<1> HIDE DEF S, T
<1>3. /\ IsFiniteSet(B) /\ Cardinality(A) \in Nat /\ Cardinality(B) \in Nat
      /\ Cardinality(B) <= Cardinality(A)
      /\ (\E c \in A : c \notin B) => Cardinality(B) < Cardinality(A)
  BY FewerOf
<1>4. /\ Cardinality(S) \in Nat /\ Cardinality(T) \in Nat
      /\ Cardinality(T) <= Cardinality(S)
      /\ (\E c \in S : c \notin T) => Cardinality(T) < Cardinality(S)
  BY <1>1, FewerOf
<1>5. s.orders \in Nat /\ t.orders \in Nat /\ MaxInv \in Nat
  BY SrvFields, Bounds
<1>6. s.orders + Cardinality(A) + Cardinality(S) <= MaxInv + n
  BY DEF S
<1>7. t.orders + Cardinality(B) + Cardinality(T) <= MaxInv + m
  BY <1>2, <1>3, <1>4, <1>5, <1>6
<1> QED BY <1>3, <1>7 DEF T

LEMMA CountMore ==
  ASSUME NEW s \in SrvShape, NEW A, IsFiniteSet(A), NEW c, NEW B, B \subseteq A \cup {c}, NEW n \in Nat,
         s.orders + Cardinality(A) + Cardinality(OpenInvoices(s)) <= MaxInv + n
  PROVE  /\ IsFiniteSet(B)
         /\ s.orders + Cardinality(B) + Cardinality(OpenInvoices(s)) <= MaxInv + (n + 1)
<1> DEFINE S == OpenInvoices(s)
<1>1. IsFiniteSet(S)
  BY OpenFinite
<1>2. Cardinality(S) \in Nat
  BY <1>1, FS_CardinalityType
<1>3. IsFiniteSet(A \cup {c}) /\ Cardinality(A) \in Nat /\ Cardinality(A \cup {c}) \in Nat
      /\ Cardinality(A \cup {c}) <= Cardinality(A) + 1
  <2>1. Cardinality(A) \in Nat
    BY FS_CardinalityType
  <2>2. IsFiniteSet(A \cup {c})
        /\ Cardinality(A \cup {c}) = IF c \in A THEN Cardinality(A) ELSE Cardinality(A) + 1
    BY FS_AddElement
  <2> QED BY <2>1, <2>2
<1>4. IsFiniteSet(B) /\ Cardinality(B) \in Nat /\ Cardinality(B) <= Cardinality(A \cup {c})
  BY <1>3, FewerOf
<1>5. s.orders \in Nat /\ MaxInv \in Nat
  BY SrvFields, Bounds
<1>6. s.orders + Cardinality(A) + Cardinality(S) <= MaxInv + n
  BY DEF S
<1> HIDE DEF S
<1>7. s.orders + Cardinality(B) + Cardinality(S) <= MaxInv + (n + 1)
  BY <1>2, <1>3, <1>4, <1>5, <1>6
<1> QED BY <1>4, <1>7 DEF S

-----------------------------------------------------------------------------
(* The cache as a whole *)

LEMMA InvalidateAllOk ==
  ASSUME NEW f, CacheOk(f), NEW qs, NEW shown, NEW g, g = InvalidateAll(f, qs, shown)
  PROVE  /\ CacheOk(g)
         /\ \A q \in Queries : g[q] = IF q \in qs THEN Invalidate(f[q], q \in shown) ELSE f[q]
<1>1. DOMAIN g = Queries
      /\ \A q \in Queries : g[q] = IF q \in qs THEN Invalidate(f[q], q \in shown) ELSE f[q]
  BY DEF InvalidateAll, CacheOk
<1>2. ASSUME NEW q \in Queries PROVE g[q] \in EntryType(ValueType(q))
  <2> DEFINE b == q \in shown
  <2>1. f[q] \in EntryType(ValueType(q)) /\ b \in BOOLEAN
    BY DEF CacheOk
  <2>2. g[q] = IF q \in qs THEN Invalidate(f[q], b) ELSE f[q]
    BY <1>1
  <2> HIDE DEF b
  <2>3. Invalidate(f[q], b) \in EntryType(ValueType(q))
    BY <2>1, InvalidateOk
  <2> QED BY <2>1, <2>2, <2>3
<1> QED BY <1>1, <1>2 DEF CacheOk

LEMMA RefetchAllOk ==
  ASSUME NEW f, CacheOk(f), NEW qs, NEW g, g = RefetchAll(f, qs)
  PROVE  CacheOk(g)
<1>1. DOMAIN g = Queries /\ \A q \in Queries : g[q] = IF q \in qs THEN Refetch(f[q]) ELSE f[q]
  BY DEF RefetchAll, CacheOk
<1>2. \A q \in Queries : f[q] \in EntryType(ValueType(q))
  BY DEF CacheOk
<1>3. \A q \in Queries : g[q] \in EntryType(ValueType(q))
  BY <1>1, <1>2, RefetchOk
<1> QED BY <1>1, <1>3 DEF CacheOk

LEMMA MountAllOk ==
  ASSUME NEW f, CacheOk(f), NEW qs, NEW old \in BOOLEAN, NEW g, g = MountAll(f, qs, old)
  PROVE  CacheOk(g) /\ \A q \in Queries \ qs : g[q] = f[q]
<1>1. DOMAIN g = Queries /\ \A q \in Queries : g[q] = IF q \in qs THEN Mount(f[q], old) ELSE f[q]
  BY DEF MountAll, CacheOk
<1>2. \A q \in Queries : f[q] \in EntryType(ValueType(q))
  BY DEF CacheOk
<1>3. \A q \in Queries : g[q] \in EntryType(ValueType(q))
  BY <1>1, <1>2, MountOk
<1> QED BY <1>1, <1>3 DEF CacheOk

LEMMA ValuesKeep ==
  ASSUME NEW s, NEW t, NEW q \in Queries, q \notin Changed(s, t)
  PROVE  Value(t, q) = Value(s, q)
BY DEF Changed

(* The dialog and the timers. *)
LEMMA DialogOk ==
  ASSUME dlg \in DialogType, NEW c \in Calls
  PROVE  /\ Release(c) \in DialogType /\ Shut(c) \in DialogType /\ Closed \in DialogType
         /\ [Release(c) EXCEPT !.open = FALSE] \in DialogType
         /\ [dlg EXCEPT !.busy = c] \in DialogType /\ [dlg EXCEPT !.open = FALSE] \in DialogType
         /\ [dlg EXCEPT !.open = TRUE] \in DialogType
BY DEF DialogType, Release, Shut, Closed

LEMMA ClockOk ==
  ASSUME clock \in ClockType
  PROVE  /\ Stopped \in ClockType /\ [clock EXCEPT !.poll = PollPeriod] \in ClockType
         /\ \A k : Rendered(k) \in ClockType
         /\ \A e : Start(e) \in ClockType
<1>1. 0 \in 0..Life /\ Life \in 0..Life /\ PollPeriod \in 0..PollPeriod
  BY Bounds
<1>2. Stopped \in ClockType /\ [clock EXCEPT !.poll = PollPeriod] \in ClockType
      /\ [Stopped EXCEPT !.left = Life] \in ClockType
  BY <1>1 DEF ClockType, Stopped
<1> QED BY <1>2 DEF Rendered, Start

-----------------------------------------------------------------------------
(* Steps that leave the counts, and what the queries hold, as they are *)

LEMMA UserOk ==
  ASSUME clicks \in 0..MaxClicks, User
  PROVE  clicks' \in 0..MaxClicks /\ clicks \in Nat /\ clicks' = clicks + 1
BY Bounds DEF User

LEMMA FaultOk ==
  ASSUME faults \in 0..MaxFaults, Fault
  PROVE  faults' \in 0..MaxFaults
BY Bounds DEF Fault

LEMMA CountStays ==
  ASSUME Shaped, Counted, Shaped', NEW b, Advanced(srv, srv', b), Ordering(call') \subseteq Ordering(call),
         b => \E d \in Ordering(call) : d \notin Ordering(call'), clicks' >= clicks
  PROVE  Counted'
<1>1. /\ srv \in SrvShape /\ srv' \in SrvShape
      /\ clicks \in Nat /\ clicks' \in Nat /\ clicks <= clicks'
  BY DEF Shaped
<1>2. IsFiniteSet(Ordering(call))
      /\ srv.orders + Cardinality(Ordering(call)) + Cardinality(OpenInvoices(srv)) <= MaxInv + clicks
  BY DEF Counted
<1>3. /\ IsFiniteSet(Ordering(call'))
      /\ srv'.orders + Cardinality(Ordering(call')) + Cardinality(OpenInvoices(srv')) <= MaxInv + clicks'
  BY <1>1, <1>2, CountLess
<1> QED BY <1>3 DEF Counted

LEMMA CountSame ==
  ASSUME Shaped, Counted, Shaped', srv' = srv, Ordering(call') \subseteq Ordering(call), clicks' >= clicks
  PROVE  Counted'
<1> DEFINE b == FALSE
<1>1. ~b
  OBVIOUS
<1> HIDE DEF b
<1>2. Advanced(srv, srv', b)
  BY DEF Advanced
<1> QED BY <1>1, <1>2, CountStays

LEMMA ToldKeep ==
  ASSUME Told, \A q \in Queries : q \notin off' => q \notin off /\ Value(srv', q) = Value(srv, q),
         page' = page, cache' = cache,
         \A q \in Queries : Owed(call, q) => Owed(call', q)
  PROVE  Told'
<1> SUFFICES ASSUME NEW q \in Queries \ off'
             PROVE  Owed(call', q) \/ Fine(cache'[q], Value(srv', q), q \in Shown')
  BY DEF Told
<1>1. q \notin off /\ Value(srv', q) = Value(srv, q)
  OBVIOUS
<1>2. Owed(call, q) \/ Fine(cache[q], Value(srv, q), q \in Shown)
  BY <1>1 DEF Told
<1>3. Shown' = Shown
  BY DEF Shown
<1>4. CASE Owed(call, q)
  BY <1>4
<1>5. CASE Fine(cache[q], Value(srv, q), q \in Shown)
  BY <1>1, <1>3, <1>5
<1> QED BY <1>2, <1>4, <1>5

(* A call that owes nothing moves on. *)
LEMMA CallTold ==
  ASSUME Told, srv' = srv, page' = page, cache' = cache, off' = off, NEW c,
         \A d \in Calls : d # c => call'[d] = call[d], call[c].pc # "answered"
  PROVE  Told'
<1>1. \A q \in Queries : Owed(call, q) => Owed(call', q)
  BY OwedKeep DEF Owes
<1> QED BY <1>1, ToldKeep

LEMMA PostKeeps ==
  ASSUME IInv, NEW c \in Calls, NEW kind \in Kinds \cup {"redeem", "sell", "check"},
         NEW arg \in 0..(MaxInv + MaxBal), kind = "check" => arg \in 1..MaxInv, Post(c, kind, arg)
  PROVE  IInv'
<1> DEFINE r == [kind |-> kind, pc |-> "sent", ans |-> "none", arg |-> arg, mine |-> TRUE]
<1>1. /\ call[c].pc = "idle" /\ call' = [call EXCEPT ![c] = r] /\ dlg' = [dlg EXCEPT !.busy = c]
      /\ srv' = srv /\ page' = page /\ cur' = cur /\ clock' = clock /\ shownBal' = shownBal
      /\ cache' = cache /\ off' = off /\ faults' = faults /\ User
  BY DEF Post, Free, At
<1>2. CallOk(r) /\ r.pc = "sent" /\ r.kind = kind
  BY DEF CallOk, CallType
<1> HIDE DEF r
<1>3. Shaped
  BY DEF IInv
<1>4. clicks' \in 0..MaxClicks /\ clicks \in Nat /\ clicks' = clicks + 1
  BY <1>1, <1>3, UserOk DEF Shaped
<1>5. /\ call' \in [Calls -> CallType] /\ \A d \in Calls : CallOk(call'[d])
      /\ call'[c] = r /\ \A d \in Calls : d # c => call'[d] = call[d]
  BY <1>1, <1>2, <1>3, CallChanged DEF Shaped
<1>6. dlg' \in DialogType
  BY <1>1, <1>3, DialogOk DEF Shaped
<1>7. Shaped'
  BY <1>1, <1>3, <1>4, <1>5, <1>6 DEF Shaped
<1>8. Counted'
  <2>1. Ordering(call') \subseteq Ordering(call) \cup {c}
    BY <1>5 DEF Ordering
  <2>2. IsFiniteSet(Ordering(call))
        /\ srv.orders + Cardinality(Ordering(call)) + Cardinality(OpenInvoices(srv)) <= MaxInv + clicks
    BY DEF IInv, Counted
  <2>3. srv \in SrvShape
    BY <1>3 DEF Shaped
  <2>4. /\ IsFiniteSet(Ordering(call'))
        /\ srv.orders + Cardinality(Ordering(call')) + Cardinality(OpenInvoices(srv)) <= MaxInv + (clicks + 1)
    BY <1>4, <2>1, <2>2, <2>3, CountMore
  <2> QED BY <1>1, <1>4, <2>4 DEF Counted
<1>9. Told'
  BY <1>1, <1>5, CallTold DEF IInv
<1> QED BY <1>7, <1>8, <1>9 DEF IInv

(* Steps of one call that owes nothing and does not order, by what else    *)
(* they touch.                                                             *)
LEMMA QuietKeeps ==
  ASSUME IInv, NEW c \in Calls, call[c].pc # "answered",
         NEW r, CallOk(r), r.pc # "sent" \/ r.kind # "smm", call' = [call EXCEPT ![c] = r],
         dlg' \in DialogType, clock' \in ClockType, shownBal' \in 0..MaxBal, faults' \in 0..MaxFaults,
         srv' = srv, page' = page, cur' = cur, cache' = cache, off' = off, clicks' = clicks
  PROVE  IInv'
<1>1. Shaped
  BY DEF IInv
<1>2. /\ call' \in [Calls -> CallType] /\ \A d \in Calls : CallOk(call'[d])
      /\ call'[c] = r /\ \A d \in Calls : d # c => call'[d] = call[d]
  BY <1>1, CallChanged DEF Shaped
<1>3. Shaped'
  BY <1>1, <1>2 DEF Shaped
<1>4. Ordering(call') \subseteq Ordering(call)
  BY <1>2, OrderingLess
<1>5. Counted'
  <2>1. clicks' >= clicks
    BY <1>1 DEF Shaped
  <2> QED BY <1>1, <1>3, <1>4, <2>1, CountSame DEF IInv
<1>6. Told'
  BY <1>2, CallTold DEF IInv
<1> QED BY <1>3, <1>5, <1>6 DEF IInv

(* Steps that leave the calls, the server and the queries alone. *)
LEMMA StillKeeps ==
  ASSUME IInv, dlg' \in DialogType, clock' \in ClockType, clicks' \in 0..MaxClicks, clicks' >= clicks,
         srv' = srv, page' = page, cur' = cur, shownBal' = shownBal, cache' = cache, call' = call,
         off' = off, faults' = faults
  PROVE  IInv'
<1>1. Shaped
  BY DEF IInv
<1>2. Shaped'
  BY <1>1 DEF Shaped
<1>3. Counted'
  BY <1>1, <1>2, CountSame DEF IInv
<1>4. Told'
  BY ToldKeep DEF IInv
<1> QED BY <1>2, <1>3, <1>4 DEF IInv

(* The server moves by itself. *)
LEMMA ServerKeeps ==
  ASSUME IInv, srv' \in SrvShape, Advanced(srv, srv', FALSE), off \subseteq off', off' \subseteq Queries,
         \A q \in Queries : q \notin off' => Value(srv', q) = Value(srv, q), faults' \in 0..MaxFaults,
         page' = page, cur' = cur, dlg' = dlg, clock' = clock, shownBal' = shownBal,
         cache' = cache, call' = call, clicks' = clicks
  PROVE  IInv'
<1>1. Shaped
  BY DEF IInv
<1>2. Shaped'
  BY <1>1 DEF Shaped
<1>3. Counted'
  <2> DEFINE b == FALSE
  <2>1. Advanced(srv, srv', b) /\ ~b
    OBVIOUS
  <2> HIDE DEF b
  <2>2. clicks' >= clicks
    BY <1>1 DEF Shaped
  <2> QED BY <1>1, <1>2, <2>1, <2>2, CountStays DEF IInv
<1>4. Told'
  BY ToldKeep DEF IInv
<1> QED BY <1>2, <1>3, <1>4 DEF IInv

(* A call is served: what it changed is not promised, or owed from now on. *)
LEMMA ServedKeeps ==
  ASSUME IInv, NEW c \in Calls, call[c].pc # "answered",
         NEW r, CallOk(r), r.pc # "sent", call' = [call EXCEPT ![c] = r],
         srv' \in SrvShape, NEW b, Advanced(srv, srv', b), b => c \in Ordering(call),
         off \subseteq off', off' \subseteq Queries,
         \A q \in Queries : q \notin off' => Value(srv', q) = Value(srv, q) \/ Owes(r, q),
         faults' \in 0..MaxFaults,
         page' = page, cur' = cur, dlg' = dlg, clock' = clock, shownBal' = shownBal,
         cache' = cache, clicks' = clicks
  PROVE  IInv'
<1>1. Shaped
  BY DEF IInv
<1>2. /\ call' \in [Calls -> CallType] /\ \A d \in Calls : CallOk(call'[d])
      /\ call'[c] = r /\ \A d \in Calls : d # c => call'[d] = call[d]
  BY <1>1, CallChanged DEF Shaped
<1>3. Shaped'
  BY <1>1, <1>2 DEF Shaped
<1>4. Ordering(call') \subseteq Ordering(call) /\ c \notin Ordering(call')
  BY <1>2, OrderingLess
<1>5. Counted'
  <2>1. clicks' >= clicks
    BY <1>1 DEF Shaped
  <2> QED BY <1>1, <1>3, <1>4, <2>1, CountStays DEF IInv
<1>6. Told'
  <2> SUFFICES ASSUME NEW q \in Queries \ off'
               PROVE  Owed(call', q) \/ Fine(cache'[q], Value(srv', q), q \in Shown')
    BY DEF Told
  <2>1. CASE Owes(r, q)
    BY <1>2, <2>1 DEF Owed
  <2>2. CASE Value(srv', q) = Value(srv, q)
    <3>1. Owed(call, q) \/ Fine(cache[q], Value(srv, q), q \in Shown)
      BY DEF IInv, Told
    <3>2. Owed(call, q) => Owed(call', q)
      BY <1>2, OwedKeep DEF Owes
    <3>3. Shown' = Shown
      BY DEF Shown
    <3>4. cache'[q] = cache[q]
      OBVIOUS
    <3> QED BY <2>2, <3>1, <3>2, <3>3, <3>4
  <2> QED BY <2>1, <2>2
<1> QED BY <1>3, <1>5, <1>6 DEF IInv

-----------------------------------------------------------------------------
(* The actions *)

LEMMA UserStepKeeps ==
  ASSUME IInv, NEW c \in Calls, UserStep(c)
  PROVE  IInv'
<1> DEFINE Kind == Kinds \cup {"redeem", "sell", "check"}
<1>1. /\ 0 \in 0..(MaxInv + MaxBal) /\ 1 \in 0..(MaxInv + MaxBal)
      /\ \A i \in 0..MaxInv : i \in 0..(MaxInv + MaxBal)
  BY Bounds
<1>2. /\ "topup" \in Kind /\ "subscription" \in Kind /\ "redeem" \in Kind /\ "marketplace" \in Kind
      /\ "sell" \in Kind /\ "smm" \in Kind /\ "check" \in Kind
  BY DEF Kinds
<1>3. CASE TopupForm(c)
  BY <1>1, <1>2, <1>3, PostKeeps DEF TopupForm
<1>4. CASE PayPlan(c)
  BY <1>1, <1>2, <1>4, PostKeeps DEF PayPlan
<1>5. CASE RedeemForm(c)
  BY <1>1, <1>2, <1>5, PostKeeps DEF RedeemForm
<1>6. CASE ConfirmBuy(c)
  BY <1>1, <1>2, <1>6, PostKeeps DEF ConfirmBuy
<1>7. CASE ConfirmSell(c)
  BY <1>1, <1>2, <1>7, PostKeeps DEF ConfirmSell
<1>8. CASE SubmitOrder(c)
  BY <1>1, <1>2, <1>8, PostKeeps DEF SubmitOrder
<1>9. CASE ConfirmPayment(c)
  <2>1. cur \in 1..MaxInv
    BY <1>9, Bounds DEF ConfirmPayment, Waiting, Tx, IInv, Shaped
  <2>2. cur \in 0..(MaxInv + MaxBal) /\ Post(c, "check", cur)
    BY <1>1, <1>9, <2>1 DEF ConfirmPayment, IInv, Shaped
  <2> QED BY <1>2, <2>1, <2>2, PostKeeps
<1> QED BY <1>3, <1>4, <1>5, <1>6, <1>7, <1>8, <1>9 DEF UserStep

LEMMA LostOk ==
  ASSUME NEW k, CallOk(k), NEW r, r = [k EXCEPT !.pc = "answered", !.ans = "lost"]
  PROVE  CallOk(r) /\ r.pc = "answered" /\ r.ans = "lost" /\ r.kind = k.kind
<1>1. k \in CallType
  BY DEF CallOk
<1>2. r \in CallType /\ r.pc = "answered" /\ r.ans = "lost" /\ r.kind = k.kind
  BY <1>1 DEF CallType
<1> QED BY <1>2 DEF CallOk

LEMMA LoseKeeps ==
  ASSUME IInv, NEW c \in Calls, Lose(c)
  PROVE  IInv'
<1> DEFINE r == [call[c] EXCEPT !.pc = "answered", !.ans = "lost"]
<1>1. CallOk(call[c])
  BY DEF IInv, Shaped
<1>2. r = [call[c] EXCEPT !.pc = "answered", !.ans = "lost"] /\ call' = [call EXCEPT ![c] = r]
  BY DEF Lose
<1> HIDE DEF r
<1>3. CallOk(r) /\ r.pc = "answered"
  BY <1>1, <1>2, LostOk
<1>4. faults' \in 0..MaxFaults
  BY FaultOk DEF Lose, IInv, Shaped
<1> QED BY <1>2, <1>3, <1>4, QuietKeeps DEF Lose, At, IInv, Shaped

LEMMA SaleTimesOutKeeps ==
  ASSUME IInv, NEW c \in Calls, SaleTimesOut(c)
  PROVE  IInv'
<1>1. Shaped /\ Counted /\ Told
  BY DEF IInv
<1>2. PICK d \in Calls \ {c} :
        /\ Free(d)
        /\ call' = [call EXCEPT ![c] = [@ EXCEPT !.pc = "answered", !.ans = "lost"],
                                ![d] = [call[c] EXCEPT !.pc = "late", !.mine = FALSE]]
  BY DEF SaleTimesOut
<1> DEFINE r == [call[c] EXCEPT !.pc = "answered", !.ans = "lost"]
           u == [call[c] EXCEPT !.pc = "late", !.mine = FALSE]
<1>3. call[d].pc = "idle" /\ call[c].pc = "sent"
  BY <1>2 DEF Free, At, SaleTimesOut
<1>4. call \in [Calls -> CallType] /\ CallOk(call[c]) /\ call[c] \in CallType
  BY <1>1 DEF Shaped
<1>5. call' \in [Calls -> {r, u} \cup CallType] /\ call'[c] = r /\ call'[d] = u
      /\ \A e \in Calls : e # c /\ e # d => call'[e] = call[e]
  BY <1>2, <1>4
<1>6. r = [call[c] EXCEPT !.pc = "answered", !.ans = "lost"]
  OBVIOUS
<1>7. u \in CallType /\ u.pc = "late"
  BY <1>4 DEF CallType
<1> HIDE DEF r, u
<1>8. CallOk(r) /\ r.pc = "answered" /\ r \in CallType
  BY <1>4, <1>6, LostOk DEF CallOk
<1>9. CallOk(u)
  BY <1>7 DEF CallOk
<1>10. call' \in [Calls -> CallType]
  BY <1>5, <1>7, <1>8
<1>11. \A e \in Calls : CallOk(call'[e])
  BY <1>1, <1>5, <1>8, <1>9 DEF Shaped
<1>12. faults' \in 0..MaxFaults
  BY <1>1, FaultOk DEF SaleTimesOut, Shaped
<1>13. Shaped'
  BY <1>1, <1>10, <1>11, <1>12 DEF SaleTimesOut, Shaped
<1>14. Ordering(call') \subseteq Ordering(call)
  BY <1>5, <1>7, <1>8 DEF Ordering
<1>15. Counted'
  <2>1. clicks' >= clicks
    BY <1>1 DEF SaleTimesOut, Shaped
  <2> QED BY <1>1, <1>13, <1>14, <2>1, CountSame DEF SaleTimesOut
<1>16. \A q \in Queries : Owed(call, q) => Owed(call', q)
  BY <1>3, <1>5 DEF Owed, Owes
<1>17. Told'
  BY <1>1, <1>16, ToldKeep DEF SaleTimesOut
<1> QED BY <1>13, <1>15, <1>17 DEF IInv

LEMMA PollKeeps ==
  ASSUME IInv, NEW c \in Calls, Poll(c)
  PROVE  IInv'
<1> DEFINE r == [NoCall EXCEPT !.kind = "check", !.pc = "sent", !.arg = cur, !.mine = TRUE]
<1>1. cur \in 1..MaxInv /\ cur \in 0..(MaxInv + MaxBal)
  BY Bounds DEF Poll, Waiting, Tx, IInv, Shaped
<1>2. r \in CallType /\ r.kind = "check" /\ r.pc = "sent" /\ r.arg = cur
  BY <1>1 DEF NoCall, CallType
<1>3. call' = [call EXCEPT ![c] = r]
  BY DEF Poll
<1> HIDE DEF r
<1>4. CallOk(r)
  BY <1>1, <1>2 DEF CallOk
<1>5. clock' \in ClockType /\ dlg' \in DialogType /\ shownBal' \in 0..MaxBal /\ faults' \in 0..MaxFaults
  BY ClockOk DEF Poll, IInv, Shaped
<1> QED BY <1>2, <1>3, <1>4, <1>5, QuietKeeps DEF Poll, Free, At

LEMMA PromisesOwed ==
  ASSUME NEW kind
  PROVE  Promised(kind) \subseteq Refreshes(kind)
<1>1. CASE kind \in {"topup", "subscription", "redeem", "marketplace", "sell", "check"}
  BY <1>1 DEF Promised, Refreshes, useRequestTopup, useCheckoutSubscription, useRedeemCode,
                useBuyAccount, useSellAccounts, useCheckTopupStatus
<1>2. CASE kind \notin {"topup", "subscription", "redeem", "marketplace", "sell", "check"}
  BY <1>2 DEF Promised
<1> QED BY <1>1, <1>2

LEMMA AnsweredOk ==
  ASSUME NEW s \in SrvShape, NEW k, CallOk(k), k.pc = "sent", NEW o, Answers(s, k, o),
         NEW r, r = Answered(k, o)
  PROVE  /\ CallOk(r) /\ r.pc = "answered" /\ r.kind = k.kind
         /\ r.ans \in {"refused", "pending"} \/ r.ans \in {"done", "invoice", "paid"}
         /\ r.ans \in {"refused", "pending"} => o.s = s
<1> DEFINE a == Seen(k, o)
           i == IF o.ans = "invoice" THEN o.i ELSE k.arg
<1>1. k \in CallType /\ k.arg \in 0..(MaxInv + MaxBal)
  BY CallFields DEF CallOk
<1>2. /\ o.ans \in {"done", "invoice", "refused", "paid", "pending"}
      /\ o.ans \in {"refused", "pending"} => o.s = s
      /\ o.ans = "invoice" => o.i \in 1..MaxInv
      /\ o.ans = "done" => k.kind \in {"subscription", "redeem", "sell", "marketplace", "smm"}
      /\ o.ans \in {"paid", "pending"} => k.kind = "check"
  BY DEF Answers
<1>3. a = o.ans \/ (a = "done" /\ k.kind = "subscription")
  BY DEF Seen
<1>4. i \in 0..(MaxInv + MaxBal) /\ (o.ans = "invoice" => i \in 1..MaxInv)
  <2>1. CASE o.ans = "invoice"
    BY <1>2, <2>1, Bounds
  <2>2. CASE o.ans # "invoice"
    BY <1>1, <2>2
  <2> QED BY <2>1, <2>2
<1>5. r = [k EXCEPT !.pc = "answered", !.ans = a, !.arg = i]
  BY DEF Answered
<1> HIDE DEF a, i
<1>6. a \in {"done", "invoice", "refused", "paid", "pending"}
  BY <1>2, <1>3
<1>7. r \in CallType /\ r.pc = "answered" /\ r.kind = k.kind /\ r.ans = a /\ r.arg = i
  BY <1>1, <1>4, <1>5, <1>6 DEF CallType
<1>8. /\ r.ans = "invoice" => r.arg \in 1..MaxInv
      /\ r.ans = "done" => r.kind \in {"subscription", "redeem", "sell", "marketplace", "smm"}
      /\ r.ans \in {"paid", "pending"} => r.kind = "check"
      /\ r.ans \in {"refused", "pending"} => o.s = s
  BY <1>2, <1>3, <1>4, <1>7
<1>9. CallOk(r)
  BY <1>7, <1>8 DEF CallOk
<1> QED BY <1>6, <1>7, <1>8, <1>9

LEMMA ServeKeeps ==
  ASSUME IInv, NEW c \in Calls, Serve(c)
  PROVE  IInv'
<1> DEFINE k == call[c]
<1>1. Shaped /\ srv \in SrvShape /\ CallOk(k) /\ k.pc = "sent" /\ off \subseteq Queries
  BY DEF IInv, Shaped, Serve, At
<1>2. /\ page' = page /\ cur' = cur /\ dlg' = dlg /\ clock' = clock /\ shownBal' = shownBal
      /\ cache' = cache /\ clicks' = clicks
  BY DEF Serve
<1>3. PICK o \in Outcomes(srv, k) :
        /\ srv' = o.s
        /\ \/ /\ call' = [call EXCEPT ![c] = Answered(call[c], o)]
              /\ off' = off \cup (Changed(srv, o.s) \ Promised(call[c].kind))
              /\ UNCHANGED faults
           \/ /\ Fault
              /\ call' = [call EXCEPT ![c] = [@ EXCEPT !.pc = "answered", !.ans = "lost"]]
              /\ off' = off \cup (Changed(srv, o.s) \ (IF call[c].kind = "sell" THEN Promised("sell") ELSE {}))
  BY DEF Serve
<1>4. Answers(srv, k, o)
  BY <1>1, OutcomeOk
<1> DEFINE b == k.kind = "smm"
<1>5. srv' \in SrvShape /\ Advanced(srv, srv', b)
  BY <1>3, <1>4 DEF Answers
<1>6. b => c \in Ordering(call)
  BY <1>1 DEF Ordering
<1>7. Changed(srv, o.s) \subseteq Queries
  BY DEF Changed
<1>8. CASE /\ call' = [call EXCEPT ![c] = Answered(call[c], o)]
           /\ off' = off \cup (Changed(srv, o.s) \ Promised(call[c].kind))
           /\ UNCHANGED faults
  <2> DEFINE r == Answered(k, o)
  <2>1. call' = [call EXCEPT ![c] = r]
    BY <1>8
  <2>2. r = Answered(k, o)
    OBVIOUS
  <2>3. off' = off \cup (Changed(srv, o.s) \ Promised(k.kind))
    BY <1>8
  <2> HIDE DEF r, k
  <2>4. /\ CallOk(r) /\ r.pc = "answered" /\ r.kind = k.kind
        /\ r.ans \in {"refused", "pending"} \/ r.ans \in {"done", "invoice", "paid"}
        /\ r.ans \in {"refused", "pending"} => o.s = srv
    BY <1>1, <1>4, <2>2, AnsweredOk
  <2>5. ASSUME NEW q \in Queries, q \notin off'
        PROVE  Value(srv', q) = Value(srv, q) \/ Owes(r, q)
    <3>1. CASE q \notin Changed(srv, o.s)
      BY <1>3, <3>1, ValuesKeep
    <3>2. CASE q \in Changed(srv, o.s)
      <4>1. q \in Refreshes(k.kind)
        BY <2>3, <2>5, <3>2, PromisesOwed
      <4>2. o.s # srv
        BY <3>2 DEF Changed
      <4> QED BY <2>4, <4>1, <4>2 DEF Owes
    <3> QED BY <3>1, <3>2
  <2>6. off \subseteq off' /\ off' \subseteq Queries /\ faults' \in 0..MaxFaults
    BY <1>1, <1>7, <1>8, <2>3 DEF Shaped
  <2>7. call[c].pc # "answered"
    BY <1>1 DEF k
  <2> HIDE DEF b
  <2> QED BY <1>2, <1>5, <1>6, <2>1, <2>4, <2>5, <2>6, <2>7, ServedKeeps
<1>9. CASE /\ Fault
           /\ call' = [call EXCEPT ![c] = [@ EXCEPT !.pc = "answered", !.ans = "lost"]]
           /\ off' = off \cup (Changed(srv, o.s) \ (IF call[c].kind = "sell" THEN Promised("sell") ELSE {}))
  <2> DEFINE r == [k EXCEPT !.pc = "answered", !.ans = "lost"]
  <2>1. call' = [call EXCEPT ![c] = r]
    BY <1>9
  <2>2. r = [k EXCEPT !.pc = "answered", !.ans = "lost"]
    OBVIOUS
  <2>3. off' = off \cup (Changed(srv, o.s) \ (IF k.kind = "sell" THEN Promised("sell") ELSE {}))
    BY <1>9
  <2> HIDE DEF r, k
  <2>4. CallOk(r) /\ r.pc = "answered" /\ r.kind = k.kind
    BY <1>1, <2>2, LostOk
  <2>5. ASSUME NEW q \in Queries, q \notin off'
        PROVE  Value(srv', q) = Value(srv, q) \/ Owes(r, q)
    <3>1. CASE q \notin Changed(srv, o.s)
      BY <1>3, <3>1, ValuesKeep
    <3>2. CASE q \in Changed(srv, o.s)
      <4>1. k.kind = "sell" /\ q \in Promised("sell")
        BY <2>3, <2>5, <3>2
      <4>2. q \in Refreshes("sell")
        BY <4>1, PromisesOwed
      <4> QED BY <2>4, <4>1, <4>2 DEF Owes
    <3> QED BY <3>1, <3>2
  <2>6. off \subseteq off' /\ off' \subseteq Queries
    BY <1>1, <1>7, <2>3
  <2>7. call[c].pc # "answered" /\ faults' \in 0..MaxFaults
    BY <1>1, <1>9, FaultOk DEF k, Shaped
  <2> HIDE DEF b
  <2> QED BY <1>2, <1>5, <1>6, <2>1, <2>4, <2>5, <2>6, <2>7, ServedKeeps
<1> QED BY <1>3, <1>8, <1>9

LEMMA LateSaleKeeps ==
  ASSUME IInv, NEW c \in Calls, LateSale(c)
  PROVE  IInv'
<1>1. /\ call[c].pc = "late" /\ srv' = Sell(srv).s /\ off' = off \cup Changed(srv, srv')
      /\ call' = [call EXCEPT ![c] = NoCall]
      /\ page' = page /\ cur' = cur /\ dlg' = dlg /\ clock' = clock /\ shownBal' = shownBal
      /\ cache' = cache /\ clicks' = clicks /\ faults' = faults
  BY DEF LateSale, At, End
<1> DEFINE b == FALSE
<1>2. srv' \in SrvShape /\ Advanced(srv, srv', b)
  BY <1>1, LateSaleOk DEF IInv, Shaped
<1>3. b => c \in Ordering(call)
  OBVIOUS
<1> HIDE DEF b
<1>4. off \subseteq off' /\ off' \subseteq Queries /\ faults' \in 0..MaxFaults
  BY <1>1 DEF IInv, Shaped, Changed
<1>5. \A q \in Queries : q \notin off' => Value(srv', q) = Value(srv, q)
  BY <1>1, ValuesKeep
<1>6. CallOk(NoCall) /\ NoCall.pc # "sent"
  BY NoCallOk
<1>7. call[c].pc # "answered"
  BY <1>1
<1> QED BY <1>1, <1>2, <1>3, <1>4, <1>5, <1>6, <1>7, ServedKeeps

(* What is left to other calls, or shown, once the handler of c is through. *)
Through(c, q, e) ==
  (\E d \in Calls : d # c /\ Owes(call[d], q)) \/ Fine(e, Value(srv, q), q \in Shown)

LEMMA InvalidatedOk ==
  ASSUME Shaped, Told, NEW c \in Calls
  PROVE  /\ CacheOk(Invalidated(c)) /\ off \subseteq MissedBy(c) /\ MissedBy(c) \subseteq Queries
         /\ \A q \in Queries : q \notin MissedBy(c) => Through(c, q, Invalidated(c)[q])
<1> DEFINE R == Refreshes(call[c].kind)
           S == Shown
           g == Invalidated(c)
<1>1. CacheOk(cache) /\ g = InvalidateAll(cache, R, S)
  BY DEF Shaped, Invalidated
<1>2. MissedBy(c) = off \cup Overtaken(cache, R, S)
  BY DEF MissedBy
<1>3. \A q \in Queries : Owes(call[c], q) => q \in R
  BY DEF Owes
<1>s. S = Shown
  OBVIOUS
<1> HIDE DEF R, S, g
<1>4. /\ CacheOk(g)
      /\ \A q \in Queries : g[q] = IF q \in R THEN Invalidate(cache[q], q \in S) ELSE cache[q]
  BY <1>1, InvalidateAllOk
<1>5. off \subseteq MissedBy(c) /\ MissedBy(c) \subseteq Queries
  BY <1>1, <1>2 DEF Overtaken, CacheOk, Shaped
<1>6. ASSUME NEW q \in Queries, q \notin MissedBy(c)
      PROVE  Through(c, q, g[q])
  <2>1. CASE q \in R
    <3> DEFINE e == cache[q]
               b == q \in S
    <3>1. e \in EntryType(ValueType(q)) /\ b \in BOOLEAN
      BY <1>1 DEF CacheOk
    <3>2. ~(e.net = "read" /\ Invalidate(e, b).net = "read")
      BY <1>1, <1>2, <1>6, <2>1 DEF Overtaken, CacheOk
    <3>3. g[q] = Invalidate(e, b)
      BY <1>4, <2>1
    <3>4. b = (q \in Shown)
      BY <1>s
    <3> HIDE DEF e, b
    <3>5. Fine(Invalidate(e, b), Value(srv, q), b)
      BY <3>1, <3>2, FineInvalidate
    <3> QED BY <3>3, <3>4, <3>5 DEF Through
  <2>2. CASE q \notin R
    <3>1. Owed(call, q) \/ Fine(cache[q], Value(srv, q), q \in Shown)
      BY <1>5, <1>6 DEF Told
    <3>2. g[q] = cache[q]
      BY <1>4, <2>2
    <3>3. CASE Owed(call, q)
      BY <1>3, <2>2, <3>3 DEF Owed, Through
    <3>4. CASE Fine(cache[q], Value(srv, q), q \in Shown)
      BY <3>2, <3>4 DEF Through
    <3> QED BY <3>1, <3>3, <3>4
  <2> QED BY <2>1, <2>2
<1> QED BY <1>4, <1>5, <1>6 DEF g

LEMMA UnowedThrough ==
  ASSUME Told, NEW c, NEW q \in Queries, q \notin off, ~Owes(call[c], q)
  PROVE  Through(c, q, cache[q])
<1>1. Owed(call, q) \/ Fine(cache[q], Value(srv, q), q \in Shown)
  BY DEF Told
<1>2. CASE Owed(call, q)
  BY <1>2 DEF Owed, Through
<1>3. CASE Fine(cache[q], Value(srv, q), q \in Shown)
  BY <1>3 DEF Through
<1> QED BY <1>1, <1>2, <1>3

LEMMA RefetchThrough ==
  ASSUME NEW f, CacheOk(f), NEW qs, NEW c, NEW q \in Queries, Through(c, q, f[q])
  PROVE  Through(c, q, RefetchAll(f, qs)[q])
<1> DEFINE g == RefetchAll(f, qs)
           s == q \in Shown
<1>g. g = RefetchAll(f, qs)
  OBVIOUS
<1>b. s \in BOOLEAN
  OBVIOUS
<1>1. g = RefetchAll(f, qs) /\ s = (q \in Shown)
  OBVIOUS
<1> HIDE DEF g, s
<1>a. g[q] = (IF q \in qs THEN Refetch(f[q]) ELSE f[q]) /\ f[q] \in EntryType(ValueType(q))
  BY <1>g DEF RefetchAll, CacheOk
<1>2. ASSUME NEW v, Fine(f[q], v, s)
      PROVE  Fine(g[q], v, s)
  <2>1. Fine(Refetch(f[q]), v, s)
    BY <1>a, <1>b, <1>2, FineRefetch
  <2> QED BY <1>a, <1>2, <2>1
<1>3. CASE \E d \in Calls : d # c /\ Owes(call[d], q)
  BY <1>3 DEF Through
<1>4. CASE Fine(f[q], Value(srv, q), q \in Shown)
  <2>1. Fine(f[q], Value(srv, q), s)
    BY <1>1, <1>4
  <2>2. Fine(g[q], Value(srv, q), s)
    BY <1>2, <2>1
  <2> QED BY <1>1, <2>2 DEF Through
<1> QED BY <1>3, <1>4 DEF Through

LEMMA HandlerKeeps ==
  ASSUME IInv, NEW c \in Calls,
         NEW r, CallOk(r), r.pc # "sent", call' = [call EXCEPT ![c] = r],
         CacheOk(cache'), off \subseteq off', off' \subseteq Queries,
         \A q \in Queries : q \notin off' => Through(c, q, cache'[q]),
         dlg' \in DialogType, clock' \in ClockType, shownBal' \in 0..MaxBal, faults' = faults,
         srv' = srv, page' = page, cur' = cur, clicks' = clicks
  PROVE  IInv'
<1>1. Shaped
  BY DEF IInv
<1>2. /\ call' \in [Calls -> CallType] /\ \A d \in Calls : CallOk(call'[d])
      /\ call'[c] = r /\ \A d \in Calls : d # c => call'[d] = call[d]
  BY <1>1, CallChanged DEF Shaped
<1>3. Shaped'
  BY <1>1, <1>2 DEF Shaped
<1>4. Ordering(call') \subseteq Ordering(call)
  BY <1>2, OrderingLess
<1>5. Counted'
  <2>1. clicks' >= clicks
    BY <1>1 DEF Shaped
  <2> QED BY <1>1, <1>3, <1>4, <2>1, CountSame DEF IInv
<1>6. Told'
  <2> SUFFICES ASSUME NEW q \in Queries \ off'
               PROVE  Owed(call', q) \/ Fine(cache'[q], Value(srv', q), q \in Shown')
    BY DEF Told
  <2>1. Through(c, q, cache'[q])
    OBVIOUS
  <2>2. CASE \E d \in Calls : d # c /\ Owes(call[d], q)
    BY <1>2, <2>2 DEF Owed
  <2>3. CASE Fine(cache'[q], Value(srv, q), q \in Shown)
    <3>1. Shown' = Shown
      BY DEF Shown
    <3> QED BY <2>3, <3>1
  <2> QED BY <2>1, <2>2, <2>3 DEF Through
<1> QED BY <1>3, <1>5, <1>6 DEF IInv

LEMMA HandleErrorKeeps ==
  ASSUME IInv, NEW c \in Calls, HandleError(c)
  PROVE  IInv'
<1>1. Shaped /\ Told
  BY DEF IInv
<1>2. /\ call[c].pc = "answered" /\ call[c].ans \in {"refused", "lost"}
      /\ clock' = Rendered(call[c]) /\ call' = [call EXCEPT ![c] = NoCall]
      /\ srv' = srv /\ page' = page /\ cur' = cur /\ shownBal' = shownBal
      /\ clicks' = clicks /\ faults' = faults
  BY DEF HandleError, At, End
<1>3. clock' \in ClockType /\ shownBal' \in 0..MaxBal
  BY <1>1, <1>2, ClockOk DEF Shaped
<1>4. CallOk(NoCall) /\ NoCall.pc # "sent"
  BY NoCallOk
<1>5. CASE call[c].kind = "sell"
  <2>1. cache' = Invalidated(c) /\ off' = MissedBy(c)
    BY <1>5 DEF HandleError
  <2>2. dlg' \in DialogType
    BY <1>1, <1>5, DialogOk DEF HandleError, Shaped
  <2>3. /\ CacheOk(cache') /\ off \subseteq off' /\ off' \subseteq Queries
        /\ \A q \in Queries : q \notin off' => Through(c, q, cache'[q])
    BY <1>1, <2>1, InvalidatedOk
  <2> QED BY <1>2, <1>3, <1>4, <2>2, <2>3, HandlerKeeps
<1>6. CASE call[c].kind # "sell"
  <2>1. dlg' = Release(c) /\ cache' = cache /\ off' = off
    BY <1>6 DEF HandleError
  <2>2. dlg' \in DialogType
    BY <1>1, <2>1, DialogOk DEF Shaped
  <2>3. \A q \in Queries : ~Owes(call[c], q)
    BY <1>2, <1>6 DEF Owes
  <2>4. \A q \in Queries : q \notin off' => Through(c, q, cache'[q])
    BY <1>1, <2>1, <2>3, UnowedThrough
  <2>5. CacheOk(cache') /\ off \subseteq off' /\ off' \subseteq Queries
    BY <1>1, <2>1 DEF Shaped
  <2> QED BY <1>2, <1>3, <1>4, <2>2, <2>4, <2>5, HandlerKeeps
<1> QED BY <1>5, <1>6

LEMMA HandleDoneKeeps ==
  ASSUME IInv, NEW c \in Calls, HandleDone(c)
  PROVE  IInv'
<1>1. Shaped /\ Told /\ CallOk(call[c])
  BY DEF IInv, Shaped
<1>2. /\ call[c].pc = "answered" /\ call[c].ans = "done"
      /\ cache' = Invalidated(c) /\ off' = MissedBy(c)
      /\ srv' = srv /\ page' = page /\ cur' = cur /\ clock' = clock /\ shownBal' = shownBal
      /\ clicks' = clicks /\ faults' = faults
  BY DEF HandleDone, At
<1>3. call[c].kind \in {"subscription", "redeem", "sell", "marketplace", "smm"}
  BY <1>1, <1>2 DEF CallOk
<1>4. dlg' \in DialogType
  BY <1>1, <1>3, DialogOk DEF HandleDone, handleCheckoutWithBalance, handleRedeemSubmit, handleSellConfirm,
     handleBuyConfirm, handleSubmitOrder, Shaped
<1>5. /\ CacheOk(cache') /\ off \subseteq off' /\ off' \subseteq Queries
      /\ \A q \in Queries : q \notin off' => Through(c, q, cache'[q])
  BY <1>1, <1>2, InvalidatedOk
<1>6. clock' \in ClockType /\ shownBal' \in 0..MaxBal
  BY <1>1, <1>2 DEF Shaped
<1>7. CASE call[c].kind = "smm"
  <2>1. call' = [call EXCEPT ![c] = NoCall]
    BY <1>7 DEF HandleDone, End
  <2> QED BY <1>2, <1>4, <1>5, <1>6, <2>1, NoCallOk, HandlerKeeps
<1>8. CASE call[c].kind # "smm"
  <2> DEFINE r == [call[c] EXCEPT !.pc = "me"]
  <2>1. call' = [call EXCEPT ![c] = r]
    BY <1>8 DEF HandleDone, To
  <2>2. CallOk(r) /\ r.pc = "me"
    BY <1>1 DEF CallOk, CallType
  <2> HIDE DEF r
  <2> QED BY <1>2, <1>4, <1>5, <1>6, <2>1, <2>2, HandlerKeeps
<1> QED BY <1>7, <1>8

LEMMA HandleCheckKeeps ==
  ASSUME IInv, NEW c \in Calls, HandleCheck(c)
  PROVE  IInv'
<1>1. Shaped /\ Told /\ CallOk(call[c])
  BY DEF IInv, Shaped
<1>2. /\ call[c].pc = "answered" /\ call[c].ans \in {"paid", "pending"}
      /\ dlg' = Release(c) /\ clock' = Rendered(call[c]) /\ call' = [call EXCEPT ![c] = NoCall]
      /\ srv' = srv /\ page' = page /\ cur' = cur /\ shownBal' = shownBal
      /\ clicks' = clicks /\ faults' = faults
  BY DEF HandleCheck, At, End
<1> DEFINE before == IF call[c].ans = "paid" THEN Invalidated(c) ELSE cache
           qs == {"txs"}
           g == RefetchAll(before, qs)
<1>3. cache' = g \/ cache' = before
  BY DEF HandleCheck
<1>4. off' = IF call[c].ans = "paid" THEN MissedBy(c) ELSE off
  BY DEF HandleCheck
<1>5. /\ CacheOk(before) /\ off \subseteq off' /\ off' \subseteq Queries
      /\ \A q \in Queries : q \notin off' => Through(c, q, before[q])
  <2>1. CASE call[c].ans = "paid"
    BY <1>1, <1>4, <2>1, InvalidatedOk
  <2>2. CASE call[c].ans # "paid"
    <3>1. \A q \in Queries : ~Owes(call[c], q)
      BY <1>1, <1>2, <2>2 DEF Owes, CallOk
    <3>2. before = cache /\ off' = off
      BY <1>4, <2>2
    <3> HIDE DEF before
    <3> QED BY <1>1, <3>1, <3>2, UnowedThrough DEF Shaped
  <2> QED BY <2>1, <2>2
<1>g. g = RefetchAll(before, qs)
  OBVIOUS
<1> HIDE DEF before, qs, g
<1>6. CacheOk(g)
  BY <1>5, <1>g, RefetchAllOk
<1>7. \A q \in Queries : q \notin off' => Through(c, q, g[q])
  BY <1>5, <1>g, RefetchThrough
<1>8. CacheOk(cache') /\ \A q \in Queries : q \notin off' => Through(c, q, cache'[q])
  BY <1>3, <1>5, <1>6, <1>7
<1>9. clock' \in ClockType /\ dlg' \in DialogType /\ shownBal' \in 0..MaxBal
  BY <1>1, <1>2, ClockOk, DialogOk DEF Shaped
<1>10. CallOk(NoCall) /\ NoCall.pc # "sent"
  BY NoCallOk
<1> QED BY <1>2, <1>5, <1>8, <1>9, <1>10, HandlerKeeps

(* Leaving for a page. *)
LEMMA ArriveOk ==
  ASSUME Shaped, NEW p \in Pages, NEW i \in 0..MaxInv, NEW old \in BOOLEAN,
         NEW before, CacheOk(before), Arrive(p, i, old, before)
  PROVE  /\ page' \in Pages /\ cur' \in 0..MaxInv /\ dlg' \in DialogType /\ clock' \in ClockType
         /\ CacheOk(cache')
         /\ \A q \in Queries : \A v : Fine(before[q], v, q \in Shown) => Fine(cache'[q], v, q \in Shown')
<1> DEFINE qs == Uses(p) \ (IF p = page /\ i = cur THEN Uses(page) ELSE {})
<1>1. page' = p /\ cur' = i /\ dlg' = Closed /\ clock' = Stopped /\ cache' = MountAll(before, qs, old)
  BY DEF Arrive
<1>2. dlg' \in DialogType /\ clock' \in ClockType
  BY <1>1, ClockOk DEF Closed, DialogType, Shaped
<1>3. Shown' = Uses(p) /\ Shown = Uses(page)
  BY <1>1 DEF Shown
<1>q. \A q \in Queries : q \notin qs /\ q \in Uses(p) => q \in Uses(page)
  OBVIOUS
<1>r. \A q \in qs : q \in Uses(p)
  OBVIOUS
<1> HIDE DEF qs
<1>4. CacheOk(cache') /\ \A q \in Queries \ qs : cache'[q] = before[q]
  BY <1>1, MountAllOk
<1>5. ASSUME NEW q \in Queries, NEW v, Fine(before[q], v, q \in Shown)
      PROVE  Fine(cache'[q], v, q \in Shown')
  <2> DEFINE s == q \in Shown
             t == q \in Shown'
  <2>1. s \in BOOLEAN /\ t \in BOOLEAN
    OBVIOUS
  <2>2. Fine(before[q], v, s)
    BY <1>5
  <2>3. CASE q \in qs
    <3>1. before[q] \in EntryType(ValueType(q))
      BY DEF CacheOk
    <3>2. cache'[q] = Mount(before[q], old)
      BY <1>1, <2>3 DEF MountAll, CacheOk
    <3> HIDE DEF s, t
    <3>3. Fine(Mount(before[q], old), v, t)
      BY <2>1, <2>2, <3>1, FineMount
    <3>4. Fine(cache'[q], v, t)
      BY <3>2, <3>3
    <3> QED BY <3>4 DEF t
  <2>4. CASE q \notin qs
    <3>1. cache'[q] = before[q]
      BY <1>4, <2>4
    <3>2. t => s
      BY <1>3, <1>q, <2>4
    <3> HIDE DEF s, t
    <3>3. Fine(before[q], v, t)
      BY <2>1, <2>2, <3>2, FineLess
    <3>4. Fine(cache'[q], v, t)
      BY <3>1, <3>3
    <3> QED BY <3>4 DEF t
  <2> QED BY <2>3, <2>4
<1> QED BY <1>1, <1>2, <1>4, <1>5

(* A handler whose page is gone. *)
LEMMA LeftOk ==
  ASSUME NEW k, CallOk(k), NEW r, r = [k EXCEPT !.mine = FALSE]
  PROVE  CallOk(r) /\ r.pc = k.pc /\ r.kind = k.kind /\ r.ans = k.ans
<1>1. k \in CallType
  BY DEF CallOk
<1>2. r \in CallType /\ r.pc = k.pc /\ r.kind = k.kind /\ r.ans = k.ans /\ r.arg = k.arg
  BY <1>1 DEF CallType
<1> QED BY <1>2 DEF CallOk

LEMMA OpenInvoiceKeeps ==
  ASSUME IInv, NEW c \in Calls, OpenInvoice(c)
  PROVE  IInv'
<1>1. Shaped /\ Told /\ Counted /\ CallOk(call[c])
  BY DEF IInv, Shaped
<1>2. /\ call[c].pc = "answered" /\ call[c].ans = "invoice" /\ off' = MissedBy(c)
      /\ srv' = srv /\ shownBal' = shownBal /\ clicks' = clicks /\ faults' = faults
      /\ call' = [d \in Calls |-> IF d = c THEN NoCall ELSE [call[d] EXCEPT !.mine = FALSE]]
  BY DEF OpenInvoice, At
<1>3. PICK old \in BOOLEAN : Arrive("invoice", call[c].arg, old, Invalidated(c))
  BY DEF OpenInvoice
<1>4. call[c].arg \in 0..MaxInv /\ "invoice" \in Pages
  BY <1>1, <1>2, Bounds DEF CallOk, Pages
<1>5. /\ CacheOk(Invalidated(c)) /\ off \subseteq off' /\ off' \subseteq Queries
      /\ \A q \in Queries : q \notin off' => Through(c, q, Invalidated(c)[q])
  BY <1>1, <1>2, InvalidatedOk
<1>6. /\ page' \in Pages /\ cur' \in 0..MaxInv /\ dlg' \in DialogType /\ clock' \in ClockType
      /\ CacheOk(cache')
      /\ \A q \in Queries : \A v :
           Fine(Invalidated(c)[q], v, q \in Shown) => Fine(cache'[q], v, q \in Shown')
  BY <1>1, <1>3, <1>4, <1>5, ArriveOk
<1>7. \A d \in Calls : CallOk(call[d])
  BY <1>1 DEF Shaped
<1>8. /\ call'[c] = NoCall
      /\ \A d \in Calls : d # c => /\ CallOk(call'[d]) /\ call'[d].pc = call[d].pc
                                   /\ call'[d].kind = call[d].kind /\ call'[d].ans = call[d].ans
  <2>1. call'[c] = NoCall
    BY <1>2
  <2>2. ASSUME NEW d \in Calls, d # c
        PROVE  /\ CallOk(call'[d]) /\ call'[d].pc = call[d].pc
               /\ call'[d].kind = call[d].kind /\ call'[d].ans = call[d].ans
    <3> DEFINE r == [call[d] EXCEPT !.mine = FALSE]
    <3>1. r = [call[d] EXCEPT !.mine = FALSE]
      OBVIOUS
    <3>2. call'[d] = r
      BY <1>2, <2>2
    <3> HIDE DEF r
    <3> QED BY <1>7, <3>1, <3>2, LeftOk
  <2> QED BY <2>1, <2>2
<1>9. \A d \in Calls : CallOk(call'[d])
  BY <1>8, NoCallOk
<1>10. call' \in [Calls -> CallType]
  <2>1. \A d \in Calls : call'[d] \in CallType
    BY <1>9 DEF CallOk
  <2>2. call' = [d \in Calls |-> call'[d]]
    BY <1>2
  <2> QED BY <2>1, <2>2
<1>11. Shaped'
  BY <1>1, <1>2, <1>5, <1>6, <1>9, <1>10 DEF Shaped
<1>12. Counted'
  <2>1. Ordering(call') \subseteq Ordering(call)
    BY <1>8, NoCallOk DEF Ordering
  <2>2. clicks' >= clicks
    BY <1>1, <1>2 DEF Shaped
  <2> QED BY <1>1, <1>2, <1>11, <2>1, <2>2, CountSame
<1>13. Told'
  <2> SUFFICES ASSUME NEW q \in Queries \ off'
               PROVE  Owed(call', q) \/ Fine(cache'[q], Value(srv', q), q \in Shown')
    BY DEF Told
  <2>1. Through(c, q, Invalidated(c)[q])
    BY <1>5
  <2>2. CASE \E d \in Calls : d # c /\ Owes(call[d], q)
    BY <1>8, <2>2 DEF Owed, Owes
  <2>3. CASE Fine(Invalidated(c)[q], Value(srv, q), q \in Shown)
    BY <1>2, <1>6, <2>3
  <2> QED BY <2>1, <2>2, <2>3 DEF Through
<1> QED BY <1>11, <1>12, <1>13 DEF IInv

LEMMA NavigateKeeps ==
  ASSUME IInv, NEW p \in Pages, NEW i \in 0..MaxInv, Navigate(p, i)
  PROVE  IInv'
<1>1. Shaped /\ Told /\ Counted
  BY DEF IInv
<1>2. /\ srv' = srv /\ shownBal' = shownBal /\ off' = off /\ faults' = faults
      /\ call' = [c \in Calls |-> [call[c] EXCEPT !.mine = FALSE]]
  BY DEF Navigate
<1>3. PICK old \in BOOLEAN : Arrive(p, i, old, cache)
  BY DEF Navigate
<1>4. clicks' \in 0..MaxClicks /\ clicks' >= clicks
  BY <1>1, UserOk DEF Navigate, Shaped
<1>5. CacheOk(cache)
  BY <1>1 DEF Shaped
<1>6. /\ page' \in Pages /\ cur' \in 0..MaxInv /\ dlg' \in DialogType /\ clock' \in ClockType
      /\ CacheOk(cache')
      /\ \A q \in Queries : \A v : Fine(cache[q], v, q \in Shown) => Fine(cache'[q], v, q \in Shown')
  BY <1>1, <1>3, <1>5, ArriveOk
<1>7. ASSUME NEW d \in Calls
      PROVE  /\ CallOk(call'[d]) /\ call'[d].pc = call[d].pc
             /\ call'[d].kind = call[d].kind /\ call'[d].ans = call[d].ans
  <2> DEFINE r == [call[d] EXCEPT !.mine = FALSE]
  <2>1. r = [call[d] EXCEPT !.mine = FALSE]
    OBVIOUS
  <2>2. call'[d] = r /\ CallOk(call[d])
    BY <1>1, <1>2 DEF Shaped
  <2> HIDE DEF r
  <2> QED BY <2>1, <2>2, LeftOk
<1>8. call' \in [Calls -> CallType]
  <2>1. \A d \in Calls : call'[d] \in CallType
    BY <1>7 DEF CallOk
  <2>2. call' = [d \in Calls |-> call'[d]]
    BY <1>2
  <2> QED BY <2>1, <2>2
<1>9. Shaped'
  BY <1>1, <1>2, <1>4, <1>6, <1>7, <1>8 DEF Shaped
<1>10. Counted'
  <2>1. Ordering(call') \subseteq Ordering(call)
    BY <1>7 DEF Ordering
  <2> QED BY <1>1, <1>2, <1>4, <1>9, <2>1, CountSame
<1>11. Told'
  <2> SUFFICES ASSUME NEW q \in Queries \ off'
               PROVE  Owed(call', q) \/ Fine(cache'[q], Value(srv', q), q \in Shown')
    BY DEF Told
  <2>1. Owed(call, q) \/ Fine(cache[q], Value(srv, q), q \in Shown)
    BY <1>1, <1>2 DEF Told
  <2>2. CASE Owed(call, q)
    BY <1>7, <2>2 DEF Owed, Owes
  <2>3. CASE Fine(cache[q], Value(srv, q), q \in Shown)
    BY <1>2, <1>6, <2>3
  <2> QED BY <2>1, <2>2, <2>3
<1> QED BY <1>9, <1>10, <1>11 DEF IInv

LEMMA ReadOk ==
  ASSUME NEW k, CallOk(k), NEW b \in 0..MaxBal, NEW r, r = [k EXCEPT !.pc = "gotMe", !.arg = b]
  PROVE  CallOk(r) /\ r.pc = "gotMe"
<1>1. k \in CallType /\ b \in 0..(MaxInv + MaxBal)
  BY Bounds DEF CallOk
<1>2. r \in CallType /\ r.pc = "gotMe"
  BY <1>1 DEF CallType
<1> QED BY <1>2 DEF CallOk

LEMMA ReadMeKeeps ==
  ASSUME IInv, NEW c \in Calls, ReadMe(c)
  PROVE  IInv'
<1>1. Shaped /\ CallOk(call[c])
  BY DEF IInv, Shaped
<1>2. /\ call[c].pc = "me"
      /\ srv' = srv /\ page' = page /\ cur' = cur /\ dlg' = dlg /\ clock' = clock /\ shownBal' = shownBal
      /\ cache' = cache /\ off' = off /\ clicks' = clicks
      /\ faults' \in 0..MaxFaults
  BY <1>1, FaultOk DEF ReadMe, At, Shaped
<1>3. PICK b \in {srv.bal, shownBal} : call' = [call EXCEPT ![c] = [@ EXCEPT !.pc = "gotMe", !.arg = b]]
  BY DEF ReadMe
<1>4. b \in 0..MaxBal /\ dlg' \in DialogType /\ clock' \in ClockType /\ shownBal' \in 0..MaxBal
  BY <1>1, <1>2, SrvFields DEF Shaped
<1> DEFINE r == [call[c] EXCEPT !.pc = "gotMe", !.arg = b]
<1>5. call' = [call EXCEPT ![c] = r] /\ r = [call[c] EXCEPT !.pc = "gotMe", !.arg = b]
  BY <1>3
<1> HIDE DEF r
<1>6. CallOk(r) /\ r.pc = "gotMe"
  BY <1>1, <1>4, <1>5, ReadOk
<1> QED BY <1>2, <1>4, <1>5, <1>6, QuietKeeps

LEMMA GotMeKeeps ==
  ASSUME IInv, NEW c \in Calls, GotMe(c)
  PROVE  IInv'
<1>1. Shaped /\ Told /\ CallOk(call[c])
  BY DEF IInv, Shaped
<1>2. /\ call[c].pc = "gotMe"
      /\ shownBal' = IF call[c].arg <= MaxBal THEN call[c].arg ELSE shownBal
      /\ srv' = srv /\ page' = page /\ cur' = cur /\ dlg' = dlg /\ clock' = clock
      /\ off' = off /\ clicks' = clicks /\ faults' = faults
  BY DEF GotMe, At
<1>3. shownBal' \in 0..MaxBal
  <2>1. call[c].arg \in 0..(MaxInv + MaxBal) /\ shownBal \in 0..MaxBal
    BY <1>1, CallFields DEF CallOk, Shaped
  <2>2. CASE call[c].arg <= MaxBal
    BY <1>2, <2>1, <2>2, Bounds
  <2>3. CASE ~(call[c].arg <= MaxBal)
    BY <1>2, <2>1, <2>3
  <2> QED BY <2>2, <2>3
<1>4. dlg' \in DialogType /\ clock' \in ClockType /\ off \subseteq off' /\ off' \subseteq Queries
      /\ CacheOk(cache) /\ faults' \in 0..MaxFaults
  BY <1>1, <1>2 DEF Shaped
<1>5. CASE call[c].kind = "marketplace"
  <2> DEFINE r == [call[c] EXCEPT !.pc = "lists"]
             g == RefetchAll(cache, {"stock"})
  <2>1. call' = [call EXCEPT ![c] = r] /\ cache' = g
    BY <1>5 DEF GotMe, To
  <2>2. CallOk(r) /\ r.pc = "lists"
    BY <1>1 DEF CallOk, CallType
  <2>3. \A q \in Queries : ~Owes(call[c], q)
    BY <1>2 DEF Owes
  <2>4. \A q \in Queries : q \notin off' => Through(c, q, cache[q])
    BY <1>1, <1>2, <2>3, UnowedThrough
  <2>5. \A q \in Queries : q \notin off' => Through(c, q, g[q])
    BY <1>4, <2>4, RefetchThrough
  <2>6. g = RefetchAll(cache, {"stock"})
    OBVIOUS
  <2> HIDE DEF r, g
  <2>7. CacheOk(cache')
    BY <1>4, <2>1, <2>6, RefetchAllOk
  <2>8. \A q \in Queries : q \notin off' => Through(c, q, cache'[q])
    BY <2>1, <2>5
  <2> QED BY <1>2, <1>3, <1>4, <2>1, <2>2, <2>7, <2>8, HandlerKeeps
<1>6. CASE call[c].kind # "marketplace"
  <2>1. call' = [call EXCEPT ![c] = NoCall] /\ cache' = cache
    BY <1>6 DEF GotMe, End
  <2>2. CallOk(NoCall) /\ NoCall.pc # "sent"
    BY NoCallOk
  <2>3. call[c].pc # "answered"
    BY <1>2
  <2> QED BY <1>2, <1>3, <1>4, <2>1, <2>2, <2>3, QuietKeeps
<1> QED BY <1>5, <1>6

LEMMA ListsDoneKeeps ==
  ASSUME IInv, NEW c \in Calls, ListsDone(c)
  PROVE  IInv'
<1>1. Shaped
  BY DEF IInv
<1>2. /\ call[c].pc # "answered" /\ call' = [call EXCEPT ![c] = NoCall]
      /\ srv' = srv /\ page' = page /\ cur' = cur /\ clock' = clock /\ shownBal' = shownBal
      /\ cache' = cache /\ off' = off /\ clicks' = clicks /\ faults' = faults
  BY DEF ListsDone, At, End
<1>3. dlg' \in DialogType
  BY <1>1, DialogOk DEF ListsDone, Shaped
<1>4. clock' \in ClockType /\ shownBal' \in 0..MaxBal /\ faults' \in 0..MaxFaults
  BY <1>1, <1>2 DEF Shaped
<1>5. CallOk(NoCall) /\ NoCall.pc # "sent"
  BY NoCallOk
<1> QED BY <1>2, <1>3, <1>4, <1>5, QuietKeeps

LEMMA TickKeeps ==
  ASSUME IInv, Tick
  PROVE  IInv'
<1>1. Shaped
  BY DEF IInv
<1>2. clock.left \in 0..Life /\ clock.poll \in 0..PollPeriod /\ clock.poll > 0
  BY <1>1 DEF Tick, Shaped, ClockType
<1> DEFINE l == IF clock.left > 0 THEN clock.left - 1 ELSE 0
           r == Restarted(clock)
<1>3. l \in 0..Life /\ r \in 0..PollPeriod
  BY <1>2, Bounds DEF Restarted
<1>4. clock' = [left |-> l, poll |-> r]
  BY DEF Tick
<1> HIDE DEF l, r
<1>5. clock' \in ClockType
  BY <1>3, <1>4 DEF ClockType
<1>6. dlg' \in DialogType /\ clicks' \in 0..MaxClicks /\ clicks' >= clicks
  BY <1>1 DEF Tick, Shaped
<1> QED BY <1>5, <1>6, StillKeeps DEF Tick

LEMMA DialogKeeps ==
  ASSUME IInv, OpenDialog \/ CloseDialog
  PROVE  IInv'
<1>1. Shaped
  BY DEF IInv
<1>2. CASE OpenDialog
  <2>1. dlg' = [dlg EXCEPT !.open = TRUE]
    BY <1>2 DEF OpenDialog
  <2>2. dlg' \in DialogType
    BY <1>1, <2>1 DEF Shaped, DialogType
  <2>3. clock' \in ClockType /\ clicks' \in 0..MaxClicks /\ clicks' >= clicks
    BY <1>1, <1>2 DEF OpenDialog, Shaped
  <2> QED BY <1>2, <2>2, <2>3, StillKeeps DEF OpenDialog
<1>3. CASE CloseDialog
  <2>1. dlg' \in DialogType
    <3> DEFINE b == IF page = "order" THEN "no" ELSE dlg.busy
    <3>1. b \in Calls \cup {"no"}
      BY <1>1 DEF Shaped, DialogType
    <3>2. dlg' = [open |-> FALSE, busy |-> b]
      BY <1>3 DEF CloseDialog
    <3> HIDE DEF b
    <3> QED BY <3>1, <3>2 DEF DialogType
  <2>2. clock' \in ClockType
    BY <1>1, <1>3 DEF CloseDialog, Shaped
  <2>3. clicks' \in 0..MaxClicks /\ clicks' >= clicks
    BY <1>1, <1>3, UserOk DEF CloseDialog, Shaped
  <2> QED BY <1>3, <2>1, <2>2, <2>3, StillKeeps DEF CloseDialog
<1> QED BY <1>2, <1>3

LEMMA PayKeeps ==
  ASSUME IInv, NEW i \in 1..MaxInv, Pay(i)
  PROVE  IInv'
<1> DEFINE p == TRUE
<1>1. p \in BOOLEAN /\ srv' = [srv EXCEPT !.inv[i].paid = p]
  BY DEF Pay
<1> HIDE DEF p
<1>2. srv \in SrvShape
  BY DEF IInv, Shaped
<1>3. /\ srv' \in SrvShape /\ Advanced(srv, srv', FALSE)
      /\ \A q \in Queries : Value(srv', q) = Value(srv, q)
  BY <1>1, <1>2, PaidOk
<1>4. off \subseteq off' /\ off' \subseteq Queries /\ faults' \in 0..MaxFaults
  BY DEF Pay, IInv, Shaped
<1> QED BY <1>3, <1>4, ServerKeeps DEF Pay

LEMMA OthersKeep ==
  ASSUME IInv, OtherBuyer \/ \E i \in 1..MaxInv : Webhook(i) \/ Expire(i)
  PROVE  IInv'
<1>1. srv \in SrvShape /\ off \subseteq Queries
  BY DEF IInv, Shaped
<1>2. srv' \in SrvShape /\ Advanced(srv, srv', FALSE)
  <2>1. ASSUME NEW i \in 1..MaxInv, Webhook(i)
        PROVE  srv' \in SrvShape /\ Advanced(srv, srv', FALSE)
    BY <1>1, <2>1, SettledOk DEF Webhook
  <2>2. ASSUME NEW i \in 1..MaxInv, Expire(i)
        PROVE  srv' \in SrvShape /\ Advanced(srv, srv', FALSE)
    <3>1. srv' = [srv EXCEPT !.inv[i].st = "rejected"]
      BY <2>2 DEF Expire
    <3> QED BY <1>1, <3>1, RejectedOk
  <2>3. CASE OtherBuyer
    <3>1. srv' = [srv EXCEPT !.acc = "gone"]
      BY <2>3 DEF OtherBuyer
    <3> QED BY <1>1, <3>1, GoneOk
  <2> QED BY <2>1, <2>2, <2>3
<1>3. /\ off' = off \cup Changed(srv, srv') /\ Fault
      /\ page' = page /\ cur' = cur /\ dlg' = dlg /\ clock' = clock /\ shownBal' = shownBal
      /\ cache' = cache /\ call' = call /\ clicks' = clicks
  BY DEF Webhook, Expire, OtherBuyer
<1>4. off \subseteq off' /\ off' \subseteq Queries
  BY <1>1, <1>3 DEF Changed
<1>5. \A q \in Queries : q \notin off' => Value(srv', q) = Value(srv, q)
  BY <1>3, ValuesKeep
<1>6. faults' \in 0..MaxFaults
  BY <1>3, FaultOk DEF IInv, Shaped
<1> QED BY <1>2, <1>3, <1>4, <1>5, <1>6, ServerKeeps

-----------------------------------------------------------------------------
(* The queries *)

(* One entry moves. *)
LEMMA EntryKeeps ==
  ASSUME IInv, NEW q \in Queries, NEW e \in EntryType(ValueType(q)), cache' = [cache EXCEPT ![q] = e],
         off' \subseteq Queries, off \subseteq off' \cup {q},
         q \in off' \/ Owed(call, q) \/ Fine(e, Value(srv, q), q \in Shown),
         clock' \in ClockType, faults' \in 0..MaxFaults,
         srv' = srv, page' = page, cur' = cur, dlg' = dlg, shownBal' = shownBal, call' = call,
         clicks' = clicks
  PROVE  IInv'
<1>1. Shaped
  BY DEF IInv
<1>2. CacheOk(cache') /\ cache'[q] = e /\ \A p \in Queries : p # q => cache'[p] = cache[p]
  BY <1>1 DEF Shaped, CacheOk
<1>3. Shaped'
  BY <1>1, <1>2 DEF Shaped
<1>4. Counted'
  <2>1. clicks' >= clicks
    BY <1>1 DEF Shaped
  <2> QED BY <1>1, <1>3, <2>1, CountSame DEF IInv
<1>5. Told'
  <2> SUFFICES ASSUME NEW p \in Queries \ off'
               PROVE  Owed(call', p) \/ Fine(cache'[p], Value(srv', p), p \in Shown')
    BY DEF Told
  <2>1. Shown' = Shown
    BY DEF Shown
  <2>2. CASE p = q
    <3>1. Owed(call, q) \/ Fine(e, Value(srv, q), q \in Shown)
      BY <2>2
    <3>2. cache'[p] = e /\ srv' = srv /\ call' = call
      BY <1>2, <2>2
    <3> QED BY <2>1, <2>2, <3>1, <3>2
  <2>3. CASE p # q
    <3>1. Owed(call, p) \/ Fine(cache[p], Value(srv, p), p \in Shown)
      BY <2>3 DEF IInv, Told
    <3>2. cache'[p] = cache[p]
      BY <1>2, <2>3
    <3> QED BY <2>1, <3>1, <3>2
  <2> QED BY <2>2, <2>3
<1> QED BY <1>3, <1>4, <1>5 DEF IInv

LEMMA ServeQueryKeeps ==
  ASSUME IInv, NEW q \in Queries, ServeQuery(q)
  PROVE  IInv'
<1> DEFINE v == Value(srv, q)
           e == Read(cache[q], v)
           s == q \in Shown
<1>1. /\ cache' = [cache EXCEPT ![q] = e] /\ off' = off \ {q}
      /\ srv' = srv /\ page' = page /\ cur' = cur /\ dlg' = dlg /\ clock' = clock
      /\ shownBal' = shownBal /\ call' = call /\ clicks' = clicks /\ faults' = faults
  BY DEF ServeQuery
<1>2. /\ cache[q] \in EntryType(ValueType(q)) /\ srv \in SrvShape
      /\ off' \subseteq Queries /\ off \subseteq off' \cup {q}
      /\ clock' \in ClockType /\ faults' \in 0..MaxFaults
  BY <1>1 DEF IInv, Shaped, CacheOk
<1>3. v \in ValueType(q)
  BY <1>2, ValueOk
<1>4. s \in BOOLEAN
  OBVIOUS
<1>5. e \in EntryType(ValueType(q))
  <2> HIDE DEF v
  <2> QED BY <1>2, <1>3, AnswerOk
<1>6. Fine(e, v, q \in Shown)
  <2> HIDE DEF v, s
  <2>1. Fine(Read(cache[q], v), v, s)
    BY <1>2, <1>3, <1>4, FineAnswer
  <2> QED BY <2>1 DEF s
<1> HIDE DEF e
<1> QED BY <1>1, <1>2, <1>5, <1>6, EntryKeeps

LEMMA QueryArrivesKeeps ==
  ASSUME IInv, NEW q \in Queries, QueryArrives(q)
  PROVE  IInv'
<1> DEFINE v == Value(srv, q)
           e == Arrived(cache[q])
           s == q \in Shown
<1>1. /\ cache[q].net = "read" /\ cache' = [cache EXCEPT ![q] = e]
      /\ clock' = IF q = "txs" THEN Start(Arrived(cache[q])) ELSE clock
      /\ srv' = srv /\ page' = page /\ cur' = cur /\ dlg' = dlg /\ off' = off
      /\ shownBal' = shownBal /\ call' = call /\ clicks' = clicks /\ faults' = faults
  BY DEF QueryArrives
<1>2. /\ cache[q] \in EntryType(ValueType(q)) /\ srv \in SrvShape /\ clock \in ClockType
      /\ off' \subseteq Queries /\ off \subseteq off' \cup {q} /\ faults' \in 0..MaxFaults
  BY <1>1 DEF IInv, Shaped, CacheOk
<1>3. clock' \in ClockType
  BY <1>1, <1>2, ClockOk
<1>4. v \in ValueType(q)
  BY <1>2, ValueOk
<1>5. s \in BOOLEAN
  OBVIOUS
<1>6. e \in EntryType(ValueType(q))
  BY <1>2, <1>4, AnswerOk
<1>7. q \in off' \/ Owed(call, q) \/ Fine(e, v, q \in Shown)
  <2>1. q \in off \/ Owed(call, q) \/ Fine(cache[q], v, s)
    BY DEF IInv, Told
  <2> HIDE DEF v, s
  <2>2. Fine(cache[q], v, s) => Fine(Arrived(cache[q]), v, s)
    BY <1>1, <1>2, <1>4, <1>5, FineAnswer
  <2>3. q \in off' \/ Owed(call, q) \/ Fine(e, v, s)
    BY <1>1, <2>1, <2>2
  <2> QED BY <2>3 DEF s
<1> HIDE DEF e
<1> QED BY <1>1, <1>2, <1>3, <1>6, <1>7, EntryKeeps

LEMMA QueryFailsKeeps ==
  ASSUME IInv, NEW q \in Queries, QueryFails(q)
  PROVE  IInv'
<1> DEFINE e == Failed(cache[q])
<1>1. /\ cache' = [cache EXCEPT ![q] = e] /\ off' = off \cup {q} /\ Fault
      /\ srv' = srv /\ page' = page /\ cur' = cur /\ dlg' = dlg /\ clock' = clock
      /\ shownBal' = shownBal /\ call' = call /\ clicks' = clicks
  BY DEF QueryFails
<1>2. /\ cache[q] \in EntryType(ValueType(q)) /\ srv \in SrvShape
      /\ off' \subseteq Queries /\ off \subseteq off' \cup {q} /\ q \in off'
      /\ clock' \in ClockType /\ faults' \in 0..MaxFaults
  BY <1>1, FaultOk DEF IInv, Shaped, CacheOk
<1>3. Value(srv, q) \in ValueType(q)
  BY <1>2, ValueOk
<1>4. e \in EntryType(ValueType(q))
  BY <1>2, <1>3, AnswerOk
<1> HIDE DEF e
<1> QED BY <1>1, <1>2, <1>4, EntryKeeps

-----------------------------------------------------------------------------
(* The beginning, and the theorem *)

LEMMA InitShaped == Init => Shaped
<1> SUFFICES ASSUME Init PROVE Shaped
  OBVIOUS
<1>1. srv \in SrvShape
  <2>1. NoInvoice \in [kind: Kinds, st: Statuses, paid: BOOLEAN] /\ 1 \in 0..MaxBal
    BY Bounds DEF NoInvoice, Kinds, Statuses
  <2> DEFINE a == IF page = "sell" THEN "mine" ELSE "stock"
             v == [i \in 1..MaxInv |-> NoInvoice]
  <2>2. a \in {"stock", "mine", "listed", "gone"} /\ v \in [1..MaxInv -> [kind: Kinds, st: Statuses, paid: BOOLEAN]]
    BY <2>1
  <2>3. srv = [bal |-> 1, plan |-> FALSE, acc |-> a, orders |-> 0, voucher |-> TRUE, inv |-> v]
    BY DEF Init
  <2> HIDE DEF a, v
  <2> QED BY <2>1, <2>2, <2>3 DEF SrvShape
<1>2. CacheOk(cache)
  <2>1. \A q \in Queries : Unread(Value(srv, q)) \in EntryType(ValueType(q))
    BY <1>1, ValueOk, UnreadOk
  <2>2. \A q \in Queries : Fetch(Unread(Value(srv, q))) \in EntryType(ValueType(q))
    BY <2>1, FetchOk
  <2> QED BY <2>1, <2>2 DEF Init, CacheOk
<1>3. dlg \in DialogType /\ clock \in ClockType
  <2>1. Closed \in DialogType
    BY DEF Closed, DialogType
  <2>2. Stopped \in ClockType
    BY Bounds DEF Stopped, ClockType
  <2> QED BY <2>1, <2>2 DEF Init
<1>4. call \in [Calls -> CallType] /\ \A c \in Calls : CallOk(call[c])
  BY NoCallOk DEF Init, CallOk
<1>5. /\ page \in Pages /\ cur \in 0..MaxInv /\ shownBal \in 0..MaxBal /\ off \subseteq Queries
      /\ clicks \in 0..MaxClicks /\ faults \in 0..MaxFaults
  BY Bounds DEF Init
<1> QED BY <1>1, <1>2, <1>3, <1>4, <1>5 DEF Shaped

LEMMA InitHolds == Init => IInv
<1> SUFFICES ASSUME Init PROVE IInv
  OBVIOUS
<1>1. Shaped
  BY InitShaped
<1>2. Counted
  <2>1. Ordering(call) = {}
    BY NoCallOk DEF Init, Ordering
  <2>2. IsFiniteSet(Ordering(call)) /\ Cardinality(Ordering(call)) = 0
    BY <2>1, FS_EmptySet
  <2>3. IsFiniteSet(1..MaxInv) /\ Cardinality(1..MaxInv) = MaxInv
    <3>1. 1..MaxInv = 1..MaxInv /\ 1 \in Int /\ MaxInv \in Int /\ MaxInv >= 1
      BY CheckoutAssumption
    <3>2. IsFiniteSet(1..MaxInv) /\ Cardinality(1..MaxInv) = MaxInv - 1 + 1
      BY <3>1, FS_Interval
    <3> QED BY <3>1, <3>2
  <2>4. OpenInvoices(srv) \subseteq 1..MaxInv
    BY DEF OpenInvoices
  <2>5. Cardinality(OpenInvoices(srv)) \in Nat /\ Cardinality(OpenInvoices(srv)) <= MaxInv
    BY <2>3, <2>4, FewerOf
  <2>6. srv.orders = 0 /\ clicks = 0
    BY DEF Init
  <2> QED BY <2>2, <2>5, <2>6, Bounds DEF Counted
<1>3. Told
  <2> SUFFICES ASSUME NEW q \in Queries
               PROVE  Fine(cache[q], Value(srv, q), q \in Shown)
    BY DEF Told
  <2>1. Value(srv, q) \in ValueType(q)
    BY <1>1, ValueOk DEF Shaped
  <2> DEFINE u == Unread(Value(srv, q))
  <2>2. u \in EntryType(ValueType(q)) /\ ~u.has /\ u.net = "idle"
    BY <2>1, UnreadOk
  <2>3. cache[q] = Fetch(u) \/ cache[q] = u
    BY DEF Init
  <2> HIDE DEF u
  <2>4. Fetch(u).net = "sent"
    BY <2>2, FetchOk DEF Idle
  <2> QED BY <2>2, <2>3, <2>4 DEF Fine
<1> QED BY <1>1, <1>2, <1>3 DEF IInv

LEMMA NextKeeps == IInv /\ [Next]_vars => IInv'
<1> SUFFICES ASSUME IInv, [Next]_vars PROVE IInv'
  OBVIOUS
<1>1. ASSUME NEW c \in Calls, CallStep(c) PROVE IInv'
  BY <1>1, ServeKeeps, LateSaleKeeps, HandleErrorKeeps, OpenInvoiceKeeps, HandleDoneKeeps, ReadMeKeeps,
     GotMeKeeps, ListsDoneKeeps, HandleCheckKeeps DEF CallStep
<1>2. ASSUME NEW c \in Calls, UserStep(c) \/ Lose(c) \/ SaleTimesOut(c) \/ Poll(c) PROVE IInv'
  BY <1>2, UserStepKeeps, LoseKeeps, SaleTimesOutKeeps, PollKeeps
<1>3. ASSUME NEW q \in Queries, ServeQuery(q) \/ QueryArrives(q) \/ QueryFails(q) PROVE IInv'
  BY <1>3, ServeQueryKeeps, QueryArrivesKeeps, QueryFailsKeeps
<1>4. ASSUME NEW i \in 1..MaxInv, Pay(i) \/ Webhook(i) \/ Expire(i) PROVE IInv'
  BY <1>4, PayKeeps, OthersKeep
<1>5. ASSUME NEW p \in Pages, NEW i \in 0..MaxInv, Navigate(p, i) PROVE IInv'
  BY <1>5, NavigateKeeps
<1>6. CASE OpenDialog \/ CloseDialog \/ OtherBuyer \/ Tick
  BY <1>6, DialogKeeps, OthersKeep, TickKeeps
<1>7. CASE UNCHANGED vars
  <2>1. /\ srv' = srv /\ page' = page /\ cur' = cur /\ dlg' = dlg /\ clock' = clock /\ shownBal' = shownBal
        /\ cache' = cache /\ call' = call /\ off' = off /\ clicks' = clicks /\ faults' = faults
    BY <1>7 DEF vars
  <2>2. dlg' \in DialogType /\ clock' \in ClockType /\ clicks' \in 0..MaxClicks /\ clicks' >= clicks
    BY <2>1 DEF IInv, Shaped
  <2> QED BY <2>1, <2>2, StillKeeps
<1> QED BY <1>1, <1>2, <1>3, <1>4, <1>5, <1>6, <1>7 DEF Next

(* Told leaves nothing owed once the tab's calls are over, and what is     *)
(* fine, at rest and shown is the truth.                                   *)
LEMMA InvSafe == IInv => CheckoutSafe
<1> SUFFICES ASSUME IInv PROVE CheckoutSafe
  OBVIOUS
<1>1. TypeOK
  <2>1. srv \in ServerType
    <3>1. srv \in SrvShape /\ clicks \in 0..MaxClicks
      BY DEF IInv, Shaped
    <3>2. /\ Cardinality(Ordering(call)) \in Nat /\ Cardinality(OpenInvoices(srv)) \in Nat
          /\ srv.orders + Cardinality(Ordering(call)) + Cardinality(OpenInvoices(srv)) <= MaxInv + clicks
      BY OpenFinite, FS_CardinalityType DEF IInv, Counted
    <3>3. srv.orders \in Nat
      BY <3>1, SrvFields
    <3>4. srv.orders \in 0..(MaxInv + MaxClicks)
      BY <3>1, <3>2, <3>3, Bounds
    <3> QED BY <3>1, <3>4 DEF SrvShape, ServerType
  <2> QED BY <2>1 DEF IInv, Shaped, TypeOK, DialogType, ClockType, CacheOk
<1>2. OwnWritesShown
  <2> SUFFICES ASSUME NEW q \in Shown \ off, Rest, Idle(cache[q]), cache[q].has
               PROVE  cache[q].data = Value(srv, q)
    BY DEF OwnWritesShown
  <2>1. q \in Queries
    BY DEF Shown, Uses, Queries
  <2>2. ~Owed(call, q)
    BY DEF Rest, At, Owed, Owes
  <2>3. Fine(cache[q], Value(srv, q), q \in Shown)
    BY <2>1, <2>2 DEF IInv, Told
  <2> QED BY <2>3 DEF Fine, Idle
<1> QED BY <1>1, <1>2 DEF CheckoutSafe

(* Once its calls are over, a page that is not loading shows what they did *)
(* wherever their hook has promised to refresh it.                         *)
THEOREM CheckoutIsSafe == Spec => []CheckoutSafe
<1>1. IInv /\ [Next]_vars => IInv'
  BY NextKeeps
<1> QED BY <1>1, InitHolds, InvSafe, PTL DEF Spec
=============================================================================
