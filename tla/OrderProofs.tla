----------------------------- MODULE OrderProofs ------------------------------
(***************************************************************************)
(* TLAPS proofs about orders: about OrderPlacement, for every number of    *)
(* users, requests, keys and items; and about OrderRefunds, for every      *)
(* number of orders and sessions, every price and every quantity.          *)
(***************************************************************************)
EXTENDS OrderPlacement, OrderRefunds, FiniteSetTheorems, WellFoundedInduction, TLAPS

(* Placing orders *)

PendingOf(r) == {i \in Items : rows[r][i] = "Pending"}

Untouched(r) == debit[r] = 0 /\ refund[r] = 0 /\ PendingOf(r) = {}

(* What is charged is on record, or all of it was lost with the database. *)
Charged(r) == \/ Net(r) = Cardinality(PendingOf(r))
              \/ req[r].broken /\ Net(r) = req[r].n /\ PendingOf(r) = {}

(* What a request has charged and recorded at each of its steps. *)
RequestOf(r) ==
  /\ req[r].pc # "idle" => req[r].user \in Users /\ req[r].n \in Items
  /\ req[r].pc # "idle" => req[r].mass \/ req[r].n = 1
  /\ req[r].pc \in {"setnx", "getKey"} \/ req[r].lock => req[r].key \in Keys
  /\ req[r].pc \in {"setnx", "getKey"} => ~req[r].lock
  /\ req[r].asked <= req[r].n /\ req[r].ok \subseteq 1..req[r].asked
  /\ req[r].pc \in {"idle", "setnx", "getKey", "lockUser"} =>
       Untouched(r) /\ req[r].asked = 0
  /\ req[r].pc = "call" => debit[r] = req[r].n /\ refund[r] = 0 /\ PendingOf(r) = {}
  /\ req[r].pc \in {"store", "fail", "done"} => Charged(r)
  /\ req[r].pc = "fail" /\ ~req[r].broken => Net(r) = 0
  /\ req[r].broken => req[r].pc \in {"fail", "done", "killed"}

(* A request that has set a key and not deleted it. *)
Busy(r) == req[r].lock /\ (req[r].pc # "done" \/ (Net(r) > 0 /\ ~req[r].broken))

(* As long as no key runs out, a key is set for one request at a time, and *)
(* is there as long as that request needs it.                              *)
KeysOK ==
  expiries = 0 =>
    /\ \A r, q \in Requests : Busy(r) /\ Busy(q) /\ req[r].key = req[q].key => r = q
    /\ \A r \in Requests : Busy(r) => idem[req[r].key] # "none"

PlaceInv ==
  /\ TypeOK
  /\ \A r \in Requests : RequestOf(r)
  /\ KeysOK

-----------------------------------------------------------------------------
(* Sets of items *)

LEMMA UpTo == ASSUME NEW n \in Nat PROVE IsFiniteSet(1..n) /\ Cardinality(1..n) = n
BY FS_Interval

LEMMA Fields ==
  ASSUME TypeOK, NEW r \in Requests
  PROVE  /\ req[r] \in ReqType
         /\ req[r].n \in Nat /\ req[r].n <= MaxItems
         /\ req[r].asked \in Nat /\ req[r].asked <= MaxItems
         /\ req[r].bal \in Nat
         /\ req[r].ok \subseteq Items
         /\ debit[r] \in Nat /\ refund[r] \in Nat
<1>1. req[r] \in ReqType
  BY DEF TypeOK
<1>2. req[r].n \in 0..MaxItems /\ req[r].asked \in 0..MaxItems /\ req[r].bal \in Nat
      /\ req[r].ok \subseteq Items
  BY <1>1 DEF ReqType
<1>3. debit[r] \in 0..MaxItems /\ refund[r] \in 0..MaxItems
  BY DEF TypeOK
<1> QED BY <1>1, <1>2, <1>3, ItemsAssumption

LEMMA OkCount ==
  ASSUME TypeOK, NEW r \in Requests, RequestOf(r)
  PROVE  /\ Cardinality(req[r].ok) \in Nat
         /\ Cardinality(req[r].ok) <= req[r].n
         /\ (Cardinality(req[r].ok) = 0 => req[r].ok = {})
<1>1. req[r].n \in Nat /\ req[r].asked \in Nat
  BY Fields
<1>2. req[r].ok \in SUBSET (1..req[r].n)
  BY <1>1 DEF RequestOf
<1>3. IsFiniteSet(1..req[r].n) /\ Cardinality(1..req[r].n) = req[r].n
  BY <1>1, UpTo
<1>4. IsFiniteSet(req[r].ok) /\ Cardinality(req[r].ok) <= req[r].n
  BY <1>2, <1>3, FS_Subset
<1> QED BY <1>4, FS_CardinalityType, FS_EmptySet

(* The items on record as Pending after the rows are written are those the *)
(* provider has taken.                                                     *)
LEMMA PlacedPending ==
  ASSUME TypeOK, NEW r \in Requests, RequestOf(r), rows' = [rows EXCEPT ![r] = Placed(r)]
  PROVE  /\ rows' \in [Requests -> [Items -> {"none", "Awaiting Payment", "Pending", "Failed"}]]
         /\ \A q \in Requests : q # r => rows'[q] = rows[q]
         /\ PendingOf(r)' = req[r].ok
<1>1. Placed(r) \in [Items -> {"none", "Awaiting Payment", "Pending", "Failed"}]
  BY DEF Placed
<1>2. \A i \in Items : Placed(r)[i] = "Pending" <=> i \in req[r].ok
  BY DEF Placed
<1>3. req[r].ok \subseteq Items
  BY DEF TypeOK, ReqType
<1> HIDE DEF Placed
<1>4. rows'[r] = Placed(r)
  BY DEF TypeOK
<1> QED BY <1>1, <1>2, <1>3, <1>4 DEF TypeOK, PendingOf

LEMMA NoPending == Cardinality({}) = 0
BY FS_EmptySet

-----------------------------------------------------------------------------
(* One request moves. *)

LEMMA GotoEffect ==
  ASSUME TypeOK, NEW r \in Requests, NEW pc \in InFlight \cup {"done", "killed"}, Goto(r, pc)
  PROVE  /\ req' \in [Requests -> ReqType]
         /\ \A q \in Requests : q # r => req'[q] = req[q]
         /\ req'[r].pc = pc
         /\ req'[r].mass = req[r].mass
         /\ req'[r].user = req[r].user
         /\ req'[r].key = req[r].key
         /\ req'[r].n = req[r].n
         /\ req'[r].lock = req[r].lock
         /\ req'[r].ok = req[r].ok
         /\ req'[r].asked = req[r].asked
         /\ req'[r].broken = req[r].broken
<1>1. req[r] \in ReqType
  BY DEF TypeOK
<1> DEFINE rec == [req[r] EXCEPT !.pc = pc]
<1>2. /\ rec \in ReqType /\ rec.pc = pc /\ rec.mass = req[r].mass
      /\ rec.user = req[r].user /\ rec.key = req[r].key /\ rec.n = req[r].n
      /\ rec.lock = req[r].lock /\ rec.ok = req[r].ok /\ rec.asked = req[r].asked
      /\ rec.broken = req[r].broken
  BY <1>1 DEF ReqType
<1>3. req' = [req EXCEPT ![r] = rec]
  BY DEF Goto
<1> HIDE DEF rec
<1> QED BY <1>2, <1>3 DEF TypeOK

LEMMA BreakEffect ==
  ASSUME TypeOK, NEW r \in Requests, Break(r)
  PROVE  /\ req' \in [Requests -> ReqType]
         /\ \A q \in Requests : q # r => req'[q] = req[q]
         /\ req'[r].pc = "fail"
         /\ req'[r].mass = req[r].mass
         /\ req'[r].user = req[r].user
         /\ req'[r].key = req[r].key
         /\ req'[r].n = req[r].n
         /\ req'[r].lock = req[r].lock
         /\ req'[r].ok = req[r].ok
         /\ req'[r].asked = req[r].asked
         /\ req'[r].broken
<1>1. req[r] \in ReqType
  BY DEF TypeOK
<1> DEFINE rec == [[req[r] EXCEPT !.pc = "fail"] EXCEPT !.broken = TRUE]
<1>2. /\ rec \in ReqType /\ rec.pc = "fail" /\ rec.mass = req[r].mass
      /\ rec.user = req[r].user /\ rec.key = req[r].key /\ rec.n = req[r].n
      /\ rec.lock = req[r].lock /\ rec.ok = req[r].ok /\ rec.asked = req[r].asked
      /\ rec.broken
  BY <1>1 DEF ReqType, InFlight
<1>3. req' = [req EXCEPT ![r] = rec]
  BY <1>1 DEF Break, TypeOK
<1> HIDE DEF rec
<1> QED BY <1>2, <1>3 DEF TypeOK

(* The other requests keep what they have. *)
LEMMA OthersKeep ==
  ASSUME NEW r \in Requests, NEW q \in Requests, q # r, RequestOf(q),
         req'[q] = req[q], debit'[q] = debit[q], refund'[q] = refund[q], rows'[q] = rows[q]
  PROVE  RequestOf(q)'
<1>1. PendingOf(q)' = PendingOf(q)
  BY DEF PendingOf
<1>2. Net(q)' = Net(q)
  BY DEF Net
<1>3. Untouched(q)' <=> Untouched(q)
  BY <1>1 DEF Untouched
<1> QED BY <1>1, <1>2, <1>3 DEF RequestOf, Charged

(* A step that neither takes a lock nor touches a key. *)
LEMMA SameKeys ==
  ASSUME KeysOK, idem' = idem, expiries' = expiries,
         \A q \in Requests : Busy(q)' => Busy(q) /\ req'[q].key = req[q].key
  PROVE  KeysOK'
BY DEF KeysOK

(* A step of r alone, at the keys it leaves alone. *)
LEMMA StepKeeps ==
  ASSUME PlaceInv, TypeOK', NEW r \in Requests, idem' = idem, expiries' = expiries,
         \A q \in Requests : q # r => /\ req'[q] = req[q] /\ debit'[q] = debit[q]
                                      /\ refund'[q] = refund[q] /\ rows'[q] = rows[q],
         RequestOf(r)',
         Busy(r)' => Busy(r) /\ req'[r].key = req[r].key
  PROVE  PlaceInv'
<1>1. \A q \in Requests : RequestOf(q)'
  BY OthersKeep DEF PlaceInv
<1>2. \A q \in Requests : q # r => (Busy(q)' <=> Busy(q))
  BY DEF Busy, Net
<1>3. KeysOK'
  BY <1>2, SameKeys DEF PlaceInv
<1> QED BY <1>1, <1>3 DEF PlaceInv

-----------------------------------------------------------------------------
(* Each action keeps the invariant. *)

LEMMA BeginKeeps ==
  ASSUME PlaceInv, NEW r \in Requests, NEW u \in Users, NEW k \in Keys \cup {None},
         NEW mass \in BOOLEAN, NEW n \in Items, Begin(r, u, k, mass, n)
  PROVE  PlaceInv'
<1>1. TypeOK /\ RequestOf(r) /\ req[r].pc = "idle"
  BY DEF PlaceInv, Begin
<1> DEFINE pc == IF k = None THEN "lockUser" ELSE "setnx"
           rec == [NoReq EXCEPT !.mass = mass, !.user = u, !.key = k, !.n = n,
                     !.bal = balance[u], !.pc = pc]
<1>a. pc \in {"setnx", "lockUser"} /\ (pc = "setnx" => k \in Keys)
  OBVIOUS
<1>b. req' = [req EXCEPT ![r] = rec] /\ (mass \/ n = 1)
  BY DEF Begin
<1> HIDE DEF pc
<1>2. balance[u] \in Nat
  BY <1>1 DEF TypeOK
<1>3. n \in 0..MaxItems /\ n \in Nat
  BY DEF Items
<1>c. 0 \in 0..MaxItems /\ {} \in SUBSET Items
  BY ItemsAssumption
<1>d. NoReq \in ReqType /\ ~NoReq.lock /\ NoReq.ok = {} /\ NoReq.asked = 0 /\ ~NoReq.broken
  BY <1>c DEF NoReq, ReqType, InFlight
<1>4. /\ rec \in ReqType /\ rec.pc \in {"setnx", "lockUser"} /\ (rec.pc = "setnx" => k \in Keys)
      /\ rec.mass = mass /\ rec.user = u /\ rec.key = k /\ rec.n = n /\ ~rec.lock
      /\ rec.ok = {} /\ rec.asked = 0 /\ ~rec.broken
  BY <1>a, <1>d, <1>2, <1>3 DEF ReqType, InFlight
<1> HIDE DEF rec
<1>5. UNCHANGED <<store, accepted, idem, expiries>>
  BY DEF Begin
<1>6. /\ req' \in [Requests -> ReqType] /\ req'[r] = rec
      /\ \A q \in Requests : q # r => req'[q] = req[q]
  BY <1>1, <1>4, <1>b DEF TypeOK
<1>7. TypeOK'
  BY <1>1, <1>5, <1>6 DEF TypeOK, store
<1>8. Untouched(r)'
  BY <1>1, <1>5 DEF RequestOf, Untouched, PendingOf, store
<1>9. RequestOf(r)'
  BY <1>b, <1>3, <1>4, <1>6, <1>8 DEF RequestOf
<1>10. ~Busy(r)'
  BY <1>4, <1>6 DEF Busy
<1> QED BY <1>5, <1>6, <1>7, <1>9, <1>10, StepKeeps DEF store

(* A request goes on, and what is stored stays. *)
LEMMA GotoKeeps ==
  ASSUME PlaceInv, NEW r \in Requests, NEW pc \in InFlight \cup {"done", "killed"}, Goto(r, pc),
         UNCHANGED <<store, accepted, idem, expiries>>,
         req[r].pc \notin {"idle", "done", "call"} \/ pc = "killed",
         \/ pc = "killed" /\ req[r].pc \in InFlight
         \/ pc = "done" /\ Untouched(r) /\ ~req[r].lock
         \/ pc \in {"getKey", "lockUser"} /\ req[r].pc \in {"setnx", "getKey"}
         \/ pc = "fail" /\ Untouched(r)
         \/ pc = "done" /\ req[r].pc \in {"store", "fail"}
  PROVE  PlaceInv'
<1>1. TypeOK /\ RequestOf(r)
  BY DEF PlaceInv
<1>2. /\ req' \in [Requests -> ReqType]
      /\ \A q \in Requests : q # r => req'[q] = req[q]
  BY <1>1, GotoEffect
<1>3. /\ req'[r].pc = pc /\ req'[r].mass = req[r].mass /\ req'[r].user = req[r].user
      /\ req'[r].key = req[r].key /\ req'[r].n = req[r].n /\ req'[r].lock = req[r].lock
      /\ req'[r].ok = req[r].ok /\ req'[r].asked = req[r].asked
      /\ req'[r].broken = req[r].broken
  BY <1>1, GotoEffect
<1>4. TypeOK'
  BY <1>1, <1>2 DEF TypeOK, store
<1>5. /\ PendingOf(r)' = PendingOf(r) /\ Net(r)' = Net(r) /\ (Untouched(r)' <=> Untouched(r))
      /\ debit' = debit /\ refund' = refund /\ rows' = rows
  BY DEF PendingOf, Net, Untouched, store
<1>6. Untouched(r) => Net(r) = 0 /\ Cardinality(PendingOf(r)) = 0
  BY NoPending DEF Untouched, Net
<1>7. RequestOf(r)'
  BY <1>1, <1>3, <1>5, <1>6 DEF RequestOf, InFlight, Charged
<1>8. Busy(r)' => Busy(r)
  BY <1>3, <1>5 DEF Busy, InFlight
<1> QED BY <1>2, <1>3, <1>4, <1>5, <1>7, <1>8, StepKeeps

LEMMA SetNxKeeps ==
  ASSUME PlaceInv, NEW r \in Requests, SetNx(r)
  PROVE  PlaceInv'
<1>1. TypeOK /\ RequestOf(r) /\ KeysOK /\ req[r].pc = "setnx"
  BY DEF PlaceInv, SetNx
<1>2. PICK k \in Keys : k = req[r].key
  BY <1>1 DEF RequestOf
<1>3. Untouched(r)
  BY <1>1 DEF RequestOf
<1>4. CASE /\ Vacant(k) /\ idem' = [idem EXCEPT ![k] = "PROCESSING"]
           /\ req' = [req EXCEPT ![r] = [@ EXCEPT !.pc = "lockUser", !.lock = TRUE]]
           /\ UNCHANGED <<store, accepted, expiries>>
  <2> DEFINE rec == [req[r] EXCEPT !.pc = "lockUser", !.lock = TRUE]
  <2>1. req[r] \in ReqType
    BY <1>1 DEF TypeOK
  <2>2. /\ rec \in ReqType /\ rec.pc = "lockUser" /\ rec.mass = req[r].mass
        /\ rec.user = req[r].user /\ rec.key = k /\ rec.n = req[r].n /\ rec.lock
        /\ rec.ok = req[r].ok /\ rec.asked = req[r].asked /\ rec.broken = req[r].broken
    BY <1>2, <2>1 DEF ReqType, InFlight
  <2>3. req' = [req EXCEPT ![r] = rec]
    BY <1>4
  <2> HIDE DEF rec
  <2>4. /\ req' \in [Requests -> ReqType] /\ req'[r] = rec
        /\ \A q \in Requests : q # r => req'[q] = req[q]
    BY <1>1, <2>2, <2>3 DEF TypeOK
  <2>5. /\ idem' \in [Keys -> {"none", "PROCESSING"} \cup Requests]
        /\ idem'[k] = "PROCESSING" /\ \A j \in Keys : j # k => idem'[j] = idem[j]
    BY <1>1, <1>4 DEF TypeOK
  <2>6. TypeOK'
    BY <1>1, <1>4, <2>4, <2>5 DEF TypeOK, store
  <2>7. Untouched(r)'
    BY <1>3, <1>4 DEF Untouched, PendingOf, store
  <2>8. RequestOf(r)'
    BY <1>1, <1>2, <2>2, <2>4, <2>7 DEF RequestOf
  <2>9. \A q \in Requests : q # r => RequestOf(q)' /\ (Busy(q)' <=> Busy(q))
    BY <1>4, <2>4, OthersKeep DEF PlaceInv, Busy, Net, store
  <2>10. ASSUME expiries = 0, NEW q \in Requests, q # r, Busy(q)
         PROVE  req[q].key # k /\ req[q].key \in Keys
    BY <1>1, <1>4, <2>10 DEF KeysOK, Vacant, PlaceInv, RequestOf, Busy
  <2>11. KeysOK'
    <3> SUFFICES ASSUME expiries = 0
                 PROVE  /\ \A p, q \in Requests : Busy(p)' /\ Busy(q)'
                             /\ req'[p].key = req'[q].key => p = q
                        /\ \A q \in Requests : Busy(q)' => idem'[req'[q].key] # "none"
      BY <1>4 DEF KeysOK
    <3>1. \A q \in Requests : q # r /\ Busy(q)' =>
            Busy(q) /\ req'[q].key = req[q].key /\ req[q].key # k /\ req[q].key \in Keys
      BY <2>4, <2>9, <2>10
    <3>2. req'[r].key = k
      BY <2>2, <2>4
    <3>3. /\ \A p, q \in Requests : Busy(p) /\ Busy(q) /\ req[p].key = req[q].key => p = q
          /\ \A q \in Requests : Busy(q) => idem[req[q].key] # "none"
      BY <1>1 DEF KeysOK
    <3> QED BY <2>5, <3>1, <3>2, <3>3
  <2> QED BY <2>6, <2>8, <2>9, <2>11 DEF PlaceInv
<1>5. CASE Goto(r, "getKey") /\ UNCHANGED <<store, accepted, idem, expiries>>
  BY <1>1, <1>5, GotoKeeps DEF InFlight
<1>6. CASE Goto(r, "done") /\ UNCHANGED <<store, accepted, idem, expiries>>
  BY <1>1, <1>3, <1>6, GotoKeeps DEF RequestOf
<1> QED BY <1>2, <1>4, <1>5, <1>6 DEF SetNx

LEMMA GetKeyKeeps ==
  ASSUME PlaceInv, NEW r \in Requests, GetKey(r)
  PROVE  PlaceInv'
<1>1. RequestOf(r) /\ req[r].pc = "getKey"
  BY DEF PlaceInv, GetKey
<1>2. Untouched(r) /\ ~req[r].lock
  BY <1>1 DEF RequestOf
<1>3. PICK pc \in {"lockUser", "done"} : Goto(r, pc)
  BY DEF GetKey, AfterGet
<1>4. UNCHANGED <<store, accepted, idem, expiries>>
  BY DEF GetKey
<1> QED BY <1>1, <1>2, <1>3, <1>4, GotoKeeps DEF InFlight

LEMMA KillKeeps ==
  ASSUME PlaceInv, NEW r \in Requests, Kill(r)
  PROVE  PlaceInv'
BY GotoKeeps DEF Kill

(* The answer is stored, or the key deleted. *)
LEMMA KeyWritten ==
  ASSUME PlaceInv, NEW r \in Requests, req[r].lock, Goto(r, "done"),
         UNCHANGED <<store, accepted, expiries>>,
         NEW v \in {"none"} \cup Requests, idem' = [idem EXCEPT ![req[r].key] = v],
         \/ req[r].pc = "store" /\ v \in Requests
         \/ req[r].pc = "fail" /\ v = "none"
  PROVE  PlaceInv'
<1>1. TypeOK /\ RequestOf(r) /\ KeysOK
  BY DEF PlaceInv
<1>2. PICK k \in Keys : k = req[r].key
  BY <1>1 DEF RequestOf
<1>3. /\ req' \in [Requests -> ReqType]
      /\ \A q \in Requests : q # r => req'[q] = req[q]
  BY <1>1, GotoEffect
<1>4. /\ req'[r].pc = "done" /\ req'[r].mass = req[r].mass /\ req'[r].user = req[r].user
      /\ req'[r].key = k /\ req'[r].n = req[r].n /\ req'[r].lock = req[r].lock
      /\ req'[r].ok = req[r].ok /\ req'[r].asked = req[r].asked
      /\ req'[r].broken = req[r].broken
  BY <1>1, <1>2, GotoEffect
<1>5. /\ idem' \in [Keys -> {"none", "PROCESSING"} \cup Requests]
      /\ idem'[k] = v /\ \A j \in Keys : j # k => idem'[j] = idem[j]
  BY <1>1, <1>2 DEF TypeOK
<1>6. TypeOK'
  BY <1>1, <1>3, <1>5 DEF TypeOK, store
<1>7. /\ PendingOf(r)' = PendingOf(r) /\ Net(r)' = Net(r)
      /\ debit' = debit /\ refund' = refund /\ rows' = rows
  BY DEF PendingOf, Net, store
<1>8. RequestOf(r)'
  BY <1>1, <1>2, <1>4, <1>7 DEF RequestOf, Charged
<1>9. \A q \in Requests : q # r => RequestOf(q)' /\ (Busy(q)' <=> Busy(q))
  BY <1>3, <1>7, OthersKeep DEF PlaceInv, Busy, Net
<1>10. Busy(r) /\ (v = "none" => ~Busy(r)')
  BY <1>1, <1>4, <1>7, RequestsAssumption DEF Busy, RequestOf
<1>11. KeysOK'
  <2> SUFFICES ASSUME expiries = 0
               PROVE  /\ \A p, q \in Requests : Busy(p)' /\ Busy(q)'
                           /\ req'[p].key = req'[q].key => p = q
                      /\ \A q \in Requests : Busy(q)' => idem'[req'[q].key] # "none"
    BY DEF KeysOK
  <2>1. /\ \A p, q \in Requests : Busy(p) /\ Busy(q) /\ req[p].key = req[q].key => p = q
        /\ \A q \in Requests : Busy(q) => idem[req[q].key] # "none"
    BY <1>1 DEF KeysOK
  <2>2. \A q \in Requests : q # r /\ Busy(q)' =>
          Busy(q) /\ req'[q].key = req[q].key /\ req[q].key # k /\ req[q].key \in Keys
    BY <1>2, <1>3, <1>9, <1>10, <2>1 DEF PlaceInv, RequestOf, Busy
  <2> QED BY <1>4, <1>5, <1>10, <2>1, <2>2
<1> QED BY <1>6, <1>8, <1>9, <1>11 DEF PlaceInv

LEMMA StoreResultKeeps ==
  ASSUME PlaceInv, NEW r \in Requests, StoreResult(r)
  PROVE  PlaceInv'
<1>1. req[r].pc = "store" /\ Goto(r, "done") /\ UNCHANGED <<store, accepted, expiries>>
  BY DEF StoreResult
<1>2. CASE req[r].lock /\ idem' = [idem EXCEPT ![req[r].key] = r]
  BY <1>1, <1>2, KeyWritten
<1>3. CASE idem' = idem
  BY <1>1, <1>3, GotoKeeps
<1> QED BY <1>2, <1>3 DEF StoreResult

LEMMA FailKeeps ==
  ASSUME PlaceInv, NEW r \in Requests, Fail(r)
  PROVE  PlaceInv'
<1>1. req[r].pc = "fail" /\ Goto(r, "done") /\ UNCHANGED <<store, accepted, expiries>>
  BY DEF Fail
<1>2. CASE req[r].lock /\ idem' = [idem EXCEPT ![req[r].key] = "none"]
  BY <1>1, <1>2, KeyWritten
<1>3. CASE idem' = idem
  BY <1>1, <1>3, GotoKeeps
<1> QED BY <1>2, <1>3 DEF Fail

LEMMA DebitUserKeeps ==
  ASSUME PlaceInv, NEW r \in Requests, DebitUser(r)
  PROVE  PlaceInv'
<1>1. TypeOK /\ RequestOf(r) /\ req[r].pc = "lockUser" /\ Untouched(r)
  BY DEF PlaceInv, DebitUser, RequestOf
<1>2. req[r].user \in Users /\ req[r].n \in 0..MaxItems /\ req[r].bal - req[r].n \in Nat
  BY <1>1, Fields DEF RequestOf, DebitUser, Affords
<1>3. req[r] \in ReqType
  BY <1>1 DEF TypeOK
<1>4. UNCHANGED <<refund, rows, accepted, idem, expiries>>
  BY DEF DebitUser
<1>5. /\ req' \in [Requests -> ReqType]
      /\ \A q \in Requests : q # r => req'[q] = req[q]
      /\ \/ req'[r].pc = "call" /\ ~req'[r].broken
         \/ req'[r].pc = "fail" /\ req'[r].broken
      /\ req'[r].mass = req[r].mass /\ req'[r].user = req[r].user /\ req'[r].key = req[r].key
      /\ req'[r].n = req[r].n /\ req'[r].lock = req[r].lock
      /\ req'[r].ok = req[r].ok /\ req'[r].asked = req[r].asked
  <2> DEFINE rec == [req[r] EXCEPT !.pc = "call", !.bal = req[r].bal - req[r].n]
  <2>1. /\ rec \in ReqType /\ rec.pc = "call" /\ rec.mass = req[r].mass
        /\ rec.user = req[r].user /\ rec.key = req[r].key /\ rec.n = req[r].n
        /\ rec.lock = req[r].lock /\ rec.ok = req[r].ok /\ rec.asked = req[r].asked
        /\ rec.broken = req[r].broken
    BY <1>2, <1>3 DEF ReqType, InFlight
  <2>2. req' = [req EXCEPT ![r] = rec] \/ Break(r)
    <3>1. CASE Break(r)
      BY <3>1
    <3>2. CASE req' = [req EXCEPT ![r] = [@ EXCEPT !.pc = "call", !.bal = req[r].bal - req[r].n]]
      <4>1. req' = [req EXCEPT ![r] = [req[r] EXCEPT !.pc = "call", !.bal = req[r].bal - req[r].n]]
        BY <3>2
      <4> QED BY <4>1
    <3> QED BY <3>1, <3>2 DEF DebitUser
  <2>3. ~req[r].broken
    BY <1>1 DEF RequestOf
  <2> HIDE DEF rec
  <2>4. CASE req' = [req EXCEPT ![r] = rec]
    BY <1>1, <2>1, <2>3, <2>4 DEF TypeOK
  <2>5. CASE Break(r)
    BY <1>1, <2>5, BreakEffect
  <2> QED BY <2>2, <2>4, <2>5
<1>7. balance' \in [Users -> Nat]
  BY <1>1, <1>2 DEF DebitUser, TypeOK
<1>8. /\ debit' \in [Requests -> 0..MaxItems] /\ debit'[r] = req[r].n
      /\ \A q \in Requests : q # r => debit'[q] = debit[q]
  BY <1>1, <1>2 DEF DebitUser, TypeOK
<1>9. TypeOK'
  BY <1>1, <1>4, <1>5, <1>7, <1>8 DEF TypeOK
<1>10. /\ PendingOf(r)' = {} /\ refund'[r] = 0 /\ Net(r)' = req[r].n
  BY <1>1, <1>2, <1>4, <1>8 DEF Untouched, PendingOf, Net
<1>11. RequestOf(r)'
  BY <1>1, <1>5, <1>8, <1>10 DEF RequestOf, Charged
<1>12. Busy(r)' => Busy(r)
  BY <1>1, <1>5 DEF Busy
<1> QED BY <1>4, <1>5, <1>8, <1>9, <1>11, <1>12, StepKeeps

LEMMA InvoiceOrderKeeps ==
  ASSUME PlaceInv, NEW r \in Requests, InvoiceOrder(r)
  PROVE  PlaceInv'
<1>1. TypeOK /\ RequestOf(r) /\ req[r].pc = "lockUser" /\ Untouched(r)
  BY DEF PlaceInv, InvoiceOrder, RequestOf
<1>2. CASE Goto(r, "fail") /\ rows' = rows
  BY <1>1, <1>2, GotoKeeps DEF InvoiceOrder, InFlight, store
<1>3. CASE /\ rows' = [rows EXCEPT ![r] = [i \in Items |->
                         IF i <= req[r].n THEN "Awaiting Payment" ELSE "none"]]
           /\ Goto(r, "store")
  <2>1. "store" \in InFlight
    BY DEF InFlight
  <2>2. /\ req' \in [Requests -> ReqType]
        /\ \A q \in Requests : q # r => req'[q] = req[q]
    BY <1>1, <1>3, <2>1, GotoEffect
  <2>3. /\ req'[r].pc = "store" /\ req'[r].mass = req[r].mass /\ req'[r].user = req[r].user
        /\ req'[r].key = req[r].key /\ req'[r].n = req[r].n /\ req'[r].lock = req[r].lock
        /\ req'[r].ok = req[r].ok /\ req'[r].asked = req[r].asked
        /\ req'[r].broken = req[r].broken
    BY <1>1, <1>3, <2>1, GotoEffect
  <2> DEFINE new == [i \in Items |-> IF i <= req[r].n THEN "Awaiting Payment" ELSE "none"]
  <2>4. /\ new \in [Items -> {"none", "Awaiting Payment", "Pending", "Failed"}]
        /\ \A i \in Items : new[i] # "Pending"
    OBVIOUS
  <2>5. rows' = [rows EXCEPT ![r] = new]
    BY <1>3
  <2> HIDE DEF new
  <2>6. /\ rows' \in [Requests -> [Items -> {"none", "Awaiting Payment", "Pending", "Failed"}]]
        /\ rows'[r] = new /\ \A q \in Requests : q # r => rows'[q] = rows[q]
    BY <1>1, <2>4, <2>5 DEF TypeOK
  <2>7. UNCHANGED <<balance, debit, refund, accepted, idem, expiries>>
    BY DEF InvoiceOrder
  <2>8. TypeOK'
    BY <1>1, <2>2, <2>6, <2>7 DEF TypeOK
  <2>9. PendingOf(r)' = {}
    BY <2>4, <2>6 DEF PendingOf
  <2>10. Net(r)' = Cardinality(PendingOf(r)')
    BY <1>1, <2>7, <2>9, NoPending DEF Net, Untouched
  <2>11. RequestOf(r)'
    BY <1>1, <2>3, <2>10 DEF RequestOf, Charged
  <2>12. Busy(r)' => Busy(r)
    BY <1>1, <2>3 DEF Busy
  <2> QED BY <2>2, <2>3, <2>6, <2>7, <2>8, <2>11, <2>12, StepKeeps
<1> QED BY <1>2, <1>3 DEF InvoiceOrder

LEMMA CallProviderKeeps ==
  ASSUME PlaceInv, NEW r \in Requests, CallProvider(r)
  PROVE  PlaceInv'
<1>0. PICK i : i = req[r].asked + 1
  OBVIOUS
<1>1. TypeOK /\ RequestOf(r) /\ req[r].pc = "call" /\ i <= req[r].n
  BY <1>0 DEF PlaceInv, CallProvider
<1>2. i \in 1..req[r].n /\ i \in Items /\ i \in 0..MaxItems /\ req[r].asked \in Nat
  <2>1. /\ req[r].n \in Nat /\ req[r].n <= MaxItems
        /\ req[r].asked \in Nat /\ req[r].asked <= MaxItems
    BY <1>1, Fields
  <2> QED BY <1>0, <1>1, <2>1, ItemsAssumption DEF Items
<1>3. PICK S \in SUBSET (req[r].ok \cup {i}) :
        req' = [req EXCEPT ![r] = [req[r] EXCEPT !.asked = i, !.ok = S]]
  <2>1. PICK reply \in Replies :
          req' = [req EXCEPT ![r] = [req[r] EXCEPT !.asked = i,
                    !.ok = IF reply = "ok" THEN req[r].ok \cup {i} ELSE req[r].ok]]
    BY <1>0 DEF CallProvider
  <2>2. CASE reply = "ok"
    <3>1. req' = [req EXCEPT ![r] = [req[r] EXCEPT !.asked = i, !.ok = req[r].ok \cup {i}]]
      BY <2>1, <2>2
    <3> QED BY <3>1
  <2>3. CASE reply # "ok"
    <3>1. req' = [req EXCEPT ![r] = [req[r] EXCEPT !.asked = i, !.ok = req[r].ok]]
      BY <2>1, <2>3
    <3> QED BY <3>1
  <2> QED BY <2>2, <2>3
<1>4. req[r] \in ReqType /\ req[r].ok \subseteq Items
  BY <1>1, Fields
<1>5. S \in SUBSET Items
  BY <1>2, <1>4
<1> DEFINE rec == [req[r] EXCEPT !.asked = i, !.ok = S]
<1>6. /\ rec \in ReqType /\ rec.pc = "call" /\ rec.mass = req[r].mass
      /\ rec.user = req[r].user /\ rec.key = req[r].key /\ rec.n = req[r].n
      /\ rec.lock = req[r].lock /\ rec.ok = S /\ rec.asked = req[r].asked + 1
      /\ rec.broken = req[r].broken
  BY <1>0, <1>1, <1>2, <1>4, <1>5 DEF ReqType
<1>7. req' = [req EXCEPT ![r] = rec]
  BY <1>3
<1> HIDE DEF rec
<1>8. /\ req' \in [Requests -> ReqType] /\ req'[r] = rec
      /\ \A q \in Requests : q # r => req'[q] = req[q]
  BY <1>1, <1>6, <1>7 DEF TypeOK
<1>9. accepted' \in [Requests -> SUBSET Items]
  <2>1. PICK taken \in BOOLEAN :
          accepted' = [accepted EXCEPT ![r] = IF taken THEN accepted[r] \cup {i}
                                              ELSE accepted[r]]
    BY <1>0 DEF CallProvider
  <2>2. accepted \in [Requests -> SUBSET Items]
    BY <1>1 DEF TypeOK
  <2>3. (IF taken THEN accepted[r] \cup {i} ELSE accepted[r]) \in SUBSET Items
    BY <1>2, <2>2
  <2> QED BY <2>1, <2>2, <2>3
<1>10. UNCHANGED <<balance, debit, refund, rows, idem, expiries>>
  BY DEF CallProvider, store
<1>11. TypeOK'
  BY <1>1, <1>8, <1>9, <1>10 DEF TypeOK
<1>12. req[r].ok \subseteq 1..req[r].asked
  BY <1>1 DEF RequestOf
<1>13. rec.ok \subseteq 1..rec.asked
  <2>1. 1..req[r].asked \subseteq 1..(req[r].asked + 1) /\ i \in 1..(req[r].asked + 1)
    BY <1>0, <1>2
  <2> QED BY <1>3, <1>6, <1>12, <2>1
<1>14. RequestOf(r)'
  BY <1>0, <1>1, <1>6, <1>8, <1>10, <1>13 DEF RequestOf, PendingOf
<1>15. Busy(r)' => Busy(r)
  BY <1>1, <1>6, <1>8 DEF Busy
<1> QED BY <1>6, <1>8, <1>10, <1>11, <1>14, <1>15, StepKeeps

(* The end of a request that has called the provider: the step writes rows *)
(* and a refund that agree, or breaks off with the whole debit standing.   *)
LEMMA CalledKeeps ==
  ASSUME PlaceInv, TypeOK', NEW r \in Requests, req[r].pc = "call",
         UNCHANGED <<debit, accepted, idem, expiries>>,
         \A q \in Requests : q # r => /\ refund'[q] = refund[q] /\ rows'[q] = rows[q],
         NEW pc \in {"store", "fail"}, Goto(r, pc) \/ (Break(r) /\ pc = "fail"),
         \/ Net(r)' = Cardinality(PendingOf(r)') /\ (pc = "fail" /\ Goto(r, pc) => Net(r)' = 0)
         \/ Break(r) /\ refund' = refund /\ rows' = rows
  PROVE  PlaceInv'
<1>1. TypeOK /\ RequestOf(r) /\ pc \in InFlight /\ ~req[r].broken
  BY DEF PlaceInv, InFlight, RequestOf
<1>2. /\ \A q \in Requests : q # r => req'[q] = req[q]
      /\ req'[r].pc = pc /\ req'[r].mass = req[r].mass /\ req'[r].user = req[r].user
      /\ req'[r].key = req[r].key /\ req'[r].n = req[r].n /\ req'[r].lock = req[r].lock
      /\ req'[r].ok = req[r].ok /\ req'[r].asked = req[r].asked
  BY <1>1, GotoEffect, BreakEffect
<1>3. (Goto(r, pc) /\ ~req'[r].broken) \/ (Break(r) /\ req'[r].broken /\ pc = "fail")
  BY <1>1, GotoEffect, BreakEffect
<1>4. req[r].n \in Nat /\ debit[r] = req[r].n /\ refund[r] = 0 /\ PendingOf(r) = {}
  BY <1>1, Fields DEF RequestOf
<1>5. Charged(r)' /\ (pc = "fail" /\ ~req'[r].broken => Net(r)' = 0)
  <2>1. CASE Net(r)' = Cardinality(PendingOf(r)') /\ (pc = "fail" /\ Goto(r, pc) => Net(r)' = 0)
    BY <1>3, <2>1 DEF Charged
  <2>2. CASE Break(r) /\ refund' = refund /\ rows' = rows
    <3>1. req'[r].broken
      BY <1>1, <2>2, BreakEffect
    <3>2. Net(r)' = req[r].n /\ PendingOf(r)' = {}
      BY <1>4, <2>2 DEF Net, PendingOf
    <3> QED BY <1>2, <3>1, <3>2 DEF Charged
  <2> QED BY <2>1, <2>2
<1>6. RequestOf(r)'
  BY <1>1, <1>2, <1>3, <1>5 DEF RequestOf
<1>7. Busy(r)' => Busy(r)
  BY <1>2 DEF Busy
<1> QED BY <1>2, <1>6, <1>7, StepKeeps

LEMMA CommitOrdersKeeps ==
  ASSUME PlaceInv, NEW r \in Requests, CommitOrders(r)
  PROVE  PlaceInv'
<1>1. /\ TypeOK /\ RequestOf(r) /\ req[r].pc = "call"
      /\ Cardinality(req[r].ok) = req[r].n /\ rows' = [rows EXCEPT ![r] = Placed(r)]
      /\ UNCHANGED <<balance, debit, refund, accepted, idem, expiries>>
  BY DEF PlaceInv, CommitOrders, Called
<1>2. PICK pc \in {"store", "fail"} : (Goto(r, pc) /\ pc = "store") \/ (Break(r) /\ pc = "fail")
  BY DEF CommitOrders
<1>3. req' \in [Requests -> ReqType]
  BY <1>1, <1>2, GotoEffect, BreakEffect DEF InFlight
<1>5. /\ rows' \in [Requests -> [Items -> {"none", "Awaiting Payment", "Pending", "Failed"}]]
      /\ \A q \in Requests : q # r => rows'[q] = rows[q]
      /\ PendingOf(r)' = req[r].ok
  BY <1>1, PlacedPending
<1>6. TypeOK'
  BY <1>1, <1>3, <1>5 DEF TypeOK
<1>7. debit[r] = req[r].n /\ refund[r] = 0 /\ req[r].n \in Nat
  BY <1>1, Fields DEF RequestOf
<1>8. Net(r)' = Cardinality(PendingOf(r)')
  <2>1. Net(r)' = debit'[r] - refund'[r]
    BY DEF Net
  <2>2. debit'[r] = req[r].n /\ refund'[r] = 0
    BY <1>1, <1>7
  <2>3. Net(r)' = req[r].n
    BY <1>7, <2>1, <2>2
  <2> QED BY <1>1, <1>5, <2>3
<1>9. pc = "fail" /\ Goto(r, pc) => Net(r)' = 0
  <2> SUFFICES ASSUME pc = "fail", Goto(r, pc) PROVE FALSE
    OBVIOUS
  <2>1. Break(r)
    BY <1>2
  <2>2. req'[r].broken /\ req'[r].broken = req[r].broken
    BY <1>1, <2>1, GotoEffect, BreakEffect DEF InFlight
  <2> QED BY <1>1, <2>2 DEF RequestOf
<1> QED BY <1>1, <1>2, <1>5, <1>6, <1>8, <1>9, CalledKeeps

LEMMA CommitFailsKeeps ==
  ASSUME PlaceInv, NEW r \in Requests, CommitFails(r)
  PROVE  PlaceInv'
<1>1. TypeOK /\ req[r].pc = "call" /\ Break(r) /\ UNCHANGED <<store, accepted, idem, expiries>>
  BY DEF PlaceInv, CommitFails, Called
<1>2. req' \in [Requests -> ReqType]
  BY <1>1, BreakEffect
<1>3. TypeOK'
  BY <1>1, <1>2 DEF TypeOK, store
<1> QED BY <1>1, <1>3, CalledKeeps DEF store

LEMMA RefundUserKeeps ==
  ASSUME PlaceInv, NEW r \in Requests, RefundUser(r)
  PROVE  PlaceInv'
<1>1. /\ TypeOK /\ RequestOf(r) /\ req[r].pc = "call"
      /\ Cardinality(req[r].ok) < req[r].n /\ rows' = [rows EXCEPT ![r] = Placed(r)]
      /\ UNCHANGED <<debit, accepted, idem, expiries>>
  BY DEF PlaceInv, RefundUser, Called
<1>2. PICK pc \in {"store", "fail"} :
        \/ Goto(r, pc) /\ (pc = "fail" => ~req[r].mass)
        \/ Break(r) /\ pc = "fail"
  BY DEF RefundUser
<1>4. req' \in [Requests -> ReqType]
  BY <1>1, <1>2, GotoEffect, BreakEffect DEF InFlight
<1>6. /\ rows' \in [Requests -> [Items -> {"none", "Awaiting Payment", "Pending", "Failed"}]]
      /\ \A q \in Requests : q # r => rows'[q] = rows[q]
      /\ PendingOf(r)' = req[r].ok
  BY <1>1, PlacedPending
<1>7. /\ req[r].n \in Nat /\ req[r].n <= MaxItems /\ req[r].bal \in Nat
      /\ Cardinality(req[r].ok) \in Nat
  BY <1>1, Fields, OkCount
<1>8. RefundDue(r) = req[r].n - Cardinality(req[r].ok) /\ RefundDue(r) \in 0..MaxItems
  BY <1>1, <1>7, ItemsAssumption DEF RefundDue
<1>9. req[r].user \in Users /\ debit[r] = req[r].n
  BY <1>1 DEF RequestOf
<1>10. balance' \in [Users -> Nat]
  <2>1. req[r].bal + RefundDue(r) \in Nat
    BY <1>7, <1>8, ItemsAssumption
  <2>2. balance' = [balance EXCEPT ![req[r].user] = req[r].bal + RefundDue(r)]
    BY DEF RefundUser
  <2> QED BY <1>1, <2>1, <2>2 DEF TypeOK
<1>11. /\ refund' \in [Requests -> 0..MaxItems] /\ refund'[r] = RefundDue(r)
       /\ \A q \in Requests : q # r => refund'[q] = refund[q]
  BY <1>1, <1>8 DEF RefundUser, TypeOK
<1>12. TypeOK'
  BY <1>1, <1>4, <1>6, <1>10, <1>11 DEF TypeOK
<1>13. Net(r)' = Cardinality(req[r].ok)
  BY <1>1, <1>7, <1>8, <1>9, <1>11 DEF Net
<1>14. pc = "fail" /\ Goto(r, pc) => Net(r)' = 0
  <2> SUFFICES ASSUME pc = "fail", Goto(r, pc) PROVE Net(r)' = 0
    OBVIOUS
  <2>1. ~Break(r)
    <3> SUFFICES ASSUME Break(r) PROVE FALSE
      OBVIOUS
    <3>1. req'[r].broken /\ req'[r].broken = req[r].broken
      BY <1>1, GotoEffect, BreakEffect DEF InFlight
    <3> QED BY <1>1, <3>1 DEF RequestOf
  <2>2. ~req[r].mass
    BY <1>2, <2>1
  <2> QED BY <1>1, <1>7, <1>13, <2>2 DEF RequestOf
<1> QED BY <1>1, <1>2, <1>6, <1>11, <1>12, <1>13, <1>14, CalledKeeps

(* After a key has run out nothing is promised of the keys. *)
LEMMA ExpireKeyKeeps ==
  ASSUME PlaceInv, NEW k \in Keys, ExpireKey(k)
  PROVE  PlaceInv'
<1>1. expiries \in 0..MaxExpiries /\ expiries < MaxExpiries /\ expiries' = expiries + 1
  BY DEF PlaceInv, TypeOK, ExpireKey
<1>2. expiries' # 0 /\ expiries' \in 0..MaxExpiries
  BY <1>1, BoundsAssumption
<1>3. TypeOK'
  BY <1>2 DEF PlaceInv, TypeOK, ExpireKey, store
<1>4. KeysOK'
  BY <1>2 DEF KeysOK
<1>5. \A r \in Requests : RequestOf(r)'
  BY DEF PlaceInv, RequestOf, Charged, Untouched, PendingOf, Net, ExpireKey, store
<1> QED BY <1>3, <1>4, <1>5 DEF PlaceInv

-----------------------------------------------------------------------------

LEMMA PlaceInit == Init => PlaceInv
<1> SUFFICES ASSUME Init PROVE PlaceInv
  OBVIOUS
<1>1. NoReq \in ReqType /\ NoReq.pc = "idle" /\ ~NoReq.lock /\ NoReq.asked = 0
      /\ NoReq.n = 0 /\ NoReq.ok = {} /\ ~NoReq.broken
  BY ItemsAssumption DEF NoReq, ReqType, InFlight
<1>2. \A r \in Requests : /\ req[r] = NoReq /\ debit[r] = 0 /\ refund[r] = 0
                          /\ \A i \in Items : rows[r][i] = "none"
  BY DEF Init
<1> HIDE DEF NoReq
<1>3. TypeOK
  BY <1>1, ItemsAssumption, WealthAssumption, BoundsAssumption DEF Init, TypeOK
<1>4. \A r \in Requests : Untouched(r)
  BY <1>2 DEF Untouched, PendingOf
<1>5. \A r \in Requests : RequestOf(r) /\ ~Busy(r)
  BY <1>1, <1>2, <1>4 DEF RequestOf, Busy
<1>6. KeysOK
  BY <1>5 DEF KeysOK
<1> QED BY <1>3, <1>5, <1>6 DEF PlaceInv

LEMMA PlaceNext == PlaceInv /\ [Next]_vars => PlaceInv'
<1> SUFFICES ASSUME PlaceInv, [Next]_vars PROVE PlaceInv'
  OBVIOUS
<1>1. ASSUME NEW r \in Requests, Step(r) \/ Kill(r)
      PROVE  PlaceInv'
  BY <1>1, SetNxKeeps, GetKeyKeeps, DebitUserKeeps, InvoiceOrderKeeps, CallProviderKeeps,
    CommitOrdersKeeps, CommitFailsKeeps, RefundUserKeeps, StoreResultKeeps, FailKeeps, KillKeeps DEF Step
<1>2. CASE UNCHANGED vars
  <2>1. TypeOK'
    BY <1>2 DEF vars, PlaceInv, TypeOK
  <2>2. KeysOK'
    BY <1>2 DEF vars, PlaceInv, KeysOK, Busy, Net
  <2>3. \A r \in Requests : RequestOf(r)'
    BY <1>2 DEF vars, PlaceInv, RequestOf, Charged, Untouched, PendingOf, Net
  <2> QED BY <2>1, <2>2, <2>3 DEF PlaceInv
<1> QED BY <1>1, <1>2, BeginKeeps, ExpireKeyKeeps DEF Next, Quiet

(* The invariant that the theorems below need. *)
THEOREM Inductive == Spec => []PlaceInv
<1> QED BY PlaceInit, PlaceNext, PTL DEF Spec

(* Types, and no balance below zero, although the debit works on a copy of *)
(* the balance that is older than the lock (place_order).                  *)
THEOREM TypeCorrect == Spec => []TypeOK
<1>1. PlaceInv => TypeOK
  BY DEF PlaceInv
<1> QED BY <1>1, Inductive, PTL

(* A request that has ended has charged exactly the items on record as     *)
(* Pending: batches with failed items, lost answers and failures of Redis  *)
(* included; if the database fails after the debit, all of it stays        *)
(* charged and nothing is on record (place_order, place_mass_orders).      *)
THEOREM ChargesArePending == Spec => []ChargedForPending
<1>1. PlaceInv => ChargedForPending
  BY DEF PlaceInv, RequestOf, Charged, ChargedForPending, PendingOf
<1> QED BY <1>1, Inductive, PTL

(* Only a key that ran out, one that was gone between SET NX and GET, or   *)
(* one deleted because the database failed after the debit lets two        *)
(* requests with the same key be charged (api/orders.py, idempotency key). *)
THEOREM OneChargePerKey == Spec => []DoubleChargeNeedsGap
<1>1. PlaceInv => DoubleChargeNeedsGap
  <2> SUFFICES ASSUME PlaceInv, NEW r \in Requests, NEW q \in Requests, r # q,
                      req[r].key = req[q].key, Net(r) > 0, Net(q) > 0,
                      req[r].lock, req[q].lock, ~req[r].broken, ~req[q].broken,
                      ~(expiries > 0)
               PROVE  FALSE
    BY DEF DoubleChargeNeedsGap
  <2>1. expiries \in 0..MaxExpiries
    BY DEF PlaceInv, TypeOK
  <2>2. expiries = 0
    BY <2>1, BoundsAssumption
  <2>3. Busy(r) /\ Busy(q)
    BY DEF Busy
  <2> QED BY <2>2, <2>3 DEF PlaceInv, KeysOK
<1> QED BY <1>1, Inductive, PTL

-----------------------------------------------------------------------------
(* Refreshing and refunding orders *)

Due == {"Canceled", "Partial"}

(* The refund a session is working on. *)
Refunding(x) ==
  /\ x.pc \in {"lockOrder", "lockUser"} <=> x.at # 0
  /\ x.at # 0 => x.at \notin x.left /\ x.ans[x.at].status \in Due
  /\ x.pc = "lockUser" => x.at \in x.held /\ ~order[x.at].refunded

(* What a session has found out about an order, and what it will do to it: *)
(* a credit is only prepared for a row it holds and has read unrefunded,   *)
(* and no canceled order is passed over without one.                       *)
Knows(x, o) ==
  /\ x.seen[o].refunded => order[o].refunded
  /\ x.ans[o].status \in Terminal => panel[o].status = x.ans[o].status
  /\ x.due[o] > 0 => /\ o \in x.held /\ ~order[o].refunded
                     /\ x.ans[o].status \in Due
                     /\ x.ans[o].status = "Canceled" => x.due[o] = Price
  /\ x.ans[o].status = "Canceled" /\ o \notin x.left /\ o # x.at
       => order[o].refunded \/ x.due[o] = Price

(* A row, its ledger entries and the provider's view of it. *)
Booked(o) ==
  /\ credits[o] = IF order[o].refunded THEN 1 ELSE 0
  /\ order[o].refunded => /\ panel[o].status \in Due
                          /\ panel[o].status = "Canceled" => order[o].amount = Price
  /\ order[o].status = "Canceled" => order[o].refunded /\ order[o].amount = Price

HeldByOne == \A s, q \in Sessions : \A o \in Orders : HasRow(s, o) /\ HasRow(q, o) => s = q

RefundInv ==
  /\ RefundTypeOK
  /\ \A s \in Sessions : Refunding(ses[s]) /\ \A o \in Orders : Knows(ses[s], o)
  /\ \A o \in Orders : Booked(o)
  /\ HeldByOne

-----------------------------------------------------------------------------
(* Amounts *)

LEMMA Constants ==
  /\ Price \in Nat /\ Price > 0 /\ Quantity \in Nat /\ Quantity > 0
  /\ 0 \notin Orders /\ Orders \subseteq Nat /\ MaxAborts \in Nat
  /\ Outcomes \subseteq Statuses
<1>1. Outcomes \subseteq Statuses
  BY RefundBoundsAssumption DEF Statuses, Active, Terminal
<1>2. 0 \notin Orders /\ Orders \subseteq Nat
  BY OrdersAssumption DEF Orders
<1> QED BY <1>1, <1>2, NumbersAssumption, RefundBoundsAssumption

(* A part of the price is no more than the price. *)
LEMMA PartOfPrice ==
  ASSUME NEW n \in 0..Quantity
  PROVE  (Price * n) \div Quantity \in 0..Price
<1>1. Price \in Nat /\ Quantity \in Nat /\ Quantity > 0 /\ n \in Nat /\ n <= Quantity
  BY Constants
<1> DEFINE p == Price * n
           d == p \div Quantity
           rem == p % Quantity
<1>2. p \in Nat /\ p <= Price * Quantity
  BY <1>1, SMT
<1>3. d \in Int /\ rem \in 0..(Quantity - 1) /\ p = Quantity * d + rem
  BY <1>1, <1>2, SMT
<1>4. d >= 0
  BY <1>1, <1>2, <1>3, SMT
<1>5. ~ (d >= Price + 1)
  BY <1>1, <1>2, <1>3, SMT
<1> QED BY <1>1, <1>3, <1>4, <1>5

LEMMA RefundAmountType ==
  ASSUME NEW status, NEW remains \in Remains \cup {Null}
  PROVE  /\ RefundAmount(status, remains) \in 0..Price
         /\ status = "Canceled" => RefundAmount(status, remains) = Price
<1>1. Price \in Nat
  BY Constants
<1>2. CASE status = "Canceled"
  BY <1>1, <1>2 DEF RefundAmount
<1>3. CASE status # "Canceled" /\ remains > 0
  <2>1. remains \in 0..Quantity
    BY <1>3 DEF Remains, Null
  <2> QED BY <1>3, <2>1, PartOfPrice DEF RefundAmount
<1>4. CASE status # "Canceled" /\ ~(remains > 0)
  BY <1>1, <1>4 DEF RefundAmount
<1> QED BY <1>2, <1>3, <1>4

-----------------------------------------------------------------------------
(* Fields *)

LEMMA SesFields ==
  ASSUME RefundTypeOK, NEW s \in Sessions
  PROVE  /\ ses[s] \in SesType
         /\ ses[s].pc \in {"idle", "open", "lockOrder", "lockUser", "flush"}
         /\ ses[s].at \in Orders \cup {0}
         /\ ses[s].seen \in [Orders -> Row]
         /\ ses[s].ans \in [Orders -> View \cup {NoView}]
         /\ ses[s].left \subseteq Orders
         /\ ses[s].held \subseteq Orders
         /\ ses[s].user \in BOOLEAN
         /\ ses[s].bal \in Nat
         /\ ses[s].due \in [Orders -> 0..Price]
<1>1. ses[s] \in SesType
  BY DEF RefundTypeOK
<1> QED BY <1>1 DEF SesType

LEMMA RowFields ==
  ASSUME NEW x \in Row
  PROVE  /\ x.status \in Statuses /\ x.remains \in Remains \cup {Null}
         /\ x.refunded \in BOOLEAN /\ x.amount \in 0..Price
BY DEF Row

LEMMA ViewFields ==
  ASSUME NEW x \in View \cup {NoView}
  PROVE  /\ x.remains \in Remains \cup {Null}
         /\ x \in View => x.status \in Statuses
         /\ x = NoView => x.status \notin Statuses
BY DEF View, NoView, Statuses, Active, Terminal

(* A row as a session leaves it. *)
LEMMA WrittenFields ==
  ASSUME RefundTypeOK, NEW s \in Sessions, NEW o \in Orders
  PROVE  /\ Written(s, o) \in Row
         /\ Written(s, o).remains \in Remains \cup {Null}
<1>1. /\ order[o] \in Row /\ ses[s].seen[o] \in Row /\ ses[s].ans[o] \in View \cup {NoView}
      /\ ses[s].due[o] \in 0..Price
  BY SesFields DEF RefundTypeOK
<1>2. CASE o \notin Applied(s)
  BY <1>1, <1>2, RowFields DEF Written
<1>3. CASE o \in Applied(s)
  <2>1. ses[s].ans[o] \in View
    BY <1>1, <1>3 DEF Applied
  <2>2. ses[s].ans[o].status \in Statuses
    BY <2>1, ViewFields
  <2>3. NewRemains(s, o) \in Remains \cup {Null}
    BY <1>1, RowFields, ViewFields DEF NewRemains
  <2>4. PICK st \in Statuses, rm \in Remains \cup {Null}, rf \in BOOLEAN, am \in 0..Price :
          Written(s, o) = [status |-> st, remains |-> rm, refunded |-> rf, amount |-> am]
    <3>1. (IF StatusChanged(s, o) THEN ses[s].ans[o].status ELSE order[o].status) \in Statuses
      BY <1>1, <2>2, RowFields
    <3>2. (IF RemainsChanged(s, o) THEN NewRemains(s, o) ELSE order[o].remains)
            \in Remains \cup {Null}
      BY <1>1, <2>3, RowFields
    <3>3. (order[o].refunded \/ ses[s].due[o] > 0) \in BOOLEAN
      OBVIOUS
    <3>4. (IF ses[s].due[o] > 0 THEN ses[s].due[o] ELSE order[o].amount) \in 0..Price
      BY <1>1, RowFields
    <3> QED BY <1>3, <3>1, <3>2, <3>3, <3>4 DEF Written
  <2> QED BY <2>4 DEF Row
<1> QED BY <1>2, <1>3

LEMMA DueNowType ==
  ASSUME RefundTypeOK, NEW s \in Sessions, ses[s].at \in Orders
  PROVE  /\ DueNow(s) \in 0..Price
         /\ ses[s].ans[ses[s].at].status = "Canceled" => DueNow(s) = Price
<1>1. Written(s, ses[s].at).remains \in Remains \cup {Null}
  BY WrittenFields
<1> QED BY <1>1, RefundAmountType DEF DueNow

-----------------------------------------------------------------------------
(* What one session does to itself. *)

(* A step of a session that writes no row: it may set its fields, and lock *)
(* rows that nobody holds.                                                 *)
LEMMA SessionSteps ==
  ASSUME RefundInv, NEW s \in Sessions, NEW rec \in SesType,
         ses' = [ses EXCEPT ![s] = rec], UNCHANGED <<order, credits, repaid, panel>>,
         aborts' \in 0..MaxAborts,
         \A q \in Sessions \ {s} : rec.held \cap ses[q].held = {},
         Refunding(rec), \A o \in Orders : Knows(rec, o)
  PROVE  RefundInv'
<1>1. /\ ses' \in [Sessions -> SesType] /\ ses'[s] = rec
      /\ \A q \in Sessions \ {s} : ses'[q] = ses[q]
  BY DEF RefundInv, RefundTypeOK
<1>2. RefundTypeOK'
  BY <1>1 DEF RefundInv, RefundTypeOK
<1>3. ASSUME NEW q \in Sessions
      PROVE  Refunding(ses[q])' /\ \A o \in Orders : Knows(ses[q], o)'
  <2>1. PICK x : x = ses'[q] /\ Refunding(x) /\ \A o \in Orders : Knows(x, o)
    BY <1>1 DEF RefundInv
  <2>2. Refunding(ses[q])'
    BY <2>1 DEF Refunding
  <2>3. \A o \in Orders : Knows(ses[q], o)'
    BY <2>1 DEF Knows
  <2> QED BY <2>2, <2>3
<1>4. \A o \in Orders : Booked(o)'
  BY DEF RefundInv, Booked
<1>5. HeldByOne'
  <2> SUFFICES ASSUME NEW p \in Sessions, NEW q \in Sessions, NEW o \in Orders,
                      o \in ses'[p].held, o \in ses'[q].held
               PROVE  p = q
    BY DEF HeldByOne, HasRow
  <2>1. CASE p # s /\ q # s
    BY <1>1, <2>1 DEF RefundInv, HeldByOne, HasRow
  <2>2. CASE p = s \/ q = s
    BY <1>1, <2>2
  <2> QED BY <2>1, <2>2
<1> QED BY <1>2, <1>3, <1>4, <1>5 DEF RefundInv

LEMMA NoSesFields ==
  /\ NoSes \in SesType /\ NoSes.pc = "idle" /\ NoSes.at = 0 /\ NoSes.left = {}
  /\ NoSes.held = {} /\ \A o \in Orders : /\ NoSes.seen[o] = NewRow
                                          /\ NoSes.ans[o] = NoView /\ NoSes.due[o] = 0
<1>1. NewRow \in Row
  BY Constants DEF NewRow, Row, Statuses, Active, Null
<1> QED BY <1>1, Constants DEF NoSes, SesType

LEMMA EmptyFields == NewRow.refunded = FALSE /\ NoView.status \notin Terminal
BY DEF NewRow, NoView, Terminal

(* The transaction is undone. *)
LEMMA RollbackKeeps ==
  ASSUME RefundInv, NEW s \in Sessions, ses' = [ses EXCEPT ![s] = NoSes],
         UNCHANGED <<order, credits, repaid, panel>>, aborts' \in 0..MaxAborts
  PROVE  RefundInv'
<1>1. \A o \in Orders : /\ ~NoSes.seen[o].refunded /\ NoSes.ans[o].status \notin Terminal
                       /\ NoSes.due[o] = 0
  BY NoSesFields, EmptyFields
<1>2. \A o \in Orders : NoSes.ans[o].status # "Canceled"
  BY <1>1 DEF Terminal
<1>3. Refunding(NoSes) /\ \A o \in Orders : Knows(NoSes, o)
  BY <1>1, <1>2, NoSesFields DEF Refunding, Knows
<1> QED BY <1>3, NoSesFields, SessionSteps

LEMMA AbortKeeps ==
  ASSUME RefundInv, NEW s \in Sessions, Abort(s)
  PROVE  RefundInv'
<1>1. aborts \in 0..MaxAborts
  BY DEF RefundInv, RefundTypeOK
<1>2. aborts' \in 0..MaxAborts
  BY <1>1, Constants DEF Abort
<1> QED BY <1>2, RollbackKeeps DEF Abort, written

LEMMA DeadlockVictimKeeps ==
  ASSUME RefundInv, NEW s \in Sessions, DeadlockVictim(s)
  PROVE  RefundInv'
<1>1. aborts' \in 0..MaxAborts
  BY DEF RefundInv, RefundTypeOK, DeadlockVictim
<1> QED BY <1>1, RollbackKeeps DEF DeadlockVictim, written

LEMMA BeginRefreshKeeps ==
  ASSUME RefundInv, NEW s \in Sessions, BeginRefresh(s)
  PROVE  RefundInv'
<1>1. RefundTypeOK
  BY DEF RefundInv
<1>2. PICK S \in SUBSET Orders :
        ses' = [ses EXCEPT ![s] = [NoSes EXCEPT !.pc = "open", !.left = S,
                  !.seen = [o \in Orders |-> IF o \in S THEN order[o] ELSE NewRow],
                  !.bal = IF s \in Web THEN repaid ELSE 0]]
  <2>1. Batches(s) \subseteq SUBSET Orders
    BY DEF Batches, LoopBatches, Polled
  <2> QED BY <2>1 DEF BeginRefresh
<1>3. PICK seen \in [Orders -> Row], bal \in Nat :
        /\ ses' = [ses EXCEPT ![s] = [NoSes EXCEPT !.pc = "open", !.left = S,
                     !.seen = seen, !.bal = bal]]
        /\ \A o \in Orders : seen[o] = order[o] \/ seen[o] = NewRow
  <2>1. order \in [Orders -> Row] /\ repaid \in Nat
    BY <1>1 DEF RefundTypeOK
  <2>2. NewRow \in Row
    BY Constants DEF NewRow, Row, Statuses, Active, Null
  <2> DEFINE seen == [o \in Orders |-> IF o \in S THEN order[o] ELSE NewRow]
             bal == IF s \in Web THEN repaid ELSE 0
  <2>3. seen \in [Orders -> Row] /\ bal \in Nat
    BY <2>1, <2>2
  <2>4. \A o \in Orders : seen[o] = order[o] \/ seen[o] = NewRow
    OBVIOUS
  <2>5. ses' = [ses EXCEPT ![s] = [NoSes EXCEPT !.pc = "open", !.left = S,
                     !.seen = seen, !.bal = bal]]
    BY <1>2
  <2> HIDE DEF seen, bal
  <2> QED BY <2>3, <2>4, <2>5
<1> DEFINE rec == [NoSes EXCEPT !.pc = "open", !.left = S, !.seen = seen, !.bal = bal]
<1>4. /\ rec \in SesType /\ rec.pc = "open" /\ rec.at = 0 /\ rec.held = {}
      /\ rec.seen = seen /\ rec.ans = NoSes.ans /\ rec.due = NoSes.due
  BY NoSesFields DEF NoSes, SesType
<1>5. ses' = [ses EXCEPT ![s] = rec]
  BY <1>3
<1> HIDE DEF rec
<1>6. \A o \in Orders : /\ seen[o].refunded => order[o].refunded
                        /\ NoSes.ans[o].status \notin Terminal /\ NoSes.due[o] = 0
  BY <1>3, NoSesFields, EmptyFields
<1>7. \A o \in Orders : NoSes.ans[o].status # "Canceled"
  BY <1>6 DEF Terminal
<1>8. UNCHANGED <<order, credits, repaid, panel>> /\ aborts' \in 0..MaxAborts
  BY <1>1 DEF BeginRefresh, written, RefundTypeOK
<1>9. Refunding(rec) /\ \A o \in Orders : Knows(rec, o)
  BY <1>4, <1>6, <1>7 DEF Refunding, Knows
<1> QED BY <1>4, <1>5, <1>8, <1>9, SessionSteps

LEMMA OneMore ==
  ASSUME RefundInv, NEW s \in Sessions
  PROVE  /\ RefundTypeOK /\ Refunding(ses[s]) /\ \A o \in Orders : Knows(ses[s], o)
         /\ \A q \in Sessions \ {s} : ses[s].held \cap ses[q].held = {}
         /\ aborts \in 0..MaxAborts
<1>1. \A q \in Sessions \ {s} : ses[s].held \cap ses[q].held = {}
  <2> SUFFICES ASSUME NEW q \in Sessions \ {s}, NEW o, o \in ses[s].held, o \in ses[q].held
               PROVE  FALSE
    OBVIOUS
  <2>1. o \in Orders
    BY SesFields DEF RefundInv
  <2> QED BY <2>1 DEF RefundInv, HeldByOne, HasRow
<1> QED BY <1>1 DEF RefundInv, RefundTypeOK

LEMMA AskKeeps ==
  ASSUME RefundInv, NEW s \in Sessions, NEW o \in Orders, Ask(s, o)
  PROVE  RefundInv'
<1>1. /\ RefundTypeOK /\ Refunding(ses[s]) /\ \A p \in Orders : Knows(ses[s], p)
      /\ \A q \in Sessions \ {s} : ses[s].held \cap ses[q].held = {}
      /\ aborts \in 0..MaxAborts
  BY OneMore
<1>2. /\ ses[s].pc = "open" /\ o \in ses[s].left /\ ses[s].ans[o] = NoView
      /\ UNCHANGED <<order, credits, repaid, panel, aborts>>
  BY DEF Ask, written
<1>3. PICK rem \in Remains \cup {Null} :
        ses' = [ses EXCEPT ![s].ans[o] = [panel[o] EXCEPT !.remains = rem]]
  <2>1. panel[o].remains \in Remains \cup {Null}
    BY <1>1 DEF RefundTypeOK, View
  <2> QED BY <2>1 DEF Ask
<1> DEFINE v == [panel[o] EXCEPT !.remains = rem]
           rec == [ses[s] EXCEPT !.ans = [ses[s].ans EXCEPT ![o] = v]]
<1>4. v \in View /\ v.status = panel[o].status
  BY <1>1 DEF RefundTypeOK, View
<1>5. ses' = [ses EXCEPT ![s] = rec]
  <2>1. ses \in [Sessions -> SesType] /\ ses[s] \in SesType
    BY <1>1 DEF RefundTypeOK
  <2> QED BY <1>3, <2>1 DEF SesType
<1> HIDE DEF v
<1>6. ses[s] \in SesType /\ ses[s].ans \in [Orders -> View \cup {NoView}]
      /\ ses[s].due \in [Orders -> 0..Price]
  BY <1>1, SesFields
<1>7. /\ rec \in SesType /\ rec.pc = "open" /\ rec.at = ses[s].at /\ rec.held = ses[s].held
      /\ rec.left = ses[s].left /\ rec.seen = ses[s].seen /\ rec.due = ses[s].due
      /\ rec.ans[o] = v /\ \A p \in Orders : p # o => rec.ans[p] = ses[s].ans[p]
  BY <1>2, <1>4, <1>6 DEF SesType
<1> HIDE DEF rec
<1>8. ses[s].at = 0
  BY <1>1, <1>2 DEF Refunding
<1>9. Refunding(rec)
  BY <1>7, <1>8 DEF Refunding
<1>10. ASSUME NEW p \in Orders, p # o PROVE Knows(rec, p)
  BY <1>1, <1>7, <1>10 DEF Knows
<1>11. ~(ses[s].due[o] > 0)
  BY <1>1, <1>2 DEF Knows, NoView, Due
<1>12. Knows(rec, o)
  BY <1>1, <1>2, <1>4, <1>7, <1>11 DEF Knows
<1> QED BY <1>1, <1>2, <1>5, <1>7, <1>9, <1>10, <1>12, SessionSteps

LEMMA AfterType ==
  ASSUME NEW s, NEW left
  PROVE  After(s, left) \in {"flush", "open"}
BY DEF After

LEMMA AskFailsKeeps ==
  ASSUME RefundInv, NEW s \in Sessions, NEW o \in Orders, AskFails(s, o)
  PROVE  RefundInv'
<1>1. /\ RefundTypeOK /\ Refunding(ses[s]) /\ \A p \in Orders : Knows(ses[s], p)
      /\ \A q \in Sessions \ {s} : ses[s].held \cap ses[q].held = {}
      /\ aborts \in 0..MaxAborts
  BY OneMore
<1>2. /\ ses[s].pc = "open" /\ o \in ses[s].left /\ ses[s].ans[o] = NoView
      /\ UNCHANGED <<order, credits, repaid, panel, aborts>>
  BY DEF AskFails, written
<1>3. PICK pc \in {"flush", "open"} :
        ses' = [ses EXCEPT ![s] = [ses[s] EXCEPT !.left = ses[s].left \ {o}, !.pc = pc]]
  BY AfterType DEF AskFails
<1> DEFINE rec == [ses[s] EXCEPT !.left = ses[s].left \ {o}, !.pc = pc]
<1>4. ses[s] \in SesType
  BY <1>1, SesFields
<1>5. /\ rec \in SesType /\ rec.pc = pc /\ rec.at = ses[s].at /\ rec.held = ses[s].held
      /\ rec.left = ses[s].left \ {o} /\ rec.seen = ses[s].seen /\ rec.due = ses[s].due
      /\ rec.ans = ses[s].ans
  BY <1>4 DEF SesType
<1>6. ses' = [ses EXCEPT ![s] = rec]
  BY <1>3
<1> HIDE DEF rec
<1>7. Refunding(rec)
  BY <1>1, <1>2, <1>5 DEF Refunding
<1>8. ASSUME NEW p \in Orders PROVE Knows(rec, p)
  <2>1. NoView.status # "Canceled"
    BY DEF NoView
  <2> QED BY <1>1, <1>2, <1>5, <2>1 DEF Knows
<1> QED BY <1>1, <1>2, <1>5, <1>6, <1>7, <1>8, SessionSteps

LEMMA ApplyKeeps ==
  ASSUME RefundInv, NEW s \in Sessions, NEW o \in Orders, Apply(s, o)
  PROVE  RefundInv'
<1>1. /\ RefundTypeOK /\ Refunding(ses[s]) /\ \A p \in Orders : Knows(ses[s], p)
      /\ \A q \in Sessions \ {s} : ses[s].held \cap ses[q].held = {}
      /\ aborts \in 0..MaxAborts
  BY OneMore
<1>2. /\ ses[s].pc = "open" /\ o \in ses[s].left
      /\ UNCHANGED <<order, credits, repaid, panel, aborts>>
  BY DEF Apply, written
<1>3. PICK pc \in {"lockOrder", "flush", "open"}, at \in {o, 0} :
        /\ ses' = [ses EXCEPT ![s] = [ses[s] EXCEPT !.left = ses[s].left \ {o},
                     !.pc = pc, !.at = at]]
        /\ Eligible(s, o) => pc = "lockOrder" /\ at = o
        /\ ~Eligible(s, o) => pc # "lockOrder" /\ at = 0
  <2>1. CASE Eligible(s, o)
    <3>1. ses' = [ses EXCEPT ![s] = [ses[s] EXCEPT !.left = ses[s].left \ {o},
                   !.pc = "lockOrder", !.at = o]]
      BY <2>1 DEF Apply
    <3> QED BY <2>1, <3>1
  <2>2. CASE ~Eligible(s, o)
    <3>1. ses' = [ses EXCEPT ![s] = [ses[s] EXCEPT !.left = ses[s].left \ {o},
                   !.pc = After(s, ses[s].left \ {o}), !.at = 0]]
      BY <2>2 DEF Apply
    <3> QED BY <2>2, <3>1, AfterType
  <2> QED BY <2>1, <2>2
<1> DEFINE rec == [ses[s] EXCEPT !.left = ses[s].left \ {o}, !.pc = pc, !.at = at]
<1>4. ses[s] \in SesType
  BY <1>1, SesFields
<1>5. /\ rec \in SesType /\ rec.pc = pc /\ rec.at = at /\ rec.held = ses[s].held
      /\ rec.left = ses[s].left \ {o} /\ rec.seen = ses[s].seen /\ rec.due = ses[s].due
      /\ rec.ans = ses[s].ans
  BY <1>4 DEF SesType
<1>6. ses' = [ses EXCEPT ![s] = rec]
  BY <1>3
<1> HIDE DEF rec
<1>7. ses[s].at = 0 /\ o # 0
  BY <1>1, <1>2, Constants DEF Refunding
<1>8. Refunding(rec)
  <2>1. Eligible(s, o) => ses[s].ans[o].status \in Due
    BY DEF Eligible, Due
  <2>2. CASE Eligible(s, o)
    BY <1>3, <1>5, <1>7, <2>1, <2>2 DEF Refunding
  <2>3. CASE ~Eligible(s, o)
    BY <1>3, <1>5, <2>3 DEF Refunding
  <2> QED BY <2>2, <2>3
<1>9. ASSUME NEW p \in Orders, p # o PROVE Knows(rec, p)
  BY <1>1, <1>3, <1>5, <1>7, <1>9, Constants DEF Knows
<1>10. ses[s].ans[o].status = "Canceled" /\ at # o => order[o].refunded
  BY <1>1, <1>3 DEF Knows, Eligible
<1>11. Knows(rec, o)
  BY <1>1, <1>5, <1>10 DEF Knows
<1> QED BY <1>1, <1>2, <1>5, <1>6, <1>8, <1>9, <1>11, SessionSteps

LEMMA FlushedKeeps ==
  ASSUME RefundInv, NEW s \in Sessions, Flushed(s)
  PROVE  RefundInv'
<1>1. /\ RefundTypeOK /\ Refunding(ses[s]) /\ \A p \in Orders : Knows(ses[s], p)
      /\ \A q \in Sessions \ {s} : ses[s].held \cap ses[q].held = {}
      /\ aborts \in 0..MaxAborts
  BY OneMore
<1>2. ses[s].pc = "flush" /\ UNCHANGED <<order, credits, repaid, panel, aborts>>
  BY DEF Flushed, written
<1> DEFINE rec == [ses[s] EXCEPT !.pc = "open"]
<1>3. ses[s] \in SesType
  BY <1>1, SesFields
<1>4. /\ rec \in SesType /\ rec.pc = "open" /\ rec.at = ses[s].at /\ rec.held = ses[s].held
      /\ rec.left = ses[s].left /\ rec.seen = ses[s].seen /\ rec.due = ses[s].due
      /\ rec.ans = ses[s].ans
  BY <1>3 DEF SesType
<1>5. ses' = [ses EXCEPT ![s] = rec]
  BY DEF Flushed
<1> HIDE DEF rec
<1>6. Refunding(rec)
  BY <1>1, <1>2, <1>4 DEF Refunding
<1>7. \A p \in Orders : Knows(rec, p)
  BY <1>1, <1>4 DEF Knows
<1> QED BY <1>1, <1>2, <1>4, <1>5, <1>6, <1>7, SessionSteps

-----------------------------------------------------------------------------
(* Locking rows *)

LEMMA LeastNat ==
  ASSUME NEW T, T \subseteq Nat, T # {}
  PROVE  \E m \in T : \A n \in T : m <= n
<1>1. PICK m \in T : \A n \in T : <<n, m>> \notin OpToRel(<, Nat)
  BY WFMin, NatLessThanWellFounded
<1>2. \A n \in T : ~(n < m)
  BY <1>1 DEF OpToRel
<1> QED BY <1>2

(* A session with rows to flush wants one of them; one that wants no row  *)
(* has the row of the order it refunds.                                    *)
LEMMA NextRows ==
  ASSUME RefundTypeOK, NEW s \in Sessions
  PROVE  /\ ToFlush(s) # {} => \E o \in ToFlush(s) : NextRow(s) = {o}
         /\ NextRow(s) \subseteq Orders \cup {ses[s].at}
         /\ ses[s].pc = "lockOrder" /\ NextRow(s) = {} => ses[s].at \in ses[s].held
<1>1. ToFlush(s) \subseteq Orders /\ ToFlush(s) \subseteq Nat
  BY Constants DEF ToFlush, Dirty, Applied
<1>2. ASSUME ToFlush(s) # {} PROVE \E o \in ToFlush(s) : NextRow(s) = {o}
  <2>1. \E o \in ToFlush(s) : \A p \in ToFlush(s) : o <= p
    BY <1>1, <1>2, LeastNat
  <2>2. (CHOOSE o \in ToFlush(s) : \A p \in ToFlush(s) : o <= p) \in ToFlush(s)
    BY <2>1
  <2>3. NextRow(s) = {CHOOSE o \in ToFlush(s) : \A p \in ToFlush(s) : o <= p}
    BY <1>2 DEF NextRow
  <2> QED BY <2>2, <2>3
<1>3. NextRow(s) \subseteq Orders \cup {ses[s].at}
  <2>1. CASE ToFlush(s) # {}
    BY <1>1, <1>2, <2>1
  <2>2. CASE ToFlush(s) = {}
    BY <2>2 DEF NextRow
  <2> QED BY <2>1, <2>2
<1>4. NextRow(s) = {} => ToFlush(s) = {}
  BY <1>2
<1>5. ASSUME ses[s].pc = "lockOrder", NextRow(s) = {} PROVE ses[s].at \in ses[s].held
  <2>1. NextRow(s) = {ses[s].at} \ ses[s].held
    BY <1>4, <1>5 DEF NextRow
  <2> QED BY <1>5, <2>1
<1> QED BY <1>2, <1>3, <1>5

LEMMA LockRowKeeps ==
  ASSUME RefundInv, NEW s \in Sessions, LockRow(s)
  PROVE  RefundInv'
<1>1. /\ RefundTypeOK /\ Refunding(ses[s]) /\ \A p \in Orders : Knows(ses[s], p)
      /\ \A q \in Sessions \ {s} : ses[s].held \cap ses[q].held = {}
      /\ aborts \in 0..MaxAborts
  BY OneMore
<1>2. UNCHANGED <<order, credits, repaid, panel, aborts>>
  BY DEF LockRow, written
<1>3. PICK o \in NextRow(s) :
        /\ \A q \in Sessions \ {s} : o \notin ses[q].held
        /\ ses' = [ses EXCEPT ![s].held = ses[s].held \cup {o}]
  BY DEF LockRow, HasRow
<1>4. ses[s] \in SesType /\ ses[s].held \subseteq Orders /\ ses[s].at \in Orders \cup {0}
  BY <1>1, SesFields
<1>5. o \in Orders
  <2>1. CASE ToFlush(s) # {}
    <3>1. ToFlush(s) \subseteq Orders
      BY DEF ToFlush, Dirty, Applied
    <3> QED BY <1>1, <1>3, <2>1, <3>1, NextRows
  <2>2. CASE ToFlush(s) = {}
    <3>1. ses[s].pc = "lockOrder" /\ o = ses[s].at
      BY <1>3, <2>2 DEF NextRow
    <3> QED BY <1>1, <1>4, <3>1 DEF Refunding
  <2> QED BY <2>1, <2>2
<1> DEFINE rec == [ses[s] EXCEPT !.held = ses[s].held \cup {o}]
<1>6. /\ rec \in SesType /\ rec.pc = ses[s].pc /\ rec.at = ses[s].at
      /\ rec.held = ses[s].held \cup {o}
      /\ rec.left = ses[s].left /\ rec.seen = ses[s].seen /\ rec.due = ses[s].due
      /\ rec.ans = ses[s].ans
  BY <1>4, <1>5 DEF SesType
<1>7. ses' = [ses EXCEPT ![s] = rec]
  BY <1>3
<1> HIDE DEF rec
<1>8. Refunding(rec)
  BY <1>1, <1>6 DEF Refunding
<1>9. \A p \in Orders : Knows(rec, p)
  BY <1>1, <1>6 DEF Knows
<1>10. \A q \in Sessions \ {s} : rec.held \cap ses[q].held = {}
  BY <1>1, <1>3, <1>6
<1> QED BY <1>1, <1>2, <1>6, <1>7, <1>8, <1>9, <1>10, SessionSteps

(* An order that is passed over has been refunded or has nothing to give  *)
(* back, and then it is not canceled.                                      *)
LEMMA ReadOrderKeeps ==
  ASSUME RefundInv, NEW s \in Sessions, ReadOrder(s)
  PROVE  RefundInv'
<1>1. /\ RefundTypeOK /\ Refunding(ses[s]) /\ \A p \in Orders : Knows(ses[s], p)
      /\ \A q \in Sessions \ {s} : ses[s].held \cap ses[q].held = {}
      /\ aborts \in 0..MaxAborts
  BY OneMore
<1>2. /\ ses[s].pc = "lockOrder" /\ NextRow(s) = {}
      /\ UNCHANGED <<order, credits, repaid, panel, aborts>>
  BY DEF ReadOrder, written
<1>3. ses[s] \in SesType /\ ses[s].at \in Orders /\ ses[s].at # 0
  BY <1>1, <1>2, SesFields, Constants DEF Refunding
<1>4. ses[s].at \in ses[s].held
  BY <1>1, <1>2, NextRows
<1> DEFINE none == order[ses[s].at].refunded \/ DueNow(s) = 0
<1>5. PICK pc \in {"lockUser", "flush", "open"}, at \in {ses[s].at, 0} :
        /\ ses' = [ses EXCEPT ![s] = [ses[s] EXCEPT !.pc = pc, !.at = at]]
        /\ none => pc # "lockUser" /\ at = 0
        /\ ~none => pc = "lockUser" /\ at = ses[s].at
  <2>1. CASE none
    <3>1. ses' = [ses EXCEPT ![s] = [ses[s] EXCEPT !.pc = After(s, ses[s].left), !.at = 0]]
      BY <2>1 DEF ReadOrder, RefundedNow
    <3> QED BY <2>1, <3>1, AfterType
  <2>2. CASE ~none
    <3>1. ses' = [ses EXCEPT ![s] = [ses[s] EXCEPT !.pc = "lockUser", !.at = ses[s].at]]
      BY <2>2 DEF ReadOrder, RefundedNow
    <3> QED BY <2>2, <3>1
  <2> QED BY <2>1, <2>2
<1> DEFINE rec == [ses[s] EXCEPT !.pc = pc, !.at = at]
<1>6. /\ rec \in SesType /\ rec.pc = pc /\ rec.at = at /\ rec.held = ses[s].held
      /\ rec.left = ses[s].left /\ rec.seen = ses[s].seen /\ rec.due = ses[s].due
      /\ rec.ans = ses[s].ans
  BY <1>3 DEF SesType
<1>7. ses' = [ses EXCEPT ![s] = rec]
  BY <1>5
<1> HIDE DEF rec
<1>8. ses[s].ans[ses[s].at].status = "Canceled" => DueNow(s) # 0
  BY <1>1, <1>3, DueNowType, Constants
<1>9. CASE none
  <2>1. Refunding(rec)
    BY <1>5, <1>6, <1>9 DEF Refunding
  <2>2. ASSUME NEW p \in Orders, p # ses[s].at PROVE Knows(rec, p)
    BY <1>1, <1>6, <2>2 DEF Knows
  <2>3. Knows(rec, ses[s].at)
    BY <1>1, <1>3, <1>6, <1>8, <1>9 DEF Knows
  <2> QED BY <1>1, <1>2, <1>6, <1>7, <2>1, <2>2, <2>3, SessionSteps
<1>10. CASE ~none
  <2>1. Refunding(rec)
    BY <1>1, <1>2, <1>3, <1>4, <1>5, <1>6, <1>10 DEF Refunding
  <2>2. \A p \in Orders : Knows(rec, p)
    BY <1>1, <1>5, <1>6, <1>10 DEF Knows
  <2> QED BY <1>1, <1>2, <1>6, <1>7, <2>1, <2>2, SessionSteps
<1> QED BY <1>9, <1>10

LEMMA CreditUserKeeps ==
  ASSUME RefundInv, NEW s \in Sessions, CreditUser(s)
  PROVE  RefundInv'
<1>1. /\ RefundTypeOK /\ Refunding(ses[s]) /\ \A p \in Orders : Knows(ses[s], p)
      /\ \A q \in Sessions \ {s} : ses[s].held \cap ses[q].held = {}
      /\ aborts \in 0..MaxAborts
  BY OneMore
<1>2. ses[s].pc = "lockUser" /\ UNCHANGED <<order, credits, repaid, panel, aborts>>
  BY DEF CreditUser, written
<1>3. /\ ses[s] \in SesType /\ ses[s].at \in Orders /\ ses[s].at # 0
      /\ ses[s].bal \in Nat /\ ses[s].due \in [Orders -> 0..Price]
  BY <1>1, <1>2, SesFields, Constants DEF Refunding
<1>4. PICK o \in Orders : o = ses[s].at
  BY <1>3
<1>5. /\ o \in ses[s].held /\ ~order[o].refunded /\ ses[s].ans[o].status \in Due
      /\ o \notin ses[s].left
  BY <1>1, <1>2, <1>3, <1>4 DEF Refunding
<1>6. /\ DueNow(s) \in 0..Price
      /\ ses[s].ans[o].status = "Canceled" => DueNow(s) = Price
  BY <1>1, <1>3, <1>4, DueNowType
<1>7. LoadedBalance(s) + DueNow(s) \in Nat
  <2>1. LoadedBalance(s) \in Nat
    BY <1>1, <1>3 DEF LoadedBalance, RefundTypeOK
  <2> QED BY <1>6, <2>1, Constants
<1>8. PICK pc \in {"flush", "open"}, bal \in Nat, due \in [Orders -> 0..Price] :
        /\ ses' = [ses EXCEPT ![s] = [ses[s] EXCEPT !.pc = pc, !.at = 0, !.user = TRUE,
                     !.bal = bal, !.due = due]]
        /\ due[o] = DueNow(s) /\ \A p \in Orders : p # o => due[p] = ses[s].due[p]
  <2> DEFINE due == [ses[s].due EXCEPT ![o] = DueNow(s)]
  <2>1. /\ due \in [Orders -> 0..Price] /\ due[o] = DueNow(s)
        /\ \A p \in Orders : p # o => due[p] = ses[s].due[p]
    BY <1>3, <1>6
  <2>2. ses' = [ses EXCEPT ![s] = [ses[s] EXCEPT !.pc = After(s, ses[s].left), !.at = 0,
                  !.user = TRUE, !.bal = LoadedBalance(s) + DueNow(s), !.due = due]]
    BY <1>4 DEF CreditUser
  <2> HIDE DEF due
  <2>3. PICK pc \in {"flush", "open"} : pc = After(s, ses[s].left)
    BY AfterType
  <2>4. PICK bal \in Nat : bal = LoadedBalance(s) + DueNow(s)
    BY <1>7
  <2>5. ses' = [ses EXCEPT ![s] = [ses[s] EXCEPT !.pc = pc, !.at = 0, !.user = TRUE,
                  !.bal = bal, !.due = due]]
    BY <2>2, <2>3, <2>4
  <2> QED BY <2>1, <2>5
<1> DEFINE rec == [ses[s] EXCEPT !.pc = pc, !.at = 0, !.user = TRUE, !.bal = bal, !.due = due]
<1>9. /\ rec \in SesType /\ rec.pc = pc /\ rec.at = 0 /\ rec.held = ses[s].held
      /\ rec.left = ses[s].left /\ rec.seen = ses[s].seen /\ rec.due = due
      /\ rec.ans = ses[s].ans
  BY <1>3 DEF SesType
<1>10. ses' = [ses EXCEPT ![s] = rec]
  BY <1>8
<1> HIDE DEF rec
<1>11. Refunding(rec)
  BY <1>9 DEF Refunding
<1>12. ASSUME NEW p \in Orders, p # o PROVE Knows(rec, p)
  BY <1>1, <1>4, <1>8, <1>9, <1>12 DEF Knows
<1>13. Knows(rec, o)
  BY <1>1, <1>5, <1>6, <1>8, <1>9 DEF Knows
<1> QED BY <1>1, <1>2, <1>9, <1>10, <1>11, <1>12, <1>13, SessionSteps

-----------------------------------------------------------------------------
(* The rows are written. *)

(* What a commit does to a row: a credit marks it refunded, and a status   *)
(* is either the one on record or the one the session was told.            *)
LEMMA WrittenIs ==
  ASSUME RefundInv, NEW s \in Sessions, NEW o \in Orders, ses[s].left = {}
  PROVE  /\ Written(s, o).refunded = (order[o].refunded \/ ses[s].due[o] > 0)
         /\ ses[s].due[o] > 0 => Written(s, o).amount = ses[s].due[o]
         /\ ~(ses[s].due[o] > 0) => Written(s, o).amount = order[o].amount
         /\ Written(s, o).status \in {order[o].status, ses[s].ans[o].status}
<1>1. order[o].refunded \in BOOLEAN
  BY RowFields DEF RefundInv, RefundTypeOK
<1>2. CASE o \in Applied(s)
  BY <1>1, <1>2 DEF Written
<1>3. CASE o \notin Applied(s)
  <2>1. ses[s].ans[o] = NoView
    BY <1>3 DEF Applied
  <2>2. ~(ses[s].due[o] > 0)
    BY <2>1 DEF RefundInv, Knows, NoView, Due
  <2> QED BY <1>1, <1>3, <2>2 DEF Written
<1> QED BY <1>2, <1>3

LEMMA CommitKeeps ==
  ASSUME RefundInv, NEW s \in Sessions, Commit(s)
  PROVE  RefundInv'
<1>1. /\ RefundTypeOK /\ Refunding(ses[s]) /\ \A o \in Orders : Knows(ses[s], o) /\ Booked(o)
      /\ \A q \in Sessions \ {s} : ses[s].held \cap ses[q].held = {}
  BY OneMore DEF RefundInv
<1>2. /\ ses[s].pc = "flush" /\ ses[s].left = {} /\ UNCHANGED <<panel, aborts>>
      /\ order' = [o \in Orders |-> Written(s, o)]
      /\ credits' = [o \in Orders |-> IF ses[s].due[o] > 0 THEN credits[o] + 1 ELSE credits[o]]
      /\ repaid' = IF ses[s].user THEN ses[s].bal ELSE repaid
      /\ ses' = [ses EXCEPT ![s] = NoSes]
  BY DEF Commit
<1>3. ses[s].at = 0
  BY <1>1, <1>2 DEF Refunding
<1>4. \A o \in Orders :
        /\ order'[o].refunded = (order[o].refunded \/ ses[s].due[o] > 0)
        /\ ses[s].due[o] > 0 => order'[o].amount = ses[s].due[o]
        /\ ~(ses[s].due[o] > 0) => order'[o].amount = order[o].amount
        /\ order'[o].status \in {order[o].status, ses[s].ans[o].status}
  BY <1>2, WrittenIs
<1>5. /\ ses' \in [Sessions -> SesType] /\ ses'[s] = NoSes
      /\ \A q \in Sessions \ {s} : ses'[q] = ses[q]
  BY <1>1, <1>2, NoSesFields DEF RefundTypeOK
<1>6. RefundTypeOK'
  <2>1. order' \in [Orders -> Row]
    BY <1>1, <1>2, WrittenFields
  <2>2. credits' \in [Orders -> Nat]
    BY <1>1, <1>2 DEF RefundTypeOK
  <2>3. repaid' \in Nat
    BY <1>1, <1>2, SesFields DEF RefundTypeOK
  <2> QED BY <1>1, <1>2, <1>5, <2>1, <2>2, <2>3 DEF RefundTypeOK
<1>7. ASSUME NEW o \in Orders PROVE Booked(o)'
  <2>1. /\ Booked(o) /\ Knows(ses[s], o) /\ credits[o] \in Nat /\ o # 0
        /\ order[o].refunded \in BOOLEAN /\ panel'[o] = panel[o]
        /\ credits'[o] = IF ses[s].due[o] > 0 THEN credits[o] + 1 ELSE credits[o]
    BY <1>1, <1>2, RowFields, Constants DEF RefundTypeOK
  <2>2. CASE ses[s].due[o] > 0
    <3>1. /\ ~order[o].refunded /\ ses[s].ans[o].status \in Due
          /\ ses[s].ans[o].status = "Canceled" => ses[s].due[o] = Price
          /\ panel[o].status = ses[s].ans[o].status
      BY <2>1, <2>2 DEF Knows, Due, Terminal
    <3>2. order'[o].refunded /\ order'[o].amount = ses[s].due[o] /\ credits'[o] = 1
      <4>1. credits[o] = 0
        BY <2>1, <3>1 DEF Booked
      <4>2. credits'[o] = 1
        BY <2>1, <2>2, <4>1
      <4>3. order'[o].amount = ses[s].due[o]
        BY <1>4, <2>2
      <4>4. order'[o].refunded = TRUE
        BY <1>4, <2>2
      <4> QED BY <4>2, <4>3, <4>4
    <3>3. order'[o].status = "Canceled" => order'[o].amount = Price
      BY <1>4, <2>1, <3>1, <3>2 DEF Booked
    <3> QED BY <2>1, <3>1, <3>2, <3>3 DEF Booked
  <2>3. CASE ~(ses[s].due[o] > 0)
    <3>1. /\ order'[o].refunded = order[o].refunded /\ order'[o].amount = order[o].amount
          /\ credits'[o] = credits[o]
      BY <1>4, <2>1, <2>3
    <3>2. ses[s].due[o] # Price
      BY <2>3, Constants
    <3>3. ses[s].ans[o].status = "Canceled" =>
            /\ order[o].refunded /\ panel[o].status = "Canceled"
      BY <1>2, <1>3, <2>1, <3>2 DEF Knows, Terminal
    <3>4. order'[o].status = "Canceled" => order[o].refunded /\ order[o].amount = Price
      BY <1>4, <2>1, <3>3 DEF Booked
    <3> QED BY <2>1, <3>1, <3>4 DEF Booked
  <2> QED BY <2>2, <2>3
<1>8. ASSUME NEW q \in Sessions PROVE Refunding(ses[q])' /\ \A o \in Orders : Knows(ses[q], o)'
  <2>1. CASE q = s
    <3>1. /\ ses'[q] = NoSes /\ \A o \in Orders :
               ~NoSes.seen[o].refunded /\ NoSes.ans[o].status \notin Terminal /\ NoSes.due[o] = 0
      BY <1>5, <2>1, NoSesFields, EmptyFields
    <3>2. \A o \in Orders : NoSes.ans[o].status # "Canceled"
      BY <3>1 DEF Terminal
    <3>3. Refunding(ses[q])'
      BY <3>1, NoSesFields DEF Refunding
    <3>4. \A o \in Orders : Knows(ses[q], o)'
      BY <3>1, <3>2 DEF Knows
    <3> QED BY <3>3, <3>4
  <2>2. CASE q # s
    <3>1. /\ ses'[q] = ses[q] /\ panel' = panel /\ Refunding(ses[q])
          /\ \A o \in Orders : Knows(ses[q], o)
      BY <1>2, <1>5, <2>2 DEF RefundInv
    <3>2. \A o \in Orders : order[o].refunded => order'[o].refunded
      BY <1>4
    <3>3. \A o \in Orders : o \in ses[q].held => (order'[o].refunded <=> order[o].refunded)
      <4> SUFFICES ASSUME NEW o \in Orders, o \in ses[q].held
                   PROVE  order'[o].refunded <=> order[o].refunded
        OBVIOUS
      <4>1. o \notin ses[s].held
        BY <1>1, <2>2
      <4>2. ~(ses[s].due[o] > 0)
        BY <1>1, <4>1 DEF Knows
      <4> QED BY <1>4, <4>2
    <3>4. ses[q].at \in Orders \cup {0} /\ ses[q].held \subseteq Orders
      BY <1>1, SesFields
    <3>5. Refunding(ses[q])'
      BY <3>1, <3>3, <3>4 DEF Refunding
    <3>6. \A o \in Orders : Knows(ses[q], o)'
      BY <3>1, <3>2, <3>3 DEF Knows
    <3> QED BY <3>5, <3>6
  <2> QED BY <2>1, <2>2
<1>9. HeldByOne'
  <2> SUFFICES ASSUME NEW p \in Sessions, NEW q \in Sessions, NEW o \in Orders,
                      o \in ses'[p].held, o \in ses'[q].held
               PROVE  p = q
    BY DEF HeldByOne, HasRow
  <2>1. p # s /\ q # s
    BY <1>5, NoSesFields
  <2> QED BY <1>5, <2>1 DEF RefundInv, HeldByOne, HasRow
<1> QED BY <1>6, <1>7, <1>8, <1>9 DEF RefundInv

(* What is final at the provider stays so, and only that is refunded. *)
LEMMA PanelMovesKeeps ==
  ASSUME RefundInv, NEW o \in Orders, PanelMoves(o)
  PROVE  RefundInv'
<1>1. RefundTypeOK /\ panel[o].status \in Active
      /\ UNCHANGED <<order, credits, repaid, ses, aborts>>
  BY DEF RefundInv, PanelMoves, written
<1>2. PICK v \in [status : Outcomes, remains : 0..panel[o].remains] :
        panel' = [panel EXCEPT ![o] = v]
  BY DEF PanelMoves
<1>3. v \in View
  <2>1. panel[o].remains \in Remains \cup {Null}
    BY <1>1 DEF RefundTypeOK, View
  <2>2. 0..panel[o].remains \subseteq Remains
    BY <2>1, Constants DEF Remains, Null
  <2> QED BY <2>2, Constants DEF View
<1>4. RefundTypeOK'
  BY <1>1, <1>2, <1>3 DEF RefundTypeOK
<1>5. \A p \in Orders : p # o => panel'[p] = panel[p]
  BY <1>1, <1>2 DEF RefundTypeOK
<1>6. ~order[o].refunded /\ \A s \in Sessions : ses[s].ans[o].status \notin Terminal
  BY <1>1 DEF RefundInv, Booked, Knows, Due, Terminal, Active
<1>7. ASSUME NEW p \in Orders PROVE Booked(p)'
  <2>1. Booked(p) /\ order' = order /\ credits' = credits
    BY <1>1 DEF RefundInv
  <2> QED BY <1>5, <1>6, <2>1 DEF Booked
<1>8. ASSUME NEW s \in Sessions PROVE Refunding(ses[s])' /\ \A p \in Orders : Knows(ses[s], p)'
  <2>1. /\ ses' = ses /\ order' = order /\ Refunding(ses[s])
        /\ \A p \in Orders : Knows(ses[s], p)
    BY <1>1 DEF RefundInv
  <2>2. Refunding(ses[s])'
    BY <2>1 DEF Refunding
  <2>3. ASSUME NEW p \in Orders PROVE Knows(ses[s], p)'
    BY <1>5, <1>6, <2>1 DEF Knows
  <2> QED BY <2>2, <2>3
<1>9. HeldByOne'
  BY <1>1 DEF RefundInv, HeldByOne, HasRow
<1> QED BY <1>4, <1>7, <1>8, <1>9 DEF RefundInv

-----------------------------------------------------------------------------

LEMMA RefundInitHolds == RefundInit => RefundInv
<1> SUFFICES ASSUME RefundInit PROVE RefundInv
  OBVIOUS
<1>1. /\ \A o \in Orders : /\ order[o] = NewRow /\ credits[o] = 0
                           /\ panel[o] = [status |-> "Pending", remains |-> Quantity]
      /\ \A s \in Sessions : ses[s] = NoSes
  BY DEF RefundInit
<1>2. RefundTypeOK
  <2>1. NewRow \in Row
    BY Constants DEF NewRow, Row, Statuses, Active, Null
  <2>2. [status |-> "Pending", remains |-> Quantity] \in View
    BY Constants DEF View, Remains, Statuses, Active
  <2> QED BY <2>1, <2>2, NoSesFields, Constants DEF RefundInit, RefundTypeOK
<1>3. \A o \in Orders : Booked(o)
  BY <1>1 DEF Booked, NewRow
<1>4. \A o \in Orders : /\ ~NoSes.seen[o].refunded /\ NoSes.ans[o].status \notin Terminal
                       /\ NoSes.due[o] = 0
  BY NoSesFields, EmptyFields
<1>5. \A o \in Orders : NoSes.ans[o].status # "Canceled"
  BY <1>4 DEF Terminal
<1>6. Refunding(NoSes) /\ \A o \in Orders : Knows(NoSes, o)
  BY <1>4, <1>5, NoSesFields DEF Refunding, Knows
<1>7. HeldByOne
  BY <1>1, NoSesFields DEF HeldByOne, HasRow
<1> QED BY <1>1, <1>2, <1>3, <1>6, <1>7 DEF RefundInv

LEMMA RefundNextKeeps == RefundInv /\ [RefundNext]_refundVars => RefundInv'
<1> SUFFICES ASSUME RefundInv, [RefundNext]_refundVars PROVE RefundInv'
  OBVIOUS
<1>1. ASSUME NEW s \in Sessions, Work(s) PROVE RefundInv'
  BY <1>1, AskKeeps, AskFailsKeeps, ApplyKeeps, LockRowKeeps, ReadOrderKeeps,
    CreditUserKeeps, FlushedKeeps, CommitKeeps, DeadlockVictimKeeps DEF Work
<1>2. CASE UNCHANGED refundVars
  <2>1. /\ order' = order /\ credits' = credits /\ panel' = panel /\ ses' = ses
        /\ repaid' = repaid /\ aborts' = aborts
    BY <1>2 DEF refundVars
  <2>2. RefundTypeOK'
    BY <2>1 DEF RefundInv, RefundTypeOK
  <2>3. \A s \in Sessions : Refunding(ses[s])' /\ \A o \in Orders : Knows(ses[s], o)'
    BY <2>1 DEF RefundInv, Refunding, Knows
  <2>4. \A o \in Orders : Booked(o)'
    BY <2>1 DEF RefundInv, Booked
  <2>5. HeldByOne'
    BY <2>1 DEF RefundInv, HeldByOne, HasRow
  <2> QED BY <2>2, <2>3, <2>4, <2>5 DEF RefundInv
<1> QED BY <1>1, <1>2, PanelMovesKeeps, BeginRefreshKeeps, AbortKeeps DEF RefundNext

(* The invariant that the theorems below need: what every session knows of *)
(* an order is still true when it acts on it.                              *)
THEOREM RefundInductive == RefundSpec => []RefundInv
<1> QED BY RefundInitHolds, RefundNextKeeps, PTL DEF RefundSpec

(* Types; a refund is never more than the price, and no balance becomes    *)
(* negative (process_order_refund_if_eligible).                            *)
THEOREM RefundTypeCorrect == RefundSpec => []RefundTypeOK
<1>1. RefundInv => RefundTypeOK
  BY DEF RefundInv
<1> QED BY <1>1, RefundInductive, PTL

(* No order is credited twice, and is_refunded tells which ones were,      *)
(* for any number of refreshes at the same time                            *)
(* (process_order_refund_if_eligible).                                     *)
THEOREM OneRefundPerOrder == RefundSpec => []RefundedOnce
<1>1. RefundInv => RefundedOnce
  BY DEF RefundInv, Booked, RefundedOnce
<1> QED BY <1>1, RefundInductive, PTL

(* A row that reads Canceled has been paid back in full                    *)
(* (process_order_refund_if_eligible, _apply_order_status_updates).        *)
THEOREM CanceledIsPaidBack == RefundSpec => []CanceledIsRefunded
<1>1. RefundInv => CanceledIsRefunded
  BY DEF RefundInv, Booked, CanceledIsRefunded
<1> QED BY <1>1, RefundInductive, PTL

-----------------------------------------------------------------------------
(* The balance *)

(* An open transaction carries the balance as it stands and its credits,   *)
(* which are for orders it is done with.                                   *)
Carries(s, x) ==
  /\ \A o \in Orders : x.due[o] > 0 => x.user /\ o \notin x.left /\ o # x.at
  /\ s \notin Web /\ x.user => x.bal = repaid + Cardinality(UnitsOf(x.due))

UserByOne == \A s, q \in Sessions : HasUser(s) /\ HasUser(q) => s = q

MInv == /\ \A s \in Sessions : Carries(s, ses[s])
        /\ UserByOne
        /\ \A o \in Orders : order[o].refunded \/ order[o].amount = 0

LEMMA UnitsFinite ==
  ASSUME NEW f
  PROVE  IsFiniteSet(UnitsOf(f)) /\ Cardinality(UnitsOf(f)) \in Nat
<1>1. IsFiniteSet(Orders) /\ IsFiniteSet(1..Price)
  BY OrdersAssumption, Constants, FS_Interval DEF Orders
<1>2. IsFiniteSet(Orders \X (1..Price))
  BY <1>1, FS_Product
<1>3. UnitsOf(f) \subseteq Orders \X (1..Price)
  BY DEF UnitsOf
<1>4. IsFiniteSet(UnitsOf(f))
  BY <1>2, <1>3, FS_Subset
<1> QED BY <1>4, FS_CardinalityType

LEMMA UnitOf ==
  ASSUME NEW f, NEW u
  PROVE  u \in UnitsOf(f) <=> /\ u = <<u[1], u[2]>> /\ u[1] \in Orders /\ u[2] \in 1..Price
                             /\ u[2] <= f[u[1]]
BY DEF UnitsOf

(* Amounts of different orders add up. *)
LEMMA UnitsAdd ==
  ASSUME NEW f, NEW g, NEW h,
         \A o \in Orders : \/ f[o] = 0 /\ h[o] = g[o]
                           \/ g[o] = 0 /\ h[o] = f[o]
  PROVE  Cardinality(UnitsOf(h)) = Cardinality(UnitsOf(f)) + Cardinality(UnitsOf(g))
<1>1. \A n \in 1..Price : ~(n <= 0)
  BY Constants
<1>2. UnitsOf(h) = UnitsOf(f) \cup UnitsOf(g)
  <2> SUFFICES ASSUME NEW u PROVE u \in UnitsOf(h) <=> u \in UnitsOf(f) \/ u \in UnitsOf(g)
    OBVIOUS
  <2>1. CASE u[1] \in Orders /\ f[u[1]] = 0 /\ h[u[1]] = g[u[1]]
    BY <1>1, <2>1, UnitOf
  <2>2. CASE u[1] \in Orders /\ g[u[1]] = 0 /\ h[u[1]] = f[u[1]]
    BY <1>1, <2>2, UnitOf
  <2>3. CASE u[1] \notin Orders
    BY <2>3, UnitOf
  <2> QED BY <2>1, <2>2, <2>3
<1>3. UnitsOf(f) \cap UnitsOf(g) = {}
  <2> SUFFICES ASSUME NEW u, u \in UnitsOf(f), u \in UnitsOf(g) PROVE FALSE
    OBVIOUS
  <2>1. /\ u[1] \in Orders /\ u[2] \in 1..Price
        /\ u[2] <= f[u[1]] /\ u[2] <= g[u[1]]
    BY UnitOf
  <2> QED BY <1>1, <2>1
<1>4. Cardinality(UnitsOf(f) \cap UnitsOf(g)) = 0
  BY <1>3, FS_EmptySet
<1>5. Cardinality(UnitsOf(f) \cup UnitsOf(g))
        = Cardinality(UnitsOf(f)) + Cardinality(UnitsOf(g)) - Cardinality(UnitsOf(f) \cap UnitsOf(g))
  BY UnitsFinite, FS_Union
<1>6. Cardinality(UnitsOf(f)) \in Nat /\ Cardinality(UnitsOf(g)) \in Nat
  BY UnitsFinite
<1> QED BY <1>2, <1>4, <1>5, <1>6

(* The refund of one order. *)
LEMMA UnitsOne ==
  ASSUME NEW f, NEW o \in Orders, NEW n \in 0..Price,
         f[o] = n, \A p \in Orders : p # o => f[p] = 0
  PROVE  Cardinality(UnitsOf(f)) = n
<1>1. \A m \in 1..Price : ~(m <= 0)
  BY Constants
<1>2. \A m : m \in 1..Price /\ m <= n <=> m \in 1..n
  BY Constants
<1>3. UnitsOf(f) = {o} \X (1..n)
  <2> SUFFICES ASSUME NEW u PROVE u \in UnitsOf(f) <=> u \in {o} \X (1..n)
    OBVIOUS
  <2>1. u \in {o} \X (1..n) <=> u = <<u[1], u[2]>> /\ u[1] = o /\ u[2] \in 1..n
    OBVIOUS
  <2>2. CASE u[1] = o
    <3>1. u \in UnitsOf(f) <=> u = <<u[1], u[2]>> /\ u[2] \in 1..Price /\ u[2] <= n
      BY <2>2, UnitOf
    <3> QED BY <1>2, <2>1, <2>2, <3>1
  <2>3. CASE u[1] # o
    BY <1>1, <2>1, <2>3, UnitOf
  <2> QED BY <2>2, <2>3
<1>4. IsFiniteSet({o}) /\ Cardinality({o}) = 1
  BY FS_Singleton
<1>5. n \in Nat /\ IsFiniteSet(1..n) /\ Cardinality(1..n) = n
  BY Constants, FS_Interval
<1>6. Cardinality({o} \X (1..n)) = Cardinality({o}) * Cardinality(1..n)
  BY <1>4, <1>5, FS_Product
<1> QED BY <1>3, <1>4, <1>5, <1>6

LEMMA UnitsNone ==
  ASSUME NEW f, \A o \in Orders : ~(f[o] > 0), f \in [Orders -> Nat]
  PROVE  Cardinality(UnitsOf(f)) = 0
<1>1. \A o \in Orders : f[o] = 0
  OBVIOUS
<1>2. \A n \in 1..Price : ~(n <= 0)
  BY Constants
<1>3. UnitsOf(f) = {}
  BY <1>1, <1>2 DEF UnitsOf
<1> QED BY <1>3, FS_EmptySet

(* A step that leaves the balance a session carries and its credits alone, *)
(* and works on nothing but what was left to do.                           *)
LEMMA TallyKept ==
  ASSUME RefundInv, MInv, NEW s \in Sessions, UNCHANGED <<order, repaid>>,
         \A q \in Sessions \ {s} : ses'[q] = ses[q],
         ses'[s].user = ses[s].user, ses'[s].bal = ses[s].bal, ses'[s].due = ses[s].due,
         ses'[s].left \subseteq ses[s].left, ses'[s].at \in {0, ses[s].at} \cup ses[s].left
  PROVE  MInv'
<1>1. ASSUME NEW q \in Sessions PROVE Carries(q, ses[q])'
  <2>1. CASE q # s
    <3>1. PICK x : x = ses'[q]
      OBVIOUS
    <3>2. Carries(q, x)
      BY <2>1, <3>1 DEF MInv
    <3> QED BY <3>1, <3>2 DEF Carries, UnitsOf
  <2>2. CASE q = s
    <3>1. Carries(s, ses[s])
      BY DEF MInv
    <3>2. UnitsOf(ses[s].due)' = UnitsOf(ses[s].due)
      BY DEF UnitsOf
    <3>3. \A o \in Orders : o # 0
      BY Constants
    <3> QED BY <2>2, <3>1, <3>2, <3>3 DEF Carries
  <2> QED BY <2>1, <2>2
<1>2. UserByOne'
  BY DEF MInv, UserByOne, HasUser
<1> QED BY <1>1, <1>2 DEF MInv

(* A session that starts or is undone carries nothing. *)
LEMMA TallyNone ==
  ASSUME RefundInv, MInv, NEW s \in Sessions, UNCHANGED <<order, repaid>>,
         \A q \in Sessions \ {s} : ses'[q] = ses[q],
         ses'[s].user = FALSE, ses'[s].due = NoSes.due
  PROVE  MInv'
<1>1. ASSUME NEW q \in Sessions PROVE Carries(q, ses[q])'
  <2>1. CASE q # s
    <3>1. PICK x : x = ses'[q]
      OBVIOUS
    <3>2. Carries(q, x)
      BY <2>1, <3>1 DEF MInv
    <3> QED BY <3>1, <3>2 DEF Carries, UnitsOf
  <2>2. CASE q = s
    <3>1. \A o \in Orders : ~(ses'[s].due[o] > 0)
      BY NoSesFields
    <3> QED BY <2>2, <3>1 DEF Carries
  <2> QED BY <2>1, <2>2
<1>2. UserByOne'
  BY DEF MInv, UserByOne, HasUser
<1> QED BY <1>1, <1>2 DEF MInv

LEMMA RollbackTally ==
  ASSUME RefundInv, MInv, NEW s \in Sessions, ses' = [ses EXCEPT ![s] = NoSes],
         UNCHANGED <<order, repaid>>
  PROVE  MInv'
<1>1. ses'[s] = NoSes /\ \A q \in Sessions \ {s} : ses'[q] = ses[q]
  BY DEF RefundInv, RefundTypeOK
<1>2. NoSes.user = FALSE
  BY DEF NoSes
<1> QED BY <1>1, <1>2, TallyNone

(* The credit that is prepared is added to the balance that is carried. *)
LEMMA CreditTally ==
  ASSUME RefundInv, MInv, NEW s \in Sessions, CreditUser(s)
  PROVE  MInv'
<1>0. RefundTypeOK /\ Refunding(ses[s]) /\ Knows(ses[s], ses[s].at) /\ Carries(s, ses[s])
  <2>1. RefundTypeOK /\ Refunding(ses[s]) /\ ses[s].pc = "lockUser"
    BY DEF RefundInv, CreditUser
  <2>2. ses[s].at \in Orders
    BY <2>1, SesFields DEF Refunding
  <2> QED BY <2>1, <2>2 DEF RefundInv, MInv
<1>1. /\ ses[s].pc = "lockUser" /\ UNCHANGED <<order, repaid>>
      /\ \A q \in Sessions \ {s} : ~HasUser(q)
  BY DEF CreditUser, written
<1> DEFINE o == ses[s].at
           due == [ses[s].due EXCEPT ![ses[s].at] = DueNow(s)]
<1>2. /\ ses[s] \in SesType /\ o \in Orders /\ o # 0 /\ o \notin ses[s].left
      /\ ses[s].bal \in Nat /\ ses[s].due \in [Orders -> 0..Price] /\ repaid \in Nat
      /\ ses[s].user \in BOOLEAN
  BY <1>0, <1>1, SesFields, Constants DEF Refunding, RefundTypeOK
<1>3. DueNow(s) \in 0..Price
  BY <1>0, <1>2, DueNowType
<1>4. /\ \A q \in Sessions \ {s} : ses'[q] = ses[q]
      /\ ses'[s].user = TRUE /\ ses'[s].bal = LoadedBalance(s) + DueNow(s)
      /\ ses'[s].due = due /\ ses'[s].left = ses[s].left /\ ses'[s].at = 0
  BY <1>0, <1>2 DEF CreditUser, RefundTypeOK, SesType
<1>5. ses[s].due[o] = 0
  <2>1. ~(ses[s].due[o] > 0)
    BY <1>0, <1>2 DEF Carries
  <2> QED BY <1>2, <2>1
<1>6. /\ due[o] = DueNow(s) /\ \A p \in Orders : p # o => due[p] = ses[s].due[p]
  BY <1>2
<1>7. Cardinality(UnitsOf(due)) = Cardinality(UnitsOf(ses[s].due)) + DueNow(s)
  <2> DEFINE g == [p \in Orders |-> IF p = o THEN DueNow(s) ELSE 0]
  <2>1. g[o] = DueNow(s) /\ \A p \in Orders : p # o => g[p] = 0
    BY <1>2
  <2> HIDE DEF due, g
  <2>2. Cardinality(UnitsOf(g)) = DueNow(s)
    BY <1>2, <1>3, <2>1, UnitsOne
  <2>3. \A p \in Orders : \/ ses[s].due[p] = 0 /\ due[p] = g[p]
                          \/ g[p] = 0 /\ due[p] = ses[s].due[p]
    BY <1>5, <1>6, <2>1
  <2>4. Cardinality(UnitsOf(due)) = Cardinality(UnitsOf(ses[s].due)) + Cardinality(UnitsOf(g))
    BY <2>3, UnitsAdd
  <2> QED BY <2>2, <2>4
<1>8. Cardinality(UnitsOf(ses[s].due)) \in Nat
  BY UnitsFinite
<1>9. s \notin Web => LoadedBalance(s) = repaid + Cardinality(UnitsOf(ses[s].due))
  <2>1. CASE ses[s].user
    BY <1>0, <2>1 DEF Carries, LoadedBalance
  <2>2. CASE ~ses[s].user
    <3>1. \A p \in Orders : ~(ses[s].due[p] > 0)
      BY <1>0, <2>2 DEF Carries
    <3>2. ses[s].due \in [Orders -> Nat]
      BY <1>2, Constants
    <3>3. Cardinality(UnitsOf(ses[s].due)) = 0
      BY <3>1, <3>2, UnitsNone
    <3> QED BY <1>2, <2>2, <3>3 DEF LoadedBalance
  <2> QED BY <2>1, <2>2
<1>10. Carries(s, ses[s])'
  <2>1. \A p \in Orders : ses'[s].due[p] > 0 => p \notin ses'[s].left /\ p # 0
    <3> SUFFICES ASSUME NEW p \in Orders, due[p] > 0 PROVE p \notin ses[s].left
      BY <1>4, Constants
    <3>1. CASE p = o
      BY <1>2, <3>1
    <3>2. CASE p # o
      BY <1>0, <1>6, <3>2 DEF Carries
    <3> QED BY <3>1, <3>2
  <2>2. UnitsOf(ses[s].due)' = UnitsOf(due)
    BY <1>4 DEF UnitsOf
  <2> HIDE DEF due
  <2>3. s \notin Web => ses'[s].bal = repaid + Cardinality(UnitsOf(due))
    BY <1>2, <1>3, <1>4, <1>7, <1>8, <1>9, Constants
  <2> QED BY <1>1, <1>4, <2>1, <2>2, <2>3 DEF Carries
<1>11. ASSUME NEW q \in Sessions, q # s PROVE Carries(q, ses[q])'
  <2>1. PICK x : x = ses'[q]
    OBVIOUS
  <2>2. Carries(q, x)
    BY <1>4, <1>11, <2>1 DEF MInv
  <2> QED BY <1>1, <2>1, <2>2 DEF Carries, UnitsOf
<1>12. UserByOne'
  BY <1>1, <1>4 DEF MInv, UserByOne, HasUser
<1> QED BY <1>1, <1>10, <1>11, <1>12 DEF MInv

(* What a commit adds to the amounts is what its credits are.              *)
LEMMA CommitAdds ==
  ASSUME RefundInv, MInv, NEW s \in Sessions, Commit(s)
  PROVE  /\ Refunded' = Refunded + Cardinality(UnitsOf(ses[s].due))
         /\ s \notin Web => repaid' = repaid + Cardinality(UnitsOf(ses[s].due))
         /\ ~ses[s].user => repaid' = repaid
         /\ \A o \in Orders : order'[o].refunded \/ order'[o].amount = 0
<1>0. /\ RefundTypeOK /\ Carries(s, ses[s]) /\ ses[s].user \in BOOLEAN
      /\ ses[s].due \in [Orders -> 0..Price] /\ repaid \in Nat
  BY SesFields DEF RefundInv, MInv, RefundTypeOK
<1>1. /\ ses[s].left = {} /\ order' = [o \in Orders |-> Written(s, o)]
      /\ repaid' = IF ses[s].user THEN ses[s].bal ELSE repaid
  BY DEF Commit
<1>2. \A o \in Orders :
        /\ order'[o].refunded = (order[o].refunded \/ ses[s].due[o] > 0)
        /\ ses[s].due[o] > 0 => order'[o].amount = ses[s].due[o]
        /\ ~(ses[s].due[o] > 0) => order'[o].amount = order[o].amount
  BY <1>1, WrittenIs
<1>3. \A o \in Orders : ses[s].due[o] > 0 => order[o].amount = 0
  BY DEF RefundInv, Knows, MInv
<1>4. \A o \in Orders : ses[s].due[o] > 0 \/ ses[s].due[o] = 0
  BY <1>0, Constants
<1> DEFINE f == [o \in Orders |-> order[o].amount]
           g == ses[s].due
           h == [o \in Orders |-> order'[o].amount]
<1>5. \A o \in Orders : \/ f[o] = 0 /\ h[o] = g[o]
                        \/ g[o] = 0 /\ h[o] = f[o]
  BY <1>2, <1>3, <1>4
<1>6. Refunded = Cardinality(UnitsOf(f)) /\ Refunded' = Cardinality(UnitsOf(h))
  BY DEF Refunded, UnitsOf
<1> HIDE DEF f, g, h
<1>7. Cardinality(UnitsOf(h)) = Cardinality(UnitsOf(f)) + Cardinality(UnitsOf(g))
  BY <1>5, UnitsAdd
<1>8. s \notin Web => repaid' = repaid + Cardinality(UnitsOf(ses[s].due))
  <2>1. CASE ses[s].user
    BY <1>0, <1>1, <2>1 DEF Carries
  <2>2. CASE ~ses[s].user
    <3>1. \A p \in Orders : ~(ses[s].due[p] > 0)
      BY <1>0, <2>2 DEF Carries
    <3>2. ses[s].due \in [Orders -> Nat]
      BY <1>0, Constants
    <3>3. Cardinality(UnitsOf(ses[s].due)) = 0
      BY <3>1, <3>2, UnitsNone
    <3> QED BY <1>0, <1>1, <2>2, <3>3
  <2> QED BY <2>1, <2>2
<1>9. \A o \in Orders : order'[o].refunded \/ order'[o].amount = 0
  <2> SUFFICES ASSUME NEW o \in Orders PROVE order'[o].refunded \/ order'[o].amount = 0
    OBVIOUS
  <2>1. order[o].refunded \/ order[o].amount = 0
    BY DEF MInv
  <2>2. CASE ses[s].due[o] > 0
    <3>1. order'[o].refunded = TRUE
      BY <1>2, <2>2
    <3> QED BY <3>1
  <2>3. CASE ~(ses[s].due[o] > 0)
    <3>1. order'[o].refunded = order[o].refunded /\ order'[o].amount = order[o].amount
      <4>1. order[o].refunded \in BOOLEAN
        BY <1>0, RowFields DEF RefundTypeOK
      <4> QED BY <1>2, <2>3, <4>1
    <3> QED BY <2>1, <3>1
  <2> QED BY <2>2, <2>3
<1>10. ~ses[s].user => repaid' = repaid
  BY <1>1
<1> QED BY <1>6, <1>7, <1>8, <1>9, <1>10 DEF g

LEMMA CommitTally ==
  ASSUME RefundInv, MInv, NEW s \in Sessions, Commit(s)
  PROVE  MInv'
<1>1. ses'[s] = NoSes /\ \A q \in Sessions \ {s} : ses'[q] = ses[q]
  BY DEF RefundInv, RefundTypeOK, Commit
<1>2. NoSes.user = FALSE
  BY DEF NoSes
<1>3. ASSUME NEW q \in Sessions PROVE Carries(q, ses[q])'
  <2>1. CASE q = s
    <3>1. \A o \in Orders : ~(ses'[s].due[o] > 0)
      BY <1>1, NoSesFields
    <3> QED BY <1>1, <1>2, <2>1, <3>1 DEF Carries
  <2>2. CASE q # s
    <3>1. PICK x : x = ses'[q]
      OBVIOUS
    <3>2. Carries(q, x) /\ x = ses[q]
      BY <1>1, <2>2, <3>1 DEF MInv
    <3>3. x.user => repaid' = repaid
      <4>1. ses[q].user => ~ses[s].user
        BY <2>2 DEF MInv, UserByOne, HasUser
      <4> QED BY <3>2, <4>1, CommitAdds
    <3> QED BY <3>1, <3>2, <3>3 DEF Carries, UnitsOf
  <2> QED BY <2>1, <2>2
<1>4. UserByOne'
  BY <1>1, <1>2 DEF MInv, UserByOne, HasUser
<1> QED BY <1>3, <1>4, CommitAdds DEF MInv

LEMMA WorkTally ==
  ASSUME RefundInv, MInv, NEW s \in Sessions, Work(s)
  PROVE  MInv'
<1>0. RefundTypeOK /\ ses \in [Sessions -> SesType] /\ ses[s] \in SesType
  BY DEF RefundInv, RefundTypeOK
<1>1. ASSUME NEW o \in Orders, Ask(s, o) PROVE MInv'
  <2>1. PICK v : ses' = [ses EXCEPT ![s].ans[o] = v]
    BY <1>1 DEF Ask
  <2>2. /\ \A q \in Sessions \ {s} : ses'[q] = ses[q]
        /\ ses'[s].user = ses[s].user /\ ses'[s].bal = ses[s].bal /\ ses'[s].due = ses[s].due
        /\ ses'[s].left = ses[s].left /\ ses'[s].at = ses[s].at
    BY <1>0, <2>1 DEF SesType
  <2> QED BY <1>1, <2>2, TallyKept DEF Ask, written
<1>2. ASSUME NEW o \in Orders, AskFails(s, o) PROVE MInv'
  <2>1. PICK pc : ses' = [ses EXCEPT ![s] = [ses[s] EXCEPT !.left = ses[s].left \ {o}, !.pc = pc]]
    BY <1>2 DEF AskFails
  <2>2. /\ \A q \in Sessions \ {s} : ses'[q] = ses[q]
        /\ ses'[s].user = ses[s].user /\ ses'[s].bal = ses[s].bal /\ ses'[s].due = ses[s].due
        /\ ses'[s].left = ses[s].left \ {o} /\ ses'[s].at = ses[s].at
    BY <1>0, <2>1 DEF SesType
  <2> QED BY <1>2, <2>2, TallyKept DEF AskFails, written
<1>3. ASSUME NEW o \in Orders, Apply(s, o) PROVE MInv'
  <2>1. PICK pc \in {"lockOrder", "flush", "open"}, at \in {0, o} :
          ses' = [ses EXCEPT ![s] = [ses[s] EXCEPT !.left = ses[s].left \ {o},
                                                   !.pc = pc, !.at = at]]
    <3>1. CASE Eligible(s, o)
      <4>1. ses' = [ses EXCEPT ![s] = [ses[s] EXCEPT !.left = ses[s].left \ {o},
                                         !.pc = "lockOrder", !.at = o]]
        BY <1>3, <3>1 DEF Apply
      <4> QED BY <4>1
    <3>2. CASE ~Eligible(s, o)
      <4>1. ses' = [ses EXCEPT ![s] = [ses[s] EXCEPT !.left = ses[s].left \ {o},
                                         !.pc = After(s, ses[s].left \ {o}), !.at = 0]]
        BY <1>3, <3>2 DEF Apply
      <4> QED BY <4>1, AfterType
    <3> QED BY <3>1, <3>2
  <2>2. /\ \A q \in Sessions \ {s} : ses'[q] = ses[q]
        /\ ses'[s].user = ses[s].user /\ ses'[s].bal = ses[s].bal /\ ses'[s].due = ses[s].due
        /\ ses'[s].left = ses[s].left \ {o} /\ ses'[s].at = at
    BY <1>0, <2>1 DEF SesType
  <2>3. o \in ses[s].left
    BY <1>3 DEF Apply
  <2> QED BY <1>3, <2>1, <2>2, <2>3, TallyKept DEF Apply, written
<1>4. CASE LockRow(s)
  <2>1. PICK held : ses' = [ses EXCEPT ![s].held = held]
    BY <1>4 DEF LockRow
  <2>2. /\ \A q \in Sessions \ {s} : ses'[q] = ses[q]
        /\ ses'[s].user = ses[s].user /\ ses'[s].bal = ses[s].bal /\ ses'[s].due = ses[s].due
        /\ ses'[s].left = ses[s].left /\ ses'[s].at = ses[s].at
    BY <1>0, <2>1 DEF SesType
  <2> QED BY <1>4, <2>2, TallyKept DEF LockRow, written
<1>5. CASE ReadOrder(s)
  <2>1. PICK pc \in {"lockUser", "flush", "open"}, at \in {0, ses[s].at} :
          ses' = [ses EXCEPT ![s] = [ses[s] EXCEPT !.pc = pc, !.at = at]]
    <3> DEFINE none == order[ses[s].at].refunded \/ DueNow(s) = 0
    <3>1. CASE none
      <4>1. ses' = [ses EXCEPT ![s] = [ses[s] EXCEPT !.pc = After(s, ses[s].left), !.at = 0]]
        BY <1>5, <3>1 DEF ReadOrder, RefundedNow
      <4> QED BY <4>1, AfterType
    <3>2. CASE ~none
      <4>1. ses' = [ses EXCEPT ![s] = [ses[s] EXCEPT !.pc = "lockUser", !.at = ses[s].at]]
        BY <1>5, <3>2 DEF ReadOrder, RefundedNow
      <4> QED BY <4>1
    <3> QED BY <3>1, <3>2
  <2>2. /\ \A q \in Sessions \ {s} : ses'[q] = ses[q]
        /\ ses'[s].user = ses[s].user /\ ses'[s].bal = ses[s].bal /\ ses'[s].due = ses[s].due
        /\ ses'[s].left = ses[s].left /\ ses'[s].at = at
    BY <1>0, <2>1 DEF SesType
  <2> QED BY <1>5, <2>1, <2>2, TallyKept DEF ReadOrder, written
<1>6. CASE Flushed(s)
  <2>1. /\ \A q \in Sessions \ {s} : ses'[q] = ses[q]
        /\ ses'[s].user = ses[s].user /\ ses'[s].bal = ses[s].bal /\ ses'[s].due = ses[s].due
        /\ ses'[s].left = ses[s].left /\ ses'[s].at = ses[s].at
    BY <1>0, <1>6 DEF Flushed, SesType
  <2> QED BY <1>6, <2>1, TallyKept DEF Flushed, written
<1>7. CASE DeadlockVictim(s)
  BY <1>7, RollbackTally DEF DeadlockVictim, written
<1> QED BY <1>1, <1>2, <1>3, <1>4, <1>5, <1>6, <1>7, CreditTally, CommitTally DEF Work

LEMMA NextTally == RefundInv /\ MInv /\ [RefundNext]_refundVars => MInv'
<1> SUFFICES ASSUME RefundInv, MInv, [RefundNext]_refundVars PROVE MInv'
  OBVIOUS
<1>0. ses \in [Sessions -> SesType]
  BY DEF RefundInv, RefundTypeOK
<1>1. ASSUME UNCHANGED <<order, repaid, ses>> PROVE MInv'
  <2>1. ASSUME NEW s \in Sessions PROVE Carries(s, ses[s])'
    <3>1. PICK x : x = ses[s] /\ Carries(s, x)
      BY DEF MInv
    <3> QED BY <1>1, <3>1 DEF Carries, UnitsOf
  <2> QED BY <1>1, <2>1 DEF MInv, UserByOne, HasUser
<1>2. ASSUME NEW s \in Sessions, BeginRefresh(s) PROVE MInv'
  <2>1. PICK left, seen, bal :
          ses' = [ses EXCEPT ![s] = [NoSes EXCEPT !.pc = "open", !.left = left, !.seen = seen,
                                                  !.bal = bal]]
    BY <1>2 DEF BeginRefresh
  <2> DEFINE rec == [NoSes EXCEPT !.pc = "open", !.left = left, !.seen = seen, !.bal = bal]
  <2>2. rec.user = FALSE /\ rec.due = NoSes.due
    BY DEF NoSes
  <2>3. ses' = [ses EXCEPT ![s] = rec]
    BY <2>1
  <2> HIDE DEF rec
  <2>4. ses'[s] = rec /\ \A q \in Sessions \ {s} : ses'[q] = ses[q]
    BY <1>0, <2>3
  <2> QED BY <1>2, <2>2, <2>4, TallyNone DEF BeginRefresh, written
<1>3. ASSUME NEW s \in Sessions, Abort(s) PROVE MInv'
  BY <1>3, RollbackTally DEF Abort, written
<1>4. ASSUME NEW o \in Orders, PanelMoves(o) PROVE MInv'
  BY <1>1, <1>4 DEF PanelMoves, written
<1>5. CASE UNCHANGED refundVars
  BY <1>1, <1>5 DEF refundVars
<1> QED BY <1>2, <1>3, <1>4, <1>5, WorkTally DEF RefundNext

LEMMA InitTally == RefundInit => MInv
<1> SUFFICES ASSUME RefundInit PROVE MInv
  OBVIOUS
<1>1. \A s \in Sessions : ses[s] = NoSes
  BY DEF RefundInit
<1>2. NoSes.user = FALSE /\ \A o \in Orders : ~(NoSes.due[o] > 0)
  BY NoSesFields DEF NoSes
<1>3. \A s \in Sessions : Carries(s, ses[s])
  BY <1>1, <1>2 DEF Carries
<1>4. UserByOne
  BY <1>1, <1>2 DEF UserByOne, HasUser
<1>5. \A o \in Orders : order[o].amount = 0
  BY DEF RefundInit, NewRow
<1> QED BY <1>3, <1>4, <1>5 DEF MInv

THEOREM RefundBalances == RefundSpec => [](RefundInv /\ MInv)
<1>1. RefundInit => RefundInv /\ MInv
  BY RefundInitHolds, InitTally
<1>2. (RefundInv /\ MInv) /\ [RefundNext]_refundVars => (RefundInv /\ MInv)'
  BY RefundNextKeeps, NextTally
<1> QED BY <1>1, <1>2, PTL DEF RefundSpec

(* The step that ends a session commits its credits or nothing. *)
Ends == \A s \in Sessions \ Web : ses[s].pc # "idle" /\ ses'[s].pc = "idle"
           => repaid' - repaid = Refunded' - Refunded

(* record_ledger_entry under the user's row lock: a refresh that did not   *)
(* load the user beforehand raises the balance by exactly the refunds it   *)
(* commits, for any number of orders and of refreshes at work on the user. *)
THEOREM CreditsAreExact == RefundSpec => CreditIsExact
<1>1. RefundInv /\ MInv /\ [RefundNext]_refundVars => [Ends]_refundVars
  <2> SUFFICES ASSUME RefundInv, MInv, RefundNext PROVE Ends
    OBVIOUS
  <2>0. ses \in [Sessions -> SesType] /\ repaid \in Nat
    BY DEF RefundInv, RefundTypeOK
  <2>1. Refunded \in Nat
    BY UnitsFinite DEF Refunded
  <2>2. ASSUME order' = order, repaid' = repaid PROVE Ends
    <3>1. Refunded' = Refunded
      BY <2>2 DEF Refunded, UnitsOf
    <3> QED BY <2>0, <2>1, <2>2, <3>1 DEF Ends
  <2>3. ASSUME NEW s \in Sessions, Commit(s) PROVE Ends
    <3>1. \A q \in Sessions : q # s => ses'[q] = ses[q]
      BY <2>0, <2>3 DEF Commit
    <3>2. Cardinality(UnitsOf(ses[s].due)) \in Nat
      BY UnitsFinite
    <3>3. s \notin Web => repaid' - repaid = Refunded' - Refunded
      BY <2>0, <2>1, <2>3, <3>2, CommitAdds
    <3> QED BY <3>1, <3>3 DEF Ends
  <2> QED BY <2>2, <2>3 DEF RefundNext, Work, PanelMoves, BeginRefresh, Ask, AskFails, Apply,
        LockRow, ReadOrder, CreditUser, Flushed, Abort, DeadlockVictim, written
<1> QED BY <1>1, RefundBalances, PTL DEF RefundSpec, CreditIsExact, Ends
=============================================================================
