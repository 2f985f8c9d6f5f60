---------------------------- MODULE AccessProofs ------------------------------
(***************************************************************************)
(* TLAPS proofs about access: about SignIn, for any number of flows, lock  *)
(* tiers and visits; and about AccountLogin, for any number of accounts,   *)
(* requests, polls, pending logins and QR codes and any limit of the plan. *)
(*                                                                         *)
(* LockedWhenDue needs to know of a failure on its way to the lock that    *)
(* its count reached a tier (AttDue), so that the lock it writes is one,   *)
(* and that the counter has every failure since the last sign-in as long   *)
(* as no reset ran after one of them (CountsSince).                        *)
(* That the counters stay bounded needs a count of the sign-ins that may   *)
(* still be refused (Counted): each of them was started by one visit.      *)
(***************************************************************************)
EXTENDS SignIn, AccountLogin, FiniteSetTheorems, WellFoundedInduction, TLAPS

(* Signing in *)

(* The sign-ins that may still count a failure or make a session. *)
Trying == {f \in Flows : flow[f].pc \in {"check", "forward", "count"}}

Counted ==
  /\ fails + Cardinality(Trying) <= visits
  /\ resets + Cardinality(Trying) <= visits
  /\ last + Cardinality(Trying) <= visits
  /\ since + Cardinality(Trying) <= visits

AttDue == \A f \in Flows :
  flow[f].pc \in {"readLock", "setLock"} => flow[f].att >= Tiers[1].threshold

(* No reset has overtaken failures: the counter has them all. *)
CountsSince == ~overtook => fails >= since

IInv == TypeOK /\ AttDue /\ Counted /\ LockedWhenDue /\ CountsSince

-----------------------------------------------------------------------------
(* Helpers *)

LEMMA TiersType ==
  /\ DOMAIN Tiers = 1..Len(Tiers) /\ Len(Tiers) \in Nat \ {0}
  /\ \A i \in DOMAIN Tiers : Tiers[i] \in [threshold : Nat \ {0}, duration : Nat \ {0}]
<1> DEFINE T == [threshold : Nat \ {0}, duration : Nat \ {0}]
<1>1. Tiers \in Seq(T) /\ Len(Tiers) > 0
  BY TiersAssumption
<1> HIDE DEF T
<1>2. /\ DOMAIN Tiers = 1..Len(Tiers) /\ Len(Tiers) \in Nat \ {0}
      /\ \A i \in DOMAIN Tiers : Tiers[i] \in T
  BY <1>1
<1> QED BY <1>2 DEF T

LEMMA Threshold == Tiers[1].threshold \in Nat \ {0} /\ Tiers[1].duration \in Nat \ {0}
<1> DEFINE T == [threshold : Nat \ {0}, duration : Nat \ {0}]
<1>1. 1 \in 1..Len(Tiers) /\ Tiers \in Seq(T)
  BY TiersAssumption, TiersType
<1>2. Tiers[1] \in T
  BY <1>1, TiersType
<1> QED BY <1>2

LEMMA LeastNat ==
  ASSUME NEW T, T \subseteq Nat, T # {}
  PROVE  \E m \in T : \A n \in T : m <= n
<1>1. PICK m \in T : \A n \in T : <<n, m>> \notin OpToRel(<, Nat)
  BY WFMin, NatLessThanWellFounded
<1>2. \A n \in T : ~(n < m)
  BY <1>1 DEF OpToRel
<1> QED BY <1>2

(* A count that reached the first tier has a last tier it reached, and a   *)
(* lock lasts for some time.                                               *)
LEMMA DurationType ==
  ASSUME NEW n \in Nat, n >= Tiers[1].threshold
  PROVE  Duration(n) \in Nat \ {0}
<1> DEFINE reached == {i \in DOMAIN Tiers : n >= Tiers[i].threshold}
<1>1. /\ DOMAIN Tiers = 1..Len(Tiers) /\ Len(Tiers) \in Nat
      /\ \A i \in DOMAIN Tiers : Tiers[i] \in [threshold : Nat \ {0}, duration : Nat \ {0}]
  BY TiersType
<1>2. 1 \in reached
  BY <1>1, TiersType
<1> DEFINE below == {Len(Tiers) - i : i \in reached}
<1>3. below \subseteq Nat /\ below # {}
  BY <1>1, <1>2
<1>4. PICK m \in below : \A k \in below : m <= k
  <2> HIDE DEF below
  <2> QED BY <1>3, LeastNat
<1>5. PICK i \in reached : m = Len(Tiers) - i
  BY <1>4
<1>6. \A j \in reached : j <= i
  <2>1. SUFFICES ASSUME NEW j \in reached PROVE j <= i
    OBVIOUS
  <2>2. Len(Tiers) - j \in below
    OBVIOUS
  <2>3. Len(Tiers) - i <= Len(Tiers) - j
    BY <1>4, <1>5, <2>2
  <2> QED BY <1>1, <2>3
<1>7. (CHOOSE k \in reached : \A j \in reached : j <= k) \in reached
  BY <1>6
<1>8. Duration(n) = Tiers[CHOOSE k \in reached : \A j \in reached : j <= k].duration
  BY DEF Duration
<1> HIDE DEF reached
<1>9. reached \subseteq DOMAIN Tiers
  BY DEF reached
<1> QED BY <1>1, <1>7, <1>8, <1>9

LEMMA NoFlowType ==
  /\ NoFlow \in FlowType /\ NoFlow.pc = "idle" /\ NoFlow.kind = "none" /\ NoFlow.att = 0
  /\ NoFlow.tab = FALSE /\ NoFlow.sess = 0 /\ NoFlow.user = "none"
  BY BoundsAssumption DEF NoFlow, FlowType, Ids

LEMMA AbandonedType ==
  ASSUME TypeOK
  PROVE  Abandoned \in [Flows -> FlowType]
<1>1. flow \in [Flows -> FlowType]
  BY DEF TypeOK
<1>2. ASSUME NEW f \in Flows PROVE [flow[f] EXCEPT !.tab = FALSE] \in FlowType
  BY <1>1 DEF FlowType
<1> QED BY <1>1, <1>2, NoFlowType DEF Abandoned

LEMMA TryingFinite ==
  IsFiniteSet(Trying) /\ Cardinality(Trying) \in Nat
  BY BoundsAssumption, FS_Subset, FS_CardinalityType DEF Trying

(* What one flow's step does to the number of sign-ins under way. *)
LEMMA OneFlow ==
  ASSUME TypeOK, NEW f \in Flows, NEW rec \in FlowType, flow' = [flow EXCEPT ![f] = rec]
  PROVE  /\ flow' \in [Flows -> FlowType] /\ flow'[f] = rec
         /\ \A g \in Flows \ {f} : flow'[g] = flow[g]
         /\ Cardinality(Trying) \in Nat
         /\ Cardinality(Trying)' =
              Cardinality(Trying) + (IF rec.pc \in {"check", "forward", "count"} THEN 1 ELSE 0)
                                  - (IF f \in Trying THEN 1 ELSE 0)
<1>1. flow \in [Flows -> FlowType]
  BY DEF TypeOK
<1>2. /\ flow' \in [Flows -> FlowType] /\ flow'[f] = rec
      /\ \A g \in Flows \ {f} : flow'[g] = flow[g]
  BY <1>1
<1>3. CASE rec.pc \in {"check", "forward", "count"}
  <2>1. Trying' = Trying \cup {f}
    BY <1>2, <1>3 DEF Trying
  <2>2. PICK T : T = Trying
    OBVIOUS
  <2>3. Cardinality(T \cup {f}) = IF f \in T THEN Cardinality(T) ELSE Cardinality(T) + 1
    BY <2>2, TryingFinite, FS_AddElement
  <2>4. Cardinality(Trying)' = Cardinality(T \cup {f})
    BY <2>1, <2>2
  <2>5. Cardinality(T) \in Nat
    BY <2>2, TryingFinite
  <2> QED BY <1>2, <1>3, <2>2, <2>3, <2>4, <2>5
<1>4. CASE rec.pc \notin {"check", "forward", "count"}
  <2>1. Trying' = Trying \ {f}
    BY <1>2, <1>4 DEF Trying
  <2>2. PICK T : T = Trying
    OBVIOUS
  <2>3. Cardinality(T \ {f}) = IF f \in T THEN Cardinality(T) - 1 ELSE Cardinality(T)
    BY <2>2, TryingFinite, FS_RemoveElement
  <2>4. Cardinality(Trying)' = Cardinality(T \ {f})
    BY <2>1, <2>2
  <2>5. Cardinality(T) \in Nat
    BY <2>2, TryingFinite
  <2> QED BY <1>2, <1>4, <2>2, <2>3, <2>4, <2>5
<1> QED BY <1>3, <1>4

-----------------------------------------------------------------------------
(* Kinds of steps *)

Watched == {"check", "forward", "count", "readLock", "setLock", "sync"}

(* A step of one flow that neither signs in nor fills the tables. *)
LEMMA UnwatchedStep ==
  ASSUME IInv, TypeOK', NEW f \in Flows, NEW rec \in FlowType,
         flow' = [flow EXCEPT ![f] = rec],
         flow[f].pc \notin Watched, rec.pc \notin Watched,
         fails' = fails, until' = until, resets' = resets, hiccup' = hiccup, since' = since, overtook' = overtook,
         ba' = ba, legacy' = legacy,
         visits' >= visits, last' <= last + (visits' - visits)
  PROVE  IInv'
<1>0. TypeOK /\ AttDue /\ Counted /\ LockedWhenDue /\ CountsSince
  BY DEF IInv
<1>1. /\ flow'[f] = rec /\ \A g \in Flows \ {f} : flow'[g] = flow[g]
      /\ Cardinality(Trying) \in Nat /\ Cardinality(Trying)' = Cardinality(Trying)
  BY <1>0, OneFlow DEF Watched, Trying
<1>2. AttDue'
  BY <1>0, <1>1 DEF AttDue, Watched
<1>3. /\ fails \in Nat /\ resets \in Nat /\ last \in Nat /\ visits \in Nat
      /\ last' \in Nat /\ visits' \in Nat /\ since \in Nat
  BY <1>0 DEF TypeOK, Ids
<1>4. Counted'
  <2>1. /\ fails + Cardinality(Trying) <= visits /\ resets + Cardinality(Trying) <= visits
        /\ last + Cardinality(Trying) <= visits /\ since + Cardinality(Trying) <= visits
    BY <1>0 DEF Counted
  <2>3. ASSUME NEW a \in Nat, NEW b \in Nat, NEW n \in Nat, NEW v \in Nat, NEW w \in Nat,
               b <= a + (w - v), a + n <= v
        PROVE  b + n <= w
    BY <2>3
  <2>4. last' + Cardinality(Trying) <= visits'
    <3>1. last' <= last + (visits' - visits)
      OBVIOUS
    <3>2. Cardinality(Trying) \in Nat
      BY <1>1
    <3> QED BY <1>3, <2>1, <2>3, <3>1, <3>2
  <2>5. /\ fails' + Cardinality(Trying) <= visits' /\ resets' + Cardinality(Trying) <= visits'
        /\ since' + Cardinality(Trying) <= visits'
    BY <1>1, <1>3, <2>1
  <2> QED BY <1>1, <2>4, <2>5 DEF Counted
<1>5. LockedWhenDue'
  BY <1>0, <1>1 DEF LockedWhenDue, guard, Watched
<1>6. CountsSince'
  BY <1>0 DEF CountsSince
<1> QED BY <1>2, <1>4, <1>5, <1>6 DEF IInv

(* A step that leaves the flows alone, or only tells some that nobody waits. *)
LEMMA FlowsKept ==
  ASSUME IInv, TypeOK',
         flow' = flow \/ flow' = Abandoned,
         fails' = fails, until' = until, resets' = resets, hiccup' = hiccup, since' = since, overtook' = overtook,
         legacy' = legacy, last' = last,
         ba # "none" \/ ba' = "none", visits' >= visits
  PROVE  IInv'
<1>0. TypeOK /\ AttDue /\ Counted /\ LockedWhenDue /\ CountsSince
  BY DEF IInv
<1>1. flow \in [Flows -> FlowType] /\ visits \in Nat /\ visits' \in Nat
      /\ fails \in Nat /\ resets \in Nat /\ last \in Nat /\ since \in Nat
  BY <1>0 DEF TypeOK, Ids
<1>2. \A f \in Flows : /\ flow[f].pc \in Watched => flow'[f].pc = flow[f].pc /\ flow'[f].att = flow[f].att
                       /\ flow'[f].pc \in Watched => flow'[f].pc = flow[f].pc
  <2>1. CASE flow' = flow
    BY <2>1
  <2>2. CASE flow' = Abandoned
    <3>1. TAKE f \in Flows
    <3>2. CASE flow[f].pc \in {"check", "forward", "count", "readLock", "setLock",
                               "before", "insert", "sync"}
      <4>1. flow'[f] = [flow[f] EXCEPT !.tab = FALSE]
        BY <2>2, <3>2 DEF Abandoned
      <4>2. flow'[f].pc = flow[f].pc /\ flow'[f].att = flow[f].att
        BY <1>1, <4>1 DEF FlowType
      <4> QED BY <4>2
    <3>3. CASE flow[f].pc \notin {"check", "forward", "count", "readLock", "setLock",
                                  "before", "insert", "sync"}
      <4>1. flow'[f].pc = "idle"
        BY <2>2, <3>3, NoFlowType DEF Abandoned
      <4> QED BY <3>3, <4>1 DEF Watched
    <3> QED BY <3>2, <3>3
  <2> QED BY <2>1, <2>2
<1>3. Trying' = Trying
  BY <1>2 DEF Trying, Watched
<1>4. AttDue'
  BY <1>0, <1>2 DEF AttDue, Watched
<1>5. Counted'
  BY <1>0, <1>1, <1>3, TryingFinite DEF Counted
<1>6. LockedWhenDue'
  BY <1>0, <1>2 DEF LockedWhenDue, Watched
<1>7. CountsSince'
  BY <1>0 DEF CountsSince
<1> QED BY <1>4, <1>5, <1>6, <1>7 DEF IInv

Tries(pc) == IF pc \in {"check", "forward", "count"} THEN 1 ELSE 0

(* A step of one flow of a sign-in. *)
LEMMA GuardKind ==
  ASSUME IInv, TypeOK', NEW f \in Flows, NEW rec \in FlowType,
         flow' = [flow EXCEPT ![f] = rec],
         rec.pc \in {"readLock", "setLock"} => rec.att >= Tiers[1].threshold,
         LockedWhenDue', CountsSince',
         fails' + Tries(rec.pc) <= fails + Tries(flow[f].pc) + (visits' - visits),
         resets' + Tries(rec.pc) <= resets + Tries(flow[f].pc) + (visits' - visits),
         last' + Tries(rec.pc) <= last + Tries(flow[f].pc) + (visits' - visits),
         since' + Tries(rec.pc) <= since + Tries(flow[f].pc) + (visits' - visits)
  PROVE  IInv'
<1>0. TypeOK /\ AttDue /\ Counted
  BY DEF IInv
<1>1. /\ flow'[f] = rec /\ \A g \in Flows \ {f} : flow'[g] = flow[g]
      /\ Cardinality(Trying) \in Nat /\ Tries(rec.pc) \in Nat /\ Tries(flow[f].pc) \in Nat
      /\ Cardinality(Trying)' = Cardinality(Trying) + Tries(rec.pc) - Tries(flow[f].pc)
  BY <1>0, OneFlow DEF Trying, Tries
<1>2. AttDue'
  BY <1>0, <1>1 DEF AttDue
<1>3. /\ fails \in Nat /\ resets \in Nat /\ last \in Nat /\ visits \in Nat
      /\ fails' \in Nat /\ resets' \in Nat /\ last' \in Nat /\ visits' \in Nat
      /\ since \in Nat /\ since' \in Nat
  BY <1>0 DEF TypeOK, Ids
<1>4. Counted'
  BY <1>0, <1>1, <1>3 DEF Counted
<1> QED BY <1>2, <1>4 DEF IInv

(* A lock is due as before when a step touches neither counts nor lock. *)
LEMMA LockDueAsBefore ==
  ASSUME IInv, NEW f \in Flows, NEW rec \in FlowType, flow' = [flow EXCEPT ![f] = rec],
         flow[f].pc \notin {"readLock", "setLock"}, until' = until,
         hiccup => hiccup', since' = since /\ overtook' = overtook
  PROVE  LockedWhenDue'
<1>1. \A g \in Flows \ {f} : flow'[g] = flow[g]
  BY DEF IInv, TypeOK
<1>2. LockedWhenDue
  BY DEF IInv
<1> QED BY <1>1, <1>2 DEF LockedWhenDue

Pcs == {"idle", "check", "forward", "count", "readLock", "setLock",
        "before", "insert", "sync", "session", "gotSession", "me", "gotMe",
        "signOut", "wipe", "saved"}

LEMMA ToEffect ==
  ASSUME TypeOK, NEW f \in Flows, NEW pc \in Pcs, To(f, pc)
  PROVE  \E rec \in FlowType :
           flow' = [flow EXCEPT ![f] = rec] /\ rec.pc = pc /\ rec.att = flow[f].att
<1>1. flow[f] \in FlowType
  BY DEF TypeOK
<1> DEFINE rec == [flow[f] EXCEPT !.pc = pc]
<1>2. rec \in FlowType /\ rec.pc = pc /\ rec.att = flow[f].att
  BY <1>1 DEF FlowType, Pcs
<1>3. flow' = [flow EXCEPT ![f] = rec]
  BY DEF To
<1> QED BY <1>2, <1>3

LEMMA EndEffect ==
  ASSUME NEW f \in Flows, End(f)
  PROVE  NoFlow \in FlowType /\ flow' = [flow EXCEPT ![f] = NoFlow] /\ NoFlow.pc = "idle"
  BY NoFlowType DEF End

(* A sign-in under way leaves room for one more failure or session. *)
LEMMA OneMore ==
  ASSUME IInv, NEW f \in Trying
  PROVE  fails + 1 \in Ids /\ resets + 1 \in Ids /\ last + 1 \in Ids /\ since + 1 \in Ids
<1>1. Trying # {}
  OBVIOUS
<1>2. Cardinality(Trying) >= 1
  BY <1>1, TryingFinite, FS_EmptySet
<1>3. fails \in Nat /\ resets \in Nat /\ last \in Nat /\ since \in Nat /\ visits \in 0..MaxVisits
  BY DEF IInv, TypeOK, Ids
<1> QED BY <1>2, <1>3, TryingFinite, BoundsAssumption DEF IInv, Counted, Ids

-----------------------------------------------------------------------------
(* Signing in *)

LEMMA CheckLockoutKeeps ==
  ASSUME IInv, NEW f \in Flows, CheckLockout(f)
  PROVE  IInv'
<1>0. TypeOK /\ flow[f].pc = "check"
  BY DEF IInv, CheckLockout, At
<1>1. PICK rec \in FlowType : flow' = [flow EXCEPT ![f] = rec] /\ rec.pc \in {"idle", "forward"}
  BY <1>0, ToEffect, EndEffect DEF CheckLockout, Pcs
<1>2. hiccup' \in BOOLEAN /\ (hiccup => hiccup')
  BY <1>0 DEF CheckLockout, TypeOK
<1>3. UNCHANGED <<now, fails, until, resets, since, overtook, tables, sessions, tab, visits>>
  BY DEF CheckLockout
<1>4. TypeOK'
  BY <1>0, <1>1, <1>2, <1>3 DEF TypeOK, tables, sessions
<1>5. LockedWhenDue'
  BY <1>0, <1>1, <1>2, <1>3, LockDueAsBefore
<1>6. fails \in Nat /\ resets \in Nat /\ last \in Nat /\ visits \in Nat /\ since \in Nat
  BY <1>0 DEF TypeOK, Ids
<1>90. CountsSince'
  BY <1>0, <1>1, <1>3, <1>4, <1>5, <1>6 DEF IInv, CountsSince, guard
<1>91. /\ fails' + Tries(rec.pc) <= fails + Tries(flow[f].pc) + (visits' - visits)
       /\ resets' + Tries(rec.pc) <= resets + Tries(flow[f].pc) + (visits' - visits)
       /\ last' + Tries(rec.pc) <= last + Tries(flow[f].pc) + (visits' - visits)
       /\ since' + Tries(rec.pc) <= since + Tries(flow[f].pc) + (visits' - visits)
  BY <1>0, <1>1, <1>3, <1>4, <1>5, <1>6 DEF Tries, guard, sessions
<1> QED BY <1>0, <1>1, <1>3, <1>4, <1>5, <1>6, <1>90, <1>91, GuardKind

LEMMA SignInOkKeeps ==
  ASSUME IInv, NEW f \in Flows, SignInOk(f)
  PROVE  IInv'
<1>0. TypeOK /\ flow[f].pc = "forward" /\ f \in Trying
  BY DEF IInv, SignInOk, At, Trying
<1>1. PICK rec \in FlowType : flow' = [flow EXCEPT ![f] = rec] /\ rec.pc \in {"idle", "session"}
  BY <1>0, ToEffect, EndEffect DEF SignInOk, Pcs
<1>2. /\ UNCHANGED <<now, fails, until, hiccup, tables, tab, visits>>
      /\ resets' = resets + 1 /\ since' = 0 /\ overtook' = FALSE /\ NewSession(flow[f].tab)
  BY DEF SignInOk, Succeeded
<1>3. fails \in Nat /\ resets \in Nat /\ last \in Nat /\ visits \in Nat /\ since \in Nat
  BY <1>0 DEF TypeOK, Ids
<1>4. last' = last + 1 /\ live' \in SUBSET (1..last') /\ cookie' \in 0..last'
  <2>1. last' = last + 1 /\ live' = live \cup {last'} /\ (cookie' = last' \/ cookie' = cookie)
    BY <1>2 DEF NewSession
  <2>2. live \subseteq 1..last /\ cookie \in 0..last
    BY <1>0 DEF TypeOK
  <2> QED BY <1>3, <2>1, <2>2
<1>5. TypeOK'
  <2>0. since' \in Ids
    BY <1>2, BoundsAssumption DEF Ids
  <2>1. since' \in Ids /\ overtook' \in BOOLEAN
    BY <1>2, <2>0, Zenon
  <2>2. /\ now' = now /\ fails' = fails /\ until' = until /\ visits' = visits /\ hiccup' = hiccup
        /\ ba' = ba /\ legacy' = legacy /\ onboarded' = onboarded /\ resets' \in Ids
    BY <1>0, <1>2, OneMore DEF tables
  <2>3. tab' \in TabType /\ last' \in Ids
    BY <1>0, <1>2, <1>4, OneMore DEF TypeOK
  <2> QED BY <1>0, <1>1, <1>4, <2>1, <2>2, <2>3 DEF TypeOK
<1>6. LockedWhenDue'
  BY <1>2, Threshold DEF LockedWhenDue
<1>90. CountsSince'
  BY <1>0, <1>1, <1>2, <1>3, <1>4, <1>5, <1>6 DEF IInv, CountsSince, guard
<1>91. /\ fails' + Tries(rec.pc) <= fails + Tries(flow[f].pc) + (visits' - visits)
       /\ resets' + Tries(rec.pc) <= resets + Tries(flow[f].pc) + (visits' - visits)
       /\ last' + Tries(rec.pc) <= last + Tries(flow[f].pc) + (visits' - visits)
       /\ since' + Tries(rec.pc) <= since + Tries(flow[f].pc) + (visits' - visits)
  BY <1>0, <1>1, <1>2, <1>3, <1>4, <1>5, <1>6 DEF Tries, guard, sessions
<1> QED BY <1>0, <1>1, <1>2, <1>3, <1>4, <1>5, <1>6, <1>90, <1>91, GuardKind

LEMMA SecondFactorDueKeeps ==
  ASSUME IInv, NEW f \in Flows, SecondFactorDue(f)
  PROVE  IInv'
<1>0. TypeOK /\ flow[f].pc = "forward" /\ f \in Trying
  BY DEF IInv, SecondFactorDue, At, Trying
<1>1. NoFlow \in FlowType /\ flow' = [flow EXCEPT ![f] = NoFlow] /\ NoFlow.pc = "idle"
  BY EndEffect DEF SecondFactorDue
<1>2. /\ UNCHANGED <<now, fails, until, hiccup, tables, sessions, visits>>
      /\ resets' = resets + 1 /\ since' = 0 /\ overtook' = FALSE
  BY DEF SecondFactorDue, Succeeded
<1>3. fails \in Nat /\ resets \in Nat /\ last \in Nat /\ visits \in Nat /\ since \in Nat
  BY <1>0 DEF TypeOK, Ids
<1>4. tab' \in TabType
  BY <1>0 DEF SecondFactorDue, TypeOK, TabType, Pages
<1>5. TypeOK'
  <2>0. since' \in Ids
    BY <1>2, BoundsAssumption DEF Ids
  <2>1. since' \in Ids /\ overtook' \in BOOLEAN
    BY <1>2, <2>0, Zenon
  <2>2. /\ now' = now /\ fails' = fails /\ until' = until /\ visits' = visits /\ hiccup' = hiccup
        /\ ba' = ba /\ legacy' = legacy /\ onboarded' = onboarded /\ resets' \in Ids
    BY <1>0, <1>2, OneMore DEF tables
  <2>3. last' = last /\ live' = live /\ cookie' = cookie
    BY <1>2 DEF sessions
  <2> QED BY <1>0, <1>1, <1>4, <2>1, <2>2, <2>3 DEF TypeOK
<1>6. LockedWhenDue'
  BY <1>2, Threshold DEF LockedWhenDue
<1>90. CountsSince'
  BY <1>0, <1>1, <1>2, <1>3, <1>5, <1>6 DEF IInv, CountsSince, guard
<1>91. /\ fails' + Tries(NoFlow.pc) <= fails + Tries(flow[f].pc) + (visits' - visits)
       /\ resets' + Tries(NoFlow.pc) <= resets + Tries(flow[f].pc) + (visits' - visits)
       /\ last' + Tries(NoFlow.pc) <= last + Tries(flow[f].pc) + (visits' - visits)
       /\ since' + Tries(NoFlow.pc) <= since + Tries(flow[f].pc) + (visits' - visits)
  BY <1>0, <1>1, <1>2, <1>3, <1>5, <1>6 DEF Tries, guard, sessions
<1> QED BY <1>0, <1>1, <1>2, <1>3, <1>5, <1>6, <1>90, <1>91, GuardKind

LEMMA SignInRefusedKeeps ==
  ASSUME IInv, NEW f \in Flows, SignInRefused(f)
  PROVE  IInv'
<1>0. TypeOK /\ flow[f].pc = "forward"
  BY DEF IInv, SignInRefused, At
<1>1. PICK rec \in FlowType : flow' = [flow EXCEPT ![f] = rec] /\ rec.pc = "count"
  BY <1>0, ToEffect DEF SignInRefused, Pcs
<1>2. UNCHANGED <<now, guard, tables, sessions, tab, visits>>
  BY DEF SignInRefused
<1>3. fails \in Nat /\ resets \in Nat /\ last \in Nat /\ visits \in Nat /\ since \in Nat
  BY <1>0 DEF TypeOK, Ids
<1>5. TypeOK'
  BY <1>0, <1>1, <1>2 DEF TypeOK, guard, tables, sessions
<1>6. LockedWhenDue'
  BY <1>0, <1>1, <1>2, LockDueAsBefore DEF guard
<1>90. CountsSince'
  BY <1>0, <1>1, <1>2, <1>3, <1>5, <1>6 DEF IInv, CountsSince, guard
<1>91. /\ fails' + Tries(rec.pc) <= fails + Tries(flow[f].pc) + (visits' - visits)
       /\ resets' + Tries(rec.pc) <= resets + Tries(flow[f].pc) + (visits' - visits)
       /\ last' + Tries(rec.pc) <= last + Tries(flow[f].pc) + (visits' - visits)
       /\ since' + Tries(rec.pc) <= since + Tries(flow[f].pc) + (visits' - visits)
  BY <1>0, <1>1, <1>2, <1>3, <1>5, <1>6 DEF Tries, guard, sessions
<1> QED BY <1>0, <1>1, <1>2, <1>3, <1>5, <1>6, <1>90, <1>91, GuardKind

LEMMA CountFailureKeeps ==
  ASSUME IInv, NEW f \in Flows, CountFailure(f)
  PROVE  IInv'
<1>0. TypeOK /\ flow[f].pc = "count" /\ f \in Trying /\ flow[f] \in FlowType
  BY DEF IInv, CountFailure, At, Trying, TypeOK
<1>2. UNCHANGED <<now, resets, overtook, tables, sessions, tab, visits>>
  BY DEF CountFailure
<1>3. fails \in Nat /\ resets \in Nat /\ last \in Nat /\ visits \in Nat /\ since \in Nat /\ until \in Nat
  BY <1>0 DEF TypeOK, Ids
<1>4. CASE End(f) /\ UNCHANGED <<fails, until, since>> /\ hiccup' \in BOOLEAN /\ (hiccup => hiccup')
  <2>1. NoFlow \in FlowType /\ flow' = [flow EXCEPT ![f] = NoFlow] /\ NoFlow.pc = "idle"
    BY <1>4, EndEffect
  <2>2. TypeOK'
    BY <1>0, <1>2, <1>4, <2>1 DEF TypeOK, tables, sessions
  <2>3. LockedWhenDue'
    BY <1>0, <1>2, <1>4, <2>1, LockDueAsBefore
  <2>90. CountsSince'
    BY <1>0, <1>2, <1>3, <1>4, <2>1, <2>2, <2>3 DEF IInv, CountsSince, guard
  <2>91. /\ fails' + Tries(NoFlow.pc) <= fails + Tries(flow[f].pc) + (visits' - visits)
         /\ resets' + Tries(NoFlow.pc) <= resets + Tries(flow[f].pc) + (visits' - visits)
         /\ last' + Tries(NoFlow.pc) <= last + Tries(flow[f].pc) + (visits' - visits)
         /\ since' + Tries(NoFlow.pc) <= since + Tries(flow[f].pc) + (visits' - visits)
    BY <1>0, <1>2, <1>3, <1>4, <2>1, <2>2, <2>3 DEF Tries, guard, sessions
  <2> QED BY <1>0, <1>2, <1>3, <1>4, <2>1, <2>2, <2>3, <2>90, <2>91, GuardKind
<1>5. CASE /\ fails' = fails + 1 /\ since' = since + 1 /\ until' = (IF Locked THEN until ELSE 0) /\ UNCHANGED hiccup
           /\ IF LockDue(fails')
              THEN flow' = [flow EXCEPT ![f].pc = "readLock", ![f].att = fails']
              ELSE End(f)
  <2>1. fails' \in Ids /\ fails' \in Nat /\ until' \in Nat /\ since' \in Ids
    BY <1>0, <1>3, <1>5, OneMore
  <2>2. CASE LockDue(fails')
    <3> DEFINE rec == [flow[f] EXCEPT !.pc = "readLock", !.att = fails']
    <3>1. rec \in FlowType /\ rec.pc = "readLock" /\ rec.att = fails'
      BY <1>0, <2>1 DEF FlowType
    <3>2. flow' = [flow EXCEPT ![f] = rec]
      BY <1>5, <2>2
    <3> HIDE DEF rec
    <3>3. TypeOK'
      BY <1>0, <1>2, <1>5, <2>1, <3>1, <3>2 DEF TypeOK, tables, sessions
    <3>4. LockedWhenDue'
      BY <1>0, <3>1, <3>2 DEF LockedWhenDue, TypeOK
    <3>5. fails' >= Tiers[1].threshold
      BY <2>2 DEF LockDue
    <3>90. CountsSince'
      BY <1>0, <1>2, <1>3, <1>5, <2>1, <3>1, <3>2, <3>3, <3>4, <3>5 DEF IInv, CountsSince, guard
    <3>91. /\ fails' + Tries(rec.pc) <= fails + Tries(flow[f].pc) + (visits' - visits)
           /\ resets' + Tries(rec.pc) <= resets + Tries(flow[f].pc) + (visits' - visits)
           /\ last' + Tries(rec.pc) <= last + Tries(flow[f].pc) + (visits' - visits)
           /\ since' + Tries(rec.pc) <= since + Tries(flow[f].pc) + (visits' - visits)
      BY <1>0, <1>2, <1>3, <1>5, <2>1, <3>1, <3>2, <3>3, <3>4, <3>5 DEF Tries, guard, sessions
    <3> QED BY <1>0, <1>2, <1>3, <1>5, <2>1, <3>1, <3>2, <3>3, <3>4, <3>5, <3>90, <3>91, GuardKind
  <2>3. CASE ~LockDue(fails')
    <3>1. NoFlow \in FlowType /\ flow' = [flow EXCEPT ![f] = NoFlow] /\ NoFlow.pc = "idle"
      BY <1>5, <2>3, EndEffect
    <3>2. TypeOK'
      BY <1>0, <1>2, <1>5, <2>1, <3>1 DEF TypeOK, tables, sessions
    <3>80. CountsSince'
      BY <1>2, <1>3, <1>5 DEF IInv, CountsSince
    <3>3. LockedWhenDue'
      BY <1>2, <1>3, <1>5, <2>1, <2>3, <3>80, Threshold DEF LockedWhenDue, LockDue, CountsSince, Ids
    <3>90. CountsSince'
      BY <1>0, <1>2, <1>3, <1>5, <3>1, <3>2, <3>3 DEF IInv, CountsSince, guard
    <3>91. /\ fails' + Tries(NoFlow.pc) <= fails + Tries(flow[f].pc) + (visits' - visits)
           /\ resets' + Tries(NoFlow.pc) <= resets + Tries(flow[f].pc) + (visits' - visits)
           /\ last' + Tries(NoFlow.pc) <= last + Tries(flow[f].pc) + (visits' - visits)
           /\ since' + Tries(NoFlow.pc) <= since + Tries(flow[f].pc) + (visits' - visits)
      BY <1>0, <1>2, <1>3, <1>5, <3>1, <3>2, <3>3 DEF Tries, guard, sessions
    <3> QED BY <1>0, <1>2, <1>3, <1>5, <3>1, <3>2, <3>3, <3>90, <3>91, GuardKind
  <2> QED BY <2>2, <2>3
<1> QED BY <1>0, <1>4, <1>5 DEF CountFailure, TypeOK

LEMMA ReadLockKeeps ==
  ASSUME IInv, NEW f \in Flows, ReadLock(f)
  PROVE  IInv'
<1>0. TypeOK /\ flow[f].pc = "readLock" /\ AttDue
  BY DEF IInv, ReadLock, At
<1>1. PICK rec \in FlowType : /\ flow' = [flow EXCEPT ![f] = rec]
                              /\ IF Locked THEN rec.pc = "idle"
                                 ELSE rec.pc = "setLock" /\ rec.att = flow[f].att
  BY <1>0, ToEffect, EndEffect DEF ReadLock, Pcs
<1>2. UNCHANGED <<now, guard, tables, sessions, tab, visits>>
  BY DEF ReadLock
<1>3. /\ fails \in Nat /\ resets \in Nat /\ last \in Nat /\ visits \in Nat /\ since \in Nat /\ until \in Nat
      /\ now \in Nat
  BY <1>0, BoundsAssumption DEF TypeOK, Ids
<1>4. TypeOK'
  BY <1>0, <1>1, <1>2 DEF TypeOK, guard, tables, sessions
<1>5. LockedWhenDue'
  <2>1. CASE Locked
    BY <1>2, <1>3, <2>1 DEF Locked, LockedWhenDue, guard
  <2>2. CASE ~Locked
    BY <1>0, <1>1, <2>2 DEF LockedWhenDue, TypeOK
  <2> QED BY <2>1, <2>2
<1>6. rec.pc \in {"idle", "setLock"} /\ (rec.pc = "setLock" => rec.att >= Tiers[1].threshold)
  BY <1>0, <1>1 DEF AttDue
<1>90. CountsSince'
  BY <1>0, <1>1, <1>2, <1>3, <1>4, <1>5, <1>6 DEF IInv, CountsSince, guard
<1>91. /\ fails' + Tries(rec.pc) <= fails + Tries(flow[f].pc) + (visits' - visits)
       /\ resets' + Tries(rec.pc) <= resets + Tries(flow[f].pc) + (visits' - visits)
       /\ last' + Tries(rec.pc) <= last + Tries(flow[f].pc) + (visits' - visits)
       /\ since' + Tries(rec.pc) <= since + Tries(flow[f].pc) + (visits' - visits)
  BY <1>0, <1>1, <1>2, <1>3, <1>4, <1>5, <1>6 DEF Tries, guard, sessions
<1> QED BY <1>0, <1>1, <1>2, <1>3, <1>4, <1>5, <1>6, <1>90, <1>91, GuardKind

LEMMA SetLockKeeps ==
  ASSUME IInv, NEW f \in Flows, SetLock(f)
  PROVE  IInv'
<1>0. TypeOK /\ flow[f].pc = "setLock" /\ AttDue /\ flow[f] \in FlowType
  BY DEF IInv, SetLock, At, TypeOK
<1>1. NoFlow \in FlowType /\ flow' = [flow EXCEPT ![f] = NoFlow] /\ NoFlow.pc = "idle"
  BY EndEffect DEF SetLock
<1>2. UNCHANGED <<now, fails, resets, since, overtook, tables, sessions, tab, visits>>
  BY DEF SetLock
<1>3. /\ fails \in Nat /\ resets \in Nat /\ last \in Nat /\ visits \in Nat /\ since \in Nat /\ until \in Nat
      /\ now \in Nat /\ flow[f].att \in Nat
  BY <1>0, BoundsAssumption DEF TypeOK, Ids, FlowType
<1>4. Duration(flow[f].att) \in Nat \ {0}
  BY <1>0, <1>3, DurationType DEF AttDue
<1>5. /\ until' \in Nat /\ hiccup' \in BOOLEAN
      /\ until' # 0 \/ hiccup'
  <2>1. CASE until' = now + Duration(flow[f].att) /\ UNCHANGED hiccup
    BY <1>0, <1>3, <1>4, <2>1 DEF TypeOK
  <2>2. CASE hiccup' = TRUE /\ UNCHANGED until
    BY <1>3, <2>2
  <2> QED BY <2>1, <2>2 DEF SetLock
<1>6. TypeOK'
  BY <1>0, <1>1, <1>2, <1>5 DEF TypeOK, tables, sessions
<1>7. LockedWhenDue'
  BY <1>5 DEF LockedWhenDue
<1>90. CountsSince'
  BY <1>0, <1>1, <1>2, <1>3, <1>6 DEF IInv, CountsSince, guard
<1>91. /\ fails' + Tries(NoFlow.pc) <= fails + Tries(flow[f].pc) + (visits' - visits)
       /\ resets' + Tries(NoFlow.pc) <= resets + Tries(flow[f].pc) + (visits' - visits)
       /\ last' + Tries(NoFlow.pc) <= last + Tries(flow[f].pc) + (visits' - visits)
       /\ since' + Tries(NoFlow.pc) <= since + Tries(flow[f].pc) + (visits' - visits)
  <2>1. Tries(NoFlow.pc) = 0 /\ Tries(flow[f].pc) = 0
    BY <1>0, <1>1 DEF Tries
  <2>2. fails' = fails /\ resets' = resets /\ last' = last /\ visits' = visits /\ since' = since
    BY <1>2 DEF sessions
  <2> QED BY <1>3, <2>1, <2>2
<1> QED BY <1>0, <1>1, <1>2, <1>3, <1>6, <1>90, <1>91, <1>7, GuardKind

LEMMA ResetKeeps ==
  ASSUME IInv, ResetFailedAttempts
  PROVE  IInv'
<1>0. TypeOK /\ AttDue /\ Counted /\ LockedWhenDue /\ CountsSince
  BY DEF IInv
<1>1. /\ UNCHANGED <<now, since, tables, sessions, tab, flow, visits>>
      /\ resets > 0 /\ resets' = resets - 1
  BY DEF ResetFailedAttempts
<1>2. \/ fails' = 0 /\ until' = 0 /\ overtook' = (overtook \/ since > 0) /\ UNCHANGED hiccup
      \/ hiccup' = TRUE /\ UNCHANGED <<fails, until, overtook>>
  BY DEF ResetFailedAttempts
<1>3. fails \in Nat /\ resets \in Nat /\ last \in Nat /\ visits \in Nat /\ since \in Nat
  BY <1>0 DEF TypeOK, Ids
<1>4. TypeOK'
  <2>1. fails' \in Ids /\ resets' \in Ids /\ until' \in Nat
    BY <1>0, <1>1, <1>2, <1>3, BoundsAssumption DEF TypeOK, Ids
  <2>2. hiccup' \in BOOLEAN /\ overtook' \in BOOLEAN
    BY <1>0, <1>2 DEF TypeOK
  <2> QED BY <1>0, <1>1, <2>1, <2>2 DEF TypeOK, tables, sessions
<1>5. AttDue'
  BY <1>0, <1>1 DEF AttDue
<1>6. Counted'
  <2>1. Trying' = Trying
    BY <1>1 DEF Trying
  <2> QED BY <1>0, <1>1, <1>2, <1>3, <2>1, TryingFinite DEF Counted, sessions
<1>7. LockedWhenDue' /\ CountsSince'
  <2>1. CASE fails' = 0 /\ overtook' = (overtook \/ since > 0)
    <3>1. overtook' \/ ~(since > 0)
      BY <2>1
    <3>2. since' = since
      BY <1>1
    <3>3. LockedWhenDue'
      BY <1>3, <3>1, <3>2, Threshold DEF LockedWhenDue
    <3>4. CountsSince'
      BY <1>3, <2>1, <3>1, <3>2 DEF CountsSince
    <3> QED BY <3>3, <3>4
  <2>2. CASE hiccup' = TRUE /\ UNCHANGED <<fails, until, overtook>>
    BY <1>0, <1>1, <2>2 DEF LockedWhenDue, CountsSince
  <2> QED BY <1>2, <2>1, <2>2
<1> QED BY <1>4, <1>5, <1>6, <1>7 DEF IInv

-----------------------------------------------------------------------------
(* Signing up *)

(* A step that may touch the tables, but no sign-in. *)
LEMMA SignUpKind ==
  ASSUME IInv, TypeOK', NEW f \in Flows, NEW rec \in FlowType,
         flow' = [flow EXCEPT ![f] = rec],
         flow[f].pc \in {"before", "insert", "sync"},
         rec.pc \in {"idle", "insert", "sync", "session"},
         fails' = fails, until' = until, resets' = resets, hiccup' = hiccup, since' = since, overtook' = overtook,
         last' = last, visits' = visits
  PROVE  IInv'
<1>0. TypeOK /\ AttDue /\ Counted
  BY DEF IInv
<1>1. /\ flow'[f] = rec /\ \A g \in Flows \ {f} : flow'[g] = flow[g]
      /\ Cardinality(Trying) \in Nat /\ Cardinality(Trying)' = Cardinality(Trying)
  BY <1>0, OneFlow DEF Trying
<1>2. AttDue'
  BY <1>0, <1>1 DEF AttDue
<1>3. Counted'
  BY <1>0, <1>1 DEF Counted, guard
<1>4. LockedWhenDue'
  BY LockDueAsBefore DEF guard
<1>5. CountsSince'
  BY DEF IInv, CountsSince
<1> QED BY <1>2, <1>3, <1>4, <1>5 DEF IInv

LEMMA CreateBeforeKeeps ==
  ASSUME IInv, NEW f \in Flows, CreateBefore(f)
  PROVE  IInv'
<1>0. TypeOK /\ flow[f].pc = "before"
  BY DEF IInv, CreateBefore, At
<1>1. PICK rec \in FlowType : flow' = [flow EXCEPT ![f] = rec] /\ rec.pc \in {"idle", "insert"}
  BY <1>0, ToEffect, EndEffect DEF CreateBefore, Pcs
<1>2. UNCHANGED <<now, guard, tables, sessions, tab, visits>>
  BY DEF CreateBefore
<1>3. TypeOK'
  BY <1>0, <1>1, <1>2 DEF TypeOK, guard, tables, sessions
<1>4. visits \in Nat /\ last \in Nat
  BY <1>0 DEF TypeOK, Ids
<1>90. /\ fails' = fails /\ until' = until /\ resets' = resets /\ hiccup' = hiccup /\ since' = since /\ overtook' = overtook
       /\ ba' = ba /\ legacy' = legacy
  BY <1>0, <1>1, <1>2, <1>3, <1>4 DEF guard, tables
<1>91. visits' >= visits /\ last' <= last + (visits' - visits)
  BY <1>0, <1>1, <1>2, <1>3, <1>4 DEF sessions
<1>92. flow[f].pc \notin Watched /\ rec.pc \notin Watched
  BY <1>0, <1>1, <1>2, <1>3, <1>4 DEF Watched
<1> QED BY <1>0, <1>1, <1>2, <1>3, <1>4, <1>90, <1>91, <1>92, UnwatchedStep

LEMMA CreateUserKeeps ==
  ASSUME IInv, NEW f \in Flows, CreateUser(f)
  PROVE  IInv'
<1>0. TypeOK /\ flow[f].pc = "insert"
  BY DEF IInv, CreateUser, At
<1>1. PICK rec \in FlowType : /\ flow' = [flow EXCEPT ![f] = rec]
                              /\ IF ba = "none" THEN rec.pc = "sync" ELSE rec.pc = "idle"
  BY <1>0, ToEffect, EndEffect DEF CreateUser, Pcs
<1>2. /\ UNCHANGED <<now, guard, legacy, onboarded, sessions, tab, visits>>
      /\ ba' = IF ba = "none" THEN "unverified" ELSE ba
  BY DEF CreateUser
<1>3. TypeOK'
  BY <1>0, <1>1, <1>2 DEF TypeOK, guard, sessions
<1>90. /\ fails' = fails /\ until' = until /\ resets' = resets /\ hiccup' = hiccup /\ since' = since /\ overtook' = overtook
       /\ last' = last /\ visits' = visits
  BY <1>0, <1>1, <1>2, <1>3 DEF guard, sessions
<1> QED BY <1>0, <1>1, <1>2, <1>3, <1>90, SignUpKind

LEMMA CreateAfterKeeps ==
  ASSUME IInv, NEW f \in Flows, CreateAfter(f)
  PROVE  IInv'
<1>0. TypeOK /\ flow[f].pc = "sync"
  BY DEF IInv, CreateAfter, At
<1>1. PICK rec \in FlowType : flow' = [flow EXCEPT ![f] = rec] /\ rec.pc \in {"idle", "session"}
  BY <1>0, ToEffect, EndEffect DEF CreateAfter, Pcs
<1>2. UNCHANGED <<now, guard, ba, onboarded, sessions, tab, visits>>
  BY DEF CreateAfter
<1>3. legacy' \in BOOLEAN
  BY <1>0 DEF CreateAfter, TypeOK
<1>4. TypeOK'
  BY <1>0, <1>1, <1>2, <1>3 DEF TypeOK, guard, sessions
<1>90. /\ fails' = fails /\ until' = until /\ resets' = resets /\ hiccup' = hiccup /\ since' = since /\ overtook' = overtook
       /\ last' = last /\ visits' = visits
  BY <1>0, <1>1, <1>2, <1>4 DEF guard, sessions
<1> QED BY <1>0, <1>1, <1>2, <1>4, <1>90, SignUpKind

-----------------------------------------------------------------------------
(* The store *)

(* A step that leaves guard and tables alone. *)
LEMMA StoreKind ==
  ASSUME IInv, NEW f \in Flows, NEW rec \in FlowType,
         flow' = [flow EXCEPT ![f] = rec],
         flow[f].pc \notin Watched, rec.pc \notin Watched,
         now' = now, fails' = fails, until' = until, resets' = resets, hiccup' = hiccup, since' = since, overtook' = overtook,
         ba' = ba, legacy' = legacy, last' = last,
         onboarded' \in BOOLEAN, live' \subseteq live, cookie' \in {0, cookie},
         tab' \in TabType, visits' \in Ids, visits' >= visits
  PROVE  IInv'
<1>0. TypeOK
  BY DEF IInv
<1>1. flow' \in [Flows -> FlowType]
  BY <1>0, OneFlow
<1>2. last \in Nat /\ visits \in Nat /\ visits' \in Nat
  BY <1>0 DEF TypeOK, Ids
<1>3. live' \in SUBSET (1..last') /\ cookie' \in 0..last'
  BY <1>0, <1>2 DEF TypeOK
<1>4. TypeOK'
  <2>1. hiccup' \in BOOLEAN /\ legacy' \in BOOLEAN /\ overtook' \in BOOLEAN
    BY <1>0 DEF TypeOK
  <2>2. /\ now' \in 0..MaxNow /\ until' \in Nat /\ fails' \in Ids /\ resets' \in Ids
        /\ ba' \in {"none", "unverified", "ok"} /\ last' \in Ids /\ since' \in Ids
    BY <1>0 DEF TypeOK
  <2> QED BY <1>1, <1>3, <2>1, <2>2 DEF TypeOK
<1>5. last' <= last + (visits' - visits)
  <2>1. ASSUME NEW a \in Nat, NEW b \in Nat, NEW c \in Nat, c >= b
        PROVE  a <= a + (c - b)
    BY <2>1
  <2>2. visits' \in Nat /\ visits \in Nat /\ last \in Nat
    BY <1>2
  <2> QED BY <2>1, <2>2
<1> QED BY <1>4, <1>5, UnwatchedStep

LEMMA GetSessionKeeps ==
  ASSUME IInv, NEW f \in Flows, GetSession(f)
  PROVE  IInv'
<1>0. TypeOK /\ flow[f].pc = "session" /\ flow[f] \in FlowType
  BY DEF IInv, GetSession, At, TypeOK
<1>1. PICK s \in {0, cookie} :
        flow' = [flow EXCEPT ![f] = [flow[f] EXCEPT !.pc = "gotSession", !.sess = s]]
  BY DEF GetSession
<1>2. s \in Ids
  BY <1>0, BoundsAssumption DEF TypeOK, Ids
<1> DEFINE rec == [flow[f] EXCEPT !.pc = "gotSession", !.sess = s]
<1>3. rec \in FlowType /\ rec.pc = "gotSession"
  BY <1>0, <1>2 DEF FlowType
<1>4. flow' = [flow EXCEPT ![f] = rec]
  BY <1>1
<1> HIDE DEF rec
<1>5. UNCHANGED <<now, guard, tables, sessions, tab, visits>>
  BY DEF GetSession
<1>90. /\ now' = now /\ fails' = fails /\ until' = until /\ resets' = resets
       /\ hiccup' = hiccup /\ since' = since /\ overtook' = overtook /\ ba' = ba /\ legacy' = legacy
       /\ last' = last
  BY <1>0, <1>3, <1>4, <1>5 DEF guard, tables, sessions
<1>91. onboarded' \in BOOLEAN /\ live' \subseteq live /\ cookie' \in {0, cookie} /\ tab' \in TabType
  BY <1>0, <1>3, <1>4, <1>5 DEF TypeOK, tables, sessions
<1>92. visits' \in Ids /\ visits' >= visits
  BY <1>0, <1>3, <1>4, <1>5 DEF TypeOK, Ids
<1>93. flow[f].pc \notin Watched /\ rec.pc \notin Watched
  BY <1>0, <1>3, <1>4, <1>5 DEF Watched
<1> QED BY <1>0, <1>3, <1>4, <1>5, <1>90, <1>91, <1>92, <1>93, StoreKind

LEMMA MeKeeps ==
  ASSUME IInv, NEW f \in Flows, Me(f)
  PROVE  IInv'
<1>0. TypeOK /\ flow[f].pc = "me" /\ flow[f] \in FlowType
  BY DEF IInv, Me, At, TypeOK
<1>1. PICK u \in {"fallback", "denied", "done", "new"} :
        flow' = [flow EXCEPT ![f] = [flow[f] EXCEPT !.pc = "gotMe", !.user = u]]
  BY DEF Me
<1> DEFINE rec == [flow[f] EXCEPT !.pc = "gotMe", !.user = u]
<1>3. rec \in FlowType /\ rec.pc = "gotMe"
  BY <1>0 DEF FlowType
<1>4. flow' = [flow EXCEPT ![f] = rec]
  BY <1>1
<1> HIDE DEF rec
<1>5. UNCHANGED <<now, guard, tables, sessions, tab, visits>>
  BY DEF Me
<1>90. /\ now' = now /\ fails' = fails /\ until' = until /\ resets' = resets
       /\ hiccup' = hiccup /\ since' = since /\ overtook' = overtook /\ ba' = ba /\ legacy' = legacy
       /\ last' = last
  BY <1>0, <1>3, <1>4, <1>5 DEF guard, tables, sessions
<1>91. onboarded' \in BOOLEAN /\ live' \subseteq live /\ cookie' \in {0, cookie} /\ tab' \in TabType
  BY <1>0, <1>3, <1>4, <1>5 DEF TypeOK, tables, sessions
<1>92. visits' \in Ids /\ visits' >= visits
  BY <1>0, <1>3, <1>4, <1>5 DEF TypeOK, Ids
<1>93. flow[f].pc \notin Watched /\ rec.pc \notin Watched
  BY <1>0, <1>3, <1>4, <1>5 DEF Watched
<1> QED BY <1>0, <1>3, <1>4, <1>5, <1>90, <1>91, <1>92, <1>93, StoreKind

LEMMA SignedOutType ==
  ASSUME NEW t \in TabType
  PROVE  SignedOut(t) \in TabType
<1>1. 0 \in Ids
  BY BoundsAssumption DEF Ids
<1> QED BY <1>1 DEF SignedOut, TabType

LEMMA PageType ==
  ASSUME NEW t \in TabType, NEW p \in Pages
  PROVE  [t EXCEPT !.page = p] \in TabType
  BY DEF TabType

LEMMA ApplySessionKeeps ==
  ASSUME IInv, NEW f \in Flows, ApplySession(f)
  PROVE  IInv'
<1>0. TypeOK /\ flow[f].pc = "gotSession" /\ flow[f] \in FlowType /\ tab \in TabType
  BY DEF IInv, ApplySession, At, TypeOK
<1>1. PICK rec \in FlowType : flow' = [flow EXCEPT ![f] = rec] /\ rec.pc \in {"idle", "me"}
  BY <1>0, ToEffect, EndEffect DEF ApplySession, Pcs
<1>2. UNCHANGED <<now, guard, tables, sessions, visits>>
  BY DEF ApplySession
<1>3. tab' \in TabType
  <2>1. CASE tab' = [tab EXCEPT !.token = flow[f].sess]
    BY <1>0, <2>1 DEF TabType, FlowType
  <2>2. CASE tab' = [tab EXCEPT !.loading = FALSE, !.page = IF @ = "register" THEN "login" ELSE @]
    BY <1>0, <2>2 DEF TabType, Pages
  <2>3. CASE tab' = [SignedOut(tab) EXCEPT !.page =
                       IF flow[f].kind = "totp" /\ @ = "twoFactor" THEN "dashboard" ELSE @]
    <3>1. SignedOut(tab) \in TabType
      BY <1>0, SignedOutType
    <3>2. PICK p \in Pages : tab' = [SignedOut(tab) EXCEPT !.page = p]
      <4>1. SignedOut(tab).page \in Pages /\ "dashboard" \in Pages
        BY <3>1 DEF TabType, Pages
      <4> QED BY <2>3, <4>1
    <3> QED BY <3>1, <3>2, PageType
  <2> QED BY <2>1, <2>2, <2>3 DEF ApplySession
<1>90. /\ now' = now /\ fails' = fails /\ until' = until /\ resets' = resets
       /\ hiccup' = hiccup /\ since' = since /\ overtook' = overtook /\ ba' = ba /\ legacy' = legacy
       /\ last' = last
  BY <1>0, <1>1, <1>2, <1>3 DEF guard, tables, sessions
<1>91. onboarded' \in BOOLEAN /\ live' \subseteq live /\ cookie' \in {0, cookie} /\ tab' \in TabType
  BY <1>0, <1>1, <1>2, <1>3 DEF TypeOK, tables, sessions
<1>92. visits' \in Ids /\ visits' >= visits
  BY <1>0, <1>1, <1>2, <1>3 DEF TypeOK, Ids
<1>93. flow[f].pc \notin Watched /\ rec.pc \notin Watched
  BY <1>0, <1>1, <1>2, <1>3 DEF Watched
<1> QED BY <1>0, <1>1, <1>2, <1>3, <1>90, <1>91, <1>92, <1>93, StoreKind

LEMMA ApplyMeKeeps ==
  ASSUME IInv, NEW f \in Flows, ApplyMe(f)
  PROVE  IInv'
<1>0. TypeOK /\ flow[f].pc = "gotMe" /\ flow[f] \in FlowType /\ tab \in TabType
  BY DEF IInv, ApplyMe, At, TypeOK
<1>1. NoFlow \in FlowType /\ flow' = [flow EXCEPT ![f] = NoFlow] /\ NoFlow.pc = "idle"
  BY EndEffect DEF ApplyMe
<1>2. UNCHANGED <<now, guard, tables, sessions, visits>>
  BY DEF ApplyMe
<1>3. tab' \in TabType
  <2>1. (IF flow[f].user = "denied" THEN "fallback" ELSE flow[f].user) \in
          {"none", "new", "done", "fallback"}
    BY <1>0 DEF FlowType
  <2>2. PICK p \in Pages, u \in {"none", "new", "done", "fallback"} :
          tab' = [tab EXCEPT !.auth = TRUE, !.loading = FALSE, !.user = u, !.page = p]
    <3>1. tab.page \in Pages /\ "dashboard" \in Pages /\ AfterDenial(tab.page) \in Pages
      BY <1>0 DEF TabType, Pages, AfterDenial
    <3> QED BY <2>1, <3>1 DEF ApplyMe
  <2> QED BY <1>0, <2>2 DEF TabType
<1>90. /\ now' = now /\ fails' = fails /\ until' = until /\ resets' = resets
       /\ hiccup' = hiccup /\ since' = since /\ overtook' = overtook /\ ba' = ba /\ legacy' = legacy
       /\ last' = last
  BY <1>0, <1>1, <1>2, <1>3 DEF guard, tables, sessions
<1>91. onboarded' \in BOOLEAN /\ live' \subseteq live /\ cookie' \in {0, cookie} /\ tab' \in TabType
  BY <1>0, <1>1, <1>2, <1>3 DEF TypeOK, tables, sessions
<1>92. visits' \in Ids /\ visits' >= visits
  BY <1>0, <1>1, <1>2, <1>3 DEF TypeOK, Ids
<1>93. flow[f].pc \notin Watched /\ NoFlow.pc \notin Watched
  BY <1>0, <1>1, <1>2, <1>3 DEF Watched
<1> QED BY <1>0, <1>1, <1>2, <1>3, <1>90, <1>91, <1>92, <1>93, StoreKind

LEMMA SignOutKeeps ==
  ASSUME IInv, NEW f \in Flows, SignOut(f)
  PROVE  IInv'
<1>0. TypeOK /\ flow[f].pc = "signOut"
  BY DEF IInv, SignOut, At
<1>1. PICK rec \in FlowType : flow' = [flow EXCEPT ![f] = rec] /\ rec.pc = "wipe"
  BY <1>0, ToEffect DEF SignOut, Pcs
<1>2. /\ UNCHANGED <<now, guard, tables, last, tab, visits>>
      /\ live' \subseteq live /\ cookie' \in {0, cookie}
  BY DEF SignOut
<1>90. /\ now' = now /\ fails' = fails /\ until' = until /\ resets' = resets
       /\ hiccup' = hiccup /\ since' = since /\ overtook' = overtook /\ ba' = ba /\ legacy' = legacy
       /\ last' = last
  BY <1>0, <1>1, <1>2 DEF guard, tables, sessions
<1>91. onboarded' \in BOOLEAN /\ live' \subseteq live /\ cookie' \in {0, cookie} /\ tab' \in TabType
  BY <1>0, <1>1, <1>2 DEF TypeOK, tables, sessions
<1>92. visits' \in Ids /\ visits' >= visits
  BY <1>0, <1>1, <1>2 DEF TypeOK, Ids
<1>93. flow[f].pc \notin Watched /\ rec.pc \notin Watched
  BY <1>0, <1>1, <1>2 DEF Watched
<1> QED BY <1>0, <1>1, <1>2, <1>90, <1>91, <1>92, <1>93, StoreKind

LEMMA WipeKeeps ==
  ASSUME IInv, NEW f \in Flows, Wipe(f)
  PROVE  IInv'
<1>0. TypeOK /\ flow[f].pc = "wipe"
  BY DEF IInv, Wipe, At
<1>1. NoFlow \in FlowType /\ flow' = [flow EXCEPT ![f] = NoFlow] /\ NoFlow.pc = "idle"
  BY EndEffect DEF Wipe
<1>2. /\ UNCHANGED <<now, guard, tables, sessions, visits>>
      /\ tab' \in TabType
  BY <1>0, SignedOutType DEF Wipe, TypeOK
<1>90. /\ now' = now /\ fails' = fails /\ until' = until /\ resets' = resets
       /\ hiccup' = hiccup /\ since' = since /\ overtook' = overtook /\ ba' = ba /\ legacy' = legacy
       /\ last' = last
  BY <1>0, <1>1, <1>2 DEF guard, tables, sessions
<1>91. onboarded' \in BOOLEAN /\ live' \subseteq live /\ cookie' \in {0, cookie} /\ tab' \in TabType
  BY <1>0, <1>1, <1>2 DEF TypeOK, tables, sessions
<1>92. visits' \in Ids /\ visits' >= visits
  BY <1>0, <1>1, <1>2 DEF TypeOK, Ids
<1>93. flow[f].pc \notin Watched /\ NoFlow.pc \notin Watched
  BY <1>0, <1>1, <1>2 DEF Watched
<1> QED BY <1>0, <1>1, <1>2, <1>90, <1>91, <1>92, <1>93, StoreKind

LEMMA FinishSurveyKeeps ==
  ASSUME IInv, NEW f \in Flows, FinishSurvey(f)
  PROVE  IInv'
<1>0. TypeOK /\ flow[f].pc = "saved" /\ tab \in TabType
  BY DEF IInv, FinishSurvey, At, TypeOK
<1>1. NoFlow \in FlowType /\ flow' = [flow EXCEPT ![f] = NoFlow] /\ NoFlow.pc = "idle"
  BY EndEffect DEF FinishSurvey
<1>2. UNCHANGED <<now, guard, tables, sessions, visits>>
  BY DEF FinishSurvey
<1>3. tab' \in TabType
  BY <1>0 DEF FinishSurvey, TabType, Pages, AfterDenial
<1>90. /\ now' = now /\ fails' = fails /\ until' = until /\ resets' = resets
       /\ hiccup' = hiccup /\ since' = since /\ overtook' = overtook /\ ba' = ba /\ legacy' = legacy
       /\ last' = last
  BY <1>0, <1>1, <1>2, <1>3 DEF guard, tables, sessions
<1>91. onboarded' \in BOOLEAN /\ live' \subseteq live /\ cookie' \in {0, cookie} /\ tab' \in TabType
  BY <1>0, <1>1, <1>2, <1>3 DEF TypeOK, tables, sessions
<1>92. visits' \in Ids /\ visits' >= visits
  BY <1>0, <1>1, <1>2, <1>3 DEF TypeOK, Ids
<1>93. flow[f].pc \notin Watched /\ NoFlow.pc \notin Watched
  BY <1>0, <1>1, <1>2, <1>3 DEF Watched
<1> QED BY <1>0, <1>1, <1>2, <1>3, <1>90, <1>91, <1>92, <1>93, StoreKind

-----------------------------------------------------------------------------
(* What the user starts *)

LEMMA StartEffect ==
  ASSUME NEW f \in Flows, NEW pc \in Pcs, NEW mine \in BOOLEAN,
         NEW kind \in {"login", "totp", "register", "fetchMe", "logout"},
         Start(f, kind, pc, mine)
  PROVE  /\ flow[f].pc = "idle"
         /\ \E rec \in FlowType : flow' = [flow EXCEPT ![f] = rec] /\ rec.pc = pc
<1> DEFINE rec == [NoFlow EXCEPT !.kind = kind, !.pc = pc, !.tab = mine]
<1>1. rec \in FlowType /\ rec.pc = pc
  BY NoFlowType DEF FlowType, Pcs
<1> QED BY <1>1 DEF Start, At

LEMMA VisitMade ==
  ASSUME TypeOK, Visit
  PROVE  visits' = visits + 1 /\ visits' \in Ids /\ visits \in Nat /\ visits' \in Nat
  BY BoundsAssumption DEF TypeOK, Visit, Ids

LEMMA PostSignInKeeps ==
  ASSUME IInv, NEW f \in Flows, PostSignIn(f)
  PROVE  IInv'
<1>0. TypeOK
  BY DEF IInv
<1>1. PICK rec \in FlowType : flow' = [flow EXCEPT ![f] = rec] /\ rec.pc = "check"
  BY StartEffect DEF PostSignIn, Pcs
<1>2. flow[f].pc = "idle"
  BY DEF PostSignIn, Start, At
<1>3. UNCHANGED <<now, guard, tables, sessions, tab>>
  BY DEF PostSignIn
<1>4. visits' = visits + 1 /\ visits' \in Ids /\ visits \in Nat
  BY <1>0, VisitMade DEF PostSignIn
<1>5. fails \in Nat /\ resets \in Nat /\ last \in Nat /\ since \in Nat
  BY <1>0 DEF TypeOK, Ids
<1>6. TypeOK'
  BY <1>0, <1>1, <1>3, <1>4 DEF TypeOK, guard, tables, sessions
<1>7. LockedWhenDue'
  BY <1>1, <1>2, <1>3, LockDueAsBefore DEF guard
<1>90. CountsSince'
  BY <1>1, <1>2, <1>3, <1>4, <1>5, <1>6, <1>7 DEF IInv, CountsSince, guard
<1>91. /\ fails' + Tries(rec.pc) <= fails + Tries(flow[f].pc) + (visits' - visits)
       /\ resets' + Tries(rec.pc) <= resets + Tries(flow[f].pc) + (visits' - visits)
       /\ last' + Tries(rec.pc) <= last + Tries(flow[f].pc) + (visits' - visits)
       /\ since' + Tries(rec.pc) <= since + Tries(flow[f].pc) + (visits' - visits)
  BY <1>1, <1>2, <1>3, <1>4, <1>5, <1>6, <1>7 DEF Tries, guard, sessions
<1> QED BY <1>1, <1>2, <1>3, <1>4, <1>5, <1>6, <1>7, <1>90, <1>91, GuardKind

LEMMA SubmitKeeps ==
  ASSUME IInv, NEW f \in Flows, Submit(f)
  PROVE  IInv'
<1>0. TypeOK
  BY DEF IInv
<1>1. PICK rec \in FlowType : flow' = [flow EXCEPT ![f] = rec] /\ rec.pc = "before"
  BY StartEffect DEF Submit, Pcs
<1>2. flow[f].pc = "idle" /\ UNCHANGED <<now, guard, tables, sessions, tab>>
  BY DEF Submit, Start, At
<1>3. visits' \in Ids /\ visits' >= visits
  BY <1>0, VisitMade DEF Submit
<1>90. /\ now' = now /\ fails' = fails /\ until' = until /\ resets' = resets
       /\ hiccup' = hiccup /\ since' = since /\ overtook' = overtook /\ ba' = ba /\ legacy' = legacy
       /\ last' = last
  BY <1>0, <1>1, <1>2, <1>3 DEF guard, tables, sessions
<1>91. onboarded' \in BOOLEAN /\ live' \subseteq live /\ cookie' \in {0, cookie} /\ tab' \in TabType
  BY <1>0, <1>1, <1>2, <1>3 DEF TypeOK, tables, sessions
<1>92. visits' \in Ids /\ visits' >= visits
  BY <1>0, <1>1, <1>2, <1>3 DEF TypeOK, Ids
<1>93. flow[f].pc \notin Watched /\ rec.pc \notin Watched
  BY <1>0, <1>1, <1>2, <1>3 DEF Watched
<1> QED BY <1>0, <1>1, <1>2, <1>3, <1>90, <1>91, <1>92, <1>93, StoreKind

LEMMA RefreshKeeps ==
  ASSUME IInv, NEW f \in Flows, Refresh(f)
  PROVE  IInv'
<1>0. TypeOK
  BY DEF IInv
<1>1. PICK rec \in FlowType : flow' = [flow EXCEPT ![f] = rec] /\ rec.pc = "session"
  BY StartEffect DEF Refresh, Pcs
<1>2. flow[f].pc = "idle" /\ UNCHANGED <<now, guard, tables, sessions, tab>>
  BY DEF Refresh, Start, At
<1>3. visits' \in Ids /\ visits' >= visits
  BY <1>0, VisitMade DEF Refresh
<1>90. /\ now' = now /\ fails' = fails /\ until' = until /\ resets' = resets
       /\ hiccup' = hiccup /\ since' = since /\ overtook' = overtook /\ ba' = ba /\ legacy' = legacy
       /\ last' = last
  BY <1>0, <1>1, <1>2, <1>3 DEF guard, tables, sessions
<1>91. onboarded' \in BOOLEAN /\ live' \subseteq live /\ cookie' \in {0, cookie} /\ tab' \in TabType
  BY <1>0, <1>1, <1>2, <1>3 DEF TypeOK, tables, sessions
<1>92. visits' \in Ids /\ visits' >= visits
  BY <1>0, <1>1, <1>2, <1>3 DEF TypeOK, Ids
<1>93. flow[f].pc \notin Watched /\ rec.pc \notin Watched
  BY <1>0, <1>1, <1>2, <1>3 DEF Watched
<1> QED BY <1>0, <1>1, <1>2, <1>3, <1>90, <1>91, <1>92, <1>93, StoreKind

LEMMA MountKeeps ==
  ASSUME IInv, NEW f \in Flows, Mount(f)
  PROVE  IInv'
<1>0. TypeOK
  BY DEF IInv
<1>1. PICK rec \in FlowType : flow' = [flow EXCEPT ![f] = rec] /\ rec.pc = "session"
  BY StartEffect DEF Mount, Pcs
<1>2. flow[f].pc = "idle" /\ UNCHANGED <<now, guard, tables, sessions, visits>>
  BY DEF Mount, Start, At
<1>3. tab' \in TabType
  BY <1>0 DEF Mount, TypeOK, TabType
<1>90. /\ now' = now /\ fails' = fails /\ until' = until /\ resets' = resets
       /\ hiccup' = hiccup /\ since' = since /\ overtook' = overtook /\ ba' = ba /\ legacy' = legacy
       /\ last' = last
  BY <1>0, <1>1, <1>2, <1>3 DEF guard, tables, sessions
<1>91. onboarded' \in BOOLEAN /\ live' \subseteq live /\ cookie' \in {0, cookie} /\ tab' \in TabType
  BY <1>0, <1>1, <1>2, <1>3 DEF TypeOK, tables, sessions
<1>92. visits' \in Ids /\ visits' >= visits
  BY <1>0, <1>1, <1>2, <1>3 DEF TypeOK, Ids
<1>93. flow[f].pc \notin Watched /\ rec.pc \notin Watched
  BY <1>0, <1>1, <1>2, <1>3 DEF Watched
<1> QED BY <1>0, <1>1, <1>2, <1>3, <1>90, <1>91, <1>92, <1>93, StoreKind

LEMMA LogoutKeeps ==
  ASSUME IInv, NEW f \in Flows, Logout(f)
  PROVE  IInv'
<1>0. TypeOK
  BY DEF IInv
<1>1. PICK rec \in FlowType : flow' = [flow EXCEPT ![f] = rec] /\ rec.pc = "signOut"
  BY StartEffect DEF Logout, Pcs
<1>2. flow[f].pc = "idle" /\ UNCHANGED <<now, guard, tables, last, cookie, tab>> /\ live' \subseteq live
  BY DEF Logout, Start, At
<1>3. visits' \in Ids /\ visits' >= visits
  BY <1>0, VisitMade DEF Logout
<1>90. /\ now' = now /\ fails' = fails /\ until' = until /\ resets' = resets
       /\ hiccup' = hiccup /\ since' = since /\ overtook' = overtook /\ ba' = ba /\ legacy' = legacy
       /\ last' = last
  BY <1>0, <1>1, <1>2, <1>3 DEF guard, tables, sessions
<1>91. onboarded' \in BOOLEAN /\ live' \subseteq live /\ cookie' \in {0, cookie} /\ tab' \in TabType
  BY <1>0, <1>1, <1>2, <1>3 DEF TypeOK, tables, sessions
<1>92. visits' \in Ids /\ visits' >= visits
  BY <1>0, <1>1, <1>2, <1>3 DEF TypeOK, Ids
<1>93. flow[f].pc \notin Watched /\ rec.pc \notin Watched
  BY <1>0, <1>1, <1>2, <1>3 DEF Watched
<1> QED BY <1>0, <1>1, <1>2, <1>3, <1>90, <1>91, <1>92, <1>93, StoreKind

LEMMA VerifyTotpKeeps ==
  ASSUME IInv, NEW f \in Flows, VerifyTotp(f)
  PROVE  IInv'
<1>0. TypeOK /\ Counted
  BY DEF IInv
<1>1. PICK rec \in FlowType : flow' = [flow EXCEPT ![f] = rec] /\ rec.pc = "session"
  BY StartEffect DEF VerifyTotp, Pcs
<1>2. flow[f].pc = "idle" /\ UNCHANGED <<now, guard, tables, tab>>
  BY DEF VerifyTotp, Start, At
<1>3. visits' = visits + 1 /\ visits' \in Ids /\ visits \in Nat
  BY <1>0, VisitMade DEF VerifyTotp
<1>4. last \in Nat /\ last <= visits
  BY <1>0, TryingFinite DEF TypeOK, Ids, Counted
<1>5. last' = last + 1 /\ last' \in Ids
  <2>0. NewSession(TRUE)
    BY DEF VerifyTotp
  <2>1. last' = last + 1
    BY <2>0 DEF NewSession
  <2> QED BY <1>3, <1>4, <2>1, BoundsAssumption DEF Ids
<1>6. live' \in SUBSET (1..last') /\ cookie' \in 0..last'
  <2>1. live \subseteq 1..last /\ live' = live \cup {last'} /\ cookie' = last'
    BY <1>0 DEF TypeOK, VerifyTotp, NewSession
  <2> QED BY <1>4, <1>5, <2>1
<1>7. TypeOK'
  BY <1>0, <1>1, <1>2, <1>3, <1>5, <1>6 DEF TypeOK, guard, tables
<1>90. /\ fails' = fails /\ until' = until /\ resets' = resets /\ hiccup' = hiccup /\ since' = since /\ overtook' = overtook
       /\ ba' = ba /\ legacy' = legacy
  BY <1>1, <1>2, <1>3, <1>4, <1>5, <1>7 DEF guard, tables
<1>91. visits' >= visits /\ last' <= last + (visits' - visits)
  BY <1>1, <1>2, <1>3, <1>4, <1>5, <1>7 DEF sessions
<1>92. flow[f].pc \notin Watched /\ rec.pc \notin Watched
  BY <1>1, <1>2, <1>3, <1>4, <1>5, <1>7 DEF Watched
<1> QED BY <1>1, <1>2, <1>3, <1>4, <1>5, <1>7, <1>90, <1>91, <1>92, UnwatchedStep

LEMMA PostSurveyKeeps ==
  ASSUME IInv, NEW f \in Flows, PostSurvey(f)
  PROVE  IInv'
<1>0. TypeOK
  BY DEF IInv
<1>1. PICK u \in {"done", "fallback", "denied"} :
        flow' = [flow EXCEPT ![f] = [NoFlow EXCEPT !.kind = "survey", !.pc = "saved",
                   !.tab = TRUE, !.user = u]]
  BY DEF PostSurvey
<1> DEFINE rec == [NoFlow EXCEPT !.kind = "survey", !.pc = "saved", !.tab = TRUE, !.user = u]
<1>2. rec \in FlowType /\ rec.pc = "saved"
  BY NoFlowType DEF FlowType
<1>3. flow' = [flow EXCEPT ![f] = rec]
  BY <1>1
<1> HIDE DEF rec
<1>4. /\ flow[f].pc = "idle" /\ UNCHANGED <<now, guard, ba, legacy, sessions, tab>>
      /\ onboarded' \in BOOLEAN
  BY <1>0 DEF PostSurvey, At, TypeOK
<1>5. visits' \in Ids /\ visits' >= visits
  BY <1>0, VisitMade DEF PostSurvey
<1>90. /\ now' = now /\ fails' = fails /\ until' = until /\ resets' = resets
       /\ hiccup' = hiccup /\ since' = since /\ overtook' = overtook /\ ba' = ba /\ legacy' = legacy
       /\ last' = last
  BY <1>0, <1>2, <1>3, <1>4, <1>5 DEF guard, tables, sessions
<1>91. onboarded' \in BOOLEAN /\ live' \subseteq live /\ cookie' \in {0, cookie} /\ tab' \in TabType
  BY <1>0, <1>2, <1>3, <1>4, <1>5 DEF TypeOK, tables, sessions
<1>92. visits' \in Ids /\ visits' >= visits
  BY <1>0, <1>2, <1>3, <1>4, <1>5 DEF TypeOK, Ids
<1>93. flow[f].pc \notin Watched /\ rec.pc \notin Watched
  BY <1>0, <1>2, <1>3, <1>4, <1>5 DEF Watched
<1> QED BY <1>0, <1>2, <1>3, <1>4, <1>5, <1>90, <1>91, <1>92, <1>93, StoreKind

-----------------------------------------------------------------------------
(* Steps without a flow *)

LEMMA EffectKeeps ==
  ASSUME IInv, Effect
  PROVE  IInv'
<1>0. TypeOK /\ tab \in TabType
  BY DEF IInv, TypeOK
<1>1. /\ UNCHANGED <<now, guard, tables, sessions, visits>>
      /\ flow' = flow \/ flow' = Abandoned
  BY DEF Effect, LoginEffect, ShellEffect, OnboardingEffect, ApiUnauthorized, Reload
<1>2. tab' \in TabType
  <2>1. NewTab("login") \in TabType
    BY BoundsAssumption DEF NewTab, TabType, Pages, Ids
  <2>2. CASE Reload
    BY <2>1, <2>2 DEF Reload
  <2>3. CASE ~Reload
    <3>1. PICK p \in Pages : tab' = [tab EXCEPT !.page = p]
      <4>1. tab.page \in Pages /\ AfterDenial(tab.page) \in Pages
            /\ {"login", "onboarding", "dashboard"} \subseteq Pages
        BY <1>0 DEF TabType, Pages, AfterDenial
      <4> QED BY <2>3, <4>1 DEF Effect, LoginEffect, ShellEffect, OnboardingEffect, ApiUnauthorized
    <3> QED BY <1>0, <3>1, PageType
  <2> QED BY <2>2, <2>3
<1>3. flow' \in [Flows -> FlowType]
  BY <1>0, <1>1, AbandonedType DEF TypeOK
<1>4. TypeOK'
  BY <1>0, <1>1, <1>2, <1>3 DEF TypeOK, guard, tables, sessions
<1>5. visits \in Nat
  BY <1>0 DEF TypeOK, Ids
<1>90. /\ fails' = fails /\ until' = until /\ resets' = resets /\ hiccup' = hiccup /\ since' = since /\ overtook' = overtook
       /\ legacy' = legacy /\ last' = last
  BY <1>1, <1>4, <1>5 DEF guard, tables, sessions, vars
<1>91. (flow' = flow \/ flow' = Abandoned) /\ (ba # "none" \/ ba' = "none")
  BY <1>1, <1>4, <1>5 DEF tables, vars
<1>92. visits' >= visits
  BY <1>1, <1>4, <1>5 DEF vars
<1> QED BY <1>1, <1>4, <1>5, <1>90, <1>91, <1>92, FlowsKept

LEMMA OpenPageKeeps ==
  ASSUME IInv, NEW p \in {"login", "register", "dashboard"}, OpenPage(p)
  PROVE  IInv'
<1>0. TypeOK
  BY DEF IInv
<1>1. UNCHANGED <<now, guard, tables, sessions>> /\ flow' = Abandoned
  BY DEF OpenPage
<1>2. tab' \in TabType
  <2>1. PICK q \in Pages : tab' = NewTab(q)
    BY DEF OpenPage, Pages
  <2> QED BY <2>1, BoundsAssumption DEF NewTab, TabType, Ids
<1>3. visits' \in Ids /\ visits' >= visits
  BY <1>0, VisitMade DEF OpenPage
<1>4. TypeOK'
  BY <1>0, <1>1, <1>2, <1>3, AbandonedType DEF TypeOK, guard, tables, sessions
<1>90. /\ fails' = fails /\ until' = until /\ resets' = resets /\ hiccup' = hiccup /\ since' = since /\ overtook' = overtook
       /\ legacy' = legacy /\ last' = last
  BY <1>1, <1>3, <1>4 DEF guard, tables, sessions, vars
<1>91. (flow' = flow \/ flow' = Abandoned) /\ (ba # "none" \/ ba' = "none")
  BY <1>1, <1>3, <1>4 DEF tables, vars
<1>92. visits' >= visits
  BY <1>1, <1>3, <1>4 DEF vars
<1> QED BY <1>1, <1>3, <1>4, <1>90, <1>91, <1>92, FlowsKept

LEMMA OtherKeeps ==
  ASSUME IInv, VerifyEmail \/ Tick \/ \E s \in live : EndSession(s)
  PROVE  IInv'
<1>0. TypeOK
  BY DEF IInv
<1>1. /\ UNCHANGED <<guard, legacy, onboarded, last, cookie, tab, flow, visits>>
      /\ ba' = ba \/ (ba # "none" /\ ba' = "ok")
      /\ live' \subseteq live /\ now' \in 0..MaxNow
  BY <1>0, BoundsAssumption DEF VerifyEmail, Tick, EndSession, TypeOK, tables, sessions
<1>2. TypeOK'
  BY <1>0, <1>1 DEF TypeOK, guard
<1>3. visits \in Nat
  BY <1>0 DEF TypeOK, Ids
<1>90. /\ fails' = fails /\ until' = until /\ resets' = resets /\ hiccup' = hiccup /\ since' = since /\ overtook' = overtook
       /\ legacy' = legacy /\ last' = last
  BY <1>1, <1>2, <1>3 DEF guard, tables, sessions, vars
<1>91. (flow' = flow \/ flow' = Abandoned) /\ (ba # "none" \/ ba' = "none")
  BY <1>1, <1>2, <1>3 DEF tables, vars
<1>92. visits' >= visits
  BY <1>1, <1>2, <1>3 DEF vars
<1> QED BY <1>1, <1>2, <1>3, <1>90, <1>91, <1>92, FlowsKept

-----------------------------------------------------------------------------
LEMMA InitIInv == Init => IInv
<1> SUFFICES ASSUME Init PROVE IInv
  OBVIOUS
<1>1. TypeOK
  <2>1. tab \in TabType
    BY BoundsAssumption DEF Init, NewTab, TabType, Pages, Ids
  <2>2. flow \in [Flows -> FlowType]
    BY NoFlowType DEF Init
  <2>3. 0 \in Ids /\ 0 \in 0..MaxNow
    BY BoundsAssumption DEF Ids
  <2>4. hiccup \in BOOLEAN /\ legacy \in BOOLEAN /\ onboarded \in BOOLEAN /\ overtook \in BOOLEAN
    BY DEF Init
  <2> QED BY <2>1, <2>2, <2>3, <2>4 DEF Init, TypeOK
<1>2. \A f \in Flows : flow[f].pc = "idle"
  BY NoFlowType DEF Init
<1>3. AttDue
  BY <1>2 DEF AttDue
<1>4. Counted
  <2>1. Trying = {}
    BY <1>2 DEF Trying
  <2>2. Cardinality(Trying) = 0
    BY <2>1, FS_EmptySet
  <2> QED BY <2>2 DEF Init, Counted
<1>5. LockedWhenDue
  BY Threshold DEF Init, LockedWhenDue
<1>6. CountsSince
  BY DEF Init, CountsSince
<1> QED BY <1>1, <1>3, <1>4, <1>5, <1>6 DEF IInv

LEMMA StutterIInv == IInv /\ UNCHANGED vars => IInv'
<1> SUFFICES ASSUME IInv, UNCHANGED vars PROVE IInv'
  OBVIOUS
<1>1. TypeOK'
  BY DEF IInv, TypeOK, vars, guard, tables, sessions
<1>2. visits \in Nat
  BY DEF IInv, TypeOK, Ids
<1>90. /\ fails' = fails /\ until' = until /\ resets' = resets /\ hiccup' = hiccup /\ since' = since /\ overtook' = overtook
       /\ legacy' = legacy /\ last' = last
  BY <1>1, <1>2 DEF guard, tables, sessions, vars
<1>91. (flow' = flow \/ flow' = Abandoned) /\ (ba # "none" \/ ba' = "none")
  BY <1>1, <1>2 DEF tables, vars
<1>92. visits' >= visits
  BY <1>1, <1>2 DEF vars
<1> QED BY <1>1, <1>2, <1>90, <1>91, <1>92, FlowsKept

LEMMA NextIInv == IInv /\ [Next]_vars => IInv'
<1> SUFFICES ASSUME IInv, Next PROVE IInv'
  BY StutterIInv
<1>1. ASSUME NEW f \in Flows, GuardStep(f) PROVE IInv'
  BY <1>1, CheckLockoutKeeps, SignInOkKeeps, SecondFactorDueKeeps, SignInRefusedKeeps,
     CountFailureKeeps, ReadLockKeeps, SetLockKeeps DEF GuardStep
<1>2. ASSUME NEW f \in Flows, SignUpStep(f) PROVE IInv'
  BY <1>2, CreateBeforeKeeps, CreateUserKeeps, CreateAfterKeeps DEF SignUpStep
<1>3. ASSUME NEW f \in Flows, StoreStep(f) PROVE IInv'
  BY <1>3, GetSessionKeeps, ApplySessionKeeps, MeKeeps, ApplyMeKeeps, SignOutKeeps,
     WipeKeeps, FinishSurveyKeeps DEF StoreStep
<1>4. ASSUME NEW f \in Flows, UserStep(f) PROVE IInv'
  BY <1>4, PostSignInKeeps, SubmitKeeps, RefreshKeeps, VerifyTotpKeeps, LogoutKeeps,
     PostSurveyKeeps DEF UserStep
<1> QED BY <1>1, <1>2, <1>3, <1>4, MountKeeps, OpenPageKeeps, OtherKeeps, EffectKeeps,
           ResetKeeps DEF Next

(* An account whose failures since its last successful sign-in reached a  *)
(* threshold carries a lock, however failures and locks of other requests *)
(* overlap, unless the reset of an earlier sign-in ran after them or a    *)
(* database error was logged.                                             *)
THEOREM SigningInIsGuarded == Spec => []SignInSafe
<1>1. IInv => SignInSafe
  BY DEF IInv, SignInSafe
<1> QED BY <1>1, InitIInv, NextIInv, PTL DEF Spec

-----------------------------------------------------------------------------
(* Connecting an account *)

Named == OtpOps \cup {"send"}
Mine(c) == call[c].here /\ call[c].op \in Named

(* What a request and its answer look like on their way. *)
CallShape(k) ==
  /\ k.op = "none" <=> k.pc = "idle"
  /\ k.op = "none" => ~k.here
  /\ k.pc = "counted" => k.op \in {"verify", "twofa", "qr2fa", "upload"}
  /\ k.pc \in {"sent", "counted"} => k.ans = "none"
  /\ k.ans \in Steps => k.op \in Named /\ k.id # 0 /\ k.ans # "phone"
  /\ k.ans = "done" => k.op \in {"verify", "twofa", "qr2fa", "upload"}
  /\ k.op = "send" => k.ans \in Steps \cup {"none", "failed"} /\ (k.ans \notin Steps => k.id = 0)
  /\ k.op = "qr2fa" => k.id # 0

CallsShaped == \A c \in Calls : CallShape(call[c])

(* A request that its form still waits for is of the tab that is open. *)
TabOf(op) == CASE op \in {"qrInit", "qr2fa"} -> "qr" [] op = "upload" -> "upload" [] OTHER -> "otp"

(* The phone tab waits for one request at a time; meanwhile its flow is   *)
(* the one the request was made for, or the phone was changed.            *)
FlowShaped ==
  /\ ui.tab # "otp" \/ ui.step = "phone" => ui.flow = 0
  /\ \A c \in Calls : call[c].here => ui.tab = TabOf(call[c].op)
  /\ \A c \in Calls : Mine(c) => ui.loading
  /\ \A c, d \in Calls : Mine(c) /\ Mine(d) => c = d
  /\ \A c \in Calls : Mine(c) => IF call[c].op = "send" THEN ui.flow = 0
                                  ELSE ui.flow \in {0, call[c].id} /\ (ui.flow # 0 \/ ui.crossed)

CountHolds == overlap \/
  /\ \A c \in Calls : CallAt(c, "counted") => call[c].phone \in rows \/ Cardinality(rows) < Limit
  /\ \A q \in LoginIds : qr[q].counted => qr[q].phone \in rows \/ Cardinality(rows) < Limit

Found(a, q) ==
   CASE a = "failed" -> qr[q].st \in {"failed", "swept"}
          /\ \A c \in Calls : ~(call[c].op = "qr2fa" /\ CallAt(c, "counted") /\ call[c].id = q)
     [] a = "requires_2fa" -> qr[q].st \in {"requires_2fa", "success", "swept"}
     [] a = "success" -> qr[q].st \in {"success", "swept"}
     [] OTHER -> TRUE

QrShaped ==
  /\ \A c \in Calls : call[c].op = "qr2fa" /\ CallAt(c, "counted") => Found("requires_2fa", call[c].id)
  /\ \A c \in Calls : call[c].op = "qr2fa" /\ call[c].ans = "done" => Found("success", call[c].id)
  /\ \A k \in Polls : poll[k].pc # "idle" => poll[k].id # 0
  /\ \A k \in Polls : poll[k].pc = "answered" => Found(poll[k].ans, poll[k].id)
  /\ ui.qid # 0 /\ ~ui.mixed => Found(ui.qst, ui.qid)
  /\ ui.qid = 0 /\ ~ui.mixed => ui.qst = "pending"

LoginInv ==
  /\ LoginTypeOK /\ CallsShaped /\ FlowShaped /\ NoOrphanLogin /\ OneLoginPerPhone
  /\ WithinPlan /\ CountHolds /\ StepHasFlow /\ QrShaped

-----------------------------------------------------------------------------
LEMMA SomebodyType == Somebody \in Phones
  BY AccountLoginAssumption DEF Somebody

LEMMA LoginIdsType == LoginIds \subseteq Nat /\ 0 \notin LoginIds /\ 0..MaxIds = LoginIds \cup {0}
  BY AccountLoginAssumption DEF LoginIds

LEMMA FirstType ==
  ASSUME NEW S, S \subseteq LoginIds, S # {}
  PROVE  First(S) \in S
<1>1. S \subseteq Nat
  BY LoginIdsType
<1>2. PICK m \in S : \A n \in S : <<n, m>> \notin OpToRel(<, Nat)
  BY <1>1, WFMin, NatLessThanWellFounded
<1>3. \A n \in S : ~(n < m)
  BY <1>1, <1>2 DEF OpToRel
<1>4. \A n \in S : m <= n
  BY <1>1, <1>3
<1> QED BY <1>4 DEF First

LEMMA NoneTypes == NoLogin \in PendType /\ NoQr \in QrType /\ NoCall \in CallType /\ NoPoll \in PollType
  BY SomebodyType, LoginIdsType
  DEF NoLogin, NoQr, NoCall, NoPoll, Steps, Final, Ops, OtpOps, Answers, PendType, QrType, CallType, PollType

LEMMA ConstTypes ==
  /\ OtpOps \cup {"none", "send", "change", "qrInit", "qr2fa", "upload"} = Ops
  /\ Steps \cup {"none", "ok", "done", "failed"} = Answers
  /\ {"phone", "setupEmail", "setupEmailCode", "code", "twofa"} = Steps
  /\ 0 \in 0..MaxIds /\ \A p \in LoginIds : p \in 0..MaxIds
  BY LoginIdsType DEF Ops, Answers, Steps

LEMMA FreshType == ASSUME NEW to \in Tabs PROVE Fresh(to) \in UiType
  BY LoginIdsType DEF Fresh, UiType, Steps, Final

LEMMA UiFields ==
  ASSUME NEW u \in UiType
  PROVE  /\ u.tab \in Tabs /\ u.step \in Steps /\ u.flow \in 0..MaxIds /\ u.qid \in 0..MaxIds
         /\ u.qst \in Final \cup {"pending"} /\ u.loading \in BOOLEAN /\ u.crossed \in BOOLEAN /\ u.mixed \in BOOLEAN
         /\ \A b \in BOOLEAN : [u EXCEPT !.loading = b] \in UiType
         /\ \A q \in Final \cup {"pending"} : [u EXCEPT !.qst = q] \in UiType
  BY DEF UiType

LEMMA CallFields ==
  ASSUME NEW k \in CallType
  PROVE  /\ k.op \in Ops /\ k.id \in 0..MaxIds /\ k.phone \in Phones
         /\ k.pc \in {"idle", "sent", "counted", "answered"} /\ k.ans \in Answers /\ k.here \in BOOLEAN
         /\ [k EXCEPT !.here = FALSE] \in CallType /\ [k EXCEPT !.pc = "counted"] \in CallType
         /\ \A a \in Answers, id \in 0..MaxIds : [k EXCEPT !.pc = "answered", !.ans = a, !.id = id] \in CallType
  BY DEF CallType

LEMMA PollFields ==
  ASSUME NEW k \in PollType
  PROVE  /\ k.id \in 0..MaxIds /\ k.pc \in {"idle", "sent", "answered"}
         /\ k.ans \in Final \cup {"pending", "none"} /\ k.here \in BOOLEAN
         /\ [k EXCEPT !.here = FALSE] \in PollType
         /\ \A a \in Final \cup {"pending", "none"} : [k EXCEPT !.pc = "answered", !.ans = a] \in PollType
  BY DEF PollType

LEMMA PendFields ==
  ASSUME NEW k \in PendType
  PROVE  /\ k.st \in {"none", "open", "gone"} /\ k.stage \in Steps /\ k.phone \in Phones
         /\ [k EXCEPT !.st = "gone"] \in PendType /\ \A t \in Steps : [k EXCEPT !.stage = t] \in PendType
  BY DEF PendType

LEMMA QrFields ==
  ASSUME NEW k \in QrType
  PROVE  /\ k.st \in Final \cup {"none", "pending", "swept"} /\ k.phone \in Phones /\ k.counted \in BOOLEAN
         /\ \A t \in Final \cup {"none", "pending", "swept"} : [k EXCEPT !.st = t] \in QrType
         /\ \A p \in Phones : [k EXCEPT !.st = "requires_2fa", !.phone = p] \in QrType
         /\ \A t \in Final \cup {"none", "pending", "swept"} : [k EXCEPT !.counted = FALSE, !.st = t] \in QrType
  BY DEF QrType, Final

LEMMA RequestType ==
  ASSUME NEW op \in Ops, NEW id \in 0..MaxIds, NEW p \in Phones
  PROVE  Request(op, id, p) \in CallType
  BY DEF Request, CallType, Answers

LEMMA LeaveType ==
  ASSUME LoginTypeOK, NEW to \in Tabs, Leave(to)
  PROVE  ui' \in UiType /\ cancels' \subseteq LoginIds
<1>1. ui' \in UiType
  BY FreshType, UiFields DEF Leave
<1>2. cancels' \subseteq LoginIds
  BY LoginIdsType, UiFields DEF Leave, LoginTypeOK, cancel
<1> QED BY <1>1, <1>2

LEMMA UnmountedType ==
  ASSUME LoginTypeOK
  PROVE  Unmounted \in [Calls -> CallType] /\ UnmountedPolls \in [Polls -> PollType]
<1>1. \A c \in Calls : [call[c] EXCEPT !.here = FALSE] \in CallType
  BY CallFields DEF LoginTypeOK
<1>2. \A c \in Polls : [poll[c] EXCEPT !.here = FALSE] \in PollType
  BY PollFields DEF LoginTypeOK
<1> QED BY <1>1, <1>2 DEF Unmounted, UnmountedPolls

(* A request of a call that is given a slot. *)
LEMMA SlotType ==
  ASSUME NEW f \in [Calls -> CallType], NEW c \in Calls, NEW k \in CallType
  PROVE  [f EXCEPT ![c] = k] \in [Calls -> CallType]
  OBVIOUS

LEMMA UserType ==
  ASSUME LoginTypeOK, NEW c \in Calls, LoginUserStep(c)
  PROVE  LoginTypeOK'
<1>0. clicks' \in 0..MaxClicks
  BY AccountLoginAssumption DEF LoginTypeOK, LoginUserStep, sendCode, SubmitCall, changePhone, RefreshQr, submit2FA, Upload, SwitchTab, User
<1>1. CASE sendCode(c)
  <2>0. PICK p \in Phones : call' = [call EXCEPT ![c] = Request("send", 0, p)]
    BY <1>1 DEF sendCode
  <2>1. call' \in [Calls -> CallType]
    BY <2>0, RequestType, ConstTypes, SlotType DEF LoginTypeOK
  <2>2. ui' \in UiType
    BY <1>1, UiFields DEF sendCode, LoginTypeOK
  <2> QED BY <1>0, <1>1, <2>1, <2>2 DEF sendCode, LoginTypeOK, server
<1>2. CASE SubmitCall(c)
  <2>1. StepOps \subseteq Ops
    BY ConstTypes DEF StepOps, OtpOps
  <2>2. ui.flow \in LoginIds
    BY <1>2, LoginIdsType, UiFields DEF SubmitCall, LoginTypeOK
  <2>3. ui.flow \in 0..MaxIds /\ pend[ui.flow].phone \in Phones
    BY <2>2, ConstTypes, PendFields DEF LoginTypeOK
  <2>4. call' \in [Calls -> CallType]
    BY <1>2, <2>1, <2>3, RequestType, SlotType DEF SubmitCall, LoginTypeOK
  <2>5. ui' \in UiType
    BY <1>2, UiFields DEF SubmitCall, LoginTypeOK
  <2> QED BY <1>0, <1>2, <2>4, <2>5 DEF SubmitCall, LoginTypeOK, server
<1>3. CASE changePhone(c)
  <2>2. ui.flow \in LoginIds
    BY <1>3, LoginIdsType, UiFields DEF changePhone, LoginTypeOK
  <2>3. ui.flow \in 0..MaxIds /\ pend[ui.flow].phone \in Phones
    BY <2>2, ConstTypes, PendFields DEF LoginTypeOK
  <2>4. call' \in [Calls -> CallType]
    BY <1>3, <2>3, RequestType, SlotType, ConstTypes DEF changePhone, LoginTypeOK
  <2> QED BY <1>0, <1>3, <2>4 DEF changePhone, LoginTypeOK, server
<1>4. CASE RefreshQr(c)
  <2>1. call' \in [Calls -> CallType]
    BY <1>4, RequestType, ConstTypes, SomebodyType, SlotType DEF RefreshQr, LoginTypeOK
  <2>2. ui' \in UiType
    BY <1>4, LoginIdsType DEF RefreshQr, LoginTypeOK, UiType, initQR
  <2> QED BY <1>0, <1>4, <2>1, <2>2 DEF RefreshQr, LoginTypeOK, server
<1>5. CASE submit2FA(c)
  <2>2. ui.qid \in LoginIds
    BY <1>5, LoginIdsType, UiFields DEF submit2FA, LoginTypeOK
  <2>3. ui.qid \in 0..MaxIds /\ qr[ui.qid].phone \in Phones
    BY <2>2, ConstTypes, QrFields DEF LoginTypeOK
  <2>4. call' \in [Calls -> CallType]
    BY <1>5, <2>3, RequestType, SlotType, ConstTypes DEF submit2FA, LoginTypeOK
  <2>5. ui' \in UiType
    BY <1>5, UiFields DEF submit2FA, LoginTypeOK
  <2> QED BY <1>0, <1>5, <2>4, <2>5 DEF submit2FA, LoginTypeOK, server
<1>6. CASE Upload(c)
  <2>0. PICK p \in Phones : call' = [call EXCEPT ![c] = Request("upload", 0, p)]
    BY <1>6 DEF Upload
  <2>1. call' \in [Calls -> CallType]
    BY <2>0, RequestType, ConstTypes, SlotType DEF LoginTypeOK
  <2>2. ui' \in UiType
    BY <1>6, UiFields DEF Upload, LoginTypeOK
  <2> QED BY <1>0, <1>6, <2>1, <2>2 DEF Upload, LoginTypeOK, server
<1>7. ASSUME NEW to \in Tabs, SwitchTab(to, c) PROVE LoginTypeOK'
  <2>1. ui' \in UiType /\ cancels' \subseteq LoginIds
    BY <1>7, LeaveType DEF SwitchTab
  <2>2. call' \in [Calls -> CallType]
    <3>1. Unmounted \in [Calls -> CallType]
      BY UnmountedType
    <3>2. Request("qrInit", 0, Somebody) \in CallType
      BY RequestType, ConstTypes, SomebodyType, SlotType
    <3>3. \/ call' = Unmounted
          \/ call' = [Unmounted EXCEPT ![c] = Request("qrInit", 0, Somebody)]
      BY <1>7 DEF SwitchTab
    <3> QED BY <3>1, <3>2, <3>3
  <2>3. poll' \in [Polls -> PollType]
    BY <1>7, UnmountedType DEF SwitchTab
  <2> QED BY <1>0, <1>7, <2>1, <2>2, <2>3 DEF SwitchTab, LoginTypeOK, server
<1> QED BY <1>1, <1>2, <1>3, <1>4, <1>5, <1>6, <1>7 DEF LoginUserStep

LEMMA ReplyType ==
  ASSUME LoginTypeOK, NEW c \in Calls, NEW a \in Answers, NEW id \in 0..MaxIds, Reply(c, a, id)
  PROVE  call' \in [Calls -> CallType]
<1>1. [call[c] EXCEPT !.pc = "answered", !.ans = a, !.id = id] \in CallType
  BY CallFields DEF LoginTypeOK
<1> QED BY <1>1, SlotType DEF Reply, LoginTypeOK

LEMMA DoneType ==
  ASSUME LoginTypeOK, NEW c \in Calls, Done(c)
  PROVE  call' \in [Calls -> CallType]
  BY NoneTypes, SlotType DEF Done, LoginTypeOK

LEMMA DiscardType ==
  ASSUME LoginTypeOK, NEW l
  PROVE  discard(l) \in [LoginIds -> PendType]
<1>1. \A m \in LoginIds : [pend[m] EXCEPT !.st = "gone"] \in PendType
  BY PendFields DEF LoginTypeOK
<1> QED BY <1>1 DEF discard, LoginTypeOK

LEMMA FaultType ==
  ASSUME LoginTypeOK, Fault PROVE faults' \in 0..MaxFaults
  BY AccountLoginAssumption DEF LoginTypeOK, Fault

LEMMA CreateType ==
  ASSUME LoginTypeOK, NEW l \in LoginIds, NEW p \in Phones, NEW t \in Steps
  PROVE  create(l, p, t) \in [LoginIds -> PendType]
<1>1. \A m \in LoginIds : [pend[m] EXCEPT !.st = "gone"] \in PendType /\ pend[m] \in PendType
  BY PendFields DEF LoginTypeOK
<1>2. [st |-> "open", stage |-> t, phone |-> p] \in PendType
  BY DEF PendType
<1> QED BY <1>1, <1>2 DEF create

LEMMA ServerType ==
  ASSUME LoginTypeOK, CallsShaped, NEW c \in Calls, ServerStep(c)
  PROVE  LoginTypeOK'
<1> USE DEF server
<1>0. call[c].id \in 0..MaxIds /\ call[c].phone \in Phones /\ call[c] \in CallType
  BY CallFields DEF LoginTypeOK
<1>1. CASE send_code(c)
  <2>1. First(Unused(pend)) \in LoginIds
    BY <1>1, FirstType DEF send_code, Unused
  <2> DEFINE f == First(Unused(pend))
  <2> HIDE DEF f
  <2>2. PICK stage \in {"code", "setupEmail"} :
           pend' = create(f, call[c].phone, stage) /\ Reply(c, stage, f)
    BY <1>1 DEF send_code, f
  <2>3. f \in LoginIds /\ f \in 0..MaxIds /\ stage \in Steps /\ stage \in Answers
    BY <2>1, ConstTypes DEF f
  <2>4. pend' \in [LoginIds -> PendType]
    BY <1>0, <2>2, <2>3, CreateType
  <2>5. call' \in [Calls -> CallType]
    BY <2>2, <2>3, ReplyType
  <2> QED BY <1>1, <2>4, <2>5 DEF send_code, LoginTypeOK
<1>2. CASE Advance(c)
  <2>1. PICK next \in Steps : pend' = [pend EXCEPT ![call[c].id].stage = next] /\ Reply(c, next, call[c].id)
    BY <1>2, ConstTypes DEF Advance
  <2>2. \A m \in LoginIds : [pend[m] EXCEPT !.stage = next] \in PendType
    BY PendFields DEF LoginTypeOK
  <2>3. pend' \in [LoginIds -> PendType]
    BY <2>1, <2>2 DEF LoginTypeOK
  <2>4. call' \in [Calls -> CallType]
    BY <1>0, <2>1, ReplyType, ConstTypes
  <2> QED BY <1>2, <2>3, <2>4 DEF Advance, LoginTypeOK
<1>3. CASE Refuse(c)
  <2>1. pend' \in [LoginIds -> PendType]
    BY <1>3, DiscardType DEF Refuse, LoginTypeOK
  <2>2. call' \in [Calls -> CallType]
    BY <1>0, <1>3, ReplyType, ConstTypes DEF Refuse
  <2>3. faults' \in 0..MaxFaults
    BY <1>3, FaultType DEF Refuse, LoginTypeOK
  <2> QED BY <1>3, <2>1, <2>2, <2>3 DEF Refuse, LoginTypeOK
<1>4. CASE Count(c)
  <2>1. CASE call' = [call EXCEPT ![c].pc = "counted"]
    <3>1. [call[c] EXCEPT !.pc = "counted"] \in CallType
      BY <1>0, CallFields
    <3> QED BY <1>4, <2>1, <3>1 DEF Count, LoginTypeOK
  <2>2. CASE Reply(c, "failed", call[c].id)
    BY <1>0, <1>4, <2>2, ReplyType, ConstTypes DEF Count, LoginTypeOK
  <2> QED BY <1>4, <2>1, <2>2 DEF Count
<1>5. CASE finish_login(c)
  <2>1. pend' \in [LoginIds -> PendType]
    BY <1>5, DiscardType DEF finish_login, LoginTypeOK
  <2>2. \A m \in LoginIds : [qr[m] EXCEPT !.st = "success"] \in QrType
    BY QrFields DEF LoginTypeOK, Final
  <2>3. qr' \in [LoginIds -> QrType]
    BY <1>5, <2>2 DEF finish_login, LoginTypeOK
  <2>4. call' \in [Calls -> CallType]
    BY <1>0, <1>5, ReplyType, ConstTypes DEF finish_login
  <2>5. rows' \subseteq Phones /\ overlap' \in BOOLEAN
    BY <1>0, <1>5 DEF finish_login, InsertRow, LoginTypeOK
  <2> QED BY <1>5, <2>1, <2>3, <2>4, <2>5 DEF finish_login, LoginTypeOK
<1>6. CASE FailAny(c)
  <2>1. call' \in [Calls -> CallType]
    BY <1>0, <1>6, ReplyType, ConstTypes DEF FailAny
  <2>2. faults' \in 0..MaxFaults
    BY <1>6, FaultType DEF FailAny, LoginTypeOK
  <2> QED BY <1>6, <2>1, <2>2 DEF FailAny, LoginTypeOK
<1>9. CASE AnswerLost(c)
  <2>1. call' \in [Calls -> CallType]
    BY <1>0, <1>9, ReplyType, ConstTypes DEF AnswerLost
  <2>2. faults' \in 0..MaxFaults
    BY <1>9, FaultType DEF AnswerLost
  <2>3. call[c].op = "send" => call[c].id \in LoginIds
    BY <1>0, <1>9, LoginIdsType DEF AnswerLost, CallsShaped, CallShape
  <2>4. stray' \subseteq LoginIds
    BY <1>9, <2>3 DEF AnswerLost, LoginTypeOK
  <2> QED BY <1>9, <2>1, <2>2, <2>4 DEF AnswerLost, LoginTypeOK
<1>7. CASE cancel_login(c)
  <2>1. pend' \in [LoginIds -> PendType]
    BY <1>7, DiscardType DEF cancel_login, LoginTypeOK
  <2>2. call' \in [Calls -> CallType]
    BY <1>0, <1>7, ReplyType, ConstTypes DEF cancel_login
  <2> QED BY <1>7, <2>1, <2>2 DEF cancel_login, LoginTypeOK
<1>8. CASE qr_login_init(c)
  <2> DEFINE f == First(Unused(qr))
  <2>1. f \in LoginIds
    BY <1>8, FirstType DEF qr_login_init, Unused
  <2> HIDE DEF f
  <2>2. qr' = [qr EXCEPT ![f].st = "pending"] /\ Reply(c, "ok", f)
    BY <1>8 DEF qr_login_init, f
  <2>3. [qr[f] EXCEPT !.st = "pending"] \in QrType
    BY <2>1, QrFields DEF LoginTypeOK
  <2>4. qr' \in [LoginIds -> QrType]
    BY <2>1, <2>2, <2>3 DEF LoginTypeOK
  <2>5. call' \in [Calls -> CallType]
    BY <2>1, <2>2, ReplyType, ConstTypes
  <2> QED BY <1>8, <2>4, <2>5 DEF qr_login_init, LoginTypeOK
<1> QED BY <1>1, <1>2, <1>3, <1>4, <1>5, <1>6, <1>7, <1>8, <1>9 DEF ServerStep

LEMMA AnswerType ==
  ASSUME LoginTypeOK, CallsShaped, NEW c \in Calls, AnswerStep(c)
  PROVE  LoginTypeOK'
<1> USE DEF server
<1>0. call[c].id \in 0..MaxIds /\ call[c] \in CallType
  BY CallFields DEF LoginTypeOK
<1>1. CASE HandleError(c)
  <2>1. ui' \in UiType
    BY <1>1, UiFields DEF HandleError, LoginTypeOK
  <2> QED BY <1>1, <2>1, DoneType DEF HandleError, LoginTypeOK
<1>2. CASE StepShown(c)
  <2>1. ui' \in UiType
    BY <1>0, <1>2 DEF StepShown, LoginTypeOK, applySentCode, UiType
  <2>2. call[c].op = "send" /\ ~call[c].here => call[c].id \in LoginIds
    BY <1>0, <1>2, LoginIdsType DEF StepShown, CallsShaped, CallShape
  <2>3. stray' \subseteq LoginIds
    BY <1>2, <2>2 DEF StepShown, LoginTypeOK
  <2> QED BY <1>2, <2>1, <2>3, DoneType DEF StepShown, LoginTypeOK
<1>3. CASE PhoneChanged(c)
  <2>1. ui' \in UiType
    BY <1>3, ConstTypes DEF PhoneChanged, LoginTypeOK, resetFlow, UiType, Steps
  <2>2. cancels' \subseteq LoginIds
    BY <1>3, LoginIdsType, UiFields DEF PhoneChanged, LoginTypeOK, cancel
  <2> QED BY <1>3, <2>1, <2>2, DoneType DEF PhoneChanged, LoginTypeOK
<1>4. CASE QrShown(c)
  <2>1. ui' \in UiType
    BY <1>0, <1>4 DEF QrShown, LoginTypeOK, UiType
  <2> QED BY <1>4, <2>1, DoneType DEF QrShown, LoginTypeOK
<1>5. CASE complete(c)
  <2>1. ui' \in UiType /\ cancels' \subseteq LoginIds
    BY <1>5, LeaveType DEF complete, Tabs
  <2>2. call' \in [Calls -> CallType]
    BY <1>5, UnmountedType, NoneTypes, SlotType DEF complete
  <2>3. poll' \in [Polls -> PollType]
    BY <1>5, UnmountedType DEF complete
  <2> QED BY <1>5, <2>1, <2>2, <2>3 DEF complete, LoginTypeOK
<1>6. CASE Accepted2FA(c)
  <2>1. ui' \in UiType
    BY <1>0, <1>6 DEF Accepted2FA, LoginTypeOK, UiType, Final
  <2> QED BY <1>6, <2>1, DoneType DEF Accepted2FA, LoginTypeOK
<1> QED BY <1>1, <1>2, <1>3, <1>4, <1>5, <1>6 DEF AnswerStep

LEMMA PendingType ==
  ASSUME LoginTypeOK, NEW l \in LoginIds, CancelArrives(l) \/ sweep_expired(l)
  PROVE  LoginTypeOK'
<1> USE DEF server
<1>1. CASE CancelArrives(l)
  <2>1. pend' \in [LoginIds -> PendType]
    BY <1>1, DiscardType DEF CancelArrives, LoginTypeOK
  <2>2. faults' \in 0..MaxFaults
    BY <1>1, FaultType DEF CancelArrives, LoginTypeOK
  <2> QED BY <1>1, <2>1, <2>2 DEF CancelArrives, LoginTypeOK
<1>2. CASE sweep_expired(l)
  BY <1>2, DiscardType, FaultType DEF sweep_expired, LoginTypeOK
<1> QED BY <1>1, <1>2

LEMMA WatcherType ==
  ASSUME LoginTypeOK, NEW q \in LoginIds,
         watch_qr_login(q) \/ WatcherInserts(q) \/ clean_pending_logins(q)
  PROVE  LoginTypeOK'
<1> USE DEF server
<1>0. qr[q] \in QrType
  BY DEF LoginTypeOK
<1>1. CASE watch_qr_login(q)
  <2>1. \A p \in Phones : /\ [st |-> "pending", phone |-> p, counted |-> TRUE] \in QrType
                          /\ [st |-> "failed", phone |-> p, counted |-> FALSE] \in QrType
                          /\ [qr[q] EXCEPT !.st = "requires_2fa", !.phone = p] \in QrType
    BY <1>0 DEF QrType, Final
  <2>2. [qr[q] EXCEPT !.st = "expired"] \in QrType
    BY <1>0 DEF QrType, Final
  <2>3. qr' \in [LoginIds -> QrType]
    BY <1>1, <2>1, <2>2 DEF watch_qr_login, LoginTypeOK
  <2> QED BY <1>1, <2>3 DEF watch_qr_login, LoginTypeOK
<1>2. CASE WatcherInserts(q)
  <2>1. \A t \in {"success", qr[q].st} : [qr[q] EXCEPT !.counted = FALSE, !.st = t] \in QrType
    BY <1>0 DEF QrType, Final
  <2>2. qr' = [qr EXCEPT ![q] = [@ EXCEPT !.counted = FALSE, !.st = IF qr[q].st = "pending" THEN "success" ELSE qr[q].st]]
    BY <1>0, <1>2 DEF WatcherInserts, LoginTypeOK
  <2>3. qr' \in [LoginIds -> QrType]
    BY <2>1, <2>2 DEF LoginTypeOK
  <2>4. rows' \subseteq Phones /\ overlap' \in BOOLEAN
    BY <1>0, <1>2, QrFields DEF WatcherInserts, InsertRow, LoginTypeOK
  <2> QED BY <1>2, <2>3, <2>4 DEF WatcherInserts, LoginTypeOK
<1>3. CASE clean_pending_logins(q)
  <2>1. [qr[q] EXCEPT !.st = "swept"] \in QrType
    BY <1>0, QrFields DEF Final
  <2>2. qr' \in [LoginIds -> QrType]
    BY <1>3, <2>1 DEF clean_pending_logins, LoginTypeOK
  <2> QED BY <1>3, <2>2, FaultType DEF clean_pending_logins, LoginTypeOK
<1> QED BY <1>1, <1>2, <1>3

LEMMA PollStepType ==
  ASSUME LoginTypeOK, QrShaped, NEW k \in Polls,
         Poll(k) \/ qr_login_status(k) \/ PollFails(k) \/ PollAnswered(k)
  PROVE  LoginTypeOK'
<1> USE DEF server
<1>0. poll[k] \in PollType
  BY DEF LoginTypeOK
<1>1. CASE Poll(k)
  <2>1. [id |-> ui.qid, pc |-> "sent", ans |-> "pending", here |-> TRUE] \in PollType
    BY UiFields DEF LoginTypeOK, PollType
  <2> QED BY <1>1, <2>1 DEF Poll, LoginTypeOK
<1>2. CASE qr_login_status(k)
  <2>1. poll[k].id \in LoginIds
    BY <1>0, <1>2, PollFields, LoginIdsType DEF qr_login_status, QrShaped
  <2> DEFINE a == IF qr[poll[k].id].st = "swept" THEN "none" ELSE qr[poll[k].id].st
  <2>2. a \in Final \cup {"pending", "none"}
    BY <2>1, QrFields DEF LoginTypeOK
  <2>3. poll' = [poll EXCEPT ![k] = [@ EXCEPT !.pc = "answered", !.ans = a]]
    BY <1>2 DEF qr_login_status
  <2> HIDE DEF a
  <2>4. [poll[k] EXCEPT !.pc = "answered", !.ans = a] \in PollType
    BY <1>0, <2>2, PollFields
  <2>5. poll' \in [Polls -> PollType]
    BY <2>3, <2>4 DEF LoginTypeOK
  <2> QED BY <1>2, <2>5 DEF qr_login_status, LoginTypeOK
<1>3. CASE PollFails(k)
  BY <1>3, NoneTypes, FaultType DEF PollFails, LoginTypeOK
<1>4. CASE PollAnswered(k)
  <2>1. ui' \in UiType
    BY <1>4 DEF PollAnswered, LoginTypeOK, UiType
  <2>2. push' \in BOOLEAN /\ poll' \in [Polls -> PollType]
    BY <1>4, NoneTypes DEF PollAnswered, LoginTypeOK
  <2> QED BY <1>4, <2>1, <2>2 DEF PollAnswered, LoginTypeOK
<1> QED BY <1>1, <1>2, <1>3, <1>4

LEMMA LoginPageType ==
  ASSUME LoginTypeOK, Countdown \/ Push
  PROVE  LoginTypeOK'
<1> USE DEF server
<1>1. CASE Countdown
  <2>1. ui' \in UiType
    BY <1>1 DEF Countdown, LoginTypeOK, UiType, Final
  <2> QED BY <1>1, <2>1, FaultType DEF Countdown, LoginTypeOK
<1>2. CASE Push
  <2>1. ui' \in UiType /\ cancels' \subseteq LoginIds
    BY <1>2, LeaveType DEF Push, Tabs
  <2> QED BY <1>2, <2>1, UnmountedType DEF Push, LoginTypeOK
<1> QED BY <1>1, <1>2

LEMMA TypeStep == LoginInv /\ [LoginNext]_loginVars => LoginTypeOK'
<1> SUFFICES ASSUME LoginInv, [LoginNext]_loginVars PROVE LoginTypeOK'
  OBVIOUS
<1>0. LoginTypeOK /\ CallsShaped /\ QrShaped
  BY DEF LoginInv
<1>1. CASE UNCHANGED loginVars
  BY <1>0, <1>1 DEF loginVars, server, LoginTypeOK
<1>2. CASE LoginNext
  BY <1>0, <1>2, UserType, ServerType, AnswerType, PendingType, WatcherType, PollStepType, LoginPageType DEF LoginNext
<1> QED BY <1>1, <1>2

-----------------------------------------------------------------------------
(* The requests keep their shape. *)

LEMMA ShapeSlot ==
  ASSUME LoginTypeOK, CallsShaped, NEW c \in Calls, NEW k, CallShape(k), call' = [call EXCEPT ![c] = k]
  PROVE  CallsShaped'
  BY DEF CallsShaped, LoginTypeOK

LEMMA NoCallShape == CallShape(NoCall)
  BY DEF CallShape, NoCall, Steps, Named, OtpOps

LEMMA RequestShape ==
  ASSUME NEW op \in Ops \ {"none"}, NEW id \in 0..MaxIds, NEW p,
         op = "send" => id = 0, op = "qr2fa" => id # 0
  PROVE  CallShape(Request(op, id, p))
  BY DEF CallShape, Request, Ops, OtpOps, Steps

LEMMA AwayShape == ASSUME NEW k \in CallType, CallShape(k) PROVE CallShape([k EXCEPT !.here = FALSE])
  BY DEF CallShape, CallType

LEMMA UnmountedShape ==
  ASSUME LoginTypeOK, CallsShaped
  PROVE  /\ \A c \in Calls : CallShape(Unmounted[c])
         /\ \A c \in Calls : \A k : CallShape(k) => \A d \in Calls : CallShape([Unmounted EXCEPT ![c] = k][d])
<1>1. \A c \in Calls : CallShape(Unmounted[c])
  BY AwayShape DEF LoginTypeOK, CallsShaped, Unmounted
<1>2. \A c \in Calls : \A k : CallShape(k) => \A d \in Calls : CallShape([Unmounted EXCEPT ![c] = k][d])
  BY <1>1 DEF Unmounted
<1> QED BY <1>1, <1>2

LEMMA ReplyShape ==
  ASSUME LoginTypeOK, CallsShaped, NEW c \in Calls, NEW a, NEW id, Reply(c, a, id),
         CallShape([call[c] EXCEPT !.pc = "answered", !.ans = a, !.id = id])
  PROVE  CallsShaped'
  BY ShapeSlot DEF Reply

LEMMA UserShape ==
  ASSUME LoginInv, NEW c \in Calls, LoginUserStep(c)
  PROVE  CallsShaped'
<1>0. LoginTypeOK /\ CallsShaped
  BY DEF LoginInv
<1>1. ASSUME NEW op \in Ops \ {"none"}, NEW id \in 0..MaxIds, NEW p,
             op = "send" => id = 0, op = "qr2fa" => id # 0,
             call' = [call EXCEPT ![c] = Request(op, id, p)]
      PROVE  CallsShaped'
  BY <1>0, <1>1, RequestShape, ShapeSlot
<1>a. "send" \in Ops \ {"none"} /\ "change" \in Ops \ {"none"} /\ "qr2fa" \in Ops \ {"none"}
      /\ "qrInit" \in Ops \ {"none"} /\ "upload" \in Ops \ {"none"}
  BY DEF Ops, OtpOps
<1>b. ui.flow \in 0..MaxIds /\ ui.qid \in 0..MaxIds /\ 0 \in 0..MaxIds
  BY <1>0, UiFields, ConstTypes DEF LoginTypeOK
<1>2. CASE sendCode(c)
  BY <1>1, <1>2, <1>a, <1>b DEF sendCode
<1>3. CASE SubmitCall(c)
  <2>1. StepOps \subseteq OtpOps /\ OtpOps \subseteq Ops \ {"none", "send", "qr2fa"}
    BY DEF StepOps, OtpOps, Ops
  <2>2. PICK op \in StepOps : call' = [call EXCEPT ![c] = Request(op, ui.flow, pend[ui.flow].phone)]
    BY <1>3 DEF SubmitCall
  <2>3. op \in Ops \ {"none"} /\ op \notin {"send", "qr2fa"}
    BY <2>1
  <2> QED BY <1>1, <1>b, <2>2, <2>3
<1>4. CASE changePhone(c)
  BY <1>1, <1>4, <1>a, <1>b DEF changePhone
<1>5. CASE RefreshQr(c)
  BY <1>1, <1>5, <1>a, <1>b DEF RefreshQr
<1>6. CASE submit2FA(c)
  BY <1>1, <1>6, <1>a, <1>b DEF submit2FA
<1>7. CASE Upload(c)
  BY <1>1, <1>7, <1>a, <1>b DEF Upload
<1>8. ASSUME NEW to \in Tabs, SwitchTab(to, c) PROVE CallsShaped'
  <2>1. CallShape(Request("qrInit", 0, Somebody))
    BY RequestShape, ConstTypes
  <2> QED BY <1>0, <1>8, <2>1, UnmountedShape DEF SwitchTab, CallsShaped
<1> QED BY <1>2, <1>3, <1>4, <1>5, <1>6, <1>7, <1>8 DEF LoginUserStep

LEMMA ServerShape ==
  ASSUME LoginInv, NEW c \in Calls, ServerStep(c)
  PROVE  CallsShaped'
<1>0. LoginTypeOK /\ CallsShaped /\ CallShape(call[c]) /\ call[c] \in CallType
  BY DEF LoginInv, CallsShaped, LoginTypeOK
<1>1. CASE send_code(c)
  <2> DEFINE f == First(Unused(pend))
  <2>1. f \in LoginIds
    BY <1>1, FirstType DEF send_code, Unused
  <2> HIDE DEF f
  <2>2. PICK stage \in {"code", "setupEmail"} : Reply(c, stage, f)
    BY <1>1 DEF send_code, f
  <2>3. CallShape([call[c] EXCEPT !.pc = "answered", !.ans = stage, !.id = f])
    BY <1>0, <1>1, <2>1, LoginIdsType DEF send_code, CallShape, CallType, Steps, Named, CallAt
  <2> QED BY <1>0, <2>2, <2>3, ReplyShape
<1>2. CASE Advance(c)
  <2>1. PICK next \in {"code", "setupEmailCode", "twofa"} : Reply(c, next, call[c].id)
    BY <1>2 DEF Advance
  <2>2. call[c].op \in OtpOps /\ call[c].id # 0 /\ call[c].op \notin {"none", "send", "qr2fa"}
    BY <1>2 DEF Advance, Ready, Pending, Open, OtpOps
  <2>3. CallShape([call[c] EXCEPT !.pc = "answered", !.ans = next, !.id = call[c].id])
    BY <1>0, <2>2 DEF CallShape, CallType, Steps, Named
  <2> QED BY <1>0, <2>1, <2>3, ReplyShape
<1>3. ASSUME Reply(c, "failed", call[c].id), CallAt(c, "sent") \/ CallAt(c, "counted") PROVE CallsShaped'
  <2>1. CallShape([call[c] EXCEPT !.pc = "answered", !.ans = "failed", !.id = call[c].id])
    BY <1>0, <1>3 DEF CallShape, CallType, Steps, Named, CallAt
  <2> QED BY <1>0, <1>3, <2>1, ReplyShape
<1>4. CASE Refuse(c)
  BY <1>3, <1>4 DEF Refuse, Ready
<1>5. CASE Count(c)
  <2>0. call[c].op \in {"verify", "twofa", "qr2fa", "upload"} /\ CallAt(c, "sent")
    BY <1>5 DEF Count, Counting, Ready
  <2>1. CASE call' = [call EXCEPT ![c].pc = "counted"]
    <3>1. CallShape([call[c] EXCEPT !.pc = "counted"])
      BY <1>0, <2>0 DEF CallShape, CallType, CallAt
    <3> QED BY <1>0, <2>1, <3>1, ShapeSlot
  <2>2. CASE Reply(c, "failed", call[c].id)
    BY <1>3, <2>0, <2>2
  <2> QED BY <1>5, <2>1, <2>2 DEF Count
<1>6. CASE finish_login(c)
  <2>1. CallShape([call[c] EXCEPT !.pc = "answered", !.ans = "done", !.id = call[c].id])
    BY <1>0, <1>6 DEF finish_login, CallShape, CallType, Steps, CallAt
  <2> QED BY <1>0, <1>6, <2>1, ReplyShape DEF finish_login
<1>7. CASE FailAny(c)
  BY <1>3, <1>7 DEF FailAny
<1>10. CASE AnswerLost(c)
  <2>1. CallShape([call[c] EXCEPT !.pc = "answered", !.ans = "failed",
                                  !.id = IF call[c].op = "send" THEN 0 ELSE call[c].id])
    BY <1>0, <1>10 DEF AnswerLost, CallShape, CallType, Steps, CallAt
  <2> QED BY <1>0, <1>10, <2>1, ReplyShape DEF AnswerLost
<1>8. CASE cancel_login(c)
  <2>1. CallShape([call[c] EXCEPT !.pc = "answered", !.ans = "ok", !.id = call[c].id])
    BY <1>0, <1>8 DEF cancel_login, CallShape, CallType, Steps, CallAt
  <2> QED BY <1>0, <1>8, <2>1, ReplyShape DEF cancel_login
<1>9. CASE qr_login_init(c)
  <2>1. CallShape([call[c] EXCEPT !.pc = "answered", !.ans = "ok", !.id = First(Unused(qr))])
    BY <1>0, <1>9 DEF qr_login_init, CallShape, CallType, Steps, CallAt
  <2> QED BY <1>0, <1>9, <2>1, ReplyShape DEF qr_login_init
<1> QED BY <1>1, <1>2, <1>4, <1>5, <1>6, <1>7, <1>8, <1>9, <1>10 DEF ServerStep

LEMMA ShapeStep == LoginInv /\ [LoginNext]_loginVars => CallsShaped'
<1> SUFFICES ASSUME LoginInv, [LoginNext]_loginVars PROVE CallsShaped'
  OBVIOUS
<1>0. LoginTypeOK /\ CallsShaped
  BY DEF LoginInv
<1>1. ASSUME UNCHANGED call PROVE CallsShaped'
  BY <1>0, <1>1 DEF CallsShaped
<1>2. ASSUME NEW c \in Calls, AnswerStep(c) PROVE CallsShaped'
  <2>1. ASSUME Done(c) PROVE CallsShaped'
    BY <1>0, <2>1, NoCallShape, ShapeSlot DEF Done
  <2>2. CASE complete(c)
    BY <1>0, <2>2, NoCallShape, UnmountedShape DEF complete, CallsShaped
  <2> QED BY <1>2, <2>1, <2>2 DEF AnswerStep, HandleError, StepShown, PhoneChanged, QrShown, Accepted2FA
<1>3. ASSUME Push PROVE CallsShaped'
  BY <1>0, <1>3, UnmountedShape DEF Push, CallsShaped
<1>4. CASE UNCHANGED loginVars
  BY <1>1, <1>4 DEF loginVars
<1>5. ASSUME NEW l \in LoginIds, CancelArrives(l) \/ sweep_expired(l) PROVE CallsShaped'
  BY <1>1, <1>5 DEF CancelArrives, sweep_expired
<1>6. ASSUME NEW q \in LoginIds, watch_qr_login(q) \/ WatcherInserts(q) \/ clean_pending_logins(q) PROVE CallsShaped'
  BY <1>1, <1>6 DEF watch_qr_login, WatcherInserts, clean_pending_logins
<1>7. ASSUME NEW k \in Polls, Poll(k) \/ qr_login_status(k) \/ PollFails(k) \/ PollAnswered(k) PROVE CallsShaped'
  BY <1>1, <1>7 DEF Poll, qr_login_status, PollFails, PollAnswered
<1>8. CASE Countdown
  BY <1>1, <1>8 DEF Countdown
<1> QED BY UserShape, ServerShape, <1>2, <1>3, <1>4, <1>5, <1>6, <1>7, <1>8 DEF LoginNext

-----------------------------------------------------------------------------
(* The flow of the phone tab. *)

Flow == FlowShaped /\ StepHasFlow

(* A step that leaves the flow alone, and the requests as far as their    *)
(* forms know of them.                                                    *)
LEMMA FlowFrame ==
  ASSUME Flow, call' = call, ui'.tab = ui.tab, ui'.step = ui.step, ui'.flow = ui.flow,
         ui'.loading = ui.loading, ui'.crossed = ui.crossed
  PROVE  Flow'
  BY DEF Flow, FlowShaped, StepHasFlow, Mine

LEMMA FlowServed ==
  ASSUME Flow, LoginTypeOK, NEW c \in Calls, NEW k \in CallType, call' = [call EXCEPT ![c] = k], ui' = ui,
         k.op = call[c].op, k.here = call[c].here, k.op = "send" \/ k.id = call[c].id
  PROVE  Flow'
<1>1. \A d \in Calls : call'[d].op = call[d].op /\ call'[d].here = call[d].here
                        /\ (call[d].op = "send" \/ call'[d].id = call[d].id)
  BY DEF LoginTypeOK
<1>2. FlowShaped'
  BY <1>1 DEF Flow, FlowShaped, Mine
<1> QED BY <1>2 DEF Flow, StepHasFlow

(* The end of a request: the others see the flow as it was, or reset.     *)
LEMMA FlowAnswered ==
  ASSUME Flow, LoginTypeOK, NEW c \in Calls, Done(c), ui'.tab = ui.tab,
         ui'.tab # "otp" \/ ui'.step = "phone" => ui'.flow = 0,
         \A d \in Calls \ {c} : Mine(d) =>
           /\ ui'.loading = ui.loading
           /\ \/ ui'.flow = ui.flow /\ ui'.crossed = ui.crossed
              \/ ui'.flow = 0 /\ (ui.loading => ui'.crossed)
  PROVE  FlowShaped'
<1>1. \A d \in Calls : /\ d = c => ~call'[d].here
                       /\ d # c => call'[d] = call[d]
  BY DEF LoginTypeOK, Done, NoCall
<1>2. \A d \in Calls : Mine(d)' => d # c /\ Mine(d)
  BY <1>1 DEF Mine
<1>3. \A d \in Calls : call'[d].here => ui'.tab = TabOf(call'[d].op)
  BY <1>1 DEF Flow, FlowShaped
<1>4. \A d \in Calls : Mine(d)' => ui'.loading
  BY <1>2 DEF Flow, FlowShaped
<1>5. \A d, e \in Calls : Mine(d)' /\ Mine(e)' => d = e
  BY <1>2 DEF Flow, FlowShaped
<1>6. \A d \in Calls : Mine(d)' =>
        IF call'[d].op = "send" THEN ui'.flow = 0
        ELSE ui'.flow \in {0, call'[d].id} /\ (ui'.flow # 0 \/ ui'.crossed)
  BY <1>1, <1>2 DEF Flow, FlowShaped
<1> QED BY <1>3, <1>4, <1>5, <1>6 DEF FlowShaped

(* A request that the open tab makes when it waits for none of the phone  *)
(* tab's, or that is not one of them.                                     *)
LEMMA FlowAsked ==
  ASSUME Flow, LoginTypeOK, NEW c \in Calls, NEW op \in Ops, NEW id, NEW p, call' = [call EXCEPT ![c] = Request(op, id, p)],
         ui'.tab = ui.tab, ui'.step = ui.step, ui'.flow = ui.flow, ui'.crossed = ui.crossed,
         ui.tab = TabOf(op), \A d \in Calls : Mine(d) => ui'.loading,
         op \in Named => /\ ui'.loading /\ \A d \in Calls : ~Mine(d)
                         /\ IF op = "send" THEN ui.flow = 0 ELSE ui.flow # 0 /\ ui.flow = id
  PROVE  Flow'
<1>1. \A d \in Calls : /\ d = c => call'[d].op = op /\ call'[d].id = id
                       /\ d # c => call'[d] = call[d]
  BY DEF LoginTypeOK, Request
<1>2. \A d \in Calls : Mine(d)' => IF d = c THEN op \in Named ELSE Mine(d)
  BY <1>1 DEF Mine
<1>3. \A d \in Calls : call'[d].here => ui'.tab = TabOf(call'[d].op)
  BY <1>1 DEF Flow, FlowShaped
<1>4. \A d \in Calls : Mine(d)' => ui'.loading
  BY <1>2
<1>5. \A d, e \in Calls : Mine(d)' /\ Mine(e)' => d = e
  BY <1>2 DEF Flow, FlowShaped
<1>6. \A d \in Calls : Mine(d)' =>
        IF call'[d].op = "send" THEN ui'.flow = 0
        ELSE ui'.flow \in {0, call'[d].id} /\ (ui'.flow # 0 \/ ui'.crossed)
  BY <1>1, <1>2 DEF Flow, FlowShaped
<1> QED BY <1>3, <1>4, <1>5, <1>6 DEF Flow, FlowShaped, StepHasFlow

(* The tab is left: nobody waits any more. *)
LEMMA FlowLeft ==
  ASSUME LoginTypeOK, NEW to \in Tabs, Leave(to),
         \A d \in Calls : ~call'[d].here \/ (to = "qr" /\ call'[d].op = "qrInit")
  PROVE  Flow'
<1>1. ui'.tab = to /\ ui'.step = "phone" /\ ui'.flow = 0
  BY DEF Leave, Fresh
<1>2. \A d \in Calls : ~Mine(d)'
  BY DEF Mine, Named, OtpOps
<1> QED BY <1>1, <1>2 DEF Flow, FlowShaped, StepHasFlow, TabOf

LEMMA FlowUser ==
  ASSUME LoginInv, NEW c \in Calls, LoginUserStep(c)
  PROVE  Flow'
<1>0. LoginTypeOK /\ CallsShaped /\ Flow /\ ui \in UiType
  BY DEF LoginInv, LoginTypeOK, Flow
<1>a. "send" \in Ops /\ "change" \in Ops /\ "qr2fa" \in Ops /\ "qrInit" \in Ops /\ "upload" \in Ops
      /\ {"change", "qr2fa", "qrInit", "upload"} \cap Named = {}
  BY DEF Ops, OtpOps, Named
<1>b. ~ui.loading => \A d \in Calls : ~Mine(d)
  BY <1>0 DEF Flow, FlowShaped
<1>c. ui.tab # "otp" => \A d \in Calls : ~Mine(d)
  BY <1>0 DEF Flow, FlowShaped, Mine, Named, OtpOps, TabOf
<1>2. CASE sendCode(c)
  <2>1. PICK p \in Phones : call' = [call EXCEPT ![c] = Request("send", 0, p)]
    BY <1>2 DEF sendCode
  <2>2. /\ ui'.tab = ui.tab /\ ui'.step = ui.step /\ ui'.flow = ui.flow /\ ui'.crossed = ui.crossed
        /\ ui'.loading /\ ui.tab = TabOf("send") /\ ui.flow = 0 /\ ~ui.loading
    BY <1>0, <1>2 DEF sendCode, UiType, TabOf, Flow, FlowShaped
  <2> QED BY <1>0, <1>a, <1>b, <2>1, <2>2, FlowAsked
<1>3. CASE SubmitCall(c)
  <2>1. StepOps \subseteq OtpOps /\ OtpOps \subseteq Ops /\ "send" \notin OtpOps /\ \A op \in OtpOps : TabOf(op) = "otp"
    BY DEF StepOps, OtpOps, Ops, TabOf
  <2>2. PICK op \in StepOps : call' = [call EXCEPT ![c] = Request(op, ui.flow, pend[ui.flow].phone)]
    BY <1>3 DEF SubmitCall
  <2>3. /\ ui'.tab = ui.tab /\ ui'.step = ui.step /\ ui'.flow = ui.flow /\ ui'.crossed = ui.crossed
        /\ ui'.loading /\ ui.tab = "otp" /\ ui.flow # 0 /\ ~ui.loading
    BY <1>0, <1>3 DEF SubmitCall, UiType
  <2> QED BY <1>0, <1>b, <2>1, <2>2, <2>3, FlowAsked
<1>4. CASE changePhone(c)
  <2>1. call' = [call EXCEPT ![c] = Request("change", ui.flow, pend[ui.flow].phone)] /\ ui' = ui
        /\ ui.tab = TabOf("change")
    BY <1>4 DEF changePhone, TabOf
  <2>2. \A d \in Calls : Mine(d) => ui.loading
    BY <1>0 DEF Flow, FlowShaped
  <2> QED BY <1>0, <1>a, <2>1, <2>2, FlowAsked
<1>5. CASE RefreshQr(c)
  <2>1. /\ ui'.tab = ui.tab /\ ui'.step = ui.step /\ ui'.flow = ui.flow /\ ui'.crossed = ui.crossed
        /\ ui.tab = "qr" /\ TabOf("qrInit") = "qr"
    BY <1>0, <1>5 DEF RefreshQr, initQR, UiType, TabOf
  <2>2. call' = [call EXCEPT ![c] = Request("qrInit", 0, Somebody)]
    BY <1>5 DEF RefreshQr
  <2> QED BY <1>0, <1>a, <1>c, <2>1, <2>2, FlowAsked
<1>6. CASE submit2FA(c)
  <2>1. /\ ui'.tab = ui.tab /\ ui'.step = ui.step /\ ui'.flow = ui.flow /\ ui'.crossed = ui.crossed
        /\ ui.tab = "qr" /\ TabOf("qr2fa") = "qr"
    BY <1>0, <1>6 DEF submit2FA, UiType, TabOf
  <2>2. call' = [call EXCEPT ![c] = Request("qr2fa", ui.qid, qr[ui.qid].phone)]
    BY <1>6 DEF submit2FA
  <2> QED BY <1>0, <1>a, <1>c, <2>1, <2>2, FlowAsked
<1>7. CASE Upload(c)
  <2>1. /\ ui'.tab = ui.tab /\ ui'.step = ui.step /\ ui'.flow = ui.flow /\ ui'.crossed = ui.crossed
        /\ ui.tab = "upload" /\ TabOf("upload") = "upload"
    BY <1>0, <1>7 DEF Upload, UiType, TabOf
  <2>2. PICK p \in Phones : call' = [call EXCEPT ![c] = Request("upload", 0, p)]
    BY <1>7 DEF Upload
  <2> QED BY <1>0, <1>a, <1>c, <2>1, <2>2, FlowAsked
<1>8. ASSUME NEW to \in Tabs, SwitchTab(to, c) PROVE Flow'
  <2>1. \A d \in Calls : ~Unmounted[d].here
    BY <1>0 DEF Unmounted, LoginTypeOK, CallType
  <2>2. \A d \in Calls : ~call'[d].here \/ (to = "qr" /\ call'[d].op = "qrInit")
    <3>1. CASE to = "qr"
      <4>1. call' = [Unmounted EXCEPT ![c] = Request("qrInit", 0, Somebody)] /\ Request("qrInit", 0, Somebody).op = "qrInit"
        BY <1>8, <3>1 DEF SwitchTab, Request
      <4>2. \A d \in Calls : call'[d] = IF d = c THEN Request("qrInit", 0, Somebody) ELSE Unmounted[d]
        BY <4>1 DEF Unmounted
      <4> QED BY <2>1, <3>1, <4>1, <4>2
    <3>2. CASE to # "qr"
      BY <1>8, <2>1, <3>2 DEF SwitchTab
    <3> QED BY <3>1, <3>2
  <2> QED BY <1>0, <1>8, <2>2, FlowLeft DEF SwitchTab
<1> QED BY <1>2, <1>3, <1>4, <1>5, <1>6, <1>7, <1>8 DEF LoginUserStep

LEMMA FlowServer ==
  ASSUME LoginInv, NEW c \in Calls, ServerStep(c)
  PROVE  Flow'
<1>0. LoginTypeOK /\ CallsShaped /\ Flow /\ call[c] \in CallType
  BY DEF LoginInv, LoginTypeOK, Flow
<1>1. ASSUME NEW a \in Answers, NEW id \in 0..MaxIds, Reply(c, a, id), ui' = ui,
             call[c].op = "send" \/ id = call[c].id
      PROVE  Flow'
  <2> DEFINE k == [call[c] EXCEPT !.pc = "answered", !.ans = a, !.id = id]
  <2>1. k \in CallType /\ k.op = call[c].op /\ k.here = call[c].here /\ k.id = id
    BY <1>0, CallFields DEF CallType
  <2>2. call' = [call EXCEPT ![c] = k]
    BY <1>1 DEF Reply
  <2> HIDE DEF k
  <2> QED BY <1>0, <1>1, <2>1, <2>2, FlowServed
<1>2. call[c].id \in 0..MaxIds
  BY <1>0, CallFields
<1>3. CASE send_code(c)
  <2>1. First(Unused(pend)) \in LoginIds
    BY <1>3, FirstType DEF send_code, Unused
  <2>2. First(Unused(pend)) \in 0..MaxIds /\ "code" \in Answers /\ "setupEmail" \in Answers
    BY <2>1, ConstTypes
  <2> QED BY <1>1, <1>3, <2>2 DEF send_code
<1>4. CASE Advance(c)
  <2>1. {"code", "setupEmailCode", "twofa"} \subseteq Answers
    BY ConstTypes
  <2> QED BY <1>1, <1>2, <1>4, <2>1 DEF Advance
<1>5. CASE Refuse(c)
  BY <1>1, <1>2, <1>5, ConstTypes DEF Refuse
<1>6. CASE Count(c)
  <2>1. CASE call' = [call EXCEPT ![c].pc = "counted"]
    <3> DEFINE k == [call[c] EXCEPT !.pc = "counted"]
    <3>1. k \in CallType /\ k.op = call[c].op /\ k.here = call[c].here /\ k.id = call[c].id
      BY <1>0 DEF CallType
    <3>2. call' = [call EXCEPT ![c] = k] /\ ui' = ui
      BY <1>6, <2>1 DEF Count
    <3> HIDE DEF k
    <3> QED BY <1>0, <3>1, <3>2, FlowServed
  <2>2. CASE Reply(c, "failed", call[c].id)
    BY <1>1, <1>2, <1>6, <2>2, ConstTypes DEF Count
  <2> QED BY <1>6, <2>1, <2>2 DEF Count
<1>7. CASE finish_login(c)
  BY <1>1, <1>2, <1>7, ConstTypes DEF finish_login
<1>8. CASE FailAny(c)
  BY <1>1, <1>2, <1>8, ConstTypes DEF FailAny
<1>11. CASE AnswerLost(c)
  BY <1>1, <1>2, <1>11, ConstTypes DEF AnswerLost
<1>9. CASE cancel_login(c)
  BY <1>1, <1>2, <1>9, ConstTypes DEF cancel_login
<1>10. CASE qr_login_init(c)
  <2> DEFINE k == [call[c] EXCEPT !.pc = "answered", !.ans = "ok", !.id = First(Unused(qr))]
  <2>1. k.op = call[c].op /\ k.here = call[c].here /\ call[c].op = "qrInit"
    BY <1>0, <1>10 DEF qr_login_init, CallType
  <2>2. call' = [call EXCEPT ![c] = k] /\ ui' = ui
    BY <1>10 DEF qr_login_init, Reply
  <2> HIDE DEF k
  <2>3. \A d \in Calls : /\ call'[d].op = call[d].op /\ call'[d].here = call[d].here
                         /\ Mine(d) => call'[d] = call[d]
    BY <1>0, <2>1, <2>2 DEF LoginTypeOK, Mine, Named, OtpOps
  <2> QED BY <1>0, <2>2, <2>3 DEF Flow, FlowShaped, StepHasFlow, Mine
<1> QED BY <1>3, <1>4, <1>5, <1>6, <1>7, <1>8, <1>9, <1>10, <1>11 DEF ServerStep

LEMMA FlowAnswer ==
  ASSUME LoginInv, NEW c \in Calls, AnswerStep(c)
  PROVE  Flow'
<1>0. LoginTypeOK /\ CallShape(call[c]) /\ Flow /\ ui \in UiType /\ call[c] \in CallType
  BY DEF LoginInv, LoginTypeOK, Flow, CallsShaped
<1>a. ui.tab # "otp" => \A d \in Calls : ~Mine(d)
  BY <1>0 DEF Flow, FlowShaped, Mine, Named, OtpOps, TabOf
<1>b. Mine(c) => \A d \in Calls \ {c} : ~Mine(d)
  BY <1>0 DEF Flow, FlowShaped
<1>c. ui.tab # "otp" \/ ui.step = "phone" => ui.flow = 0
  BY <1>0 DEF Flow, FlowShaped
<1>d. call[c].here => ui.tab = TabOf(call[c].op)
  BY <1>0 DEF Flow, FlowShaped
<1>e. (ui.tab = "otp" /\ ui.step # "phone") => (ui.flow # 0 \/ ui.crossed)
  BY <1>0 DEF Flow, StepHasFlow
<1>1. CASE HandleError(c)
  <2>1. /\ ui'.tab = ui.tab /\ ui'.step = ui.step /\ ui'.flow = ui.flow /\ ui'.crossed = ui.crossed
        /\ call[c].here \/ ui'.loading = ui.loading
    BY <1>0, <1>1 DEF HandleError, UiType
  <2>2. call[c].here => \A d \in Calls \ {c} : ~Mine(d)
    BY <1>0, <1>1, <1>a, <1>b, <1>d DEF HandleError, TabOf, Mine, Named, OtpOps, CallType, Ops, CallShape, CallAt
  <2>3. FlowShaped'
    BY <1>0, <1>1, <1>c, <2>1, <2>2, FlowAnswered DEF HandleError
  <2> QED BY <1>0, <2>1, <2>3 DEF Flow, StepHasFlow
<1>2. CASE StepShown(c)
  <2>1. CASE ~call[c].here
    <3>1. ui' = ui
      BY <1>2, <2>1 DEF StepShown
    <3>2. FlowShaped'
      BY <1>0, <1>2, <1>c, <3>1, FlowAnswered DEF StepShown
    <3> QED BY <1>0, <3>1, <3>2 DEF Flow, StepHasFlow
  <2>2. CASE call[c].here
    <3>1. call[c].op \in Named /\ call[c].ans # "phone" /\ call[c].id # 0 /\ Mine(c)
      BY <1>0, <1>2, <2>2 DEF StepShown, CallShape, Mine
    <3>2. ui.tab = "otp"
      BY <1>d, <2>2, <3>1 DEF TabOf, Named, OtpOps
    <3>3. ui' = applySentCode(call[c])
      BY <1>2, <2>2 DEF StepShown
    <3>4. /\ ui'.tab = "otp" /\ ui'.step # "phone"
          /\ IF call[c].op = "verify" THEN ui'.flow = ui.flow /\ ui'.crossed = ui.crossed ELSE ui'.flow = call[c].id
      BY <1>0, <3>1, <3>2, <3>3 DEF applySentCode, UiType
    <3>5. FlowShaped'
      BY <1>0, <1>2, <1>b, <3>1, <3>2, <3>4, FlowAnswered DEF StepShown
    <3>6. call[c].op = "verify" => ui.flow # 0 \/ ui.crossed
      BY <1>0, <3>1 DEF Flow, FlowShaped
    <3> QED BY <3>1, <3>4, <3>5, <3>6 DEF Flow, StepHasFlow
  <2> QED BY <2>1, <2>2
<1>3. CASE PhoneChanged(c)
  <2>1. CASE ~call[c].here
    <3>1. ui' = ui
      BY <1>3, <2>1 DEF PhoneChanged
    <3>2. FlowShaped'
      BY <1>0, <1>3, <1>c, <3>1, FlowAnswered DEF PhoneChanged
    <3> QED BY <1>0, <3>1, <3>2 DEF Flow, StepHasFlow
  <2>2. CASE call[c].here
    <3>1. /\ ui'.tab = ui.tab /\ ui'.step = "phone" /\ ui'.flow = 0 /\ ui'.crossed = ui.loading
          /\ ui'.loading = ui.loading
      BY <1>0, <1>3, <2>2 DEF PhoneChanged, resetFlow, UiType
    <3>2. FlowShaped'
      BY <1>0, <1>3, <3>1, FlowAnswered DEF PhoneChanged
    <3> QED BY <3>1, <3>2 DEF Flow, StepHasFlow
  <2> QED BY <2>1, <2>2
<1>4. ASSUME QrShown(c) \/ Accepted2FA(c) PROVE Flow'
  <2>1. /\ ui'.tab = ui.tab /\ ui'.step = ui.step /\ ui'.flow = ui.flow /\ ui'.crossed = ui.crossed
        /\ call[c].here \/ ui'.loading = ui.loading
    BY <1>0, <1>4 DEF QrShown, Accepted2FA, UiType
  <2>2. call[c].here => \A d \in Calls \ {c} : ~Mine(d)
    BY <1>4, <1>a, <1>d DEF QrShown, Accepted2FA, TabOf
  <2>3. FlowShaped'
    BY <1>0, <1>4, <1>c, <2>1, <2>2, FlowAnswered DEF QrShown, Accepted2FA
  <2> QED BY <1>0, <2>1, <2>3 DEF Flow, StepHasFlow
<1>5. CASE complete(c)
  <2>1. \A d \in Calls : ~Unmounted[d].here
    BY <1>0 DEF Unmounted, LoginTypeOK, CallType
  <2>2. \A d \in Calls : ~call'[d].here
    BY <1>5, <2>1 DEF complete, Unmounted, NoCall
  <2> QED BY <1>0, <1>5, <2>2, FlowLeft DEF complete, Tabs
<1> QED BY <1>1, <1>2, <1>3, <1>4, <1>5 DEF AnswerStep

LEMMA FlowStep == LoginInv /\ [LoginNext]_loginVars => FlowShaped' /\ StepHasFlow'
<1> SUFFICES ASSUME LoginInv, [LoginNext]_loginVars PROVE Flow'
  BY DEF Flow
<1>0. LoginTypeOK /\ Flow /\ ui \in UiType
  BY DEF LoginInv, LoginTypeOK, Flow
<1>1. ASSUME UNCHANGED <<ui, call>> PROVE Flow'
  BY <1>0, <1>1, FlowFrame
<1>2. CASE UNCHANGED loginVars
  BY <1>1, <1>2 DEF loginVars
<1>3. ASSUME NEW l \in LoginIds, CancelArrives(l) \/ sweep_expired(l) PROVE Flow'
  BY <1>1, <1>3 DEF CancelArrives, sweep_expired
<1>4. ASSUME NEW q \in LoginIds, watch_qr_login(q) \/ WatcherInserts(q) \/ clean_pending_logins(q) PROVE Flow'
  BY <1>1, <1>4 DEF watch_qr_login, WatcherInserts, clean_pending_logins
<1>5. ASSUME NEW k \in Polls, Poll(k) \/ qr_login_status(k) \/ PollFails(k) PROVE Flow'
  BY <1>1, <1>5 DEF Poll, qr_login_status, PollFails
<1>6. ASSUME NEW k \in Polls, PollAnswered(k) PROVE Flow'
  <2>1. /\ ui'.tab = ui.tab /\ ui'.step = ui.step /\ ui'.flow = ui.flow
        /\ ui'.loading = ui.loading /\ ui'.crossed = ui.crossed /\ call' = call
    BY <1>0, <1>6 DEF PollAnswered, UiType
  <2> QED BY <1>0, <2>1, FlowFrame
<1>7. CASE Countdown
  <2>1. /\ ui'.tab = ui.tab /\ ui'.step = ui.step /\ ui'.flow = ui.flow
        /\ ui'.loading = ui.loading /\ ui'.crossed = ui.crossed /\ call' = call
    BY <1>0, <1>7 DEF Countdown, UiType
  <2> QED BY <1>0, <2>1, FlowFrame
<1>8. CASE Push
  <2>1. \A d \in Calls : ~Unmounted[d].here
    BY <1>0 DEF Unmounted, LoginTypeOK, CallType
  <2> QED BY <1>0, <1>8, <2>1, FlowLeft DEF Push, Tabs
<1> QED BY FlowUser, FlowServer, FlowAnswer, <1>2, <1>3, <1>4, <1>5, <1>6, <1>7, <1>8 DEF LoginNext

-----------------------------------------------------------------------------
(* Pending logins: none is forgotten, and a phone has one. *)

Kept(l) ==
  \/ ui.flow = l \/ l \in cancels \cup stray
  \/ \E c \in Calls : call[c].id = l /\ call[c].op = "send"

(* No login is opened, and what knows of one goes on knowing.             *)
LEMMA LoginsFrame ==
  ASSUME NoOrphanLogin, OneLoginPerPhone,
         \A l \in LoginIds : Open(l)' => Open(l) /\ pend'[l].phone = pend[l].phone,
         \A l \in LoginIds : Open(l)' /\ Kept(l) => Kept(l)'
  PROVE  NoOrphanLogin' /\ OneLoginPerPhone'
<1>1. NoOrphanLogin'
  BY DEF NoOrphanLogin, Kept
<1>2. OneLoginPerPhone'
  BY DEF OneLoginPerPhone
<1> QED BY <1>1, <1>2

LEMMA LoginsUser ==
  ASSUME LoginInv, NEW c \in Calls, LoginUserStep(c)
  PROVE  NoOrphanLogin' /\ OneLoginPerPhone'
<1>0. LoginTypeOK /\ NoOrphanLogin /\ OneLoginPerPhone /\ ui \in UiType /\ FlowShaped
  BY DEF LoginInv, LoginTypeOK
<1>1. pend' = pend /\ stray' = stray
  BY DEF LoginUserStep, sendCode, SubmitCall, changePhone, RefreshQr, submit2FA, Upload, SwitchTab, server
<1>2. \A l \in LoginIds : Open(l)' => Open(l) /\ pend'[l].phone = pend[l].phone
  BY <1>1 DEF Open
<1>3. ASSUME ui'.flow = ui.flow, cancels' = cancels, NEW k, call' = [call EXCEPT ![c] = k], Free(c)
      PROVE  \A l \in LoginIds : Kept(l) => Kept(l)'
  <2>1. \A d \in Calls : call[d].op = "send" => call'[d] = call[d]
    BY <1>0, <1>3 DEF Free, LoginTypeOK
  <2> QED BY <1>1, <1>3, <2>1 DEF Kept
<1>4. CASE sendCode(c) \/ SubmitCall(c) \/ changePhone(c) \/ RefreshQr(c) \/ submit2FA(c) \/ Upload(c)
  <2>1. ui'.flow = ui.flow /\ cancels' = cancels /\ Free(c)
    BY <1>0, <1>4 DEF sendCode, SubmitCall, changePhone, RefreshQr, submit2FA, Upload, NextFree, initQR, UiType
  <2>2. \E k : call' = [call EXCEPT ![c] = k]
    BY <1>4 DEF sendCode, SubmitCall, changePhone, RefreshQr, submit2FA, Upload
  <2> QED BY <1>0, <1>2, <1>3, <2>1, <2>2, LoginsFrame
<1>5. ASSUME NEW to \in Tabs, SwitchTab(to, c) PROVE NoOrphanLogin' /\ OneLoginPerPhone'
  <2>1. cancels' = cancels \cup ({ui.flow} \ {0})
    BY <1>0, <1>5 DEF SwitchTab, Leave, cancel, FlowShaped
  <2>2. \A d \in Calls : call[d].op = "send" => call'[d].op = "send" /\ call'[d].id = call[d].id
    <3>1. \A d \in Calls : Unmounted[d].op = call[d].op /\ Unmounted[d].id = call[d].id
      BY <1>0 DEF Unmounted, LoginTypeOK, CallType
    <3>2. CASE to = "qr"
      <4>1. call' = [Unmounted EXCEPT ![c] = Request("qrInit", 0, Somebody)] /\ Free(c)
        BY <1>5, <3>2 DEF SwitchTab, NextFree
      <4>2. \A d \in Calls : call'[d] = IF d = c THEN Request("qrInit", 0, Somebody) ELSE Unmounted[d]
        BY <4>1 DEF Unmounted
      <4> QED BY <3>1, <4>1, <4>2 DEF Free
    <3>3. CASE to # "qr"
      BY <1>5, <3>1, <3>3 DEF SwitchTab
    <3> QED BY <3>2, <3>3
  <2>3. \A l \in LoginIds : Kept(l) => Kept(l)'
    BY <1>1, <2>1, <2>2, LoginIdsType DEF Kept
  <2> QED BY <1>0, <1>2, <2>3, LoginsFrame
<1> QED BY <1>4, <1>5 DEF LoginUserStep

LEMMA LoginsServer ==
  ASSUME LoginInv, NEW c \in Calls, ServerStep(c)
  PROVE  NoOrphanLogin' /\ OneLoginPerPhone'
<1>0. LoginTypeOK /\ NoOrphanLogin /\ OneLoginPerPhone /\ CallShape(call[c]) /\ call[c] \in CallType
  BY DEF LoginInv, LoginTypeOK, CallsShaped
<1>1. ui' = ui /\ cancels' = cancels /\ stray \subseteq stray'
  BY DEF ServerStep, send_code, Advance, Refuse, Count, finish_login, FailAny, AnswerLost, cancel_login, qr_login_init
<1>2. CASE send_code(c)
  <2> DEFINE f == First(Unused(pend))
  <2>1. f \in Unused(pend)
    BY <1>2, FirstType DEF send_code, Unused
  <2> HIDE DEF f
  <2>2. PICK stage \in {"code", "setupEmail"} : pend' = create(f, call[c].phone, stage) /\ Reply(c, stage, f)
    BY <1>2 DEF send_code, f
  <2>3. f \in LoginIds
    BY <2>1 DEF Unused
  <2>4. call[c].id = 0 /\ call[c].op = "send"
    BY <1>0, <1>2 DEF send_code, CallShape, CallAt, Steps
  <2>5. \A l \in LoginIds : pend'[l] = IF l = f THEN [st |-> "open", stage |-> stage, phone |-> call[c].phone]
                                        ELSE IF Open(l) /\ pend[l].phone = call[c].phone THEN [pend[l] EXCEPT !.st = "gone"] ELSE pend[l]
    BY <2>2, <2>3 DEF create
  <2>6. \A l \in LoginIds \ {f} : Open(l)' => /\ Open(l) /\ pend'[l].phone = pend[l].phone
                                              /\ pend[l].phone # call[c].phone
    BY <1>0, <2>5 DEF Open, LoginTypeOK, PendType
  <2>7. call'[c].op = "send" /\ call'[c].id = f /\ \A d \in Calls \ {c} : call'[d] = call[d]
    BY <1>0, <2>2, <2>4 DEF Reply, LoginTypeOK, CallType
  <2>8. ASSUME NEW l \in LoginIds, Kept(l) PROVE Kept(l)'
    <3>1. CASE ui.flow = l \/ l \in cancels \cup stray
      BY <1>1, <3>1 DEF Kept
    <3>2. ASSUME NEW d \in Calls, call[d].id = l, call[d].op = "send" PROVE Kept(l)'
      <4>1. d # c
        BY <2>4, <3>2, LoginIdsType
      <4> QED BY <2>7, <3>2, <4>1 DEF Kept
    <3> QED BY <2>8, <3>1, <3>2 DEF Kept
  <2>9. NoOrphanLogin'
    <3>1. ASSUME NEW l \in LoginIds, Open(l)' PROVE Kept(l)'
      <4>1. CASE l = f
        BY <2>7, <4>1 DEF Kept
      <4>2. CASE l # f
        <5>1. Open(l)
          BY <2>6, <3>1, <4>2
        <5>2. Kept(l)
          BY <1>0, <5>1 DEF NoOrphanLogin, Kept
        <5> QED BY <2>8, <5>2
      <4> QED BY <4>1, <4>2
    <3> QED BY <3>1 DEF NoOrphanLogin, Kept
  <2>10. pend'[f].phone = call[c].phone
    <3>1. pend'[f] = [st |-> "open", stage |-> stage, phone |-> call[c].phone]
      BY <2>3, <2>5
    <3> QED BY <3>1
  <2>11. OneLoginPerPhone'
    BY <1>0, <2>6, <2>10 DEF OneLoginPerPhone
  <2> QED BY <2>9, <2>11
<1>3. ASSUME \A l \in LoginIds : Open(l)' => Open(l) /\ pend'[l].phone = pend[l].phone,
             \A d \in Calls : call'[d].op = call[d].op /\ (call[d].op = "send" => call'[d].id = call[d].id)
      PROVE  NoOrphanLogin' /\ OneLoginPerPhone'
  <2>1. \A l \in LoginIds : Kept(l) => Kept(l)'
    BY <1>1, <1>3 DEF Kept
  <2> QED BY <1>0, <1>3, <2>1, LoginsFrame
<1>4. ASSUME NEW a, NEW id, Reply(c, a, id), id = call[c].id \/ call[c].op # "send"
      PROVE  \A d \in Calls : call'[d].op = call[d].op /\ (call[d].op = "send" => call'[d].id = call[d].id)
  BY <1>0, <1>4 DEF Reply, LoginTypeOK, CallType
<1>5. ASSUME NEW l, pend' = discard(l) \/ pend' = pend
      PROVE  \A m \in LoginIds : Open(m)' => Open(m) /\ pend'[m].phone = pend[m].phone
  BY <1>0, <1>5 DEF discard, Open, LoginTypeOK, PendType
<1>6. CASE Advance(c)
  <2>1. PICK next : pend' = [pend EXCEPT ![call[c].id].stage = next] /\ Reply(c, next, call[c].id)
    BY <1>6 DEF Advance
  <2>2. \A m \in LoginIds : Open(m)' => Open(m) /\ pend'[m].phone = pend[m].phone
    BY <1>0, <2>1 DEF Open, LoginTypeOK, PendType
  <2> QED BY <1>3, <1>4, <2>1, <2>2
<1>7. CASE Refuse(c)
  BY <1>3, <1>4, <1>5, <1>7 DEF Refuse
<1>8. CASE Count(c)
  <2>1. pend' = pend
    BY <1>8 DEF Count, server
  <2>2. CASE call' = [call EXCEPT ![c].pc = "counted"]
    <3>1. \A d \in Calls : call'[d].op = call[d].op /\ call'[d].id = call[d].id
      BY <1>0, <2>2 DEF LoginTypeOK, CallType
    <3> QED BY <1>3, <1>5, <2>1, <3>1
  <2>3. CASE Reply(c, "failed", call[c].id)
    BY <1>3, <1>4, <1>5, <2>1, <2>3
  <2> QED BY <1>8, <2>2, <2>3 DEF Count
<1>9. CASE finish_login(c)
  BY <1>3, <1>4, <1>5, <1>9 DEF finish_login
<1>10. CASE FailAny(c)
  BY <1>3, <1>4, <1>5, <1>10 DEF FailAny, server
<1>13. CASE AnswerLost(c)
  <2>1. pend' = pend
    BY <1>13 DEF AnswerLost, server
  <2>2. CASE call[c].op # "send"
    BY <1>3, <1>4, <1>5, <1>13, <2>1, <2>2 DEF AnswerLost
  <2>3. CASE call[c].op = "send"
    <3>1. stray' = stray \cup {call[c].id} /\ \A d \in Calls \ {c} : call'[d] = call[d]
      BY <1>0, <1>13, <2>3 DEF AnswerLost, Reply, LoginTypeOK
    <3>2. \A l \in LoginIds : Kept(l) => Kept(l)'
      BY <1>1, <3>1 DEF Kept
    <3>3. \A m \in LoginIds : Open(m)' => Open(m) /\ pend'[m].phone = pend[m].phone
      BY <2>1 DEF Open
    <3> QED BY <1>0, <3>2, <3>3, LoginsFrame
  <2> QED BY <2>2, <2>3
<1>11. CASE cancel_login(c)
  BY <1>3, <1>4, <1>5, <1>11 DEF cancel_login
<1>12. CASE qr_login_init(c)
  BY <1>3, <1>4, <1>5, <1>12 DEF qr_login_init
<1> QED BY <1>2, <1>6, <1>7, <1>8, <1>9, <1>10, <1>11, <1>12, <1>13 DEF ServerStep

LEMMA LoginsAnswer ==
  ASSUME LoginInv, NEW c \in Calls, AnswerStep(c)
  PROVE  NoOrphanLogin' /\ OneLoginPerPhone'
<1>0. LoginTypeOK /\ NoOrphanLogin /\ OneLoginPerPhone /\ CallShape(call[c]) /\ call[c] \in CallType
      /\ ui \in UiType /\ FlowShaped
  BY DEF LoginInv, LoginTypeOK, CallsShaped
<1>1. pend' = pend
  BY DEF AnswerStep, HandleError, StepShown, PhoneChanged, QrShown, complete, Accepted2FA, server
<1>2. ASSUME \A d \in Calls \ {c} : call'[d].op = call[d].op /\ call'[d].id = call[d].id,
             \A l \in LoginIds : /\ ui.flow = l => Kept(l)'
                                 /\ l \in cancels \cup stray => Kept(l)'
                                 /\ call[c].id = l /\ call[c].op = "send" => Kept(l)'
      PROVE  NoOrphanLogin' /\ OneLoginPerPhone'
  <2>1. \A l \in LoginIds : Open(l)' => Open(l) /\ pend'[l].phone = pend[l].phone
    BY <1>1 DEF Open
  <2>2. ASSUME NEW l \in LoginIds, Kept(l) PROVE Kept(l)'
    <3>1. ASSUME NEW d \in Calls \ {c}, call[d].id = l, call[d].op = "send" PROVE Kept(l)'
      BY <1>2, <3>1 DEF Kept
    <3> QED BY <1>2, <2>2, <3>1 DEF Kept
  <2> QED BY <1>0, <2>1, <2>2, LoginsFrame
<1>3. ASSUME Done(c) PROVE \A d \in Calls \ {c} : call'[d].op = call[d].op /\ call'[d].id = call[d].id
  BY <1>0, <1>3 DEF Done, LoginTypeOK
<1>4. CASE HandleError(c)
  <2>1. ui'.flow = ui.flow /\ cancels' = cancels /\ stray' = stray /\ (call[c].op = "send" => call[c].id = 0)
    BY <1>0, <1>4 DEF HandleError, UiType, CallShape, Steps
  <2> QED BY <1>2, <1>3, <1>4, <2>1, LoginIdsType DEF HandleError, Kept
<1>5. CASE StepShown(c)
  <2>1. cancels' = cancels /\ stray \subseteq stray'
    BY <1>5 DEF StepShown
  <2>2. CASE ~call[c].here
    <3>1. ui' = ui /\ (call[c].op = "send" => call[c].id \in stray')
      BY <1>5, <2>2 DEF StepShown
    <3> QED BY <1>2, <1>3, <1>5, <2>1, <3>1 DEF StepShown, Kept
  <2>3. CASE call[c].here
    <3>1. Mine(c)
      BY <1>0, <1>5, <2>3 DEF StepShown, CallShape, Mine
    <3>2. IF call[c].op = "send" THEN ui.flow = 0 ELSE ui.flow \in {0, call[c].id}
      BY <1>0, <3>1 DEF FlowShaped
    <3>3. ui'.flow = IF call[c].op = "verify" THEN ui.flow ELSE call[c].id
      BY <1>0, <1>5, <2>3 DEF StepShown, applySentCode, UiType
    <3>4. \A l \in LoginIds : (ui.flow = l => ui'.flow = l) /\ (call[c].id = l /\ call[c].op = "send" => ui'.flow = l)
      BY <3>2, <3>3, LoginIdsType
    <3> QED BY <1>2, <1>3, <1>5, <2>1, <3>4 DEF StepShown, Kept
  <2> QED BY <2>2, <2>3
<1>6. CASE PhoneChanged(c)
  <2>1. stray' = stray /\ cancels \subseteq cancels'
    BY <1>6 DEF PhoneChanged
  <2>2. ui' = ui \/ ({ui.flow} \ {0}) \subseteq cancels'
    BY <1>6 DEF PhoneChanged, cancel
  <2> QED BY <1>2, <1>3, <1>6, <2>1, <2>2, LoginIdsType DEF PhoneChanged, Kept
<1>7. ASSUME QrShown(c) \/ Accepted2FA(c) PROVE NoOrphanLogin' /\ OneLoginPerPhone'
  <2>1. ui'.flow = ui.flow /\ cancels' = cancels /\ stray' = stray /\ call[c].op # "send"
    BY <1>0, <1>7 DEF QrShown, Accepted2FA, UiType
  <2> QED BY <1>2, <1>3, <1>7, <2>1 DEF QrShown, Accepted2FA, Kept
<1>8. CASE complete(c)
  <2>1. \A d \in Calls : Unmounted[d].op = call[d].op /\ Unmounted[d].id = call[d].id
    BY <1>0 DEF Unmounted, LoginTypeOK, CallType
  <2>2. \A d \in Calls \ {c} : call'[d].op = call[d].op /\ call'[d].id = call[d].id
    BY <1>8, <2>1 DEF complete, Unmounted
  <2>3. stray' = stray /\ cancels' = cancels \cup ({ui.flow} \ {0}) /\ call[c].op # "send"
    BY <1>0, <1>8 DEF complete, Leave, cancel, FlowShaped, CallShape
  <2> QED BY <1>2, <2>2, <2>3, LoginIdsType DEF Kept
<1> QED BY <1>4, <1>5, <1>6, <1>7, <1>8 DEF AnswerStep

LEMMA LoginsStep == LoginInv /\ [LoginNext]_loginVars => NoOrphanLogin' /\ OneLoginPerPhone'
<1> SUFFICES ASSUME LoginInv, [LoginNext]_loginVars PROVE NoOrphanLogin' /\ OneLoginPerPhone'
  OBVIOUS
<1>0. LoginTypeOK /\ NoOrphanLogin /\ OneLoginPerPhone /\ ui \in UiType /\ FlowShaped
  BY DEF LoginInv, LoginTypeOK
<1>1. ASSUME pend' = pend, ui'.flow = ui.flow, cancels' = cancels, stray' = stray, call' = call
      PROVE  NoOrphanLogin' /\ OneLoginPerPhone'
  BY <1>0, <1>1 DEF NoOrphanLogin, OneLoginPerPhone, Open
<1>2. CASE UNCHANGED loginVars
  BY <1>1, <1>2 DEF loginVars, server
<1>3. ASSUME NEW l, pend' = discard(l)
      PROVE  \A m \in LoginIds : Open(m)' => m # l /\ Open(m) /\ pend'[m].phone = pend[m].phone
  BY <1>0, <1>3 DEF discard, Open, LoginTypeOK, PendType
<1>4. ASSUME NEW l \in LoginIds, CancelArrives(l) PROVE NoOrphanLogin' /\ OneLoginPerPhone'
  <2>1. \A m \in LoginIds : Open(m)' => Open(m) /\ pend'[m].phone = pend[m].phone
    BY <1>3, <1>4 DEF CancelArrives, Open
  <2>2. ~Open(l)' \/ l \in stray'
    BY <1>3, <1>4 DEF CancelArrives, Open
  <2>3. ui' = ui /\ call' = call /\ stray \subseteq stray' /\ cancels' = cancels \ {l}
    BY <1>4 DEF CancelArrives
  <2>4. \A m \in LoginIds : Open(m)' /\ Kept(m) => Kept(m)'
    BY <2>2, <2>3 DEF Kept
  <2> QED BY <1>0, <2>1, <2>4, LoginsFrame
<1>5. ASSUME NEW l \in LoginIds, sweep_expired(l) PROVE NoOrphanLogin' /\ OneLoginPerPhone'
  <2>1. \A m \in LoginIds : Open(m)' => Open(m) /\ pend'[m].phone = pend[m].phone
    BY <1>3, <1>5 DEF sweep_expired
  <2>2. \A m \in LoginIds : Open(m)' /\ Kept(m) => Kept(m)'
    BY <1>5 DEF Kept, sweep_expired
  <2> QED BY <1>0, <2>1, <2>2, LoginsFrame
<1>6. ASSUME NEW q \in LoginIds, watch_qr_login(q) \/ WatcherInserts(q) \/ clean_pending_logins(q)
      PROVE  NoOrphanLogin' /\ OneLoginPerPhone'
  BY <1>1, <1>6 DEF watch_qr_login, WatcherInserts, clean_pending_logins
<1>7. ASSUME NEW k \in Polls, Poll(k) \/ qr_login_status(k) \/ PollFails(k) PROVE NoOrphanLogin' /\ OneLoginPerPhone'
  BY <1>1, <1>7 DEF Poll, qr_login_status, PollFails, server
<1>8. ASSUME NEW k \in Polls, PollAnswered(k) PROVE NoOrphanLogin' /\ OneLoginPerPhone'
  <2>1. ui'.flow = ui.flow
    BY <1>0, <1>8 DEF PollAnswered, UiType
  <2> QED BY <1>1, <1>8, <2>1 DEF PollAnswered, server
<1>9. CASE Countdown
  <2>1. ui'.flow = ui.flow
    BY <1>0, <1>9 DEF Countdown, UiType
  <2> QED BY <1>1, <1>9, <2>1 DEF Countdown, server
<1>10. CASE Push
  <2>1. \A d \in Calls : call'[d].op = call[d].op /\ call'[d].id = call[d].id
    BY <1>0, <1>10 DEF Push, Unmounted, LoginTypeOK, CallType
  <2>2. pend' = pend /\ stray' = stray /\ cancels' = cancels \cup ({ui.flow} \ {0})
    BY <1>0, <1>10 DEF Push, Leave, cancel, FlowShaped, server
  <2>3. \A m \in LoginIds : Kept(m) => Kept(m)'
    BY <2>1, <2>2, LoginIdsType DEF Kept
  <2>4. \A m \in LoginIds : Open(m)' => Open(m) /\ pend'[m].phone = pend[m].phone
    BY <2>2 DEF Open
  <2> QED BY <1>0, <2>3, <2>4, LoginsFrame
<1> QED BY LoginsUser, LoginsServer, LoginsAnswer, <1>2, <1>4, <1>5, <1>6, <1>7, <1>8, <1>9, <1>10 DEF LoginNext

-----------------------------------------------------------------------------
(* The count of the accounts and the limit of the plan.                   *)

Room(p) == p \in rows \/ Cardinality(rows) < Limit

LEMMA RowsFinite == LoginTypeOK => IsFiniteSet(rows) /\ Cardinality(rows) \in Nat /\ Limit \in Nat
  BY AccountLoginAssumption, FS_Subset, FS_CardinalityType DEF LoginTypeOK

(* No account is inserted, and who has counted had counted or finds room. *)
LEMMA CountFrame ==
  ASSUME WithinPlan, CountHolds, rows' = rows, overlap' = overlap,
         \A c \in Calls : CallAt(c, "counted")' =>
           call'[c].phone = call[c].phone /\ (CallAt(c, "counted") \/ Room(call[c].phone)),
         \A q \in LoginIds : qr'[q].counted => (qr[q].counted /\ qr'[q].phone = qr[q].phone) \/ Room(qr'[q].phone)
  PROVE  WithinPlan' /\ CountHolds'
<1>1. WithinPlan'
  BY DEF WithinPlan
<1>2. CASE overlap
  BY <1>1, <1>2 DEF CountHolds
<1>3. CASE ~overlap
  <2>1. ASSUME NEW c \in Calls, CallAt(c, "counted")' PROVE Room(call[c].phone) /\ call'[c].phone = call[c].phone
    BY <1>3, <2>1 DEF CountHolds, Room
  <2>2. ASSUME NEW q \in LoginIds, qr'[q].counted PROVE Room(qr'[q].phone)
    BY <1>3, <2>2 DEF CountHolds, Room
  <2> QED BY <1>1, <2>1, <2>2 DEF CountHolds, Room
<1> QED BY <1>2, <1>3

(* An account is inserted: there was room for it when it was counted, and *)
(* if there no longer is, another was inserted meanwhile.                 *)
LEMMA CountInsert ==
  ASSUME LoginTypeOK, WithinPlan, CountHolds, NEW p \in Phones, NEW others \in BOOLEAN, InsertRow(p, others),
         overlap \/ Room(p),
         \A c \in Calls : CallAt(c, "counted")' => others /\ CallAt(c, "counted") /\ call'[c].phone = call[c].phone,
         \A q \in LoginIds : qr'[q].counted => others /\ qr[q].counted /\ qr'[q].phone = qr[q].phone
  PROVE  WithinPlan' /\ CountHolds'
<1>1. CASE overlap
  BY <1>1 DEF InsertRow, WithinPlan, CountHolds
<1>2. CASE ~overlap /\ p \in rows
  <2>1. rows' = rows /\ overlap' = overlap
    BY <1>2 DEF InsertRow, LoginTypeOK
  <2> QED BY <2>1, CountFrame
<1>3. CASE ~overlap /\ p \notin rows
  <2>1. PICK R : R = rows
    OBVIOUS
  <2>2. IsFiniteSet(R) /\ Cardinality(R) \in Nat /\ Limit \in Nat /\ Cardinality(R) < Limit /\ p \notin R
    BY <1>3, <2>1, RowsFinite DEF Room
  <2>3. Cardinality(R \cup {p}) = Cardinality(R) + 1
    BY <2>2, FS_AddElement
  <2>4. Cardinality(R \cup {p}) <= Limit
    BY <2>2, <2>3
  <2>5. WithinPlan'
    BY <2>1, <2>4 DEF WithinPlan, InsertRow
  <2>6. overlap' = others
    BY <1>3 DEF InsertRow, LoginTypeOK
  <2>7. CountHolds'
    BY <2>6 DEF CountHolds
  <2> QED BY <2>5, <2>7
<1> QED BY <1>1, <1>2, <1>3

LEMMA CountServer ==
  ASSUME LoginInv, NEW c \in Calls, ServerStep(c)
  PROVE  WithinPlan' /\ CountHolds'
<1>0. LoginTypeOK /\ WithinPlan /\ CountHolds /\ call[c] \in CallType /\ call[c].phone \in Phones
  BY CallFields DEF LoginInv, LoginTypeOK
<1>1. ASSUME NEW a, NEW id, Reply(c, a, id)
      PROVE  /\ ~CallAt(c, "counted")'
             /\ \A d \in Calls \ {c} : call'[d] = call[d]
  BY <1>0, <1>1 DEF Reply, LoginTypeOK, CallType, CallAt
<1>2. ASSUME rows' = rows, overlap' = overlap, qr' = qr, NEW a, NEW id, Reply(c, a, id)
      PROVE  WithinPlan' /\ CountHolds'
  <2>1. \A d \in Calls : CallAt(d, "counted")' => call'[d].phone = call[d].phone /\ CallAt(d, "counted")
    BY <1>1, <1>2 DEF CallAt
  <2> QED BY <1>0, <1>2, <2>1, CountFrame
<1>3. CASE send_code(c)
  BY <1>2, <1>3 DEF send_code
<1>4. CASE Advance(c)
  BY <1>2, <1>4 DEF Advance
<1>5. CASE Refuse(c)
  BY <1>2, <1>5 DEF Refuse
<1>6. CASE Count(c)
  <2>1. rows' = rows /\ overlap' = overlap /\ qr' = qr
    BY <1>6 DEF Count, server
  <2>2. CASE Reply(c, "failed", call[c].id)
    BY <1>2, <2>1, <2>2
  <2>3. CASE check_account_limit(call[c].phone, call[c].op # "qr2fa") /\ call' = [call EXCEPT ![c].pc = "counted"]
    <3>1. Room(call[c].phone)
      BY <2>3 DEF check_account_limit, Room
    <3>2. \A d \in Calls : call'[d].phone = call[d].phone /\ (d # c => call'[d] = call[d])
      BY <1>0, <2>3 DEF LoginTypeOK, CallType
    <3>3. \A d \in Calls : CallAt(d, "counted")' =>
             call'[d].phone = call[d].phone /\ (CallAt(d, "counted") \/ Room(call[d].phone))
      BY <3>1, <3>2 DEF CallAt
    <3> QED BY <1>0, <2>1, <3>3, CountFrame
  <2> QED BY <1>6, <2>2, <2>3 DEF Count
<1>7. CASE finish_login(c)
  <2> DEFINE others == BetweenCountAndInsert # {c} \/ WatchersCounted # {}
  <2>1. InsertRow(call[c].phone, others) /\ CallAt(c, "counted") /\ Reply(c, "done", call[c].id)
    BY <1>7 DEF finish_login
  <2>2. \A q \in LoginIds : qr'[q].counted = qr[q].counted /\ qr'[q].phone = qr[q].phone
    BY <1>0, <1>7 DEF finish_login, LoginTypeOK, QrType
  <2>3. \A d \in Calls : CallAt(d, "counted")' => d # c /\ CallAt(d, "counted") /\ call'[d].phone = call[d].phone
    BY <1>1, <2>1 DEF CallAt
  <2>4. \A d \in Calls : CallAt(d, "counted")' => others
    BY <2>3 DEF BetweenCountAndInsert
  <2>5. \A q \in LoginIds : qr'[q].counted => others
    BY <2>2 DEF WatchersCounted
  <2>6. overlap \/ Room(call[c].phone)
    BY <1>0, <2>1 DEF CountHolds, Room
  <2>7. others \in BOOLEAN
    OBVIOUS
  <2> HIDE DEF others
  <2> QED BY <1>0, <2>1, <2>2, <2>3, <2>4, <2>5, <2>6, <2>7, CountInsert
<1>8. CASE FailAny(c)
  BY <1>2, <1>8 DEF FailAny, server
<1>11. CASE AnswerLost(c)
  BY <1>2, <1>11 DEF AnswerLost, server
<1>9. CASE cancel_login(c)
  BY <1>2, <1>9 DEF cancel_login
<1>10. CASE qr_login_init(c)
  <2>1. rows' = rows /\ overlap' = overlap
    BY <1>10 DEF qr_login_init
  <2>2. \A q \in LoginIds : qr'[q].counted = qr[q].counted /\ qr'[q].phone = qr[q].phone
    BY <1>0, <1>10 DEF qr_login_init, LoginTypeOK, QrType
  <2>3. \A d \in Calls : CallAt(d, "counted")' => call'[d].phone = call[d].phone /\ CallAt(d, "counted")
    BY <1>1, <1>10 DEF CallAt, qr_login_init
  <2> QED BY <1>0, <2>1, <2>2, <2>3, CountFrame
<1> QED BY <1>3, <1>4, <1>5, <1>6, <1>7, <1>8, <1>9, <1>10, <1>11 DEF ServerStep

LEMMA CountWatcher ==
  ASSUME LoginInv, NEW q \in LoginIds, watch_qr_login(q) \/ WatcherInserts(q) \/ clean_pending_logins(q)
  PROVE  WithinPlan' /\ CountHolds'
<1>0. LoginTypeOK /\ WithinPlan /\ CountHolds /\ qr[q] \in QrType /\ qr[q].phone \in Phones
  BY QrFields DEF LoginInv, LoginTypeOK
<1>1. ASSUME rows' = rows, overlap' = overlap, call' = call, NEW k, qr' = [qr EXCEPT ![q] = k],
             k.counted => (qr[q].counted /\ k.phone = qr[q].phone) \/ Room(k.phone)
      PROVE  WithinPlan' /\ CountHolds'
  <2>1. \A r \in LoginIds : qr'[r].counted => (qr[r].counted /\ qr'[r].phone = qr[r].phone) \/ Room(qr'[r].phone)
    BY <1>0, <1>1 DEF LoginTypeOK
  <2>2. \A d \in Calls : CallAt(d, "counted")' => call'[d].phone = call[d].phone /\ CallAt(d, "counted")
    BY <1>1 DEF CallAt
  <2> QED BY <1>0, <1>1, <2>1, <2>2, CountFrame
<1>2. CASE watch_qr_login(q)
  <2>0. rows' = rows /\ overlap' = overlap /\ call' = call /\ ~qr[q].counted
    BY <1>2 DEF watch_qr_login
  <2>1. CASE \E p \in Phones :
          qr' = [qr EXCEPT ![q] = IF check_account_limit(p, FALSE)
                                  THEN [st |-> "pending", phone |-> p, counted |-> TRUE]
                                  ELSE [st |-> "failed", phone |-> p, counted |-> FALSE]]
    <3>1. PICK p \in Phones :
          qr' = [qr EXCEPT ![q] = IF check_account_limit(p, FALSE)
                                  THEN [st |-> "pending", phone |-> p, counted |-> TRUE]
                                  ELSE [st |-> "failed", phone |-> p, counted |-> FALSE]]
      BY <2>1
    <3>2. CASE check_account_limit(p, FALSE)
      <4>1. Room(p)
        BY <3>2 DEF check_account_limit, Room
      <4>2. qr' = [qr EXCEPT ![q] = [st |-> "pending", phone |-> p, counted |-> TRUE]]
        BY <3>1, <3>2
      <4> QED BY <1>1, <2>0, <4>1, <4>2
    <3>3. CASE ~check_account_limit(p, FALSE)
      <4>2. qr' = [qr EXCEPT ![q] = [st |-> "failed", phone |-> p, counted |-> FALSE]]
        BY <3>1, <3>3
      <4> QED BY <1>1, <2>0, <4>2
    <3> QED BY <3>2, <3>3
  <2>2. CASE \E p \in Phones : qr' = [qr EXCEPT ![q] = [@ EXCEPT !.st = "requires_2fa", !.phone = p]]
    <3>1. PICK p \in Phones : qr' = [qr EXCEPT ![q] = [qr[q] EXCEPT !.st = "requires_2fa", !.phone = p]]
      BY <1>0, <2>2 DEF LoginTypeOK
    <3>2. ~[qr[q] EXCEPT !.st = "requires_2fa", !.phone = p].counted
      BY <1>0, <2>0 DEF QrType
    <3> QED BY <1>1, <2>0, <3>1, <3>2
  <2>3. CASE qr' = [qr EXCEPT ![q].st = "expired"]
    <3>2. ~[qr[q] EXCEPT !.st = "expired"].counted
      BY <1>0, <2>0 DEF QrType
    <3> QED BY <1>1, <2>0, <2>3, <3>2
  <2> QED BY <1>2, <2>1, <2>2, <2>3 DEF watch_qr_login
<1>3. CASE WatcherInserts(q)
  <2> DEFINE others == BetweenCountAndInsert # {} \/ WatchersCounted # {q}
  <2>1. InsertRow(qr[q].phone, others) /\ qr[q].counted /\ call' = call
    BY <1>3 DEF WatcherInserts
  <2>2. \A r \in LoginIds : qr'[r].counted => r # q /\ qr'[r] = qr[r]
    BY <1>0, <1>3 DEF WatcherInserts, LoginTypeOK, QrType
  <2>3. \A d \in Calls : CallAt(d, "counted")' => CallAt(d, "counted") /\ call'[d].phone = call[d].phone
    BY <2>1 DEF CallAt
  <2>4. \A d \in Calls : CallAt(d, "counted")' => others
    BY <2>3 DEF BetweenCountAndInsert
  <2>5. \A r \in LoginIds : qr'[r].counted => others
    BY <2>2 DEF WatchersCounted
  <2>6. overlap \/ Room(qr[q].phone)
    BY <1>0, <2>1 DEF CountHolds, Room
  <2>7. others \in BOOLEAN
    OBVIOUS
  <2> HIDE DEF others
  <2> QED BY <1>0, <2>1, <2>2, <2>3, <2>4, <2>5, <2>6, <2>7, CountInsert
<1>4. CASE clean_pending_logins(q)
  <2>1. rows' = rows /\ overlap' = overlap /\ call' = call /\ qr' = [qr EXCEPT ![q] = [qr[q] EXCEPT !.st = "swept"]]
    BY <1>0, <1>4 DEF clean_pending_logins, LoginTypeOK
  <2>2. [qr[q] EXCEPT !.st = "swept"].counted = qr[q].counted /\ [qr[q] EXCEPT !.st = "swept"].phone = qr[q].phone
    BY <1>0 DEF QrType
  <2> QED BY <1>1, <2>1, <2>2
<1> QED BY <1>2, <1>3, <1>4

LEMMA CountStep == LoginInv /\ [LoginNext]_loginVars => WithinPlan' /\ CountHolds'
<1> SUFFICES ASSUME LoginInv, [LoginNext]_loginVars PROVE WithinPlan' /\ CountHolds'
  OBVIOUS
<1>0. LoginTypeOK /\ WithinPlan /\ CountHolds
  BY DEF LoginInv
<1>1. ASSUME rows' = rows, overlap' = overlap, qr' = qr,
             \A d \in Calls : call'[d].pc = "counted" => call[d].pc = "counted" /\ call'[d].phone = call[d].phone
      PROVE  WithinPlan' /\ CountHolds'
  BY <1>0, <1>1, CountFrame DEF CallAt
<1>2. ASSUME rows' = rows, overlap' = overlap, qr' = qr, NEW c \in Calls, NEW k, k.pc # "counted",
             call' = [call EXCEPT ![c] = k]
      PROVE  WithinPlan' /\ CountHolds'
  BY <1>0, <1>1, <1>2 DEF LoginTypeOK
<1>3. /\ \A d \in Calls : Unmounted[d].pc = call[d].pc /\ Unmounted[d].phone = call[d].phone
      /\ \A c \in Calls : \A k : k.pc # "counted" =>
           \A d \in Calls : [Unmounted EXCEPT ![c] = k][d].pc = "counted" =>
             call[d].pc = "counted" /\ [Unmounted EXCEPT ![c] = k][d].phone = call[d].phone
  BY <1>0 DEF Unmounted, LoginTypeOK, CallType
<1>5. NoCall.pc # "counted"
  BY DEF NoCall
<1>6. CASE UNCHANGED loginVars
  BY <1>1, <1>6 DEF loginVars, server
<1>7. ASSUME NEW c \in Calls, LoginUserStep(c) PROVE WithinPlan' /\ CountHolds'
  <2>1. rows' = rows /\ overlap' = overlap /\ qr' = qr
    BY <1>7 DEF LoginUserStep, sendCode, SubmitCall, changePhone, RefreshQr, submit2FA, Upload, SwitchTab, server
  <2>2. CASE sendCode(c) \/ SubmitCall(c) \/ changePhone(c) \/ RefreshQr(c) \/ submit2FA(c) \/ Upload(c)
    <3>1. ASSUME NEW op, NEW id, NEW p, call' = [call EXCEPT ![c] = Request(op, id, p)]
          PROVE  WithinPlan' /\ CountHolds'
      <4> DEFINE k == Request(op, id, p)
      <4>1. k.pc # "counted" /\ call' = [call EXCEPT ![c] = k]
        BY <3>1 DEF Request
      <4> HIDE DEF k
      <4> QED BY <1>2, <2>1, <4>1
    <3>2. CASE sendCode(c)
      <4>1. PICK p \in Phones : call' = [call EXCEPT ![c] = Request("send", 0, p)]
        BY <3>2 DEF sendCode
      <4> QED BY <3>1, <4>1
    <3>3. CASE SubmitCall(c)
      <4>1. PICK op \in StepOps : call' = [call EXCEPT ![c] = Request(op, ui.flow, pend[ui.flow].phone)]
        BY <3>3 DEF SubmitCall
      <4> QED BY <3>1, <4>1
    <3>4. CASE Upload(c)
      <4>1. PICK p \in Phones : call' = [call EXCEPT ![c] = Request("upload", 0, p)]
        BY <3>4 DEF Upload
      <4> QED BY <3>1, <4>1
    <3>5. CASE changePhone(c) \/ RefreshQr(c) \/ submit2FA(c)
      BY <3>1, <3>5 DEF changePhone, RefreshQr, submit2FA
    <3> QED BY <2>2, <3>2, <3>3, <3>4, <3>5
  <2>3. ASSUME NEW to \in Tabs, SwitchTab(to, c) PROVE WithinPlan' /\ CountHolds'
    <3>1. Request("qrInit", 0, Somebody).pc # "counted"
      BY DEF Request
    <3>2. CASE call' = Unmounted
      BY <1>1, <1>3, <2>1, <3>2
    <3>3. CASE call' = [Unmounted EXCEPT ![c] = Request("qrInit", 0, Somebody)]
      BY <1>1, <1>3, <2>1, <3>1, <3>3
    <3> QED BY <2>3, <3>2, <3>3 DEF SwitchTab
  <2> QED BY <1>7, <2>2, <2>3 DEF LoginUserStep
<1>8. ASSUME NEW c \in Calls, AnswerStep(c) PROVE WithinPlan' /\ CountHolds'
  <2>1. rows' = rows /\ overlap' = overlap /\ qr' = qr
    BY <1>8 DEF AnswerStep, HandleError, StepShown, PhoneChanged, QrShown, complete, Accepted2FA, server
  <2>2. CASE Done(c)
    BY <1>2, <1>5, <2>1, <2>2 DEF Done
  <2>3. CASE complete(c)
    BY <1>1, <1>3, <1>5, <2>1, <2>3 DEF complete
  <2> QED BY <1>8, <2>2, <2>3 DEF AnswerStep, HandleError, StepShown, PhoneChanged, QrShown, Accepted2FA
<1>9. ASSUME NEW l \in LoginIds, CancelArrives(l) \/ sweep_expired(l) PROVE WithinPlan' /\ CountHolds'
  BY <1>1, <1>9 DEF CancelArrives, sweep_expired
<1>10. ASSUME NEW k \in Polls, Poll(k) \/ qr_login_status(k) \/ PollFails(k) \/ PollAnswered(k)
       PROVE  WithinPlan' /\ CountHolds'
  BY <1>1, <1>10 DEF Poll, qr_login_status, PollFails, PollAnswered, server
<1>11. CASE Countdown
  BY <1>1, <1>11 DEF Countdown, server
<1>12. CASE Push
  BY <1>1, <1>3, <1>12 DEF Push, server
<1> QED BY CountServer, CountWatcher, <1>6, <1>7, <1>8, <1>9, <1>10, <1>11, <1>12 DEF LoginNext

-----------------------------------------------------------------------------
(* QR codes: what was once found of a code stays so.                      *)

Accepting(q) == \E c \in Calls : call[c].op = "qr2fa" /\ CallAt(c, "counted") /\ call[c].id = q

(* A code moves on only from where nothing was found, by a password that  *)
(* was accepted, or out of the server's memory.                           *)
QrMoves ==
  \A q \in LoginIds : \/ qr'[q].st \in {qr[q].st, "swept"} \/ qr[q].st \in {"none", "pending"}
                      \/ qr'[q].st = "success" /\ Accepting(q)

(* A password is tried for the code it was asked for.                     *)
NewCounts ==
  \A c \in Calls : (call'[c].op = "qr2fa" /\ CallAt(c, "counted")') =>
    /\ call[c].op = "qr2fa" /\ call'[c].id = call[c].id
    /\ CallAt(c, "counted") \/ qr[call[c].id].st = "requires_2fa"

LEMMA FoundKept ==
  ASSUME LoginInv, QrMoves, NewCounts, NEW q \in LoginIds, NEW a, Found(a, q)
  PROVE  Found(a, q)'
<1>0. LoginTypeOK /\ QrShaped
  BY DEF LoginInv
<1>1. Accepting(q) => qr[q].st \in {"requires_2fa", "success", "swept"}
  BY <1>0 DEF QrShaped, Found, Accepting
<1>2. CASE a = "failed"
  <2>1. qr[q].st \in {"failed", "swept"} /\ ~Accepting(q)
    BY <1>2 DEF Found, Accepting
  <2>2. qr'[q].st \in {"failed", "swept"}
    BY <2>1 DEF QrMoves
  <2>3. ~Accepting(q)'
    BY <2>1 DEF NewCounts, Accepting
  <2> QED BY <1>2, <2>2, <2>3 DEF Found, Accepting
<1>3. CASE a = "requires_2fa"
  BY <1>3 DEF Found, QrMoves
<1>4. CASE a = "success"
  BY <1>4 DEF Found, QrMoves
<1>5. CASE a \notin {"failed", "requires_2fa", "success"}
  BY <1>5 DEF Found
<1> QED BY <1>2, <1>3, <1>4, <1>5

(* What the requests, the polls and the page say of a code.               *)
LEMMA QrFrame ==
  ASSUME LoginInv, LoginTypeOK', CallsShaped', QrMoves, NewCounts,
         \A c \in Calls : (call'[c].op = "qr2fa" /\ call'[c].ans = "done") =>
           call'[c].id # 0 /\
           (Found("success", call'[c].id) \/ qr'[call'[c].id].st = "success"),
         \A k \in Polls : poll'[k].pc # "idle" =>
           poll'[k].id # 0 /\ (poll'[k].pc = "answered" => Found(poll'[k].ans, poll'[k].id)),
         ~ui'.mixed => IF ui'.qid = 0 THEN ui'.qst = "pending" ELSE Found(ui'.qst, ui'.qid)
  PROVE  QrShaped'
<1>0. LoginTypeOK /\ CallsShaped /\ QrShaped
  BY DEF LoginInv
<1>1. ASSUME NEW i \in 0..MaxIds, i # 0 PROVE i \in LoginIds
  BY <1>1, LoginIdsType
<1>2. ASSUME NEW c \in Calls, (call[c].op = "qr2fa" /\ CallAt(c, "counted"))' PROVE Found("requires_2fa", call[c].id)'
  <2> DEFINE i == call[c].id
  <2>1. call'[c].id = i /\ call[c].op = "qr2fa"
    BY <1>2 DEF NewCounts
  <2>2. i \in LoginIds
    BY <1>0, <1>1, <2>1, CallFields DEF LoginTypeOK, CallsShaped, CallShape
  <2>3. Found("requires_2fa", i)
    BY <1>0, <1>2, <2>1 DEF NewCounts, QrShaped, Found
  <2> HIDE DEF i
  <2>4. PICK q \in LoginIds : q = i
    BY <2>2
  <2>5. Found("requires_2fa", q)'
    BY <2>3, <2>4, FoundKept
  <2> QED BY <2>1, <2>4, <2>5 DEF Found
<1>3. ASSUME NEW c \in Calls, (call[c].op = "qr2fa" /\ call[c].ans = "done")' PROVE Found("success", call[c].id)'
  <2>1. call'[c].id \in LoginIds
    BY <1>1, <1>3, CallFields DEF LoginTypeOK
  <2>2. PICK q \in LoginIds : q = call'[c].id
    BY <2>1
  <2>3. Found("success", q) \/ qr'[q].st = "success"
    BY <1>3, <2>2
  <2>4. Found("success", q)'
    BY <2>3, FoundKept DEF Found
  <2> QED BY <2>2, <2>4 DEF Found
<1>4. ASSUME NEW k \in Polls, poll'[k].pc = "answered" PROVE Found(poll[k].ans, poll[k].id)'
  <2>1. poll'[k].id \in LoginIds
    BY <1>1, <1>4, PollFields DEF LoginTypeOK
  <2>2. PICK q \in LoginIds : q = poll'[k].id
    BY <2>1
  <2>3. PICK a : a = poll'[k].ans
    OBVIOUS
  <2>4. Found(a, q)'
    BY <1>4, <2>2, <2>3, FoundKept
  <2> QED BY <2>2, <2>3, <2>4 DEF Found
<1>5. ASSUME ui'.qid # 0, ~ui'.mixed PROVE Found(ui.qst, ui.qid)'
  <2>1. ui'.qid \in LoginIds
    BY <1>1, <1>5, UiFields DEF LoginTypeOK
  <2>2. PICK q \in LoginIds : q = ui'.qid
    BY <2>1
  <2>3. PICK a : a = ui'.qst
    OBVIOUS
  <2>4. Found(a, q)'
    BY <1>5, <2>2, <2>3, FoundKept
  <2> QED BY <2>2, <2>3, <2>4 DEF Found
<1> QED BY <1>2, <1>3, <1>4, <1>5 DEF QrShaped

(* No request is counted or accepted, and what the page shows is known.   *)
LEMMA QrQuiet ==
  ASSUME LoginInv, LoginTypeOK', CallsShaped', QrMoves,
         \A c \in Calls : (call'[c].op = "qr2fa" /\ (call'[c].pc = "counted" \/ call'[c].ans = "done")) =>
           /\ call[c].op = "qr2fa" /\ call[c].id = call'[c].id
           /\ call[c].pc = call'[c].pc /\ call[c].ans = call'[c].ans,
         \A k \in Polls : poll'[k].pc # "idle" =>
           poll'[k].id # 0 /\ (poll'[k].pc = "answered" => Found(poll'[k].ans, poll'[k].id)),
         ~ui'.mixed => IF ui'.qid = 0 THEN ui'.qst = "pending" ELSE Found(ui'.qst, ui'.qid)
  PROVE  QrShaped'
<1>0. CallsShaped /\ QrShaped
  BY DEF LoginInv
<1>1. NewCounts
  BY DEF NewCounts, CallAt
<1>2. \A c \in Calls : (call'[c].op = "qr2fa" /\ call'[c].ans = "done") =>
           call'[c].id # 0 /\ (Found("success", call'[c].id) \/ qr'[call'[c].id].st = "success")
  BY <1>0 DEF CallsShaped, CallShape, QrShaped
<1> QED BY <1>1, <1>2, QrFrame

LEMMA QrUser ==
  ASSUME LoginInv, LoginTypeOK', CallsShaped', NEW c \in Calls, LoginUserStep(c)
  PROVE  QrShaped'
<1>0. LoginTypeOK /\ QrShaped /\ ui \in UiType
  BY DEF LoginInv, LoginTypeOK
<1>1. qr' = qr
  BY DEF LoginUserStep, sendCode, SubmitCall, changePhone, RefreshQr, submit2FA, Upload, SwitchTab, server
<1>2. QrMoves
  BY <1>1 DEF QrMoves
<1>3. ASSUME NEW f, NEW op, NEW id, NEW p, call' = [f EXCEPT ![c] = Request(op, id, p)], DOMAIN f = Calls,
             \A d \in Calls : /\ f[d].op = call[d].op /\ f[d].id = call[d].id
                              /\ f[d].pc = call[d].pc /\ f[d].ans = call[d].ans
      PROVE  \A d \in Calls : (call'[d].op = "qr2fa" /\ (call'[d].pc = "counted" \/ call'[d].ans = "done")) =>
               /\ call[d].op = "qr2fa" /\ call[d].id = call'[d].id
               /\ call[d].pc = call'[d].pc /\ call[d].ans = call'[d].ans
  <2> DEFINE k == Request(op, id, p)
  <2>1. call' = [f EXCEPT ![c] = k] /\ k.pc = "sent" /\ k.ans = "none"
    BY <1>3 DEF Request
  <2> HIDE DEF k
  <2>2. \A d \in Calls : call'[d] = IF d = c THEN k ELSE f[d]
    BY <1>3, <2>1
  <2> QED BY <1>3, <2>1, <2>2
<1>4. CASE sendCode(c) \/ SubmitCall(c) \/ changePhone(c) \/ RefreshQr(c) \/ submit2FA(c) \/ Upload(c)
  <2>1. ASSUME NEW op, NEW id, NEW p, call' = [call EXCEPT ![c] = Request(op, id, p)]
        PROVE  \A d \in Calls : (call'[d].op = "qr2fa" /\ (call'[d].pc = "counted" \/ call'[d].ans = "done")) =>
               /\ call[d].op = "qr2fa" /\ call[d].id = call'[d].id
               /\ call[d].pc = call'[d].pc /\ call[d].ans = call'[d].ans
    BY <1>0, <1>3, <2>1 DEF LoginTypeOK
  <2>2. \A d \in Calls : (call'[d].op = "qr2fa" /\ (call'[d].pc = "counted" \/ call'[d].ans = "done")) =>
               /\ call[d].op = "qr2fa" /\ call[d].id = call'[d].id
               /\ call[d].pc = call'[d].pc /\ call[d].ans = call'[d].ans
    <3>1. CASE sendCode(c)
      <4>1. PICK p \in Phones : call' = [call EXCEPT ![c] = Request("send", 0, p)]
        BY <3>1 DEF sendCode
      <4> QED BY <2>1, <4>1
    <3>2. CASE SubmitCall(c)
      <4>1. PICK op \in StepOps : call' = [call EXCEPT ![c] = Request(op, ui.flow, pend[ui.flow].phone)]
        BY <3>2 DEF SubmitCall
      <4> QED BY <2>1, <4>1
    <3>3. CASE Upload(c)
      <4>1. PICK p \in Phones : call' = [call EXCEPT ![c] = Request("upload", 0, p)]
        BY <3>3 DEF Upload
      <4> QED BY <2>1, <4>1
    <3>4. CASE changePhone(c)
      <4>1. call' = [call EXCEPT ![c] = Request("change", ui.flow, pend[ui.flow].phone)]
        BY <3>4 DEF changePhone
      <4> QED BY <2>1, <4>1
    <3>5. CASE RefreshQr(c)
      <4>1. call' = [call EXCEPT ![c] = Request("qrInit", 0, Somebody)]
        BY <3>5 DEF RefreshQr
      <4> QED BY <2>1, <4>1
    <3>6. CASE submit2FA(c)
      <4>1. call' = [call EXCEPT ![c] = Request("qr2fa", ui.qid, qr[ui.qid].phone)]
        BY <3>6 DEF submit2FA
      <4> QED BY <2>1, <4>1
    <3> QED BY <1>4, <3>1, <3>2, <3>3, <3>4, <3>5, <3>6
  <2>3. poll' = poll
    BY <1>4 DEF sendCode, SubmitCall, changePhone, RefreshQr, submit2FA, Upload
  <2>4. \A k \in Polls : poll'[k].pc # "idle" =>
           poll'[k].id # 0 /\ (poll'[k].pc = "answered" => Found(poll'[k].ans, poll'[k].id))
    BY <1>0, <2>3 DEF QrShaped
  <2>5. \/ ui'.qid = 0 /\ ui'.qst = "pending"
        \/ ui'.qid = ui.qid /\ ui'.qst = ui.qst /\ ui'.mixed = ui.mixed
    BY <1>0, <1>4 DEF sendCode, SubmitCall, changePhone, RefreshQr, submit2FA, Upload, initQR, UiType
  <2>6. ~ui'.mixed => IF ui'.qid = 0 THEN ui'.qst = "pending" ELSE Found(ui'.qst, ui'.qid)
    BY <1>0, <2>5 DEF QrShaped
  <2> QED BY <1>2, <2>2, <2>4, <2>6, QrQuiet
<1>5. ASSUME NEW to \in Tabs, SwitchTab(to, c) PROVE QrShaped'
  <2>1. /\ DOMAIN Unmounted = Calls
        /\ \A d \in Calls : /\ Unmounted[d].op = call[d].op /\ Unmounted[d].id = call[d].id
                            /\ Unmounted[d].pc = call[d].pc /\ Unmounted[d].ans = call[d].ans
    BY <1>0 DEF Unmounted, LoginTypeOK, CallType
  <2>2. \A d \in Calls : (call'[d].op = "qr2fa" /\ (call'[d].pc = "counted" \/ call'[d].ans = "done")) =>
               /\ call[d].op = "qr2fa" /\ call[d].id = call'[d].id
               /\ call[d].pc = call'[d].pc /\ call[d].ans = call'[d].ans
    <3>1. CASE call' = Unmounted
      BY <2>1, <3>1
    <3>2. CASE call' = [Unmounted EXCEPT ![c] = Request("qrInit", 0, Somebody)]
      <4> DEFINE k == Request("qrInit", 0, Somebody)
      <4>1. k.pc = "sent" /\ k.ans = "none"
        BY DEF Request
      <4>2. \A d \in Calls : call'[d] = IF d = c THEN k ELSE Unmounted[d]
        BY <3>2 DEF Unmounted
      <4> HIDE DEF k
      <4> QED BY <2>1, <4>1, <4>2
    <3> QED BY <1>5, <3>1, <3>2 DEF SwitchTab
  <2>3. \A k \in Polls : poll'[k].id = poll[k].id /\ poll'[k].pc = poll[k].pc /\ poll'[k].ans = poll[k].ans
    BY <1>0, <1>5 DEF SwitchTab, UnmountedPolls, LoginTypeOK, PollType
  <2>4. \A k \in Polls : poll'[k].pc # "idle" =>
           poll'[k].id # 0 /\ (poll'[k].pc = "answered" => Found(poll'[k].ans, poll'[k].id))
    BY <1>0, <2>3 DEF QrShaped
  <2>5. ui'.qid = 0 /\ ui'.qst = "pending"
    BY <1>5 DEF SwitchTab, Leave, Fresh
  <2> QED BY <1>2, <2>2, <2>4, <2>5, QrQuiet
<1> QED BY <1>4, <1>5 DEF LoginUserStep

LEMMA QrServer ==
  ASSUME LoginInv, LoginTypeOK', CallsShaped', NEW c \in Calls, ServerStep(c)
  PROVE  QrShaped'
<1>0. LoginTypeOK /\ QrShaped /\ CallsShaped /\ CallShape(call[c]) /\ call[c] \in CallType
  BY DEF LoginInv, LoginTypeOK, CallsShaped
<1>1. ui' = ui /\ poll' = poll
  BY DEF ServerStep, send_code, Advance, Refuse, Count, finish_login, FailAny, AnswerLost, cancel_login, qr_login_init
<1>2. /\ \A k \in Polls : poll'[k].pc # "idle" =>
           poll'[k].id # 0 /\ (poll'[k].pc = "answered" => Found(poll'[k].ans, poll'[k].id))
      /\ ~ui'.mixed => IF ui'.qid = 0 THEN ui'.qst = "pending" ELSE Found(ui'.qst, ui'.qid)
  BY <1>0, <1>1 DEF QrShaped
<1>3. ASSUME NEW a, a # "done" \/ call[c].op # "qr2fa", NEW id, Reply(c, a, id), QrMoves
      PROVE  QrShaped'
  <2>1. /\ call'[c].pc = "answered" /\ call'[c].ans = a /\ call'[c].op = call[c].op
        /\ \A d \in Calls \ {c} : call'[d] = call[d]
    BY <1>0, <1>3 DEF Reply, LoginTypeOK, CallType
  <2>2. \A d \in Calls : (call'[d].op = "qr2fa" /\ (call'[d].pc = "counted" \/ call'[d].ans = "done")) =>
               /\ call[d].op = "qr2fa" /\ call[d].id = call'[d].id
               /\ call[d].pc = call'[d].pc /\ call[d].ans = call'[d].ans
    BY <1>3, <2>1
  <2> QED BY <1>2, <1>3, <2>2, QrQuiet
<1>4. qr' = qr => QrMoves
  BY DEF QrMoves
<1>5. CASE send_code(c)
  <2>1. PICK stage \in {"code", "setupEmail"} : Reply(c, stage, First(Unused(pend)))
    BY <1>5 DEF send_code
  <2> QED BY <1>3, <1>4, <1>5, <2>1 DEF send_code
<1>6. CASE Advance(c)
  <2>1. PICK next \in Steps : Reply(c, next, call[c].id)
    BY <1>6, ConstTypes DEF Advance
  <2>2. next # "done"
    BY <2>1 DEF Steps
  <2> QED BY <1>3, <1>4, <1>6, <2>1, <2>2 DEF Advance
<1>7. CASE Refuse(c)
  BY <1>3, <1>4, <1>7 DEF Refuse
<1>8. CASE FailAny(c)
  BY <1>3, <1>4, <1>8 DEF FailAny, server
<1>13. CASE AnswerLost(c)
  BY <1>3, <1>4, <1>13 DEF AnswerLost, server
<1>9. CASE cancel_login(c)
  BY <1>3, <1>4, <1>9 DEF cancel_login
<1>10. CASE qr_login_init(c)
  <2> DEFINE f == First(Unused(qr))
  <2>1. f \in Unused(qr)
    BY <1>10, FirstType DEF qr_login_init, Unused
  <2>2. qr' = [qr EXCEPT ![f].st = "pending"] /\ Reply(c, "ok", f)
    BY <1>10 DEF qr_login_init
  <2> HIDE DEF f
  <2>3. QrMoves
    BY <1>0, <2>1, <2>2 DEF QrMoves, Unused, LoginTypeOK
  <2> QED BY <1>3, <2>2, <2>3
<1>11. CASE Count(c)
  <2>1. qr' = qr
    BY <1>11 DEF Count, server
  <2>2. CASE Reply(c, "failed", call[c].id)
    BY <1>3, <1>4, <2>1, <2>2
  <2>3. CASE call' = [call EXCEPT ![c].pc = "counted"]
    <3>1. /\ call'[c].op = call[c].op /\ call'[c].id = call[c].id /\ call'[c].ans = call[c].ans
          /\ \A d \in Calls \ {c} : call'[d] = call[d]
      BY <1>0, <2>3 DEF LoginTypeOK, CallType
    <3>2. call[c].op = "qr2fa" => qr[call[c].id].st = "requires_2fa"
      BY <1>11 DEF Count, Counting, Ready, OtpOps
    <3>3. NewCounts
      BY <3>1, <3>2 DEF NewCounts, CallAt
    <3>4. \A d \in Calls : (call'[d].op = "qr2fa" /\ call'[d].ans = "done") =>
             call'[d].id # 0 /\ (Found("success", call'[d].id) \/ qr'[call'[d].id].st = "success")
      <4>1. \A d \in Calls : call'[d].op = call[d].op /\ call'[d].ans = call[d].ans /\ call'[d].id = call[d].id
        BY <3>1
      <4> QED BY <1>0, <4>1 DEF CallsShaped, CallShape, QrShaped
    <3> QED BY <1>2, <1>4, <2>1, <3>3, <3>4, QrFrame
  <2> QED BY <1>11, <2>2, <2>3 DEF Count
<1>12. CASE finish_login(c)
  <2>1. Reply(c, "done", call[c].id) /\ CallAt(c, "counted")
    BY <1>12 DEF finish_login
  <2>2. CASE call[c].op # "qr2fa"
    BY <1>3, <1>4, <1>12, <2>1, <2>2 DEF finish_login
  <2>3. CASE call[c].op = "qr2fa"
    <3>1. qr' = [qr EXCEPT ![call[c].id].st = "success"]
      BY <1>12, <2>3 DEF finish_login
    <3>2. call[c].id \in LoginIds
      BY <1>0, <2>3, CallFields, LoginIdsType DEF CallShape
    <3>3. /\ qr'[call[c].id].st = "success"
          /\ \A q \in LoginIds : q # call[c].id => qr'[q] = qr[q]
      BY <1>0, <3>1, <3>2 DEF LoginTypeOK, QrType
    <3>4. QrMoves
      BY <2>1, <2>3, <3>3 DEF QrMoves, Accepting
    <3>5. /\ call'[c].pc = "answered" /\ call'[c].id = call[c].id
          /\ \A d \in Calls \ {c} : call'[d] = call[d]
      BY <1>0, <2>1 DEF Reply, LoginTypeOK, CallType
    <3>6. NewCounts
      BY <3>5 DEF NewCounts, CallAt
    <3>7. \A d \in Calls : (call'[d].op = "qr2fa" /\ call'[d].ans = "done") =>
             call'[d].id # 0 /\ (Found("success", call'[d].id) \/ qr'[call'[d].id].st = "success")
      <4>1. call'[c].id # 0 /\ qr'[call'[c].id].st = "success"
        BY <1>0, <2>3, <3>3, <3>5 DEF CallShape
      <4>2. \A d \in Calls \ {c} : (call'[d].op = "qr2fa" /\ call'[d].ans = "done") =>
              call'[d].id # 0 /\ Found("success", call'[d].id)
        BY <1>0, <3>5 DEF CallsShaped, CallShape, QrShaped
      <4> QED BY <4>1, <4>2
    <3> QED BY <1>2, <3>4, <3>6, <3>7, QrFrame
  <2> QED BY <2>2, <2>3
<1> QED BY <1>5, <1>6, <1>7, <1>8, <1>9, <1>10, <1>11, <1>12, <1>13 DEF ServerStep

LEMMA QrAnswer ==
  ASSUME LoginInv, LoginTypeOK', CallsShaped', NEW c \in Calls, AnswerStep(c)
  PROVE  QrShaped'
<1>0. LoginTypeOK /\ QrShaped /\ CallsShaped /\ CallShape(call[c]) /\ call[c] \in CallType /\ ui \in UiType
  BY DEF LoginInv, LoginTypeOK, CallsShaped
<1>1. QrMoves
  BY DEF QrMoves, AnswerStep, HandleError, StepShown, PhoneChanged, QrShown, complete, Accepted2FA, server
<1>2. ASSUME Done(c)
      PROVE  \A d \in Calls : (call'[d].op = "qr2fa" /\ (call'[d].pc = "counted" \/ call'[d].ans = "done")) =>
               /\ call[d].op = "qr2fa" /\ call[d].id = call'[d].id
               /\ call[d].pc = call'[d].pc /\ call[d].ans = call'[d].ans
  <2>1. \A d \in Calls : call'[d] = IF d = c THEN NoCall ELSE call[d]
    BY <1>0, <1>2 DEF Done, LoginTypeOK
  <2>2. NoCall.op = "none"
    BY DEF NoCall
  <2> QED BY <2>1, <2>2
<1>3. ASSUME poll' = poll
      PROVE  \A k \in Polls : poll'[k].pc # "idle" =>
               poll'[k].id # 0 /\ (poll'[k].pc = "answered" => Found(poll'[k].ans, poll'[k].id))
  BY <1>0, <1>3 DEF QrShaped
<1>4. ASSUME Done(c), poll' = poll, ui'.qid = ui.qid, ui'.qst = ui.qst, ui'.mixed = ui.mixed
      PROVE  QrShaped'
  <2>1. ~ui'.mixed => IF ui'.qid = 0 THEN ui'.qst = "pending" ELSE Found(ui'.qst, ui'.qid)
    BY <1>0, <1>4 DEF QrShaped
  <2> QED BY <1>1, <1>2, <1>3, <1>4, <2>1, QrQuiet
<1>5. CASE HandleError(c)
  <2>1. ui'.qid = ui.qid /\ ui'.qst = ui.qst /\ ui'.mixed = ui.mixed
    BY <1>0, <1>5 DEF HandleError, UiType
  <2> QED BY <1>4, <1>5, <2>1 DEF HandleError
<1>6. CASE StepShown(c)
  <2>1. ui'.qid = ui.qid /\ ui'.qst = ui.qst /\ ui'.mixed = ui.mixed
    BY <1>0, <1>6 DEF StepShown, applySentCode, UiType
  <2> QED BY <1>4, <1>6, <2>1 DEF StepShown
<1>7. CASE PhoneChanged(c)
  <2>1. ui'.qid = ui.qid /\ ui'.qst = ui.qst /\ ui'.mixed = ui.mixed
    BY <1>0, <1>7 DEF PhoneChanged, resetFlow, UiType
  <2> QED BY <1>4, <1>7, <2>1 DEF PhoneChanged
<1>8. CASE QrShown(c)
  <2>1. CASE ~call[c].here
    BY <1>4, <1>8, <2>1 DEF QrShown
  <2>2. CASE call[c].here
    <3>1. ui'.qst = ui.qst /\ ui'.mixed = (ui.mixed \/ ui.qst # "pending")
      BY <1>0, <1>8, <2>2 DEF QrShown, UiType
    <3>2. ~ui'.mixed => ui'.qst = "pending"
      BY <3>1
    <3>3. ~ui'.mixed => IF ui'.qid = 0 THEN ui'.qst = "pending" ELSE Found(ui'.qst, ui'.qid)
      BY <3>2 DEF Found
    <3> QED BY <1>1, <1>2, <1>3, <1>8, <3>3, QrQuiet DEF QrShown
  <2> QED BY <2>1, <2>2
<1>9. CASE Accepted2FA(c)
  <2>1. CASE ~call[c].here
    BY <1>4, <1>9, <2>1 DEF Accepted2FA
  <2>2. CASE call[c].here
    <3>1. ui'.qid = ui.qid /\ ui'.qst = "success" /\ ui'.mixed = (ui.mixed \/ call[c].id # ui.qid)
      BY <1>0, <1>9, <2>2 DEF Accepted2FA, UiType
    <3>2. call[c].id # 0 /\ Found("success", call[c].id)
      BY <1>0, <1>9 DEF Accepted2FA, CallShape, QrShaped
    <3>3. ~ui'.mixed => IF ui'.qid = 0 THEN ui'.qst = "pending" ELSE Found(ui'.qst, ui'.qid)
      BY <3>1, <3>2
    <3> QED BY <1>1, <1>2, <1>3, <1>9, <3>3, QrQuiet DEF Accepted2FA
  <2> QED BY <2>1, <2>2
<1>10. CASE complete(c)
  <2>1. \A d \in Calls : call'[d].op = "qr2fa" =>
          /\ call'[d].op = call[d].op /\ call'[d].id = call[d].id
          /\ call'[d].pc = call[d].pc /\ call'[d].ans = call[d].ans
    <3>2. \A d \in Calls : call'[d] = IF d = c THEN NoCall ELSE Unmounted[d]
      BY <1>10 DEF complete, Unmounted
    <3>3. NoCall.op = "none"
      BY DEF NoCall
    <3>4. \A d \in Calls : /\ Unmounted[d].op = call[d].op /\ Unmounted[d].id = call[d].id
                           /\ Unmounted[d].pc = call[d].pc /\ Unmounted[d].ans = call[d].ans
      BY <1>0 DEF Unmounted, LoginTypeOK, CallType
    <3>5. ASSUME NEW d \in Calls, call'[d].op = "qr2fa"
          PROVE  /\ call'[d].op = call[d].op /\ call'[d].id = call[d].id
                 /\ call'[d].pc = call[d].pc /\ call'[d].ans = call[d].ans
      <4>1. d # c
        BY <3>2, <3>3, <3>5
      <4>2. call'[d] = Unmounted[d]
        BY <3>2, <4>1
      <4> QED BY <3>4, <4>2
    <3> QED BY <3>5
  <2>2. \A k \in Polls : poll'[k].id = poll[k].id /\ poll'[k].pc = poll[k].pc /\ poll'[k].ans = poll[k].ans
    BY <1>0, <1>10 DEF complete, UnmountedPolls, LoginTypeOK, PollType
  <2>3. \A k \in Polls : poll'[k].pc # "idle" =>
           poll'[k].id # 0 /\ (poll'[k].pc = "answered" => Found(poll'[k].ans, poll'[k].id))
    BY <1>0, <2>2 DEF QrShaped
  <2>4. ui'.qid = 0 /\ ui'.qst = "pending"
    BY <1>10 DEF complete, Leave, Fresh
  <2> QED BY <1>1, <2>1, <2>3, <2>4, QrQuiet
<1> QED BY <1>5, <1>6, <1>7, <1>8, <1>9, <1>10 DEF AnswerStep

LEMMA QrWatcher ==
  ASSUME LoginInv, LoginTypeOK', CallsShaped', NEW q \in LoginIds,
         watch_qr_login(q) \/ WatcherInserts(q) \/ clean_pending_logins(q)
  PROVE  QrShaped'
<1>0. LoginTypeOK /\ QrShaped /\ qr[q] \in QrType
  BY DEF LoginInv, LoginTypeOK
<1>1. ui' = ui /\ poll' = poll /\ call' = call
  BY DEF watch_qr_login, WatcherInserts, clean_pending_logins
<1>2. /\ \A k \in Polls : poll'[k].pc # "idle" =>
           poll'[k].id # 0 /\ (poll'[k].pc = "answered" => Found(poll'[k].ans, poll'[k].id))
      /\ ~ui'.mixed => IF ui'.qid = 0 THEN ui'.qst = "pending" ELSE Found(ui'.qst, ui'.qid)
  BY <1>0, <1>1 DEF QrShaped
<1>3. \A r \in LoginIds \ {q} : qr'[r] = qr[r]
  BY <1>0 DEF watch_qr_login, WatcherInserts, clean_pending_logins, LoginTypeOK
<1>4. qr'[q].st \in {qr[q].st, "swept"} \/ qr[q].st = "pending"
  <2>1. CASE watch_qr_login(q)
    BY <2>1 DEF watch_qr_login
  <2>2. CASE WatcherInserts(q)
    BY <1>0, <2>2 DEF WatcherInserts, LoginTypeOK, QrType
  <2>3. CASE clean_pending_logins(q)
    BY <1>0, <2>3 DEF clean_pending_logins, LoginTypeOK, QrType
  <2> QED BY <2>1, <2>2, <2>3
<1>5. QrMoves
  BY <1>3, <1>4 DEF QrMoves
<1> QED BY <1>1, <1>2, <1>5, QrQuiet

LEMMA QrPoll ==
  ASSUME LoginInv, LoginTypeOK', CallsShaped', NEW k \in Polls,
         Poll(k) \/ qr_login_status(k) \/ PollFails(k) \/ PollAnswered(k)
  PROVE  QrShaped'
<1>0. LoginTypeOK /\ QrShaped /\ poll[k] \in PollType /\ ui \in UiType
  BY DEF LoginInv, LoginTypeOK
<1>1. call' = call /\ qr' = qr
  BY DEF Poll, qr_login_status, PollFails, PollAnswered, server
<1>2. QrMoves
  BY <1>1 DEF QrMoves
<1>3. ASSUME NEW r, poll' = [poll EXCEPT ![k] = r],
             r.pc # "idle" => r.id # 0 /\ (r.pc = "answered" => Found(r.ans, r.id))
      PROVE  \A j \in Polls : poll'[j].pc # "idle" =>
               poll'[j].id # 0 /\ (poll'[j].pc = "answered" => Found(poll'[j].ans, poll'[j].id))
  <2>1. \A j \in Polls : poll'[j] = IF j = k THEN r ELSE poll[j]
    BY <1>0, <1>3 DEF LoginTypeOK
  <2>2. \A j \in Polls : poll[j].pc # "idle" =>
           poll[j].id # 0 /\ (poll[j].pc = "answered" => Found(poll[j].ans, poll[j].id))
    BY <1>0 DEF QrShaped
  <2> QED BY <1>3, <2>1, <2>2
<1>4. ~ui.mixed => IF ui.qid = 0 THEN ui.qst = "pending" ELSE Found(ui.qst, ui.qid)
  BY <1>0 DEF QrShaped
<1>5. NoPoll.pc = "idle"
  BY DEF NoPoll
<1>6. CASE Poll(k)
  <2> DEFINE r == [id |-> ui.qid, pc |-> "sent", ans |-> "pending", here |-> TRUE]
  <2>1. poll' = [poll EXCEPT ![k] = r] /\ ui' = ui /\ r.id # 0 /\ r.pc = "sent"
    BY <1>6 DEF Poll, PollWhile, Polling
  <2> HIDE DEF r
  <2>2. \A j \in Polls : poll'[j].pc # "idle" =>
          poll'[j].id # 0 /\ (poll'[j].pc = "answered" => Found(poll'[j].ans, poll'[j].id))
    BY <1>3, <2>1
  <2> QED BY <1>1, <1>2, <1>4, <2>1, <2>2, QrQuiet
<1>7. CASE qr_login_status(k)
  <2>1. poll[k].id # 0
    BY <1>0, <1>7 DEF qr_login_status, QrShaped
  <2>2. PICK i \in LoginIds : i = poll[k].id
    BY <1>0, <2>1, PollFields, LoginIdsType
  <2> DEFINE a == IF qr[i].st = "swept" THEN "none" ELSE qr[i].st
             r == [poll[k] EXCEPT !.pc = "answered", !.ans = a]
  <2>3. poll' = [poll EXCEPT ![k] = r] /\ ui' = ui
    BY <1>0, <1>7, <2>2 DEF qr_login_status, LoginTypeOK
  <2>4. r.id = i /\ r.ans = a /\ i # 0
    BY <1>0, <2>1, <2>2 DEF PollType
  <2>5. Found(a, i)
    <3>1. Accepting(i) => qr[i].st \in {"requires_2fa", "success", "swept"}
      BY <1>0 DEF QrShaped, Found, Accepting
    <3> QED BY <3>1 DEF Found, Accepting
  <2> HIDE DEF a, r
  <2>6. \A j \in Polls : poll'[j].pc # "idle" =>
          poll'[j].id # 0 /\ (poll'[j].pc = "answered" => Found(poll'[j].ans, poll'[j].id))
    BY <1>3, <2>3, <2>4, <2>5
  <2> QED BY <1>1, <1>2, <1>4, <2>3, <2>6, QrQuiet
<1>8. CASE PollFails(k)
  <2>1. poll' = [poll EXCEPT ![k] = NoPoll] /\ ui' = ui
    BY <1>8 DEF PollFails
  <2>2. \A j \in Polls : poll'[j].pc # "idle" =>
          poll'[j].id # 0 /\ (poll'[j].pc = "answered" => Found(poll'[j].ans, poll'[j].id))
    BY <1>3, <1>5, <2>1
  <2> QED BY <1>1, <1>2, <1>4, <2>1, <2>2, QrQuiet
<1>9. CASE PollAnswered(k)
  <2>1. poll' = [poll EXCEPT ![k] = NoPoll] /\ poll[k].id # 0 /\ Found(poll[k].ans, poll[k].id)
    BY <1>0, <1>9 DEF PollAnswered, QrShaped
  <2>2. \A j \in Polls : poll'[j].pc # "idle" =>
          poll'[j].id # 0 /\ (poll'[j].pc = "answered" => Found(poll'[j].ans, poll'[j].id))
    BY <1>3, <1>5, <2>1
  <2>3. \/ ui' = ui
        \/ ui'.qid = ui.qid /\ ui'.qst = poll[k].ans /\ ui'.mixed = (ui.mixed \/ poll[k].id # ui.qid)
    BY <1>0, <1>9 DEF PollAnswered, UiType
  <2>4. ~ui'.mixed => IF ui'.qid = 0 THEN ui'.qst = "pending" ELSE Found(ui'.qst, ui'.qid)
    BY <1>4, <2>1, <2>3
  <2> QED BY <1>1, <1>2, <2>2, <2>4, QrQuiet
<1> QED BY <1>6, <1>7, <1>8, <1>9

LEMMA QrStep == LoginInv /\ [LoginNext]_loginVars => QrShaped'
<1> SUFFICES ASSUME LoginInv, [LoginNext]_loginVars PROVE QrShaped'
  OBVIOUS
<1>0. LoginTypeOK /\ QrShaped /\ ui \in UiType /\ LoginTypeOK' /\ CallsShaped'
  BY TypeStep, ShapeStep DEF LoginInv, LoginTypeOK
<1>1. ASSUME qr' = qr, call' = call, poll' = poll,
             ~ui'.mixed => IF ui'.qid = 0 THEN ui'.qst = "pending" ELSE Found(ui'.qst, ui'.qid)
      PROVE  QrShaped'
  <2>1. QrMoves
    BY <1>1 DEF QrMoves
  <2>2. \A k \in Polls : poll'[k].pc # "idle" =>
          poll'[k].id # 0 /\ (poll'[k].pc = "answered" => Found(poll'[k].ans, poll'[k].id))
    BY <1>0, <1>1 DEF QrShaped
  <2> QED BY <1>0, <1>1, <2>1, <2>2, QrQuiet
<1>2. ~ui.mixed => IF ui.qid = 0 THEN ui.qst = "pending" ELSE Found(ui.qst, ui.qid)
  BY <1>0 DEF QrShaped
<1>3. CASE UNCHANGED loginVars
  BY <1>1, <1>2, <1>3 DEF loginVars, server
<1>4. ASSUME NEW l \in LoginIds, CancelArrives(l) \/ sweep_expired(l) PROVE QrShaped'
  BY <1>1, <1>2, <1>4 DEF CancelArrives, sweep_expired
<1>5. CASE Countdown
  <2>1. ui'.qid = ui.qid /\ ui'.qst = "expired" /\ ui.qid # 0
    BY <1>0, <1>5 DEF Countdown, UiType
  <2>2. ~ui'.mixed => IF ui'.qid = 0 THEN ui'.qst = "pending" ELSE Found(ui'.qst, ui'.qid)
    BY <2>1 DEF Found
  <2> QED BY <1>1, <1>5, <2>2 DEF Countdown, server
<1>6. CASE Push
  <2>1. qr' = qr /\ ui'.qid = 0 /\ ui'.qst = "pending"
    BY <1>6 DEF Push, Leave, Fresh, server
  <2>2. QrMoves
    BY <2>1 DEF QrMoves
  <2>3. \A d \in Calls : call'[d].op = call[d].op /\ call'[d].id = call[d].id
                         /\ call'[d].pc = call[d].pc /\ call'[d].ans = call[d].ans
    BY <1>0, <1>6 DEF Push, Unmounted, LoginTypeOK, CallType
  <2>4. \A k \in Polls : poll'[k].id = poll[k].id /\ poll'[k].pc = poll[k].pc /\ poll'[k].ans = poll[k].ans
    BY <1>0, <1>6 DEF Push, UnmountedPolls, LoginTypeOK, PollType
  <2>5. \A k \in Polls : poll'[k].pc # "idle" =>
          poll'[k].id # 0 /\ (poll'[k].pc = "answered" => Found(poll'[k].ans, poll'[k].id))
    BY <1>0, <2>4 DEF QrShaped
  <2> QED BY <1>0, <2>1, <2>2, <2>3, <2>5, QrQuiet
<1> QED BY <1>0, QrUser, QrServer, QrAnswer, QrWatcher, QrPoll, <1>3, <1>4, <1>5, <1>6 DEF LoginNext

-----------------------------------------------------------------------------
LEMMA LoginInitHolds == LoginInit => LoginInv
<1> SUFFICES ASSUME LoginInit PROVE LoginInv
  OBVIOUS
<1>1. ui \in UiType /\ ui.tab = "otp" /\ ui.step = "phone" /\ ui.flow = 0 /\ ui.qid = 0 /\ ui.qst = "pending"
  BY FreshType DEF LoginInit, Fresh, Tabs
<1>2. LoginTypeOK
  <2>1. /\ pend \in [LoginIds -> PendType] /\ qr \in [LoginIds -> QrType]
        /\ call \in [Calls -> CallType] /\ poll \in [Polls -> PollType]
    BY NoneTypes DEF LoginInit
  <2>2. clicks \in 0..MaxClicks /\ faults \in 0..MaxFaults
    BY AccountLoginAssumption DEF LoginInit
  <2> QED BY <1>1, <2>1, <2>2 DEF LoginInit, LoginTypeOK
<1>3. \A c \in Calls : call[c] = NoCall
  BY DEF LoginInit
<1>4. NoCall.op = "none" /\ NoCall.pc = "idle" /\ ~NoCall.here /\ NoCall.ans = "none"
  BY DEF NoCall
<1>5. CallsShaped
  BY <1>3, NoCallShape DEF CallsShaped
<1>6. FlowShaped /\ StepHasFlow
  BY <1>1, <1>3, <1>4 DEF FlowShaped, Mine, StepHasFlow
<1>7. \A l \in LoginIds : ~Open(l) /\ ~qr[l].counted
  BY DEF LoginInit, Open, NoLogin, NoQr
<1>8. NoOrphanLogin /\ OneLoginPerPhone
  BY <1>7 DEF NoOrphanLogin, OneLoginPerPhone
<1>9. WithinPlan
  BY FS_EmptySet, AccountLoginAssumption DEF LoginInit, WithinPlan
<1>10. CountHolds
  BY <1>3, <1>4, <1>7 DEF CountHolds, CallAt
<1>11. \A k \in Polls : poll[k].pc = "idle"
  BY DEF LoginInit, NoPoll
<1>12. QrShaped
  BY <1>1, <1>3, <1>4, <1>11 DEF QrShaped
<1> QED BY <1>2, <1>5, <1>6, <1>8, <1>9, <1>10, <1>12 DEF LoginInv

LEMMA InvStep == LoginInv /\ [LoginNext]_loginVars => LoginInv'
  BY TypeStep, ShapeStep, FlowStep, LoginsStep, CountStep, QrStep DEF LoginInv

(* What was found of a code is what QrStatusTrue says of it.              *)
LEMMA InvSafe == LoginInv => LoginsSafe
<1> SUFFICES ASSUME LoginInv PROVE LoginsSafe
  OBVIOUS
<1>1. QrStatusTrue
  <2>1. ui.qid # 0 /\ ~ui.mixed => Found(ui.qst, ui.qid)
    BY DEF LoginInv, QrShaped
  <2> QED BY <2>1 DEF QrStatusTrue, Found, Final
<1> QED BY <1>1 DEF LoginInv, LoginsSafe

(* Connecting an account, whatever the user, the watchers and the network *)
(* do: a pending login is the page's, about to be cancelled or told of; a *)
(* phone has one; the plan's limit is passed only by logins that ended    *)
(* together; the QR tab says of a code what the server found.             *)
THEOREM LoginsAreSafe == LoginSpec => []LoginsSafe
<1>1. LoginSpec => []LoginInv
  BY LoginInitHolds, InvStep, PTL DEF LoginSpec
<1> QED BY <1>1, InvSafe, PTL
=============================================================================
