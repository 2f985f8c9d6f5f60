--------------------------- MODULE ChatPaneProofs ---------------------------
(* Proof that an open chat shows and sends a message twice, or keeps one   *)
(* that is deleted, only in the cases PaneSafe names, whatever the number  *)
(* of messages, of texts and of requests in flight.                        *)
EXTENDS ChatPane, FiniteSetTheorems, FunctionTheorems, SequenceTheorems, TLAPS

PaneType == [open: BOOLEAN, shown: Seq(Ids), offset: Offsets, more: BOOLEAN, text: Texts,
             rec: {"off", "on", "stopping"}, sel: BOOLEAN, picked: SUBSET Ids,
             late: SUBSET Ids, twin: SUBSET Ids]
ReqType == [kind: Kinds \cup {"free"}, st: {"asked", "ok", "lost"}, ids: SUBSET Ids,
            text: Texts, mine: BOOLEAN]
FetchType == [st: {"idle", "failed", "asked", "served"}, page: Pages]

(* Every variable in its full type, TypeOK's records included. *)
Typed ==
  /\ srv \in Seq(Texts) /\ Len(srv) <= MaxId
  /\ gone \subseteq DOMAIN srv /\ known \subseteq gone
  /\ sched \subseteq Texts /\ events \in Seq(Ids) /\ queue \subseteq Texts
  /\ cache \in [Offsets -> Pages]
  /\ fetch \in [Offsets -> FetchType]
  /\ pane \in PaneType
  /\ draft \in Texts /\ texts \in Texts /\ slip \subseteq Texts /\ clicks \in 0..MaxClicks
  /\ req \in [Slots -> ReqType]

(* Every id anybody holds is that of a message Telegram has stored. *)
Existing ==
  /\ \A n \in DOMAIN pane.shown : pane.shown[n] \in DOMAIN srv
  /\ \A n \in DOMAIN events : events[n] \in DOMAIN srv
  /\ pane.picked \subseteq DOMAIN srv
  /\ \A s \in Slots : req[s].ids \subseteq DOMAIN srv
  /\ \A o \in Offsets : cache[o] # NoPage => cache[o].ids \subseteq DOMAIN srv
  /\ \A o \in Offsets : fetch[o].st = "served" => fetch[o].page.ids \subseteq DOMAIN srv

(* No text is older than the counter says. *)
Bounded ==
  /\ \A n \in DOMAIN srv : srv[n] <= texts
  /\ \A s \in Slots : req[s].text <= texts
  /\ pane.text <= texts /\ draft <= texts
  /\ \A t \in slip : t <= texts

(* What the schedule has seen is allowed to be stored twice. *)
Scheduled ==
  /\ sched \subseteq slip /\ queue \subseteq slip
  /\ \A s \in Slots : req[s].kind = "schedule" => req[s].text \in slip

(* What the answer to a request stands for. *)
Answers ==
  \A s \in Slots :
    /\ req[s].kind = "send" => req[s].text # 0
    /\ req[s].kind \in {"post", "voice"} => req[s].text = 0
    /\ req[s].kind = "send" /\ req[s].st # "asked" =>
         \E i \in DOMAIN srv : req[s].ids = {i} /\ srv[i] = req[s].text
    /\ req[s].kind \in {"delete", "batch"} /\ req[s].st # "asked" => req[s].ids \subseteq gone

Sending(s, t) == req[s].kind = "send" /\ req[s].text = t
IsStored(t) == \E n \in DOMAIN srv : srv[n] = t

(* One text on its way: a single request of this pane carries it, it is    *)
(* stored only when that request is served, and once it is stored nobody   *)
(* holds it but the request whose answer will empty the composer.          *)
OnItsWay(t) ==
  /\ \A s \in Slots : Sending(s, t) => req[s].mine
  /\ \A s, z \in Slots : Sending(s, t) /\ Sending(z, t) => s = z
  /\ \A s \in Slots : Sending(s, t) /\ req[s].st = "asked" => ~IsStored(t)
  /\ IsStored(t) => \/ \E s \in Slots : Sending(s, t) /\ req[s].st # "asked"
                    \/ pane.text # t /\ draft # t

Flow == \A t \in Texts : t # 0 /\ t \notin slip => OnItsWay(t)

(* On the newest page, what is not in the cached page was appended since   *)
(* it was merged; at rest there is one, and no confirmed deletion in it.   *)
RestFresh(p, f, c, k) ==
  p.open /\ p.offset = 0 =>
    /\ c[0] # NoPage => ToSet(p.shown) \subseteq p.late \cup c[0].ids
    /\ f[0].st = "idle" => c[0] # NoPage /\ k \cap c[0].ids = {}

(* No page that may still reach the screen holds a confirmed deletion. *)
Fresh ==
  /\ \A o \in Offsets : fetch[o].st = "served" => known \cap fetch[o].page.ids = {}
  /\ RestFresh(pane, fetch, cache, known)

IInv == Typed /\ Existing /\ Bounded /\ Scheduled /\ Answers /\ Flow /\ Fresh /\ ShownOnce /\ SentOnce

-----------------------------------------------------------------------------
(* Lists without repetition *)

(* A list that shows stored messages, only those of tw more than once. *)
ShownOk(sq, sv, tw) ==
  /\ \A n \in DOMAIN sq : sq[n] \in DOMAIN sv
  /\ \A m, n \in DOMAIN sq : m # n /\ sq[m] = sq[n] => sq[m] \in tw

(* The rank of an id in a finite set; ids of equal rank are equal, and      *)
(* every number below the cardinality is a rank.                            *)
Rank(S, i) == Cardinality({j \in S : j < i})

LEMMA RankBounds ==
  ASSUME NEW S \in SUBSET Ids, NEW i \in S
  PROVE  IsFiniteSet(S) /\ Cardinality(S) \in Nat /\ Rank(S, i) \in 0..(Cardinality(S) - 1)
<1>1. IsFiniteSet(Ids)
  BY FS_Interval, SizesAssumption DEF Ids
<1>2. IsFiniteSet(S) /\ Cardinality(S) \in Nat
  BY <1>1, FS_Subset, FS_CardinalityType
<1> DEFINE L == {j \in S : j < i}
<1>3. L \in SUBSET S /\ i \notin L
  BY SizesAssumption DEF Ids
<1>4. IsFiniteSet(L) /\ Cardinality(L) <= Cardinality(S) /\ Cardinality(L) # Cardinality(S)
  BY <1>2, <1>3, FS_Subset
<1>5. Cardinality(L) \in Nat
  BY <1>4, FS_CardinalityType
<1> QED BY <1>2, <1>4, <1>5 DEF Rank

LEMMA RankInjective ==
  ASSUME NEW S \in SUBSET Ids, NEW i \in S, NEW k \in S, Rank(S, i) = Rank(S, k)
  PROVE  i = k
<1>1. ASSUME NEW a \in S, NEW b \in S, a < b, Rank(S, a) = Rank(S, b) PROVE FALSE
  <2> DEFINE L == {j \in S : j < a}
             H == {j \in S : j < b}
  <2> HIDE DEF L, H
  <2>0. \A j \in S : j \in Int
    BY SizesAssumption DEF Ids
  <2>1. L \in SUBSET H /\ a \in H /\ a \notin L /\ H \in SUBSET S
    BY <1>1, <2>0 DEF L, H
  <2>2. IsFiniteSet(H)
    BY <2>1, RankBounds, FS_Subset
  <2>3. Cardinality(L) = Cardinality(H)
    BY <1>1 DEF Rank, L, H
  <2> QED BY <2>1, <2>2, <2>3, FS_Subset
<1>2. i \in Int /\ k \in Int
  BY SizesAssumption DEF Ids
<1> QED BY <1>1, <1>2

LEMMA RankOnto ==
  ASSUME NEW S \in SUBSET Ids, NEW n \in 0..(Cardinality(S) - 1)
  PROVE  \E i \in S : Rank(S, i) = n
<1> DEFINE f == [i \in S |-> Rank(S, i)]
           T == 0..(Cardinality(S) - 1)
<1>1. IsFiniteSet(S) /\ Cardinality(S) \in Nat
  <2>1. IsFiniteSet(Ids)
    BY FS_Interval, SizesAssumption DEF Ids
  <2> QED BY <2>1, FS_Subset, FS_CardinalityType
<1>2. f \in Injection(S, T)
  <2>1. \A i \in S : f[i] \in T
    BY RankBounds
  <2>2. \A i, k \in S : f[i] = f[k] => i = k
    BY RankInjective
  <2> QED BY <2>1, <2>2 DEF Injection, IsInjective
<1>3. IsFiniteSet(T) /\ Cardinality(T) = Cardinality(S)
  BY <1>1, FS_Interval
<1>4. f \in Surjection(S, T)
  BY <1>2, <1>3, FS_Injection
<1> QED BY <1>4 DEF Surjection

LEMMA AscendingOk ==
  ASSUME NEW S \in SUBSET Ids
  PROVE  /\ Ascending(S) \in Seq(Ids)
         /\ \A n \in DOMAIN Ascending(S) : Ascending(S)[n] \in S
         /\ \A m, n \in DOMAIN Ascending(S) : Ascending(S)[m] = Ascending(S)[n] => m = n
<1> DEFINE a == Ascending(S)
           c == Cardinality(S)
<1>1. c \in Nat
  <2>1. IsFiniteSet(Ids)
    BY FS_Interval, SizesAssumption DEF Ids
  <2> QED BY <2>1, FS_Subset, FS_CardinalityType
<1>2. DOMAIN a = 1..c
  BY DEF Ascending
<1>3. ASSUME NEW k \in 1..c PROVE a[k] \in S /\ Rank(S, a[k]) = k - 1
  <2>1. k - 1 \in 0..(c - 1)
    BY <1>1
  <2>2. \E i \in S : Rank(S, i) = k - 1
    BY <2>1, RankOnto
  <2>3. a[k] = CHOOSE i \in S : Rank(S, i) = k - 1
    BY DEF Ascending, Rank
  <2> QED BY <2>2, <2>3
<1>4. a \in [1..c -> S]
  BY <1>2, <1>3 DEF Ascending
<1>5. a \in Seq(Ids)
  BY <1>1, <1>4
<1>6. \A m, n \in 1..c : a[m] = a[n] => m = n
  BY <1>1, <1>3
<1> HIDE DEF a, c
<1>7. /\ a \in Seq(Ids)
      /\ \A n \in DOMAIN a : a[n] \in S
      /\ \A m, n \in DOMAIN a : a[m] = a[n] => m = n
  BY <1>2, <1>3, <1>5, <1>6
<1> QED BY <1>7 DEF a

(* What the merging effect shows, for both kinds of page. *)
LEMMA MergedShown ==
  ASSUME NEW sv, NEW S \in SUBSET Ids, S \subseteq DOMAIN sv,
         NEW sq \in Seq(Ids), NEW tw, ShownOk(sq, sv, tw)
  PROVE  /\ Ascending(S) \in Seq(Ids) /\ ShownOk(Ascending(S), sv, {})
         /\ ToSet(Ascending(S)) \subseteq S
         /\ Ascending(S \ ToSet(sq)) \o sq \in Seq(Ids)
         /\ ShownOk(Ascending(S \ ToSet(sq)) \o sq, sv, tw)
<1>1. Ascending(S) \in Seq(Ids) /\ ShownOk(Ascending(S), sv, {}) /\ ToSet(Ascending(S)) \subseteq S
  BY AscendingOk DEF ShownOk, ToSet
<1> DEFINE R == S \ ToSet(sq)
           a == Ascending(R)
<1>2. /\ a \in Seq(Ids)
      /\ \A n \in DOMAIN a : a[n] \in R
      /\ \A m, n \in DOMAIN a : a[m] = a[n] => m = n
  <2>1. R \in SUBSET Ids
    OBVIOUS
  <2> HIDE DEF R
  <2> QED BY <2>1, AscendingOk
<1>3. \A x \in R : x \in DOMAIN sv /\ \A n \in DOMAIN sq : sq[n] # x
  BY DEF ToSet
<1> HIDE DEF a, R
<1> DEFINE b == a \o sq
<1>4. b \in Seq(Ids) /\ Len(b) = Len(a) + Len(sq) /\ Len(a) \in Nat /\ Len(sq) \in Nat
  BY <1>2
<1>5. \A n \in 1..(Len(a) + Len(sq)) : b[n] = IF n <= Len(a) THEN a[n] ELSE sq[n - Len(a)]
  BY <1>2
<1>6. DOMAIN b = 1..(Len(a) + Len(sq)) /\ DOMAIN a = 1..Len(a) /\ DOMAIN sq = 1..Len(sq)
  BY <1>2, <1>4
<1>7. ShownOk(b, sv, tw)
  <2>1. ASSUME NEW n \in DOMAIN b
        PROVE  \/ n \in DOMAIN a /\ b[n] = a[n] /\ b[n] \in R
               \/ n - Len(a) \in DOMAIN sq /\ b[n] = sq[n - Len(a)] /\ n > Len(a)
    BY <1>2, <1>4, <1>5, <1>6
  <2>2. \A n \in DOMAIN b : b[n] \in DOMAIN sv
    BY <2>1, <1>3 DEF ShownOk
  <2>3. ASSUME NEW m \in DOMAIN b, NEW n \in DOMAIN b, m # n, b[m] = b[n] PROVE b[m] \in tw
    <3>1. CASE m \in DOMAIN a /\ b[m] = a[m] /\ b[m] \in R
      BY <3>1, <2>1, <2>3, <1>2, <1>3
    <3>2. CASE m - Len(a) \in DOMAIN sq /\ b[m] = sq[m - Len(a)] /\ m > Len(a)
      <4>1. n - Len(a) \in DOMAIN sq /\ b[n] = sq[n - Len(a)]
        BY <3>2, <2>1, <2>3, <1>3
      <4>2. n - Len(a) # m - Len(a)
        BY <2>3, <1>4, <1>6
      <4> QED BY <4>1, <4>2, <3>2, <2>3 DEF ShownOk
    <3> QED BY <3>1, <3>2, <2>1
  <2> QED BY <2>2, <2>3 DEF ShownOk
<1> QED BY <1>1, <1>4, <1>7 DEF b, a, R

LEMMA AppendShown ==
  ASSUME NEW sv, NEW sq \in Seq(Ids), NEW tw, ShownOk(sq, sv, tw), NEW i \in Ids, i \in DOMAIN sv,
         i \notin ToSet(sq) \/ i \in tw
  PROVE  /\ Append(sq, i) \in Seq(Ids) /\ ShownOk(Append(sq, i), sv, tw)
         /\ ToSet(Append(sq, i)) = ToSet(sq) \cup {i}
<1> DEFINE b == Append(sq, i)
<1>1. /\ b \in Seq(Ids) /\ Len(sq) \in Nat /\ DOMAIN sq = 1..Len(sq)
      /\ DOMAIN b = 1..(Len(sq) + 1)
      /\ \A n \in DOMAIN sq : b[n] = sq[n]
      /\ b[Len(sq) + 1] = i
  OBVIOUS
<1> HIDE DEF b
<1>2. \A n \in DOMAIN b : n \in DOMAIN sq \/ n = Len(sq) + 1
  BY <1>1
<1>3. \A n \in DOMAIN b : b[n] \in DOMAIN sv
  BY <1>1, <1>2 DEF ShownOk
<1>4. ASSUME NEW m \in DOMAIN b, NEW n \in DOMAIN b, m # n, b[m] = b[n] PROVE b[m] \in tw
  BY <1>1, <1>2, <1>4 DEF ShownOk, ToSet
<1>5. ToSet(b) = ToSet(sq) \cup {i}
  BY <1>1, <1>2 DEF ToSet
<1> QED BY <1>1, <1>3, <1>4, <1>5 DEF ShownOk, b

(* A list stays as good while Telegram only stores more. *)
LEMMA ShownGrows ==
  ASSUME NEW sv \in Seq(Texts), NEW sw \in Seq(Texts), NEW sq, NEW tw, ShownOk(sq, sv, tw),
         DOMAIN sv \subseteq DOMAIN sw, \A n \in DOMAIN sv : sw[n] = sv[n]
  PROVE  ShownOk(sq, sw, tw)
BY DEF ShownOk

-----------------------------------------------------------------------------
(* The records *)

LEMMA PaneFields ==
  ASSUME NEW p \in PaneType
  PROVE  /\ p.open \in BOOLEAN /\ p.shown \in Seq(Ids) /\ p.offset \in Offsets
         /\ p.more \in BOOLEAN /\ p.text \in Texts /\ p.rec \in {"off", "on", "stopping"}
         /\ p.sel \in BOOLEAN /\ p.picked \in SUBSET Ids
         /\ p.late \in SUBSET Ids /\ p.twin \in SUBSET Ids
BY DEF PaneType

(* What an update of one part leaves alone. *)
SamePane(p, q) ==
  q \in PaneType /\ q.open = p.open /\ q.offset = p.offset /\ q.text = p.text /\ q.picked = p.picked

SameList(p, q) == q.shown = p.shown /\ q.late = p.late /\ q.twin = p.twin

LEMMA PaneOffset ==
  ASSUME NEW p \in PaneType, NEW o \in Offsets
  PROVE  LET q == [p EXCEPT !.offset = o]
         IN  /\ q \in PaneType /\ q.open = p.open /\ q.offset = o /\ q.text = p.text
             /\ q.picked = p.picked /\ SameList(p, q)
BY DEF PaneType, SameList

LEMMA PaneRec ==
  ASSUME NEW p \in PaneType, NEW r \in {"off", "on", "stopping"}
  PROVE  SamePane(p, [p EXCEPT !.rec = r]) /\ SameList(p, [p EXCEPT !.rec = r])
BY DEF SamePane, SameList, PaneType

LEMMA PaneText ==
  ASSUME NEW p \in PaneType, NEW t \in Texts
  PROVE  LET q == [p EXCEPT !.text = t]
         IN  /\ q \in PaneType /\ q.open = p.open /\ q.offset = p.offset /\ q.text = t
             /\ q.picked = p.picked /\ SameList(p, q)
BY DEF PaneType, SameList

(* The pane with another selection. *)
PickedPane(p, q, P) ==
  /\ q \in PaneType /\ q.open = p.open /\ q.offset = p.offset /\ q.text = p.text
  /\ q.picked = P /\ SameList(p, q)

LEMMA PanePicked ==
  ASSUME NEW p \in PaneType, NEW P \in SUBSET Ids, NEW b \in BOOLEAN
  PROVE  /\ PickedPane(p, [p EXCEPT !.picked = P], P)
         /\ PickedPane(p, [p EXCEPT !.sel = b, !.picked = P], P)
BY DEF PickedPane, SameList, PaneType

LEMMA PageFields ==
  ASSUME NEW g \in Pages
  PROVE  g.ids \in SUBSET Offsets /\ g.more \in BOOLEAN
BY DEF Pages

LEMMA FetchFields ==
  ASSUME NEW f \in FetchType
  PROVE  f.st \in {"idle", "failed", "asked", "served"} /\ f.page \in Pages
BY DEF FetchType

LEMMA NoPageType == NoPage \in Pages
BY SizesAssumption DEF NoPage, Pages, Offsets

LEMMA StoredIds ==
  ASSUME Typed
  PROVE  /\ DOMAIN srv \in SUBSET Ids /\ DOMAIN srv = 1..Len(srv) /\ Len(srv) \in 0..MaxId
         /\ \A n \in DOMAIN srv : srv[n] \in Texts
BY SizesAssumption DEF Typed, Ids

-----------------------------------------------------------------------------
(* Pages and fetches *)

CachedOk(c, sv) ==
  c \in [Offsets -> Pages] /\ \A o \in Offsets : c[o] # NoPage => c[o].ids \subseteq DOMAIN sv
FetchedOk(f, sv) ==
  f \in [Offsets -> FetchType] /\ \A o \in Offsets : f[o].st = "served" => f[o].page.ids \subseteq DOMAIN sv

(* What may be delivered holds nothing that is known to be deleted. *)
ServedFresh(f, k) == \A o \in Offsets : f[o].st = "served" => k \cap f[o].page.ids = {}

LEMMA MergedOk ==
  ASSUME NEW sv, DOMAIN sv \in SUBSET Ids, NEW p \in PaneType, ShownOk(p.shown, sv, p.twin),
         NEW o \in Offsets, NEW g \in Pages, g.ids \subseteq DOMAIN sv
  PROVE  LET q == Merged(p, o, g)
         IN  SamePane(p, q) /\ ShownOk(q.shown, sv, q.twin) /\ (o = 0 => ToSet(q.shown) \subseteq g.ids)
<1>1. /\ p.shown \in Seq(Ids) /\ g.more \in BOOLEAN /\ g.ids \in SUBSET Ids
      /\ p.late \in SUBSET Ids /\ p.twin \in SUBSET Ids
  BY PaneFields, PageFields
<1> DEFINE S == g.ids
           v == IF o = 0 THEN Ascending(S) ELSE Ascending(S \ ToSet(p.shown)) \o p.shown
           l == IF o = 0 THEN {} ELSE p.late
           w == IF o = 0 THEN {} ELSE p.twin
<1>2. v \in Seq(Ids) /\ ShownOk(v, sv, w) /\ (o = 0 => ToSet(v) \subseteq S)
  <2>1. S \in SUBSET Ids /\ S \subseteq DOMAIN sv
    BY <1>1
  <2> HIDE DEF S
  <2> QED BY <1>1, <2>1, MergedShown
<1>3. Merged(p, o, g) = [p EXCEPT !.more = g.more, !.shown = v, !.late = l, !.twin = w]
  BY DEF Merged
<1>l. l \in SUBSET Ids /\ w \in SUBSET Ids
  BY <1>1
<1> HIDE DEF v, l, w
<1> DEFINE m == g.more
           q == [p EXCEPT !.more = m, !.shown = v, !.late = l, !.twin = w]
<1>4. m \in BOOLEAN
  BY <1>1
<1> HIDE DEF m
<1>5. SamePane(p, q) /\ q.shown = v /\ q.twin = w
  BY <1>2, <1>4, <1>l DEF SamePane, PaneType
<1>6. Merged(p, o, g) = q
  BY <1>3 DEF m
<1> HIDE DEF q
<1> QED BY <1>2, <1>5, <1>6

LEMMA LookedOk ==
  ASSUME NEW sv, DOMAIN sv \in SUBSET Ids, NEW p \in PaneType, ShownOk(p.shown, sv, p.twin),
         NEW o \in Offsets, CachedOk(cache, sv)
  PROVE  LET q == Looked(p, o)
         IN  /\ q \in PaneType /\ q.open = p.open /\ q.offset = o /\ q.text = p.text
             /\ q.picked = p.picked /\ ShownOk(q.shown, sv, q.twin)
             /\ o = 0 /\ cache[o] # NoPage => ToSet(q.shown) \subseteq cache[o].ids
<1> DEFINE r == [p EXCEPT !.offset = o]
<1>1. /\ r \in PaneType /\ r.open = p.open /\ r.offset = o /\ r.text = p.text
      /\ r.picked = p.picked /\ SameList(p, r)
  BY PaneOffset
<1>2. Looked(p, o) = IF cache[o] = NoPage THEN r ELSE Merged(r, o, cache[o])
  BY DEF Looked
<1> HIDE DEF r
<1>r. ShownOk(r.shown, sv, r.twin)
  BY <1>1 DEF SameList
<1>3. CASE cache[o] = NoPage
  BY <1>1, <1>2, <1>3, <1>r
<1>4. CASE cache[o] # NoPage
  <2>1. cache[o] \in Pages /\ cache[o].ids \subseteq DOMAIN sv
    BY <1>4 DEF CachedOk
  <2> DEFINE q == Merged(r, o, cache[o])
  <2>2. /\ SamePane(r, q) /\ ShownOk(q.shown, sv, q.twin)
        /\ o = 0 => ToSet(q.shown) \subseteq cache[o].ids
    BY <1>1, <1>r, <2>1, MergedOk
  <2>3. Looked(p, o) = q
    BY <1>2, <1>4
  <2> HIDE DEF q
  <2> QED BY <1>1, <2>2, <2>3 DEF SamePane
<1> QED BY <1>3, <1>4

LEMMA AskedOk ==
  ASSUME NEW sv, NEW f, FetchedOk(f, sv), NEW k, ServedFresh(f, k), NEW o \in Offsets
  PROVE  /\ FetchedOk(Asked(f, o), sv) /\ ServedFresh(Asked(f, o), k)
         /\ Asked(f, o)[o].st # "idle"
<1> DEFINE g == [f EXCEPT ![o].st = "asked"]
<1>1. f[o] \in FetchType /\ f \in [Offsets -> FetchType]
  BY DEF FetchedOk
<1>2. CASE Idle(f, o)
  <2>1. Asked(f, o) = g
    BY <1>2 DEF Asked
  <2>2. g[o] \in FetchType /\ g[o].st = "asked"
    BY <1>1 DEF FetchType
  <2>3. g \in [Offsets -> FetchType] /\ \A x \in Offsets : x # o => g[x] = f[x]
    BY <1>1, <2>2
  <2> HIDE DEF g
  <2> QED BY <2>1, <2>2, <2>3 DEF FetchedOk, ServedFresh
<1>3. CASE ~Idle(f, o)
  BY <1>3 DEF Asked, Idle
<1> QED BY <1>2, <1>3

LEMMA ReplacedOk ==
  ASSUME NEW sv, NEW f, FetchedOk(f, sv), NEW k, ServedFresh(f, k), NEW o \in Offsets,
         NEW s \in {"idle", "failed", "asked"}, NEW pg \in Pages
  PROVE  LET g == [f EXCEPT ![o] = [st |-> s, page |-> pg]]
         IN  FetchedOk(g, sv) /\ ServedFresh(g, k) /\ g[o].st = s /\ \A x \in Offsets : x # o => g[x] = f[x]
<1> DEFINE r == [st |-> s, page |-> pg]
           g == [f EXCEPT ![o] = r]
<1>1. r \in FetchType /\ r.st = s
  BY DEF FetchType
<1> HIDE DEF r
<1>2. g \in [Offsets -> FetchType] /\ g[o] = r /\ \A x \in Offsets : x # o => g[x] = f[x]
  BY <1>1 DEF FetchedOk
<1> HIDE DEF g
<1>3. FetchedOk(g, sv) /\ ServedFresh(g, k) /\ g[o].st = s
  BY <1>1, <1>2 DEF FetchedOk, ServedFresh
<1> QED BY <1>2, <1>3 DEF g, r

LEMMA InvalidatedOk ==
  ASSUME NEW sv, NEW f, FetchedOk(f, sv), NEW k, ServedFresh(f, k), NEW p \in PaneType
  PROVE  /\ FetchedOk(Invalidated(f, p), sv) /\ ServedFresh(Invalidated(f, p), k)
         /\ p.open => Invalidated(f, p)[p.offset].st # "idle"
<1>1. p.offset \in Offsets
  BY PaneFields
<1>2. CASE ~p.open \/ (~Idle(f, p.offset) /\ cache[p.offset] = NoPage)
  BY <1>2 DEF Invalidated, Idle
<1>3. CASE ~(~p.open \/ (~Idle(f, p.offset) /\ cache[p.offset] = NoPage))
  <2>1. Invalidated(f, p) = [f EXCEPT ![p.offset] = [st |-> "asked", page |-> NoPage]]
    BY <1>3 DEF Invalidated
  <2> DEFINE o == p.offset
             g == [f EXCEPT ![o] = [st |-> "asked", page |-> NoPage]]
  <2>2. o \in Offsets
    BY <1>1
  <2> HIDE DEF o
  <2>3. FetchedOk(g, sv) /\ ServedFresh(g, k) /\ g[o].st = "asked"
    BY <2>2, NoPageType, ReplacedOk
  <2>4. Invalidated(f, p) = g
    BY <2>1 DEF o
  <2> HIDE DEF g
  <2>5. g[p.offset].st = "asked"
    BY <2>3 DEF o
  <2> QED BY <2>3, <2>4, <2>5
<1> QED BY <1>2, <1>3

(* Page(o) holds stored messages that are not deleted. *)
LEMMA PageOk ==
  ASSUME Typed, NEW o \in Offsets
  PROVE  Page(o) \in Pages /\ Page(o).ids \subseteq DOMAIN srv /\ known \cap Page(o).ids = {}
<1> DEFINE older == {i \in Alive : o = 0 \/ i < o}
           ids == {i \in older : Cardinality({j \in older : j > i}) < PageSize}
           more == Cardinality(older) > PageSize
<1>1. Page(o) = [ids |-> ids, more |-> more]
  BY DEF Page
<1>2. ids \subseteq Alive /\ Alive = DOMAIN srv \ gone
  BY DEF Alive
<1>3. more \in BOOLEAN
  OBVIOUS
<1> HIDE DEF ids, more
<1>4. Ids \subseteq Offsets
  BY SizesAssumption DEF Ids, Offsets
<1>5. DOMAIN srv \subseteq Offsets /\ known \subseteq gone
  BY <1>4, StoredIds DEF Typed
<1>6. ids \in SUBSET Offsets /\ ids \subseteq DOMAIN srv /\ known \cap ids = {}
  BY <1>2, <1>5
<1> QED BY <1>1, <1>3, <1>6 DEF Pages

-----------------------------------------------------------------------------
(* Steps that change what is on the screen or on its way to it *)

LEMMA Parts ==
  ASSUME IInv
  PROVE  /\ Typed /\ DOMAIN srv \in SUBSET Ids
         /\ pane \in PaneType /\ ShownOk(pane.shown, srv, pane.twin) /\ pane.picked \subseteq DOMAIN srv
         /\ events \in Seq(Ids) /\ \A n \in DOMAIN events : events[n] \in DOMAIN srv
         /\ CachedOk(cache, srv) /\ FetchedOk(fetch, srv) /\ ServedFresh(fetch, known)
         /\ RestFresh(pane, fetch, cache, known)
         /\ req \in [Slots -> ReqType] /\ \A s \in Slots : req[s].ids \subseteq DOMAIN srv
<1>1. Typed /\ Existing /\ ShownOnce /\ Fresh
  BY DEF IInv
<1>2. DOMAIN srv \in SUBSET Ids
  BY <1>1, StoredIds
<1>3. ShownOk(pane.shown, srv, pane.twin)
  BY <1>1 DEF Existing, ShownOnce, ShownOk
<1>4. CachedOk(cache, srv) /\ FetchedOk(fetch, srv)
  BY <1>1 DEF Typed, Existing, CachedOk, FetchedOk
<1>5. ServedFresh(fetch, known) /\ RestFresh(pane, fetch, cache, known)
  BY <1>1 DEF Fresh, ServedFresh, RestFresh
<1> QED BY <1>1, <1>2, <1>3, <1>4, <1>5 DEF Typed, Existing

LEMMA ViewStep ==
  ASSUME IInv, srv' = srv, gone' = gone, known' = known, sched' = sched, queue' = queue,
         draft' = draft, texts' = texts, req' = req, slip' = slip,
         clicks' \in 0..MaxClicks,
         pane' \in PaneType, pane'.text = pane.text, pane'.picked \subseteq DOMAIN srv,
         ShownOk(pane'.shown, srv, pane'.twin),
         events' \in Seq(Ids), \A n \in DOMAIN events' : events'[n] \in DOMAIN srv,
         CachedOk(cache', srv), FetchedOk(fetch', srv), ServedFresh(fetch', known),
         RestFresh(pane', fetch', cache', known)
  PROVE  IInv'
<1>1. Typed'
  BY DEF IInv, Typed, CachedOk, FetchedOk
<1>2. Existing'
  BY DEF IInv, Existing, CachedOk, FetchedOk, ShownOk
<1>3. Bounded'
  BY DEF IInv, Bounded
<1>4. Scheduled' /\ Answers'
  BY DEF IInv, Scheduled, Answers
<1>5. Flow'
  BY DEF IInv, Flow, OnItsWay, Sending, IsStored
<1>6. Fresh'
  BY DEF Fresh, ServedFresh, RestFresh
<1>7. ShownOnce' /\ SentOnce'
  BY DEF IInv, ShownOnce, SentOnce, ShownOk
<1> QED BY <1>1, <1>2, <1>3, <1>4, <1>5, <1>6, <1>7 DEF IInv

LEMMA FetchServeKeeps ==
  ASSUME IInv, clicks' \in 0..MaxClicks, NEW o \in Offsets, FetchServe(o)
  PROVE  IInv'
<1> DEFINE r == [st |-> "served", page |-> Page(o)]
<1>1. fetch' = [fetch EXCEPT ![o] = r] /\ fetch[o].st = "asked"
  BY DEF FetchServe
<1>2. Page(o) \in Pages /\ Page(o).ids \subseteq DOMAIN srv /\ known \cap Page(o).ids = {}
  BY Parts, PageOk
<1>3. r \in FetchType /\ r.st = "served" /\ r.page = Page(o)
  BY <1>2 DEF FetchType
<1> HIDE DEF r
<1>4. fetch' \in [Offsets -> FetchType] /\ fetch'[o] = r /\ \A x \in Offsets : x # o => fetch'[x] = fetch[x]
  BY <1>1, <1>3, Parts DEF FetchedOk
<1>5. FetchedOk(fetch', srv) /\ ServedFresh(fetch', known)
  BY <1>2, <1>3, <1>4, Parts DEF FetchedOk, ServedFresh
<1>6. RestFresh(pane', fetch', cache', known)
  <2>1. 0 \in Offsets
    BY SizesAssumption DEF Offsets
  <2> QED BY <1>3, <1>4, <2>1, Parts DEF RestFresh, FetchServe
<1> QED BY <1>5, <1>6, Parts, ViewStep DEF FetchServe

LEMMA FetchFailsKeeps ==
  ASSUME IInv, clicks' \in 0..MaxClicks, NEW o \in Offsets, FetchFails(o)
  PROVE  IInv'
<1> DEFINE g == fetch[o].page
           r == [st |-> "failed", page |-> g]
<1>1. fetch[o] \in FetchType /\ fetch \in [Offsets -> FetchType]
  BY Parts DEF FetchedOk
<1>2. fetch' = [fetch EXCEPT ![o] = r]
  <2>1. [fetch[o] EXCEPT !.st = "failed"] = r
    BY <1>1 DEF FetchType
  <2>2. fetch' = [fetch EXCEPT ![o] = [fetch[o] EXCEPT !.st = "failed"]]
    BY DEF FetchFails
  <2> HIDE DEF r
  <2> QED BY <2>1, <2>2
<1>p. g \in Pages
  BY <1>1, FetchFields
<1> HIDE DEF g
<1> DEFINE G == [fetch EXCEPT ![o] = [st |-> "failed", page |-> g]]
<1>g. /\ FetchedOk(G, srv) /\ ServedFresh(G, known) /\ G[o].st = "failed"
      /\ \A x \in Offsets : x # o => G[x] = fetch[x]
  BY <1>p, Parts, ReplacedOk
<1>3. /\ FetchedOk(fetch', srv) /\ ServedFresh(fetch', known) /\ fetch'[o].st = "failed"
      /\ \A x \in Offsets : x # o => fetch'[x] = fetch[x]
  <2>1. fetch' = G
    BY <1>2
  <2> HIDE DEF G
  <2> QED BY <1>g, <2>1
<1>4. RestFresh(pane', fetch', cache', known)
  <2>1. 0 \in Offsets
    BY SizesAssumption DEF Offsets
  <2> QED BY <1>3, <2>1, Parts DEF RestFresh, FetchFails
<1> QED BY <1>3, <1>4, Parts, ViewStep DEF FetchFails

LEMMA FetchDeliverKeeps ==
  ASSUME IInv, clicks' \in 0..MaxClicks, NEW o \in Offsets, FetchDeliver(o)
  PROVE  IInv'
<1> DEFINE g == fetch[o].page
           r == [st |-> "idle", page |-> NoPage]
<1>1. fetch[o] \in FetchType /\ fetch[o].st = "served" /\ cache \in [Offsets -> Pages]
  BY Parts DEF FetchedOk, CachedOk, FetchDeliver
<1>2. g \in Pages /\ g.ids \subseteq DOMAIN srv /\ known \cap g.ids = {}
  BY <1>1, FetchFields, Parts DEF FetchedOk, ServedFresh
<1>3. cache' = [cache EXCEPT ![o] = g] /\ fetch' = [fetch EXCEPT ![o] = r]
  BY DEF FetchDeliver
<1>4. pane' = IF pane.open /\ pane.offset = o /\ g # cache[o] THEN Merged(pane, o, g) ELSE pane
  BY DEF FetchDeliver
<1> HIDE DEF g
<1>5. cache'[o] = g /\ (\A x \in Offsets : x # o => cache'[x] = cache[x]) /\ CachedOk(cache', srv)
  BY <1>1, <1>2, <1>3, Parts DEF CachedOk
<1>6. /\ FetchedOk(fetch', srv) /\ ServedFresh(fetch', known)
      /\ \A x \in Offsets : x # o => fetch'[x] = fetch[x]
  <2> DEFINE G == [fetch EXCEPT ![o] = [st |-> "idle", page |-> NoPage]]
  <2>1. /\ FetchedOk(G, srv) /\ ServedFresh(G, known) /\ G[o].st = "idle"
        /\ \A x \in Offsets : x # o => G[x] = fetch[x]
    BY Parts, NoPageType, ReplacedOk
  <2>2. fetch' = G
    BY <1>3
  <2> HIDE DEF G
  <2> QED BY <2>1, <2>2
<1> DEFINE merge == pane.open /\ pane.offset = o /\ g # cache[o]
<1>7. /\ SamePane(pane, pane') /\ ShownOk(pane'.shown, srv, pane'.twin)
      /\ merge /\ o = 0 => ToSet(pane'.shown) \subseteq g.ids
      /\ ~merge => pane' = pane
  <2>1. SamePane(pane, pane)
    BY Parts DEF SamePane
  <2>2. CASE merge
    <3> DEFINE q == Merged(pane, o, g)
    <3>1. SamePane(pane, q) /\ ShownOk(q.shown, srv, q.twin) /\ (o = 0 => ToSet(q.shown) \subseteq g.ids)
      BY <1>2, Parts, MergedOk
    <3>2. pane' = q
      BY <1>4, <2>2
    <3> HIDE DEF q
    <3> QED BY <2>2, <3>1, <3>2
  <2>3. CASE ~merge
    BY <1>4, <2>1, <2>3, Parts
  <2> QED BY <2>2, <2>3
<1>8. RestFresh(pane', fetch', cache', known)
  <2>1. 0 \in Offsets /\ 0 \notin DOMAIN srv
    BY Parts, SizesAssumption DEF Offsets, Ids
  <2>2. g # NoPage
    BY <1>2, <2>1 DEF NoPage
  <2>3. CASE o # 0
    BY <1>5, <1>6, <1>7, <2>1, <2>3, Parts DEF RestFresh, SamePane
  <2>4. CASE o = 0 /\ merge
    BY <1>2, <1>5, <1>7, <2>2, <2>4 DEF RestFresh
  <2>5. CASE o = 0 /\ ~merge
    <3>1. pane' = pane /\ cache'[0] = g
      BY <1>5, <1>7, <2>5
    <3>2. pane.open /\ pane.offset = 0 => cache[0] = g
      BY <2>5
    <3> QED BY <1>2, <2>2, <3>1, <3>2, Parts DEF RestFresh
  <2> QED BY <2>3, <2>4, <2>5
<1> QED BY <1>5, <1>6, <1>7, <1>8, Parts, ViewStep DEF SamePane, FetchDeliver

(* A query is asked for at the offset the pane has afterwards. *)
LEMMA LookStep ==
  ASSUME IInv, srv' = srv, gone' = gone, known' = known, sched' = sched, queue' = queue,
         draft' = draft, texts' = texts, req' = req, slip' = slip,
         clicks' \in 0..MaxClicks, events' = events, cache' = cache,
         NEW o \in Offsets, fetch' = Asked(fetch, o),
         pane' = Looked(pane, o) \/ (pane' = pane /\ pane.offset = o)
  PROVE  IInv'
<1>1. FetchedOk(fetch', srv) /\ ServedFresh(fetch', known) /\ fetch'[o].st # "idle"
  BY Parts, AskedOk
<1>2. /\ pane' \in PaneType /\ pane'.offset = o /\ pane'.text = pane.text
      /\ pane'.picked = pane.picked /\ ShownOk(pane'.shown, srv, pane'.twin)
  BY Parts, LookedOk
<1>3. RestFresh(pane', fetch', cache', known)
  <2>1. CASE pane' = Looked(pane, o)
    <3>1. o = 0 /\ cache[o] # NoPage => ToSet(pane'.shown) \subseteq cache[o].ids
      BY <2>1, Parts, LookedOk
    <3> QED BY <1>1, <1>2, <3>1 DEF RestFresh
  <2>2. CASE pane' = pane /\ pane.offset = o
    BY <1>1, <2>2, Parts DEF RestFresh
  <2> QED BY <2>1, <2>2
<1> QED BY <1>1, <1>2, <1>3, Parts, ViewStep

LEMMA FocusKeeps ==
  ASSUME IInv, clicks' \in 0..MaxClicks, Focus
  PROVE  IInv'
<1>1. pane.offset \in Offsets
  BY Parts, PaneFields
<1> QED BY <1>1, LookStep DEF Focus

LEMMA HandleLoadOlderKeeps ==
  ASSUME IInv, clicks' \in 0..MaxClicks, HandleLoadOlder
  PROVE  IInv'
<1> DEFINE o == pane.shown[1]
<1>1. o \in Offsets
  <2>1. pane.shown \in Seq(Ids) /\ pane.shown # <<>>
    BY Parts, PaneFields DEF HandleLoadOlder
  <2>2. o \in Ids
    BY <2>1
  <2> QED BY <2>2, SizesAssumption DEF Ids, Offsets
<1>2. pane' = Looked(pane, o) /\ fetch' = Asked(fetch, o)
  BY DEF HandleLoadOlder
<1> HIDE DEF o
<1> QED BY <1>1, <1>2, LookStep DEF HandleLoadOlder

LEMMA ScrollToMessageKeeps ==
  ASSUME IInv, clicks' \in 0..MaxClicks, NEW i \in Ids, ScrollToMessage(i)
  PROVE  IInv'
<1> DEFINE o == ScrollTarget(i)
           S == {0, i - JumpBack}
<1>1. o \in Offsets
  <2>1. o = CHOOSE x \in S : \A y \in S : x >= y
    BY DEF ScrollTarget, Max
  <2>2. i - JumpBack \in Int /\ i - JumpBack <= MaxId
    BY SizesAssumption DEF Ids
  <2>3. \E x \in S : \A y \in S : x >= y
    BY <2>2
  <2>4. o \in S /\ o >= 0
    BY <2>1, <2>3
  <2> QED BY <2>2, <2>4, SizesAssumption DEF Offsets
<1>2. pane' = Looked(pane, o) /\ fetch' = Asked(fetch, o)
  BY DEF ScrollToMessage
<1> HIDE DEF o
<1> QED BY <1>1, <1>2, LookStep DEF ScrollToMessage

(* Only the pane or the events change, and the pane keeps its page. *)
LEMMA ScreenStep ==
  ASSUME IInv, srv' = srv, gone' = gone, known' = known, sched' = sched, queue' = queue,
         draft' = draft, texts' = texts, req' = req, slip' = slip,
         clicks' \in 0..MaxClicks, cache' = cache, fetch' = fetch,
         events' \in Seq(Ids), \A n \in DOMAIN events' : events'[n] \in DOMAIN srv,
         pane' \in PaneType, pane'.open = pane.open, pane'.offset = pane.offset,
         pane'.text = pane.text, pane'.picked \subseteq DOMAIN srv, ShownOk(pane'.shown, srv, pane'.twin),
         ToSet(pane'.shown) \ pane'.late \subseteq ToSet(pane.shown) \ pane.late
  PROVE  IInv'
<1>1. RestFresh(pane', fetch', cache', known)
  BY Parts DEF RestFresh
<1> QED BY <1>1, Parts, ViewStep

LEMMA DeliverEventKeeps ==
  ASSUME IInv, clicks' \in 0..MaxClicks, DeliverEvent
  PROVE  IInv'
<1>1. events \in Seq(Ids) /\ events # <<>> /\ events' = Tail(events)
  BY Parts DEF DeliverEvent
<1>2. events' \in Seq(Ids) /\ \A n \in DOMAIN events' : events'[n] \in DOMAIN srv
  <2>1. Tail(events) \in Seq(Ids) /\ \A n \in DOMAIN Tail(events) : n + 1 \in DOMAIN events /\ Tail(events)[n] = events[n + 1]
    BY <1>1
  <2> QED BY <1>1, <2>1, Parts
<1> DEFINE i == Head(events)
<1>3. i \in Ids /\ i \in DOMAIN srv
  <2>1. 1 \in DOMAIN events /\ i = events[1]
    BY <1>1
  <2> QED BY <1>1, <2>1, Parts
<1>4. pane' = IF pane.open /\ i \notin ToSet(pane.shown)
              THEN [pane EXCEPT !.shown = Append(pane.shown, i), !.late = pane.late \cup {i}] ELSE pane
  BY DEF DeliverEvent, EventShown
<1> HIDE DEF i
<1>5. /\ SamePane(pane, pane') /\ ShownOk(pane'.shown, srv, pane'.twin)
      /\ ToSet(pane'.shown) \ pane'.late \subseteq ToSet(pane.shown) \ pane.late
  <2>1. SamePane(pane, pane)
    BY Parts DEF SamePane
  <2>2. CASE pane.open /\ i \notin ToSet(pane.shown)
    <3> DEFINE v == Append(pane.shown, i)
               l == pane.late \cup {i}
    <3>1. v \in Seq(Ids) /\ ShownOk(v, srv, pane.twin) /\ ToSet(v) = ToSet(pane.shown) \cup {i}
      BY <1>3, <2>2, Parts, PaneFields, AppendShown
    <3>2. pane' = [pane EXCEPT !.shown = v, !.late = l]
      BY <1>4, <2>2
    <3>3. l \in SUBSET Ids
      BY <1>3, Parts, PaneFields
    <3> HIDE DEF v
    <3>4. SamePane(pane, pane') /\ pane'.shown = v /\ pane'.late = l /\ pane'.twin = pane.twin
      <4> HIDE DEF l
      <4>1. pane \in PaneType
        BY Parts
      <4> QED BY <3>1, <3>2, <3>3, <4>1 DEF SamePane, PaneType
    <3> QED BY <3>1, <3>4
  <2> QED BY <1>4, <2>1, <2>2, Parts
<1> QED BY <1>2, <1>5, Parts, ScreenStep DEF SamePane, DeliverEvent

LEMMA RecordingKeeps ==
  ASSUME IInv, clicks' \in 0..MaxClicks, StartRecording \/ StopRecording
  PROVE  IInv'
<1>1. SamePane(pane, pane') /\ SameList(pane, pane')
  BY Parts, PaneRec DEF StartRecording, StopRecording
<1> QED BY <1>1, Parts, ScreenStep DEF SamePane, SameList, StartRecording, StopRecording

LEMMA SelectionKeeps ==
  ASSUME IInv, clicks' \in 0..MaxClicks,
         CancelSelection \/ \E i \in Ids : MenuSelect(i) \/ ToggleMessage(i)
  PROVE  IInv'
<1>1. \A i \in ToSet(pane.shown) : i \in DOMAIN srv /\ i \in Ids
  BY Parts DEF ShownOk, ToSet
<1>2. CASE CancelSelection
  <2>1. pane' = [pane EXCEPT !.sel = FALSE, !.picked = {}]
    BY <1>2 DEF CancelSelection
  <2> DEFINE q == [pane EXCEPT !.sel = FALSE, !.picked = {}]
  <2>2. PickedPane(pane, q, {})
    BY Parts, PanePicked
  <2>3. PickedPane(pane, pane', {})
    BY <2>1, <2>2
  <2> QED BY <1>2, <2>3, Parts, ScreenStep DEF CancelSelection, PickedPane, SameList
<1>3. ASSUME NEW i \in Ids, MenuSelect(i) PROVE IInv'
  <2> DEFINE P == {i}
  <2>1. pane' = [pane EXCEPT !.sel = TRUE, !.picked = P] /\ P \in SUBSET Ids /\ P \subseteq DOMAIN srv
    BY <1>1, <1>3 DEF MenuSelect
  <2> HIDE DEF P
  <2> DEFINE q == [pane EXCEPT !.sel = TRUE, !.picked = P]
  <2>2. PickedPane(pane, q, P)
    BY <2>1, Parts, PanePicked
  <2>3. PickedPane(pane, pane', P)
    BY <2>1, <2>2
  <2> QED BY <1>3, <2>1, <2>3, Parts, ScreenStep DEF MenuSelect, PickedPane, SameList
<1>4. ASSUME NEW i \in Ids, ToggleMessage(i) PROVE IInv'
  <2> DEFINE P == SymDiff(pane.picked, {i})
  <2>1. pane' = [pane EXCEPT !.picked = P]
    BY <1>4 DEF ToggleMessage
  <2>2. P \in SUBSET Ids /\ P \subseteq DOMAIN srv
    BY <1>1, <1>4, Parts, PaneFields DEF ToggleMessage, SymDiff
  <2> HIDE DEF P
  <2> DEFINE q == [pane EXCEPT !.picked = P]
  <2>3. PickedPane(pane, q, P)
    BY <2>2, Parts, PanePicked
  <2>4. PickedPane(pane, pane', P)
    BY <2>1, <2>3
  <2> QED BY <1>4, <2>2, <2>4, Parts, ScreenStep DEF ToggleMessage, PickedPane, SameList
<1> QED BY <1>2, <1>3, <1>4

-----------------------------------------------------------------------------
(* Steps of the user and answers: Telegram stores nothing *)

(* What the invariant says of one request. *)
ReqOk(k, sv, gn, tx, sl) ==
  /\ k \in ReqType /\ k.ids \subseteq DOMAIN sv /\ k.text <= tx
  /\ k.kind = "schedule" => k.text \in sl
  /\ k.kind = "send" => k.text # 0
  /\ k.kind \in {"post", "voice"} => k.text = 0
  /\ k.kind = "send" /\ k.st # "asked" => \E i \in DOMAIN sv : k.ids = {i} /\ sv[i] = k.text
  /\ k.kind \in {"delete", "batch"} /\ k.st # "asked" => k.ids \subseteq gn

LEMMA ReqFields ==
  ASSUME NEW k \in ReqType
  PROVE  /\ k.kind \in Kinds \cup {"free"} /\ k.st \in {"asked", "ok", "lost"}
         /\ k.ids \in SUBSET Ids /\ k.text \in Texts /\ k.mine \in BOOLEAN
BY DEF ReqType

LEMMA ReqParts ==
  ASSUME IInv
  PROVE  /\ \A s \in Slots : ReqOk(req[s], srv, gone, texts, slip)
         /\ req \in [Slots -> ReqType]
         /\ texts \in Texts /\ Texts \subseteq Nat /\ 0 \in Texts
BY SizesAssumption DEF IInv, Typed, Existing, Bounded, Scheduled, Answers, ReqOk, Texts

LEMMA ReqOkMono ==
  ASSUME NEW k, NEW sv, NEW gn, NEW hn, NEW tx \in Nat, NEW ty \in Nat, NEW sl, NEW sm,
         ReqOk(k, sv, gn, tx, sl), gn \subseteq hn, tx <= ty, sl \subseteq sm
  PROVE  ReqOk(k, sv, hn, ty, sm)
<1>1. k.text \in Nat
  BY ReqFields, SizesAssumption DEF ReqOk, Texts
<1> QED BY <1>1 DEF ReqOk

LEMMA FreeOk ==
  ASSUME NEW sv, NEW gn, NEW tx \in Nat, NEW sl
  PROVE  ReqOk(Free, sv, gn, tx, sl) /\ Free.kind = "free" /\ Free.st = "asked"
BY SizesAssumption DEF ReqOk, Free, Ask, ReqType, Texts

LEMMA CalmStep ==
  ASSUME IInv, srv' = srv, gone \subseteq gone', gone' \subseteq DOMAIN srv, known' \subseteq gone',
         sched' \subseteq slip', queue' \subseteq slip', events' = events, cache' = cache,
         clicks' \in 0..MaxClicks,
         FetchedOk(fetch', srv), ServedFresh(fetch', known'), RestFresh(pane', fetch', cache, known'),
         pane' \in PaneType, pane'.picked \subseteq DOMAIN srv, ShownOk(pane'.shown, srv, pane'.twin),
         pane'.text <= texts', draft' \in Texts, draft' <= texts',
         texts' \in Texts, texts <= texts',
         slip \subseteq slip', slip' \subseteq Texts, \A t \in slip' : t <= texts',
         req' \in [Slots -> ReqType],
         \A s \in Slots : ReqOk(req'[s], srv, gone', texts', slip'),
         Flow'
  PROVE  IInv'
<1>1. Typed'
  BY SizesAssumption DEF IInv, Typed, FetchedOk
<1>2. Existing'
  BY DEF IInv, Existing, FetchedOk, ShownOk, ReqOk
<1>3. Bounded'
  <2>1. \A n \in DOMAIN srv : srv[n] \in Nat /\ srv[n] <= texts
    BY SizesAssumption, StoredIds DEF IInv, Bounded, Texts
  <2>2. texts \in Nat /\ texts' \in Nat
    BY SizesAssumption DEF IInv, Typed, Texts
  <2> QED BY <2>1, <2>2 DEF Bounded, ReqOk
<1>4. Scheduled' /\ Answers'
  BY DEF Scheduled, Answers, ReqOk
<1>5. Fresh'
  BY DEF Fresh, ServedFresh, RestFresh
<1>6. ShownOnce' /\ SentOnce'
  BY DEF IInv, ShownOnce, SentOnce, ShownOk
<1> QED BY <1>1, <1>2, <1>3, <1>4, <1>5, <1>6 DEF IInv

(* No text starts on its way, and one that has arrived keeps its request   *)
(* or loses the composer and the draft.                                    *)
LEMMA FlowSteady ==
  ASSUME IInv, srv' = srv, slip \subseteq slip',
         pane'.text \in {pane.text, draft, 0} \/ ~IsStored(pane'.text),
         draft' \in {pane.text, draft, 0} \/ ~IsStored(draft'),
         \A s \in Slots, t \in Texts :
           t # 0 /\ t \notin slip' /\ req'[s].kind = "send" /\ req'[s].text = t =>
             Sending(s, t) /\ req'[s].mine = req[s].mine /\ req'[s].st = req[s].st,
         \A s \in Slots, t \in Texts :
           t # 0 /\ t \notin slip' /\ Sending(s, t) /\ req[s].st # "asked" =>
             \/ req'[s].kind = "send" /\ req'[s].text = t
             \/ pane'.text = 0 /\ draft' = 0
  PROVE  Flow'
<1> SUFFICES ASSUME NEW t \in Texts, t # 0, t \notin slip' PROVE OnItsWay(t)'
  BY DEF Flow
<1>1. OnItsWay(t)
  BY DEF IInv, Flow
<1>2. \A s \in Slots : Sending(s, t)' => Sending(s, t) /\ req'[s].mine = req[s].mine /\ req'[s].st = req[s].st
  BY DEF Sending
<1>3. \A s \in Slots : Sending(s, t) /\ req[s].st # "asked" => Sending(s, t)' \/ (pane'.text = 0 /\ draft' = 0)
  BY DEF Sending
<1>4. IsStored(t)' <=> IsStored(t)
  BY DEF IsStored
<1>5. \A s \in Slots : Sending(s, t)' => req'[s].mine
  BY <1>1, <1>2 DEF OnItsWay
<1>6. \A s, z \in Slots : Sending(s, t)' /\ Sending(z, t)' => s = z
  BY <1>1, <1>2 DEF OnItsWay
<1>7. \A s \in Slots : Sending(s, t)' /\ req'[s].st = "asked" => ~IsStored(t)
  BY <1>1, <1>2 DEF OnItsWay
<1>8. ASSUME IsStored(t)
      PROVE  (\E s \in Slots : Sending(s, t)' /\ req'[s].st # "asked") \/ (pane'.text # t /\ draft' # t)
  <2>1. CASE \E s \in Slots : Sending(s, t) /\ req[s].st # "asked"
    <3>1. PICK s \in Slots : Sending(s, t) /\ req[s].st # "asked"
      BY <2>1
    <3>2. CASE Sending(s, t)'
      BY <3>1, <3>2, <1>2
    <3>3. CASE pane'.text = 0 /\ draft' = 0
      BY <3>3
    <3> QED BY <3>1, <3>2, <3>3, <1>3
  <2>2. CASE pane.text # t /\ draft # t
    BY <1>8, <2>2
  <2> QED BY <1>1, <1>8, <2>1, <2>2 DEF OnItsWay
<1>9. ASSUME IsStored(t)'
      PROVE (\E s \in Slots : Sending(s, t)' /\ req'[s].st # "asked") \/ (pane'.text # t /\ draft' # t)
  BY <1>4, <1>8, <1>9
<1>10. \A s \in Slots : Sending(s, t)' /\ req'[s].st = "asked" => ~IsStored(t)'
  BY <1>4, <1>7
<1> QED BY <1>5, <1>6, <1>9, <1>10 DEF OnItsWay

(* Requests start in slots that were free; all but the messages that are   *)
(* sent from the composer.                                                 *)
LEMMA RequestsStep ==
  ASSUME IInv, srv' = srv, gone' = gone, known' = known, sched' = sched, queue' = queue,
         draft' = draft, texts' = texts, events' = events, cache' = cache, fetch' = fetch,
         clicks' \in 0..MaxClicks,
         SamePane(pane, pane'), SameList(pane, pane'),
         slip \subseteq slip', slip' \subseteq Texts, \A t \in slip' : t <= texts,
         req' \in [Slots -> ReqType],
         \A s \in Slots : \/ req'[s] = req[s]
                          \/ /\ ReqOk(req'[s], srv, gone, texts, slip') /\ req[s].kind = "free"
                             /\ req'[s].kind = "send" => req'[s].text \in slip'
  PROVE  IInv'
<1>1. \A s \in Slots : ReqOk(req'[s], srv, gone', texts', slip')
  <2>1. texts \in Nat
    BY ReqParts
  <2>2. \A s \in Slots : ReqOk(req[s], srv, gone, texts, slip')
    BY <2>1, ReqParts, ReqOkMono
  <2> QED BY <2>2
<1>2. Flow'
  BY FlowSteady DEF Sending, SamePane
<1>3. sched' \subseteq slip' /\ queue' \subseteq slip'
  BY DEF IInv, Scheduled
<1>4. /\ pane' \in PaneType /\ pane'.picked \subseteq DOMAIN srv /\ ShownOk(pane'.shown, srv, pane'.twin)
      /\ pane'.text <= texts' /\ draft' \in Texts /\ draft' <= texts' /\ texts' \in Texts /\ texts <= texts'
  BY Parts, ReqParts DEF SamePane, SameList, IInv, Bounded, Typed
<1>5. gone \subseteq gone' /\ gone' \subseteq DOMAIN srv /\ known' \subseteq gone'
  BY DEF IInv, Typed
<1>6. FetchedOk(fetch', srv) /\ ServedFresh(fetch', known') /\ RestFresh(pane', fetch', cache, known')
  BY Parts DEF SamePane, SameList, RestFresh
<1> QED BY <1>1, <1>2, <1>3, <1>4, <1>5, <1>6, CalmStep

LEMMA AskOk ==
  ASSUME NEW kind \in Kinds, NEW ids \in SUBSET Ids, NEW t \in Texts, NEW m \in BOOLEAN,
         NEW k, k = Ask(kind, ids, t, m),
         NEW sv, NEW gn, NEW tx, NEW sl, ids \subseteq DOMAIN sv, t <= tx,
         kind = "schedule" => t \in sl, kind = "send" => t # 0, kind \in {"post", "voice"} => t = 0
  PROVE  /\ ReqOk(k, sv, gn, tx, sl) /\ k \in ReqType
         /\ k.kind = kind /\ k.text = t /\ k.mine = m /\ k.st = "asked" /\ k.ids = ids
<1>1. /\ k.kind = kind /\ k.st = "asked" /\ k.ids = ids /\ k.text = t /\ k.mine = m
      /\ k \in ReqType
  BY DEF Ask, ReqType
<1>2. ReqOk(k, sv, gn, tx, sl)
  BY <1>1 DEF ReqOk
<1> QED BY <1>1, <1>2

LEMMA RequestMakes ==
  ASSUME NEW s \in Slots, NEW kind, NEW ids, NEW t, Request(s, kind, ids, t)
  PROVE  req[s].kind = "free" /\ req' = [req EXCEPT ![s] = Ask(kind, ids, t, TRUE)]
BY DEF Request, Free, Ask

(* One request that does not carry the composer's message. *)
LEMMA OneRequestStep ==
  ASSUME IInv, srv' = srv, gone' = gone, known' = known, sched' = sched, queue' = queue,
         draft' = draft, texts' = texts, events' = events, cache' = cache, fetch' = fetch,
         clicks' \in 0..MaxClicks, SamePane(pane, pane'), SameList(pane, pane'),
         slip \subseteq slip', slip' \subseteq Texts, \A u \in slip' : u <= texts,
         NEW s \in Slots, NEW k, ReqOk(k, srv, gone, texts, slip'), k.kind # "send",
         req[s].kind = "free", req' = [req EXCEPT ![s] = k]
  PROVE  IInv'
<1>1. k \in ReqType
  BY DEF ReqOk
<1>2. req' \in [Slots -> ReqType] /\ req'[s] = k /\ \A d \in Slots : d # s => req'[d] = req[d]
  BY <1>1, ReqParts
<1> QED BY <1>2, RequestsStep

LEMMA SlipSame ==
  ASSUME IInv
  PROVE  slip \subseteq Texts /\ (\A u \in slip : u <= texts) /\ SamePane(pane, pane)
         /\ SameList(pane, pane)
BY Parts DEF IInv, Typed, Bounded, SamePane, SameList

LEMMA PostingKeeps ==
  ASSUME IInv, clicks' \in 0..MaxClicks, NEW s \in Slots,
         SendPoll(s) \/ SendGif(s) \/ SendSticker(s) \/ Vote(s)
  PROVE  IInv'
<1>0. {} \in SUBSET Ids /\ {} \subseteq DOMAIN srv /\ 0 \in Texts /\ 0 <= texts
  BY ReqParts
<1>1. ASSUME NEW kind \in {"vote", "post"}, Request(s, kind, {}, 0)
      PROVE  \E k : /\ ReqOk(k, srv, gone, texts, slip) /\ k.kind # "send" /\ req[s].kind = "free"
                    /\ req' = [req EXCEPT ![s] = k]
  <2> DEFINE k == Ask(kind, {}, 0, TRUE)
  <2>1. req[s].kind = "free" /\ req' = [req EXCEPT ![s] = k]
    BY <1>1, RequestMakes
  <2>2. kind \in Kinds
    BY DEF Kinds
  <2> DEFINE b == TRUE
  <2>3. k = Ask(kind, {}, 0, b) /\ b \in BOOLEAN
    OBVIOUS
  <2> HIDE DEF k, b
  <2>4. ReqOk(k, srv, gone, texts, slip) /\ k.kind = kind
    BY <1>0, <2>2, <2>3, AskOk
  <2> QED BY <2>1, <2>4
<1>2. CASE Vote(s)
  <2>1. PICK k : /\ ReqOk(k, srv, gone, texts, slip) /\ k.kind # "send" /\ req[s].kind = "free"
                 /\ req' = [req EXCEPT ![s] = k]
    BY <1>1, <1>2 DEF Vote
  <2> QED BY <1>2, <2>1, SlipSame, OneRequestStep DEF Vote
<1>3. CASE SendPoll(s) \/ SendGif(s) \/ SendSticker(s)
  <2>1. PICK k : /\ ReqOk(k, srv, gone, texts, slip) /\ k.kind # "send" /\ req[s].kind = "free"
                 /\ req' = [req EXCEPT ![s] = k]
    BY <1>1, <1>3 DEF SendPoll, SendGif, SendSticker
  <2> QED BY <1>3, <2>1, SlipSame, OneRequestStep DEF SendPoll, SendGif, SendSticker
<1> QED BY <1>2, <1>3

LEMMA DeletingKeeps ==
  ASSUME IInv, clicks' \in 0..MaxClicks, NEW s \in Slots,
         DeleteSelected(s) \/ ForwardTo(s) \/ \E i \in Ids : MenuDelete(s, i)
  PROVE  IInv'
<1>0. 0 \in Texts /\ 0 <= texts
  BY ReqParts
<1>1. ASSUME NEW kind \in {"delete", "batch", "forward"}, NEW ids \in SUBSET Ids,
             ids \subseteq DOMAIN srv, Request(s, kind, ids, 0)
      PROVE  \E k : /\ ReqOk(k, srv, gone, texts, slip) /\ k.kind # "send" /\ req[s].kind = "free"
                    /\ req' = [req EXCEPT ![s] = k]
  <2> DEFINE k == Ask(kind, ids, 0, TRUE)
  <2>1. req[s].kind = "free" /\ req' = [req EXCEPT ![s] = k]
    BY <1>1, RequestMakes
  <2>2. kind \in Kinds
    BY DEF Kinds
  <2> DEFINE b == TRUE
  <2>3. k = Ask(kind, ids, 0, b) /\ b \in BOOLEAN
    OBVIOUS
  <2> HIDE DEF k, b
  <2>4. ReqOk(k, srv, gone, texts, slip) /\ k.kind = kind
    BY <1>0, <1>1, <2>2, <2>3, AskOk
  <2> QED BY <2>1, <2>4
<1>2. ASSUME NEW i \in Ids, MenuDelete(s, i) PROVE IInv'
  <2>1. {i} \in SUBSET Ids /\ {i} \subseteq DOMAIN srv
    BY <1>2, Parts DEF MenuDelete, ShownOk, ToSet
  <2>2. PICK k : /\ ReqOk(k, srv, gone, texts, slip) /\ k.kind # "send" /\ req[s].kind = "free"
                 /\ req' = [req EXCEPT ![s] = k]
    BY <1>1, <1>2, <2>1 DEF MenuDelete
  <2> QED BY <1>2, <2>2, SlipSame, OneRequestStep DEF MenuDelete
<1>3. CASE DeleteSelected(s) \/ ForwardTo(s)
  <2>1. pane.picked \in SUBSET Ids /\ pane.picked \subseteq DOMAIN srv
    BY Parts, PaneFields
  <2>2. PICK k : /\ ReqOk(k, srv, gone, texts, slip) /\ k.kind # "send" /\ req[s].kind = "free"
                 /\ req' = [req EXCEPT ![s] = k]
    BY <1>1, <1>3, <2>1 DEF DeleteSelected, ForwardTo
  <2> QED BY <1>3, <2>2, SlipSame, OneRequestStep DEF DeleteSelected, ForwardTo
<1> QED BY <1>2, <1>3

LEMMA OnStopKeeps ==
  ASSUME IInv, clicks' \in 0..MaxClicks, NEW s \in Slots, OnStop(s)
  PROVE  IInv'
<1> DEFINE b == pane.open
           k == Ask("voice", {}, 0, b)
<1>1. req[s].kind = "free" /\ req' = [req EXCEPT ![s] = k]
  BY DEF OnStop, Free, Ask
<1>2. b \in BOOLEAN /\ "voice" \in Kinds
  BY Parts, PaneFields DEF Kinds
<1> HIDE DEF b
<1>3. k = Ask("voice", {}, 0, b)
  OBVIOUS
<1> HIDE DEF k
<1>4. SamePane(pane, pane') /\ SameList(pane, pane')
  BY Parts, PaneRec DEF OnStop
<1>5. {} \in SUBSET Ids /\ {} \subseteq DOMAIN srv /\ 0 \in Texts /\ 0 <= texts
  BY ReqParts
<1>6. ReqOk(k, srv, gone, texts, slip) /\ k.kind = "voice"
  BY <1>2, <1>3, <1>5, AskOk
<1> QED BY <1>1, <1>4, <1>6, SlipSame, OneRequestStep DEF OnStop

LEMMA SchedulingKeeps ==
  ASSUME IInv, clicks' \in 0..MaxClicks, NEW s \in Slots,
         ScheduleText(s) \/ \E t \in Texts \ {0} : DeleteScheduled(s, t)
  PROVE  IInv'
<1>0. {} \in SUBSET Ids /\ {} \subseteq DOMAIN srv
  OBVIOUS
<1>1. ASSUME NEW kind \in {"schedule", "unschedule"}, NEW t \in Texts, t <= texts, t \in slip',
             Request(s, kind, {}, t)
      PROVE  \E k : /\ ReqOk(k, srv, gone, texts, slip') /\ k.kind # "send" /\ req[s].kind = "free"
                    /\ req' = [req EXCEPT ![s] = k]
  <2> DEFINE k == Ask(kind, {}, t, TRUE)
  <2>1. req[s].kind = "free" /\ req' = [req EXCEPT ![s] = k]
    BY <1>1, RequestMakes
  <2>2. kind \in Kinds
    BY DEF Kinds
  <2> DEFINE b == TRUE
  <2>3. k = Ask(kind, {}, t, b) /\ b \in BOOLEAN
    OBVIOUS
  <2> HIDE DEF k, b
  <2>4. ReqOk(k, srv, gone, texts, slip') /\ k.kind = kind
    BY <1>0, <1>1, <2>2, <2>3, AskOk
  <2> QED BY <2>1, <2>4
<1>2. CASE ScheduleText(s)
  <2>1. pane.text \in Texts /\ pane.text <= texts
    BY Parts, PaneFields DEF IInv, Bounded
  <2>2. slip \subseteq slip' /\ slip' \subseteq Texts /\ (\A u \in slip' : u <= texts) /\ pane.text \in slip'
    BY <1>2, <2>1, SlipSame DEF ScheduleText
  <2>3. PICK k : /\ ReqOk(k, srv, gone, texts, slip') /\ k.kind # "send" /\ req[s].kind = "free"
                 /\ req' = [req EXCEPT ![s] = k]
    BY <1>1, <1>2, <2>1, <2>2 DEF ScheduleText
  <2> QED BY <1>2, <2>2, <2>3, SlipSame, OneRequestStep DEF ScheduleText
<1>3. ASSUME NEW t \in Texts, DeleteScheduled(s, t) PROVE IInv'
  <2>1. t <= texts /\ t \in slip'
    BY <1>3 DEF IInv, Scheduled, Bounded, DeleteScheduled
  <2>2. PICK k : /\ ReqOk(k, srv, gone, texts, slip') /\ k.kind # "send" /\ req[s].kind = "free"
                 /\ req' = [req EXCEPT ![s] = k]
    BY <1>1, <1>3, <2>1 DEF DeleteScheduled
  <2> QED BY <1>3, <2>2, SlipSame, OneRequestStep DEF DeleteScheduled
<1> QED BY <1>2, <1>3

LEMMA SendNowKeeps ==
  ASSUME IInv, clicks' \in 0..MaxClicks, NEW s \in Slots, NEW z \in Slots, NEW t \in Texts \ {0},
         SendNow(s, z, t)
  PROVE  IInv'
<1> DEFINE k == Ask("send", {}, t, TRUE)
           l == Ask("unschedule", {}, t, TRUE)
<1> DEFINE b == TRUE
<1>1. k = Ask("send", {}, t, b) /\ l = Ask("unschedule", {}, t, b) /\ b \in BOOLEAN
  OBVIOUS
<1>2. t \in slip /\ t <= texts
  BY DEF IInv, Scheduled, Bounded, SendNow
<1>4. req[s].kind = "free" /\ req[z].kind = "free" /\ s # z /\ req' = [req EXCEPT ![s] = k, ![z] = l]
  BY DEF SendNow, Free, Ask
<1> HIDE DEF k, l, b
<1>6. {"send", "unschedule"} \subseteq Kinds /\ {} \in SUBSET Ids /\ {} \subseteq DOMAIN srv
  BY DEF Kinds
<1>3. /\ ReqOk(k, srv, gone, texts, slip) /\ k \in ReqType /\ k.text = t
      /\ ReqOk(l, srv, gone, texts, slip) /\ l \in ReqType /\ l.kind = "unschedule"
  BY <1>1, <1>2, <1>6, AskOk
<1>5. /\ req' \in [Slots -> ReqType] /\ req'[s] = k /\ req'[z] = l
      /\ \A d \in Slots : d # s /\ d # z => req'[d] = req[d]
  BY <1>3, <1>4, ReqParts
<1> QED BY <1>2, <1>3, <1>4, <1>5, SlipSame, RequestsStep DEF SendNow

LEMMA HandleSendKeeps ==
  ASSUME IInv, clicks' \in 0..MaxClicks, NEW s \in Slots, HandleSend(s)
  PROVE  IInv'
<1> DEFINE u == pane.text
           k == Ask("send", {}, u, TRUE)
<1>1. req[s].kind = "free" /\ req' = [req EXCEPT ![s] = k]
  BY RequestMakes DEF HandleSend
<1>2. u \in Texts /\ u <= texts /\ u # 0
  BY Parts, PaneFields DEF IInv, Bounded, HandleSend, SendEnabled
<1> HIDE DEF u
<1> DEFINE b == TRUE
<1>k. k = Ask("send", {}, u, b) /\ b \in BOOLEAN
  OBVIOUS
<1> HIDE DEF k, b
<1>9. "send" \in Kinds /\ {} \in SUBSET Ids /\ {} \subseteq DOMAIN srv
  BY DEF Kinds
<1>3. /\ ReqOk(k, srv, gone, texts, slip) /\ k \in ReqType
      /\ k.kind = "send" /\ k.text = u /\ k.mine = b /\ k.st = "asked"
  BY <1>2, <1>9, <1>k, AskOk
<1>4. req' \in [Slots -> ReqType] /\ req'[s] = k /\ \A d \in Slots : d # s => req'[d] = req[d]
  BY <1>1, <1>3, ReqParts
<1>5. \A d \in Slots : ~(req[d].kind = "send" /\ req[d].mine)
  BY DEF HandleSend, SendEnabled
<1>6. srv' = srv /\ slip' = slip /\ pane' = pane /\ draft' = draft
  BY DEF HandleSend
<1>7. Flow'
  <2> SUFFICES ASSUME NEW t \in Texts, t # 0, t \notin slip PROVE OnItsWay(t)'
    BY <1>6 DEF Flow
  <2>1. OnItsWay(t)
    BY DEF IInv, Flow
  <2>2. \A d \in Slots : ~Sending(d, t)
    BY <1>5, <2>1 DEF OnItsWay, Sending
  <2>3. \A d \in Slots : Sending(d, t)' => d = s /\ t = u
    BY <1>3, <1>4, <2>2 DEF Sending
  <2>4. IsStored(t) => pane.text # t /\ draft # t
    BY <2>1, <2>2 DEF OnItsWay
  <2>5. IsStored(t)' <=> IsStored(t)
    BY <1>6 DEF IsStored
  <2>6. \A d \in Slots : Sending(d, t)' => req'[d].mine /\ ~IsStored(t)'
    BY <1>3, <1>4, <2>3, <2>4, <2>5 DEF u, b
  <2>7. IsStored(t)' => pane'.text # t /\ draft' # t
    BY <1>6, <2>4, <2>5
  <2>8. \A d, e \in Slots : Sending(d, t)' /\ Sending(e, t)' => d = e
    BY <2>3
  <2> QED BY <2>6, <2>7, <2>8 DEF OnItsWay
<1>8. \A d \in Slots : ReqOk(req'[d], srv, gone, texts, slip)
  BY <1>3, <1>4, ReqParts
<1>10. RestFresh(pane', fetch', cache, known')
  BY Parts DEF RestFresh, HandleSend
<1> QED BY <1>4, <1>7, <1>8, <1>10, Parts, ReqParts, SlipSame, CalmStep
      DEF HandleSend, IInv, Typed, Bounded, Scheduled

-----------------------------------------------------------------------------
(* Opening, leaving, writing *)

LEMMA ClosedFields ==
  ASSUME NEW r \in {"off", "on", "stopping"}, NEW q, q = [Closed EXCEPT !.rec = r]
  PROVE  q \in PaneType /\ q.text = 0 /\ q.shown = <<>> /\ q.picked = {} /\ q.open = FALSE
<1>1. 0 \in Offsets /\ 0 \in Texts /\ <<>> \in Seq(Ids)
  BY SizesAssumption DEF Offsets, Texts
<1>2. Closed \in PaneType
  BY <1>1 DEF Closed, PaneType
<1>3. SamePane(Closed, q) /\ SameList(Closed, q)
  BY <1>2, PaneRec
<1> QED BY <1>3 DEF SamePane, SameList, Closed

(* The pane as it is mounted. *)
Opened(t, r) == [Closed EXCEPT !.open = TRUE, !.text = t, !.rec = r]

LEMMA OpenedFields ==
  ASSUME NEW r \in {"off", "on", "stopping"}, NEW t \in Texts,
         NEW q, q = Opened(t, r)
  PROVE  q \in PaneType /\ q.text = t /\ q.shown = <<>> /\ q.picked = {}
<1>1. 0 \in Offsets /\ 0 \in Texts /\ <<>> \in Seq(Ids)
  BY SizesAssumption DEF Offsets, Texts
<1>2. q.text = t /\ q.shown = <<>> /\ q.picked = {}
  BY DEF Opened, Closed
<1>3. q \in PaneType
  BY <1>1 DEF Opened, Closed, PaneType
<1> QED BY <1>2, <1>3

LEMMA EmptyShown == \A sv, tw : ShownOk(<<>>, sv, tw)
BY DEF ShownOk

LEMMA OpenKeeps ==
  ASSUME IInv, clicks' \in 0..MaxClicks, Open
  PROVE  IInv'
<1> DEFINE r == pane.rec
           q == Opened(draft, r)
<1>0. 0 \in Offsets /\ 0 \in Texts
  BY SizesAssumption DEF Offsets, Texts
<1>1. r \in {"off", "on", "stopping"} /\ draft \in Texts /\ draft <= texts
  BY Parts, PaneFields DEF IInv, Typed, Bounded
<1>2. pane' = Looked(q, 0) /\ fetch' = Asked(fetch, 0)
  BY DEF Open, Opened
<1> HIDE DEF r
<1>q. q = Opened(draft, r)
  OBVIOUS
<1> HIDE DEF q
<1>3. q \in PaneType /\ q.text = draft /\ q.picked = {} /\ ShownOk(q.shown, srv, q.twin)
  BY <1>q, <1>1, OpenedFields, EmptyShown
<1>4. /\ pane' \in PaneType /\ pane'.offset = 0 /\ pane'.text = draft
      /\ pane'.picked = {} /\ ShownOk(pane'.shown, srv, pane'.twin)
  BY <1>0, <1>2, <1>3, Parts, LookedOk
<1>5. FetchedOk(fetch', srv) /\ ServedFresh(fetch', known) /\ fetch'[0].st # "idle"
  BY <1>0, <1>2, Parts, AskedOk
<1>6. RestFresh(pane', fetch', cache, known')
  <2>1. cache[0] # NoPage => ToSet(pane'.shown) \subseteq cache[0].ids
    BY <1>0, <1>2, <1>3, Parts, LookedOk
  <2> QED BY <1>4, <1>5, <2>1 DEF RestFresh
<1>7. Flow'
  <2>1. srv' = srv /\ slip' = slip /\ req' = req /\ draft' = draft
    BY DEF Open
  <2> QED BY <1>4, <2>1, FlowSteady DEF Sending
<1>8. texts \in Nat /\ draft \in Nat
  BY <1>1, ReqParts, SizesAssumption DEF Texts
<1> QED BY <1>1, <1>4, <1>5, <1>6, <1>7, <1>8, Parts, ReqParts, SlipSame, CalmStep
      DEF Open, IInv, Typed, Scheduled

LEMMA LeaveKeeps ==
  ASSUME IInv, clicks' \in 0..MaxClicks, Leave
  PROVE  IInv'
<1> DEFINE r == IF pane.rec = "on" THEN "stopping" ELSE pane.rec
<1>1. r \in {"off", "on", "stopping"}
  BY Parts, PaneFields
<1>2. pane' = [Closed EXCEPT !.rec = r]
  BY DEF Leave
<1> HIDE DEF r
<1>0. 0 \in Texts
  BY ReqParts
<1>3. /\ pane' \in PaneType /\ pane'.text = 0 /\ pane'.shown = <<>> /\ pane'.picked = {}
      /\ pane'.open = FALSE
  BY <1>0, <1>1, <1>2, ClosedFields
<1>4. \A s \in Slots : req'[s] = [req[s] EXCEPT !.mine = FALSE]
  BY DEF Leave
<1>5. \A s \in Slots : /\ req'[s] \in ReqType /\ req'[s].kind = req[s].kind /\ req'[s].text = req[s].text
                       /\ req'[s].st = req[s].st /\ req'[s].ids = req[s].ids
  <2> TAKE s \in Slots
  <2>1. req[s] \in ReqType
    BY ReqParts
  <2> QED BY <1>4, <2>1 DEF ReqType
<1>6. slip' = slip \cup {req[s].text : s \in {z \in Slots : req[z].kind = "send"}}
  BY DEF Leave
<1>7. /\ slip \subseteq slip' /\ slip' \subseteq Texts /\ \A t \in slip' : t <= texts
      /\ \A s \in Slots : req[s].kind = "send" => req[s].text \in slip'
  <2>1. \A s \in Slots : req[s].text \in Texts /\ req[s].text <= texts
    BY ReqParts, ReqFields DEF ReqOk
  <2> QED BY <1>6, <2>1, SlipSame
<1>8. \A s \in Slots : ReqOk(req'[s], srv, gone, texts, slip')
  <2>1. \A s \in Slots : ReqOk(req[s], srv, gone, texts, slip')
    BY <1>7, ReqParts, ReqOkMono
  <2> QED BY <1>5, <2>1 DEF ReqOk
<1>9. srv' = srv /\ draft' = draft
  BY DEF Leave
<1>10. Flow'
  BY <1>3, <1>5, <1>7, <1>9, FlowSteady DEF Sending
<1>11. RestFresh(pane', fetch', cache, known')
  BY <1>3 DEF RestFresh
<1>12. ShownOk(pane'.shown, srv, pane'.twin)
  BY <1>3, EmptyShown
<1>13. req' \in [Slots -> ReqType]
  BY <1>5 DEF Leave
<1>14. sched' \subseteq slip' /\ queue' \subseteq slip'
  BY <1>7 DEF Leave, IInv, Scheduled
<1>15. texts \in Nat /\ pane'.text <= texts
  BY <1>3, ReqParts DEF IInv, Bounded
<1>16. /\ gone' = gone /\ known' = known /\ events' = events /\ cache' = cache /\ fetch' = fetch
       /\ texts' = texts /\ gone' \subseteq DOMAIN srv /\ known' \subseteq gone'
       /\ draft' \in Texts /\ draft' <= texts' /\ texts' \in Texts /\ texts <= texts'
  BY <1>15 DEF Leave, IInv, Typed, Bounded
<1>17. FetchedOk(fetch', srv) /\ ServedFresh(fetch', known') /\ pane'.picked \subseteq DOMAIN srv
  BY <1>3, <1>16, Parts
<1> QED BY <1>3, <1>7, <1>8, <1>9, <1>10, <1>11, <1>12, <1>13, <1>14, <1>15, <1>16, <1>17, CalmStep

LEMMA WritingKeeps ==
  ASSUME IInv, clicks' \in 0..MaxClicks, HandleInputChange \/ HandleSelectSuggestion
  PROVE  IInv'
<1> DEFINE u == texts + 1
<1>1. texts' = u /\ texts < MaxText /\ texts \in Nat /\ draft \in Texts /\ draft <= texts
  BY ReqParts DEF HandleInputChange, HandleSelectSuggestion, Written, IInv, Typed, Bounded
<1>2. u \in Texts /\ texts <= u /\ u \in Nat /\ u # 0
  BY <1>1, SizesAssumption DEF Texts
<1>3. ~IsStored(u)
  <2>1. \A n \in DOMAIN srv : srv[n] \in Nat /\ srv[n] <= texts
    BY SizesAssumption, StoredIds DEF IInv, Bounded, Texts
  <2> QED BY <1>1, <2>1 DEF IsStored
<1>4. pane' = [pane EXCEPT !.text = u] /\ draft' \in {draft, u}
  BY <1>1 DEF HandleInputChange, HandleSelectSuggestion
<1> HIDE DEF u
<1> DEFINE q == [pane EXCEPT !.text = u]
<1>5. /\ q \in PaneType /\ q.open = pane.open /\ q.offset = pane.offset /\ q.text = u
      /\ q.picked = pane.picked /\ SameList(pane, q)
  BY <1>2, Parts, PaneText
<1>6. pane' = q
  BY <1>4
<1> HIDE DEF q
<1>7. srv' = srv /\ slip' = slip /\ req' = req
  BY DEF HandleInputChange, HandleSelectSuggestion
<1>8. Flow'
  BY <1>3, <1>4, <1>5, <1>6, <1>7, FlowSteady DEF Sending
<1>9. RestFresh(pane', fetch', cache, known')
  BY <1>5, <1>6, Parts DEF RestFresh, SameList, HandleInputChange, HandleSelectSuggestion
<1>10. \A s \in Slots : ReqOk(req'[s], srv, gone, texts', slip')
  BY <1>1, <1>2, <1>7, ReqParts, ReqOkMono
<1>11. draft' \in Texts /\ draft' <= texts' /\ texts' \in Texts /\ texts <= texts'
  BY <1>1, <1>2, <1>4, SizesAssumption DEF Texts
<1>12. \A t \in slip' : t <= texts'
  BY <1>1, <1>2, <1>7, SlipSame, SizesAssumption DEF Texts
<1>13. pane'.text <= texts' /\ pane'.picked \subseteq DOMAIN srv /\ ShownOk(pane'.shown, srv, pane'.twin) /\ pane' \in PaneType
  BY <1>1, <1>2, <1>5, <1>6, Parts DEF SameList
<1> QED BY <1>7, <1>8, <1>9, <1>10, <1>11, <1>12, <1>13, Parts, ReqParts, SlipSame, CalmStep
      DEF HandleInputChange, HandleSelectSuggestion, IInv, Typed, Scheduled

-----------------------------------------------------------------------------
(* Answers *)

LEMMA DoneParts ==
  ASSUME IInv, NEW s \in Slots, Done(s), srv' = srv, gone' = gone, texts' = texts, slip \subseteq slip'
  PROVE  /\ req' \in [Slots -> ReqType]
         /\ req'[s] = Free /\ Free.kind = "free" /\ \A d \in Slots : d # s => req'[d] = req[d]
         /\ \A d \in Slots : ReqOk(req'[d], srv, gone', texts', slip')
<1>1. texts \in Nat
  BY ReqParts
<1>2. ReqOk(Free, srv, gone, texts, slip') /\ Free \in ReqType /\ Free.kind = "free"
  BY <1>1, FreeOk DEF ReqOk
<1>3. \A d \in Slots : ReqOk(req[d], srv, gone, texts, slip')
  BY <1>1, ReqParts, ReqOkMono
<1>4. req' \in [Slots -> ReqType] /\ req'[s] = Free /\ \A d \in Slots : d # s => req'[d] = req[d]
  BY <1>2, ReqParts DEF Done
<1> QED BY <1>2, <1>3, <1>4

LEMMA OneSequence ==
  ASSUME NEW i \in Ids
  PROVE  SetToSeq({i}) = <<i>>
<1> DEFINE f == SetToSeq({i})
<1>1. Cardinality({i}) = 1
  BY FS_Singleton
<1>2. <<i>> \in [1..1 -> {i}] /\ IsInjective(<<i>>)
  BY DEF IsInjective
<1>3. f = CHOOSE g \in [1..1 -> {i}] : IsInjective(g)
  BY <1>1 DEF SetToSeq
<1>4. f \in [1..1 -> {i}]
  BY <1>2, <1>3
<1> HIDE DEF f
<1>5. f = <<i>>
  BY <1>4
<1> QED BY <1>5 DEF f

LEMMA SentOkKeeps ==
  ASSUME IInv, clicks' \in 0..MaxClicks, NEW s \in Slots, SentOk(s)
  PROVE  IInv'
<1>1. req[s].kind = "send" /\ req[s].st = "ok" /\ Done(s) /\ draft' = 0
  BY DEF SentOk
<1>2. srv' = srv /\ gone' = gone /\ texts' = texts /\ slip' = slip
  BY DEF SentOk
<1>3. PICK i \in DOMAIN srv : req[s].ids = {i} /\ srv[i] = req[s].text /\ srv[i] # 0
  BY <1>1, ReqParts DEF ReqOk
<1>4. /\ req' \in [Slots -> ReqType] /\ req'[s] = Free /\ Free.kind = "free"
      /\ \A d \in Slots : d # s => req'[d] = req[d]
      /\ \A d \in Slots : ReqOk(req'[d], srv, gone', texts', slip')
  BY <1>1, <1>2, DoneParts
<1>0. 0 \in Texts /\ 0 <= texts /\ i \in Ids
  BY Parts, ReqParts
<1>5. /\ pane' \in PaneType /\ pane'.open = pane.open /\ pane'.offset = pane.offset
      /\ pane'.picked = pane.picked /\ ShownOk(pane'.shown, srv, pane'.twin)
      /\ (pane'.text = 0) \/ (~req[s].mine /\ pane'.text = pane.text)
      /\ ToSet(pane'.shown) \ pane'.late \subseteq ToSet(pane.shown) \ pane.late
  <2>1. CASE req[s].mine
    <3> DEFINE v == Append(pane.shown, i)
               l == pane.late \cup {i}
               w == pane.twin \cup ({i} \cap ToSet(pane.shown))
               p == [pane EXCEPT !.text = 0]
    <3>0. SetToSeq(req[s].ids) = <<i>>
      BY <1>0, <1>3, OneSequence
    <3>1. pane.shown \in Seq(Ids) /\ pane.shown \o SetToSeq(req[s].ids) = v
      <4>1. pane.shown \in Seq(Ids)
        BY Parts, PaneFields
      <4> QED BY <1>0, <3>0, <4>1
    <3>2. pane' = [p EXCEPT !.shown = v, !.late = l, !.twin = w]
      <4>1. pane' = [pane EXCEPT !.text = 0, !.shown = pane.shown \o SetToSeq(req[s].ids),
                                 !.late = pane.late \cup req[s].ids,
                                 !.twin = pane.twin \cup (req[s].ids \cap ToSet(pane.shown))]
        BY <2>1 DEF SentOk
      <4>2. pane.shown \o SetToSeq(req[s].ids) = v /\ pane.late \cup req[s].ids = l
            /\ pane.twin \cup (req[s].ids \cap ToSet(pane.shown)) = w
        BY <1>3, <3>1
      <4>3. pane' = [pane EXCEPT !.text = 0, !.shown = v, !.late = l, !.twin = w]
        BY <4>1, <4>2
      <4> HIDE DEF v, l, w
      <4>4. [p EXCEPT !.shown = v, !.late = l, !.twin = w]
              = [pane EXCEPT !.text = 0, !.shown = v, !.late = l, !.twin = w]
        BY Parts DEF PaneType
      <4> QED BY <4>3, <4>4
    <3>3. /\ v \in Seq(Ids) /\ ShownOk(v, srv, w) /\ ToSet(v) = ToSet(pane.shown) \cup {i}
      <4>1. pane.twin \subseteq w /\ (i \notin ToSet(pane.shown) \/ i \in w)
        OBVIOUS
      <4>2. ShownOk(pane.shown, srv, pane.twin)
        BY Parts
      <4> HIDE DEF w
      <4> DEFINE sq == pane.shown
      <4>3. sq \in Seq(Ids) /\ ShownOk(sq, srv, w) /\ (i \notin ToSet(sq) \/ i \in w)
        BY <3>1, <4>1, <4>2 DEF ShownOk
      <4> HIDE DEF sq
      <4>4. /\ Append(sq, i) \in Seq(Ids) /\ ShownOk(Append(sq, i), srv, w)
            /\ ToSet(Append(sq, i)) = ToSet(sq) \cup {i}
        BY <1>0, <4>3, AppendShown
      <4> QED BY <4>4 DEF sq
    <3>4. /\ p \in PaneType /\ p.open = pane.open /\ p.offset = pane.offset /\ p.text = 0
          /\ p.picked = pane.picked
      BY <1>0, Parts, PaneText
    <3>l. l \in SUBSET Ids /\ w \in SUBSET Ids
      BY <1>0, Parts, PaneFields
    <3> HIDE DEF v, w, p
    <3>5. SamePane(p, pane') /\ pane'.shown = v /\ pane'.late = l /\ pane'.twin = w
      <4> HIDE DEF l
      <4> QED BY <3>2, <3>3, <3>4, <3>l DEF SamePane, PaneType
    <3>6. ToSet(pane'.shown) \ pane'.late \subseteq ToSet(pane.shown) \ pane.late
      BY <3>3, <3>5
    <3>7. /\ pane' \in PaneType /\ pane'.open = p.open /\ pane'.offset = p.offset
          /\ pane'.text = p.text /\ pane'.picked = p.picked /\ ShownOk(pane'.shown, srv, pane'.twin)
      BY <3>3, <3>5 DEF SamePane
    <3> QED BY <3>4, <3>6, <3>7
  <2>2. CASE ~req[s].mine
    <3>1. pane' = pane
      BY <2>2 DEF SentOk
    <3> QED BY <2>2, <3>1, Parts
  <2> QED BY <2>1, <2>2
<1>6. Flow'
  <2>1. \A t \in Texts : t # 0 /\ t \notin slip /\ Sending(s, t) => req[s].mine
    BY DEF IInv, Flow, OnItsWay
  <2> QED BY <1>1, <1>2, <1>4, <1>5, <2>1, FlowSteady DEF Sending
<1>7. RestFresh(pane', fetch', cache, known')
  BY <1>5, Parts DEF RestFresh, SentOk
<1>8. pane'.text <= texts'
  BY <1>0, <1>2, <1>5 DEF IInv, Bounded
<1> QED BY <1>0, <1>1, <1>2, <1>4, <1>5, <1>6, <1>7, <1>8, Parts, ReqParts, SlipSame, CalmStep
      DEF SentOk, IInv, Typed, Scheduled

LEMMA ChangedOkKeeps ==
  ASSUME IInv, clicks' \in 0..MaxClicks, NEW s \in Slots, ChangedOk(s)
  PROVE  IInv'
<1>1. req[s].kind \in {"post", "voice", "delete", "batch", "forward", "vote"} /\ req[s].st = "ok" /\ Done(s)
  BY DEF ChangedOk
<1>2. srv' = srv /\ gone' = gone /\ texts' = texts /\ slip' = slip /\ draft' = draft /\ cache' = cache
  BY DEF ChangedOk
<1>3. /\ req' \in [Slots -> ReqType] /\ req'[s] = Free /\ Free.kind = "free"
      /\ \A d \in Slots : d # s => req'[d] = req[d]
      /\ \A d \in Slots : ReqOk(req'[d], srv, gone', texts', slip')
  BY <1>1, <1>2, DoneParts
<1>4. /\ pane' \in PaneType /\ pane'.open = pane.open /\ pane'.offset = pane.offset /\ pane'.text = pane.text
      /\ pane'.picked \subseteq DOMAIN srv /\ SameList(pane, pane')
  <2>1. {} \in SUBSET Ids /\ FALSE \in BOOLEAN
    OBVIOUS
  <2>2. PickedPane(pane, [pane EXCEPT !.picked = {}], {})
        /\ PickedPane(pane, [pane EXCEPT !.sel = FALSE, !.picked = {}], {})
    BY <2>1, Parts, PanePicked
  <2>3. pane' \in {pane, [pane EXCEPT !.picked = {}], [pane EXCEPT !.sel = FALSE, !.picked = {}]}
    BY DEF ChangedOk, Settled
  <2>4. pane' = pane \/ PickedPane(pane, pane', {})
    BY <2>2, <2>3
  <2> QED BY <2>4, Parts DEF PickedPane, SameList
<1>5. /\ FetchedOk(fetch', srv) /\ ServedFresh(fetch', known)
      /\ pane.open => fetch'[pane.offset].st # "idle"
  BY Parts, InvalidatedOk DEF ChangedOk, RefreshedAfter
<1>6. /\ known' \subseteq gone
      /\ known' = known \/ \A o \in Offsets : fetch'[o].st # "served"
  <2>1. req[s].kind \in {"delete", "batch"} => req[s].ids \subseteq gone
    BY <1>1, ReqParts DEF ReqOk
  <2> QED BY <2>1 DEF ChangedOk, IInv, Typed
<1>7. ServedFresh(fetch', known') /\ RestFresh(pane', fetch', cache, known')
  BY <1>2, <1>4, <1>5, <1>6, Parts DEF ServedFresh, RestFresh, SameList
<1>8. Flow'
  BY <1>1, <1>2, <1>3, <1>4, FlowSteady DEF Sending
<1> QED BY <1>2, <1>3, <1>4, <1>5, <1>6, <1>7, <1>8, Parts, ReqParts, SlipSame, CalmStep
      DEF ChangedOk, SameList, IInv, Typed, Scheduled, Bounded

LEMMA ScheduleOkKeeps ==
  ASSUME IInv, clicks' \in 0..MaxClicks, NEW s \in Slots, ScheduleOk(s)
  PROVE  IInv'
<1>1. req[s].kind \in {"schedule", "unschedule"} /\ Done(s)
  BY DEF ScheduleOk
<1>2. srv' = srv /\ gone' = gone /\ texts' = texts /\ slip' = slip
  BY DEF ScheduleOk
<1>3. /\ req' \in [Slots -> ReqType] /\ req'[s] = Free /\ Free.kind = "free"
      /\ \A d \in Slots : d # s => req'[d] = req[d]
      /\ \A d \in Slots : ReqOk(req'[d], srv, gone', texts', slip')
  BY <1>1, <1>2, DoneParts
<1>0. 0 \in Texts /\ 0 <= texts
  BY ReqParts
<1>4. /\ pane' \in PaneType /\ pane'.open = pane.open /\ pane'.offset = pane.offset
      /\ pane'.text \in {0, pane.text}
      /\ pane'.picked \subseteq DOMAIN srv /\ SameList(pane, pane')
  <2> DEFINE q == [pane EXCEPT !.text = 0]
  <2>1. /\ q \in PaneType /\ q.open = pane.open /\ q.offset = pane.offset /\ q.text = 0
        /\ q.picked = pane.picked /\ SameList(pane, q)
    BY <1>0, Parts, PaneText
  <2>2. pane' \in {pane, q}
    BY DEF ScheduleOk
  <2> HIDE DEF q
  <2> QED BY <2>1, <2>2, Parts DEF SameList
<1>5. draft' \in {0, draft}
  BY DEF ScheduleOk
<1>6. Flow'
  BY <1>1, <1>2, <1>3, <1>4, <1>5, FlowSteady DEF Sending
<1>7. RestFresh(pane', fetch', cache, known')
  BY <1>4, Parts DEF RestFresh, SameList, ScheduleOk
<1>8. queue' \subseteq slip' /\ sched' \subseteq slip'
  BY <1>2 DEF ScheduleOk, IInv, Scheduled
<1> QED BY <1>0, <1>2, <1>3, <1>4, <1>5, <1>6, <1>7, <1>8, Parts, ReqParts, SlipSame, CalmStep
      DEF ScheduleOk, SameList, IInv, Typed, Bounded

LEMMA RefusedKeeps ==
  ASSUME IInv, clicks' \in 0..MaxClicks, NEW s \in Slots, Refused(s)
  PROVE  IInv'
<1>1. req[s].st \in {"asked", "lost"} /\ Done(s)
  BY DEF Refused
<1>2. srv' = srv /\ gone' = gone /\ texts' = texts /\ pane' = pane /\ draft' = draft
  BY DEF Refused
<1>3. req[s].text \in Texts /\ req[s].text <= texts
  BY ReqParts, ReqFields DEF ReqOk
<1>4. /\ slip \subseteq slip' /\ slip' \subseteq Texts /\ \A t \in slip' : t <= texts
      /\ req[s].st = "lost" => req[s].text \in slip'
  BY <1>3, SlipSame DEF Refused
<1>5. /\ req' \in [Slots -> ReqType] /\ req'[s] = Free /\ Free.kind = "free"
      /\ \A d \in Slots : d # s => req'[d] = req[d]
      /\ \A d \in Slots : ReqOk(req'[d], srv, gone', texts', slip')
  BY <1>1, <1>2, <1>4, DoneParts
<1>6. Flow'
  BY <1>1, <1>2, <1>4, <1>5, FlowSteady DEF Sending
<1>7. RestFresh(pane', fetch', cache, known')
  BY Parts DEF RestFresh, Refused
<1>8. queue' \subseteq slip' /\ sched' \subseteq slip'
  BY <1>4 DEF Refused, IInv, Scheduled
<1>9. /\ gone' \subseteq DOMAIN srv /\ known' \subseteq gone' /\ draft' \in Texts /\ draft' <= texts'
      /\ texts' \in Texts /\ texts <= texts' /\ pane'.text <= texts'
  BY <1>2, ReqParts DEF Refused, IInv, Typed, Bounded
<1>10. events' = events /\ cache' = cache /\ fetch' = fetch /\ known' = known
  BY DEF Refused
<1> QED BY <1>2, <1>4, <1>5, <1>6, <1>7, <1>8, <1>9, <1>10, Parts, CalmStep

-----------------------------------------------------------------------------
(* Telegram stores a message *)

LEMMA AppendSrv ==
  ASSUME Typed, NEW u \in Texts, Len(srv) < MaxId, srv' = Append(srv, u)
  PROVE  /\ srv' \in Seq(Texts) /\ Len(srv') = Len(srv) + 1 /\ Len(srv') \in Ids
         /\ DOMAIN srv' = DOMAIN srv \cup {Len(srv) + 1} /\ Len(srv) + 1 \notin DOMAIN srv
         /\ srv'[Len(srv) + 1] = u /\ \A n \in DOMAIN srv : srv'[n] = srv[n]
<1>1. srv \in Seq(Texts) /\ Len(srv) \in Nat
  BY DEF Typed
<1> QED BY <1>1, SizesAssumption DEF Ids

LEMMA ReqOkGrows ==
  ASSUME NEW k, NEW sv, NEW sw, NEW gn, NEW tx, NEW sl, ReqOk(k, sv, gn, tx, sl),
         DOMAIN sv \subseteq DOMAIN sw, \A n \in DOMAIN sv : sw[n] = sv[n]
  PROVE  ReqOk(k, sw, gn, tx, sl)
BY DEF ReqOk

(* The text stored is nobody's, may be stored twice, or belongs to the     *)
(* request that is served.                                                 *)
LEMMA StoreStep ==
  ASSUME IInv, NEW u \in Texts, u <= texts, Len(srv) < MaxId, srv' = Append(srv, u),
         events' \in {events, Append(events, Len(srv'))}, clicks' \in 0..MaxClicks,
         gone' = gone, known' = known, sched' \subseteq sched, cache' = cache, fetch' = fetch,
         queue' = queue, pane' = pane, draft' = draft, texts' = texts, slip' = slip,
         req' \in [Slots -> ReqType],
         \A s \in Slots : ReqOk(req'[s], srv', gone, texts, slip),
         \A s \in Slots : req'[s].kind = req[s].kind /\ req'[s].text = req[s].text /\ req'[s].mine = req[s].mine,
         \A s \in Slots : \/ req'[s].st = req[s].st
                          \/ req[s].kind = "send" => req[s].text = u /\ req'[s].st # "asked",
         \/ u = 0 \/ u \in slip
         \/ \E s \in Slots : Sending(s, u) /\ req[s].st = "asked" /\ req'[s].st # "asked"
  PROVE  IInv'
<1>0. /\ srv' \in Seq(Texts) /\ Len(srv') = Len(srv) + 1 /\ Len(srv') \in Ids
      /\ DOMAIN srv' = DOMAIN srv \cup {Len(srv) + 1} /\ Len(srv) + 1 \notin DOMAIN srv
      /\ srv'[Len(srv) + 1] = u /\ \A n \in DOMAIN srv : srv'[n] = srv[n]
  BY Parts, AppendSrv
<1>1. events \in Seq(Ids) /\ events' \in Seq(Ids) /\ \A n \in DOMAIN events' : events'[n] \in DOMAIN srv'
  <2>1. CASE events' = events
    BY <1>0, <2>1, Parts
  <2>2. CASE events' = Append(events, Len(srv'))
    <3> DEFINE l == Len(srv')
    <3>1. l \in Ids /\ l \in DOMAIN srv' /\ events' = Append(events, l)
      BY <1>0, <2>2
    <3> HIDE DEF l
    <3>2. events' \in Seq(Ids) /\ \A n \in DOMAIN events' : (n \in DOMAIN events /\ events'[n] = events[n]) \/ events'[n] = l
      BY <3>1, Parts
    <3> QED BY <1>0, <3>1, <3>2, Parts
  <2> QED BY <2>1, <2>2
<1>2. Typed'
  <2>1. Len(srv') <= MaxId
    BY <1>0, SizesAssumption DEF Ids
  <2> QED BY <1>0, <1>1, <2>1 DEF IInv, Typed
<1>3. Existing'
  BY <1>0, <1>1 DEF IInv, Existing, ReqOk
<1>4. Bounded'
  BY <1>0 DEF IInv, Bounded
<1>5. Scheduled' /\ Answers'
  BY DEF IInv, Scheduled, Answers, ReqOk
<1>6. Fresh'
  BY DEF IInv, Fresh, RestFresh
<1>7. \A t \in Texts : IsStored(t)' <=> IsStored(t) \/ t = u
  BY <1>0 DEF IsStored
<1>8. u # 0 /\ u \notin slip => ~IsStored(u)
  BY DEF IInv, Flow, OnItsWay
<1>9. ShownOnce'
  <2>1. ShownOk(pane.shown, srv', pane.twin)
    BY <1>0, Parts, ShownGrows DEF IInv, Typed
  <2> QED BY <2>1 DEF ShownOnce, ShownOk
<1>10. SentOnce'
  <2> SUFFICES ASSUME NEW m \in DOMAIN srv', NEW n \in DOMAIN srv', m # n, srv'[m] = srv'[n], srv'[m] # 0
               PROVE  srv'[m] \in slip
    BY DEF SentOnce
  <2>1. CASE m \in DOMAIN srv /\ n \in DOMAIN srv
    BY <1>0, <2>1 DEF IInv, SentOnce
  <2>2. CASE ~(m \in DOMAIN srv /\ n \in DOMAIN srv)
    <3>1. srv'[m] = u /\ IsStored(u)
      BY <1>0, <2>2 DEF IsStored
    <3> QED BY <1>8, <3>1
  <2> QED BY <2>1, <2>2
<1>11. Flow'
  <2> SUFFICES ASSUME NEW t \in Texts, t # 0, t \notin slip PROVE OnItsWay(t)'
    BY DEF Flow
  <2>1. OnItsWay(t)
    BY DEF IInv, Flow
  <2>2. \A s \in Slots : (Sending(s, t)' <=> Sending(s, t)) /\ req'[s].mine = req[s].mine
    BY DEF Sending
  <2>3. \A s \in Slots : Sending(s, t)' => req'[s].mine
    BY <2>1, <2>2 DEF OnItsWay
  <2>4. \A s, z \in Slots : Sending(s, t)' /\ Sending(z, t)' => s = z
    BY <2>1, <2>2 DEF OnItsWay
  <2>5. CASE t # u
    <3>1. \A s \in Slots : Sending(s, t) => req'[s].st = req[s].st
      BY <2>5 DEF Sending
    <3>2. IsStored(t)' <=> IsStored(t)
      BY <1>7, <2>5
    <3>3. \A s \in Slots : Sending(s, t)' /\ req'[s].st = "asked" => ~IsStored(t)'
      BY <2>1, <2>2, <3>1, <3>2 DEF OnItsWay
    <3>4. IsStored(t)' => (\E s \in Slots : Sending(s, t)' /\ req'[s].st # "asked") \/ (pane'.text # t /\ draft' # t)
      BY <2>1, <2>2, <3>1, <3>2 DEF OnItsWay
    <3> QED BY <2>3, <2>4, <3>3, <3>4 DEF OnItsWay
  <2>6. CASE t = u
    <3>1. PICK s \in Slots : Sending(s, t) /\ req'[s].st # "asked"
      BY <2>6
    <3>2. \A z \in Slots : Sending(z, t)' => req'[z].st # "asked"
      BY <2>2, <2>4, <3>1
    <3>3. \E z \in Slots : Sending(z, t)' /\ req'[z].st # "asked"
      BY <2>2, <3>1
    <3> QED BY <2>3, <2>4, <3>2, <3>3 DEF OnItsWay
  <2> QED BY <2>5, <2>6
<1> QED BY <1>2, <1>3, <1>4, <1>5, <1>6, <1>9, <1>10, <1>11 DEF IInv

LEMMA IncomingKeeps ==
  ASSUME IInv, clicks' \in 0..MaxClicks,
         Incoming \/ \E t \in Texts : ScheduleDue(t)
  PROVE  IInv'
<1>1. ASSUME NEW u \in Texts, Stored(u), u = 0 \/ u \in slip, u <= texts, req' = req,
             gone' = gone, known' = known, sched' \subseteq sched, cache' = cache, fetch' = fetch,
             queue' = queue, pane' = pane, draft' = draft, texts' = texts, slip' = slip
      PROVE  IInv'
  <2>1. /\ Len(srv) < MaxId /\ srv' = Append(srv, u) /\ events' \in {events, Append(events, Len(srv'))}
    BY <1>1 DEF Stored
  <2>2. DOMAIN srv \subseteq DOMAIN srv' /\ \A n \in DOMAIN srv : srv'[n] = srv[n]
    BY <2>1, Parts, AppendSrv
  <2>3. \A s \in Slots : ReqOk(req[s], srv', gone, texts, slip)
    BY <2>2, ReqParts, ReqOkGrows
  <2> QED BY <1>1, <2>1, <2>3, ReqParts, StoreStep
<1>2. CASE Incoming
  <2>1. 0 \in Texts /\ 0 <= texts
    BY ReqParts
  <2> QED BY <1>1, <1>2, <2>1 DEF Incoming
<1>3. ASSUME NEW t \in Texts, ScheduleDue(t) PROVE IInv'
  <2>1. t \in slip /\ t <= texts
    BY <1>3 DEF ScheduleDue, IInv, Scheduled, Bounded
  <2>2. sched' \subseteq sched
    BY <1>3 DEF ScheduleDue
  <2> QED BY <1>1, <1>3, <2>1, <2>2 DEF ScheduleDue
<1> QED BY <1>2, <1>3

(* The request that is served and its answer. *)
Answered(k, st, ids) == [k EXCEPT !.st = st, !.ids = ids]

LEMMA AnsweredFields ==
  ASSUME NEW k \in ReqType, NEW st \in {"ok", "lost"}, NEW ids \in SUBSET Ids,
         NEW a, a = Answered(k, st, ids)
  PROVE  /\ a \in ReqType /\ a.kind = k.kind /\ a.text = k.text /\ a.mine = k.mine
         /\ a.st = st /\ a.ids = ids
BY DEF Answered, ReqType

LEMMA ServeKeeps ==
  ASSUME IInv, clicks' \in 0..MaxClicks, NEW s \in Slots, Serve(s)
  PROVE  IInv'
<1> DEFINE k == req[s]
           u == req[s].text
           ids == IF k.kind = "send" THEN {Len(srv) + 1} ELSE k.ids
<1>1. k \in ReqType /\ ReqOk(k, srv, gone, texts, slip) /\ k.st = "asked" /\ u \in Texts /\ u <= texts
  BY ReqParts, ReqFields DEF Serve, ReqOk
<1>2. PICK st \in {"ok", "lost"} : req' = [req EXCEPT ![s].st = st, ![s].ids = ids]
  BY DEF Serve
<1>3. req'[s] = Answered(k, st, ids) /\ (\A d \in Slots : d # s => req'[d] = req[d]) /\ DOMAIN req' = Slots
  <2>1. s \in DOMAIN req /\ DOMAIN req = Slots
    BY ReqParts
  <2> HIDE DEF ids
  <2> QED BY <1>2, <2>1 DEF Answered
<1>4. /\ known' = known /\ cache' = cache /\ fetch' = fetch /\ queue' = queue /\ pane' = pane
      /\ draft' = draft /\ texts' = texts /\ slip' = slip
  BY DEF Serve
<1>5. CASE k.kind \in {"send", "post", "voice"}
  <2>1. Stored(u) /\ gone' = gone /\ sched' = sched
    BY <1>5 DEF Serve
  <2>2. Len(srv) < MaxId /\ srv' = Append(srv, u) /\ events' \in {events, Append(events, Len(srv'))}
    BY <2>1 DEF Stored
  <2>3. /\ Len(srv') = Len(srv) + 1 /\ Len(srv') \in Ids
        /\ DOMAIN srv' = DOMAIN srv \cup {Len(srv) + 1}
        /\ srv'[Len(srv) + 1] = u /\ \A n \in DOMAIN srv : srv'[n] = srv[n]
    BY <1>1, <2>2, Parts, AppendSrv
  <2>4. \A d \in Slots : ReqOk(req[d], srv', gone, texts, slip)
    BY <2>3, ReqParts, ReqOkGrows
  <2>5. ids \in SUBSET Ids /\ ids \subseteq DOMAIN srv' /\ (k.kind = "send" => ids = {Len(srv) + 1})
    BY <1>1, <2>3, ReqFields DEF ReqOk
  <2> DEFINE a == Answered(k, st, ids)
  <2>a. a = Answered(k, st, ids)
    OBVIOUS
  <2> HIDE DEF ids, a
  <2>6. /\ a \in ReqType /\ a.kind = k.kind /\ a.text = k.text /\ a.mine = k.mine
        /\ a.st = st /\ a.ids = ids
    BY <1>1, <2>5, <2>a, AnsweredFields
  <2>7. ReqOk(a, srv', gone, texts, slip)
    BY <1>1, <1>5, <2>3, <2>5, <2>6 DEF ReqOk
  <2>8. req'[s] = a
    BY <1>3, <2>a
  <2>9. req' \in [Slots -> ReqType] /\ \A d \in Slots : ReqOk(req'[d], srv', gone, texts, slip)
    <3>1. \A d \in Slots : req'[d] \in ReqType
      BY <1>3, <2>6, <2>8, ReqParts
    <3>2. req' = [d \in Slots |-> req'[d]]
      BY <1>2, ReqParts
    <3> QED BY <1>3, <2>4, <2>7, <2>8, <3>1, <3>2
  <2>10. \A d \in Slots : req'[d].kind = req[d].kind /\ req'[d].text = req[d].text /\ req'[d].mine = req[d].mine
    BY <1>3, <2>6, <2>8
  <2>11. \A d \in Slots : \/ req'[d].st = req[d].st
                          \/ req[d].kind = "send" => req[d].text = u /\ req'[d].st # "asked"
    BY <1>3, <2>6, <2>8
  <2>12. \/ u = 0 \/ u \in slip
         \/ \E d \in Slots : Sending(d, u) /\ req[d].st = "asked" /\ req'[d].st # "asked"
    <3>1. CASE k.kind = "send"
      BY <1>1, <2>6, <2>8, <3>1 DEF Sending
    <3>2. CASE k.kind \in {"post", "voice"}
      BY <1>1, <3>2 DEF ReqOk
    <3> QED BY <1>5, <3>1, <3>2
  <2> HIDE DEF u
  <2>13. u \in Texts /\ u <= texts
    BY <1>1
  <2>14. sched' \subseteq sched
    BY <2>1
  <2> QED BY <1>4, <2>1, <2>2, <2>9, <2>10, <2>11, <2>12, <2>13, <2>14, StoreStep
<1>6. CASE k.kind \notin {"send", "post", "voice"}
  <2>1. srv' = srv /\ events' = events /\ gone \subseteq gone' /\ gone' \subseteq gone \cup k.ids
        /\ (k.kind \in {"delete", "batch"} => k.ids \subseteq gone')
        /\ sched' \subseteq sched \cup (IF k.kind = "schedule" THEN {u} ELSE {})
    BY <1>6 DEF Serve
  <2>2. ids = k.ids /\ k.ids \in SUBSET Ids /\ k.ids \subseteq DOMAIN srv
    BY <1>1, <1>6, ReqFields DEF ReqOk
  <2> DEFINE a == Answered(k, st, ids)
  <2>a. a = Answered(k, st, ids)
    OBVIOUS
  <2> HIDE DEF ids, a
  <2>3. /\ a \in ReqType /\ a.kind = k.kind /\ a.text = k.text /\ a.mine = k.mine
        /\ a.st = st /\ a.ids = k.ids
    BY <1>1, <2>2, <2>a, AnsweredFields
  <2>4. req'[s] = a
    BY <1>3, <2>a
  <2>5. texts \in Nat /\ ReqOk(k, srv, gone', texts, slip) /\ \A d \in Slots : ReqOk(req[d], srv, gone', texts, slip)
    BY <1>1, <2>1, ReqParts, ReqOkMono
  <2>6. ReqOk(a, srv, gone', texts, slip)
    BY <1>6, <2>1, <2>3, <2>5 DEF ReqOk
  <2>7. req' \in [Slots -> ReqType] /\ \A d \in Slots : ReqOk(req'[d], srv, gone', texts', slip')
    <3>1. \A d \in Slots : req'[d] \in ReqType
      BY <1>3, <2>3, <2>4, ReqParts
    <3>2. req' = [d \in Slots |-> req'[d]]
      BY <1>2, ReqParts
    <3> QED BY <1>3, <1>4, <2>4, <2>5, <2>6, <3>1, <3>2
  <2>8. Flow'
    BY <1>3, <1>4, <1>6, <2>1, <2>3, <2>4, FlowSteady DEF Sending
  <2>9. sched' \subseteq slip' /\ queue' \subseteq slip'
    BY <1>1, <1>4, <2>1 DEF IInv, Scheduled, ReqOk
  <2>10. gone' \subseteq DOMAIN srv /\ known' \subseteq gone'
    BY <1>4, <2>1, <2>2 DEF IInv, Typed
  <2>11. RestFresh(pane', fetch', cache, known') /\ ServedFresh(fetch', known') /\ FetchedOk(fetch', srv)
    BY <1>4, Parts
  <2>12. draft' \in Texts /\ draft' <= texts' /\ pane'.text <= texts' /\ texts' \in Texts /\ texts <= texts'
    BY <1>4, ReqParts DEF IInv, Typed, Bounded
  <2>13. slip \subseteq slip' /\ slip' \subseteq Texts /\ \A t \in slip' : t <= texts'
    BY <1>4, SlipSame
  <2> QED BY <1>4, <2>1, <2>7, <2>8, <2>9, <2>10, <2>11, <2>12, <2>13, Parts, CalmStep
<1> QED BY <1>5, <1>6

-----------------------------------------------------------------------------
LEMMA InitHolds ==
  ASSUME Init
  PROVE  IInv
<1>0. /\ 0 \in Offsets /\ 0 \in Texts /\ <<>> \in Seq(Ids) /\ NoPage \in Pages /\ Texts \subseteq Nat
      /\ PageSize + 1 \in Nat /\ PageSize + 1 <= MaxId /\ 0 \in 0..MaxClicks
  BY NoPageType, SizesAssumption DEF Offsets, Texts
<1>1. srv \in Seq(Texts) /\ Len(srv) = PageSize + 1 /\ \A n \in DOMAIN srv : srv[n] = 0
  BY <1>0 DEF Init
<1>2. Free \in ReqType /\ Free.kind = "free" /\ Free.text = 0 /\ Free.ids = {} /\ Free.st = "asked"
  BY <1>0 DEF Free, Ask, ReqType
<1>3. Closed \in PaneType /\ Closed.shown = <<>> /\ Closed.text = 0 /\ Closed.picked = {} /\ Closed.open = FALSE
  BY <1>0 DEF Closed, PaneType
<1>4. req \in [Slots -> ReqType] /\ \A s \in Slots : req[s] = Free
  BY <1>2 DEF Init
<1>5. cache \in [Offsets -> Pages] /\ \A o \in Offsets : cache[o] = NoPage
  BY <1>0 DEF Init
<1>6. fetch \in [Offsets -> FetchType] /\ \A o \in Offsets : fetch[o].st = "idle"
  BY <1>0 DEF Init, FetchType
<1>7. Typed
  BY <1>0, <1>1, <1>3, <1>4, <1>5, <1>6 DEF Typed, Init
<1>8. Existing
  BY <1>2, <1>3, <1>4, <1>5, <1>6 DEF Existing, Init
<1>9. Bounded
  BY <1>1, <1>2, <1>3, <1>4 DEF Bounded, Init
<1>10. Scheduled /\ Answers
  BY <1>2, <1>4 DEF Scheduled, Answers, Init
<1>11. Flow
  BY <1>1, <1>2, <1>4 DEF Flow, OnItsWay, Sending, IsStored
<1>12. Fresh
  BY <1>3, <1>6 DEF Fresh, RestFresh, Init
<1>13. ShownOnce /\ SentOnce
  BY <1>1, <1>3 DEF ShownOnce, SentOnce, Init
<1> QED BY <1>7, <1>8, <1>9, <1>10, <1>11, <1>12, <1>13 DEF IInv

LEMMA UserKeeps ==
  ASSUME IInv, User, clicks' \in 0..MaxClicks
  PROVE  IInv'
<1>1. CASE Open \/ Leave \/ HandleInputChange \/ HandleSelectSuggestion
  BY <1>1, OpenKeeps, LeaveKeeps, WritingKeeps
<1>2. CASE Focus \/ HandleLoadOlder
  BY <1>2, FocusKeeps, HandleLoadOlderKeeps
<1>3. ASSUME NEW i \in Ids, ScrollToMessage(i) \/ MenuSelect(i) \/ ToggleMessage(i) PROVE IInv'
  BY <1>3, ScrollToMessageKeeps, SelectionKeeps
<1>4. CASE StartRecording \/ StopRecording \/ CancelSelection
  BY <1>4, RecordingKeeps, SelectionKeeps
<1>5. ASSUME NEW s \in Slots,
             \/ HandleSend(s) \/ (\E i \in Ids : MenuDelete(s, i)) \/ DeleteSelected(s) \/ ForwardTo(s)
             \/ SendPoll(s) \/ SendSticker(s) \/ SendGif(s) \/ Vote(s) \/ ScheduleText(s)
             \/ \E t \in Texts \ {0} : DeleteScheduled(s, t)
      PROVE  IInv'
  BY <1>5, HandleSendKeeps, DeletingKeeps, PostingKeeps, SchedulingKeeps
<1>6. ASSUME NEW s \in Slots, NEW z \in Slots, NEW t \in Texts \ {0}, SendNow(s, z, t) PROVE IInv'
  BY <1>6, SendNowKeeps
<1> QED BY <1>1, <1>2, <1>3, <1>4, <1>5, <1>6 DEF User

LEMMA SystemKeeps ==
  ASSUME IInv, System, clicks' \in 0..MaxClicks
  PROVE  IInv'
<1>1. CASE Incoming \/ \E t \in Texts : ScheduleDue(t)
  BY <1>1, IncomingKeeps
<1>2. CASE DeliverEvent
  BY <1>2, DeliverEventKeeps
<1>3. ASSUME NEW o \in Offsets, FetchServe(o) \/ FetchFails(o) \/ FetchDeliver(o) PROVE IInv'
  BY <1>3, FetchServeKeeps, FetchFailsKeeps, FetchDeliverKeeps
<1>4. ASSUME NEW s \in Slots, Serve(s) \/ OnStop(s) PROVE IInv'
  BY <1>4, ServeKeeps, OnStopKeeps
<1>5. ASSUME NEW s \in Slots, SentOk(s) \/ ChangedOk(s) \/ ScheduleOk(s) \/ Refused(s) PROVE IInv'
  BY <1>5, SentOkKeeps, ChangedOkKeeps, ScheduleOkKeeps, RefusedKeeps
<1> QED BY <1>1, <1>2, <1>3, <1>4, <1>5 DEF System

LEMMA NextKeeps ==
  ASSUME IInv, [Next]_vars
  PROVE  IInv'
<1>0. clicks \in 0..MaxClicks
  BY DEF IInv, Typed
<1>1. CASE User /\ clicks < MaxClicks /\ clicks' = clicks + 1
  <2>1. clicks' \in 0..MaxClicks
    BY <1>0, <1>1, SizesAssumption
  <2> QED BY <1>1, <2>1, UserKeeps
<1>2. CASE System /\ UNCHANGED clicks
  <2>1. clicks' \in 0..MaxClicks
    BY <1>0, <1>2
  <2> QED BY <1>2, <2>1, SystemKeeps
<1>3. CASE UNCHANGED vars
  <2>1. /\ srv' = srv /\ gone' = gone /\ known' = known /\ sched' = sched /\ queue' = queue
        /\ draft' = draft /\ texts' = texts /\ req' = req /\ slip' = slip /\ clicks' = clicks
        /\ pane' = pane /\ events' = events /\ cache' = cache /\ fetch' = fetch
    BY <1>3 DEF vars
  <2> QED BY <1>0, <2>1, Parts, ViewStep
<1> QED BY <1>1, <1>2, <1>3 DEF Next

(* What the runs check follows from the invariant. *)
LEMMA IInvSafe ==
  ASSUME IInv
  PROVE  PaneSafe
<1>1. TypeOK
  <2>1. \A o \in Offsets : fetch[o].st \in {"idle", "failed", "asked", "served"} /\ fetch[o].page \in Pages
    BY FetchFields DEF IInv, Typed
  <2>2. \A s \in Slots : req[s].kind \in Kinds \cup {"free"} /\ req[s].st \in {"asked", "ok", "lost"}
    BY ReqFields DEF IInv, Typed
  <2> QED BY <2>1, <2>2, PaneFields DEF IInv, Typed, TypeOK
<1>2. DeletedOffScreen
  BY DEF IInv, Fresh, RestFresh, DeletedOffScreen
<1> QED BY <1>1, <1>2 DEF IInv, PaneSafe

(* Whatever the number of messages, texts and requests in flight: a        *)
(* message, own or not, is on the screen twice only if the answer to its   *)
(* sending found it there; a text is stored twice only if its answer was   *)
(* lost, the chat was left or it was scheduled as well; and a confirmed    *)
(* deletion is on the list at rest only if the message was appended after  *)
(* the page that is merged.                                                *)
THEOREM PaneIsSafe == Spec => []PaneSafe
<1>1. Init => IInv
  BY InitHolds
<1>2. IInv /\ [Next]_vars => IInv'
  BY NextKeeps
<1>3. IInv => PaneSafe
  BY IInvSafe
<1> QED BY <1>1, <1>2, <1>3, PTL DEF Spec
=============================================================================
