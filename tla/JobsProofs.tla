----------------------------- MODULE JobsProofs -----------------------------
(* Proof that the pages know of jobs and lists what the server has,         *)
(* whatever the number of requests in flight, of jobs, clicks and faults.   *)
EXTENDS Jobs, FiniteSetTheorems, WellFoundedInduction, TLAPS

EditOps == {"create", "update", "drop"}
JobType == [kind: Kinds \cup {"none"}, st: Statuses]
CallType == [op: Ops \cup {"none"}, kind: Kinds \cup ListNames \cup {"admin"}, js: SUBSET Ids,
             pc: {"idle", "sent", "checked", "answered"}, ans: {"none", "done", "failed"},
             here: BOOLEAN, late: BOOLEAN, base: SUBSET Items, want: SUBSET Items, send: SUBSET Items]
DialogType == [op: Ops \cup {"none"}, j: 0..MaxJobs, base: SUBSET Items]
StoreType == [{"join", "leave"} -> 0..MaxJobs]
CacheOk(f) == DOMAIN f = Queries /\ \A q \in Queries : f[q] \in EntryType(ValueType(q))

TaskType == [queued: Nat, task: {"off", "begun", "on", "ending"}, saw: Statuses]

(* A task that is about to begin has found its job fit to start. *)
WorkOk(wk, jb) ==
  /\ wk \in [Ids -> TaskType]
  /\ \A j \in Ids : wk[j].task = "begun" =>
       jb[j].kind # "none" /\ (jb[j].kind = "leave" \/ wk[j].saw \notin {"cancelled", "completed"})

(* The tab and the ghosts, apart from what the calls hold. *)
Shaped ==
  /\ list \in [ListNames -> ListType] /\ wanted \in [ListNames -> ListType]
  /\ strays \subseteq Ids /\ WorkOk(work, job)
  /\ page \in Pages /\ att \in 0..MaxJobs /\ own \in 0..MaxJobs /\ stored \in StoreType /\ ws \in Statuses
  /\ dlg \in DialogType /\ CacheOk(cache) /\ rows \in [Ids -> EntryType(Statuses)]
  /\ off \subseteq Queries /\ crossed \subseteq ListNames
  /\ clicks \in 0..MaxClicks /\ faults \in 0..MaxFaults

(* An id that was never used has no job, and nobody has read of one. *)
JobsOk(jb) ==
  jb \in [Ids -> JobType] /\ \A j \in Ids : jb[j].kind = "none" => jb[j].st = "none"
Unheard(jb, rs) == \A j \in Ids : jb[j].kind = "none" => ~rs[j].has /\ rs[j].net # "read"

(* What a request on its way is about. *)
CallShape(k) ==
  /\ k.pc # "idle" => (k.op \in EditOps <=> k.kind \in ListNames)
  /\ k.op = "start" => k.kind \in Kinds
  /\ k.op = "update" => k.send = k.want
  /\ k.op = "retry" => \A i, j \in k.js : i = j
  /\ k.pc = "answered" /\ k.ans = "done" /\ k.op = "start" => \E j \in Ids : k.js = {j}

(* What the jobs of a request are by now: as its handler has read them,    *)
(* unless a write of another has come in between.                          *)
JobsOf(k, jb) ==
  /\ k.op = "retry" => \A j \in k.js : jb[j].kind \in {"broadcast", "invite"}
  /\ k.pc = "answered" /\ k.ans = "done" /\ k.op = "start" => \A j \in k.js : jb[j].kind = k.kind
  /\ k.pc = "checked" /\ ~k.late =>
       /\ k.op \in {"start", "retry"} => \A j \in Ids : jb[j].st \notin Active
       /\ k.op \in {"pause", "pauseAll"} => \A j \in k.js : jb[j].st = "running"
       /\ k.op = "resume" => \A j \in k.js : jb[j].st = "paused"
CallOk(k, jb) == k \in CallType /\ CallShape(k) /\ JobsOf(k, jb)
CallsOk(f, jb) == f \in [Calls -> CallType] /\ \A c \in Calls : CallOk(f[c], jb)

(* What a dialog asks about belongs to the page it is on. *)
DialogFits(d, p) ==
  /\ d.op \in EditOps => p \in ListNames
  /\ d.op \notin EditOps \cup {"none"} => p \notin ListNames
  /\ d.op = "start" => p = "new"
  /\ d.op # "retry"

(* A list of jobs of one kind names jobs of that kind. *)
ListsFit(ch, jb) ==
  \A q \in Kinds, j \in Ids :
    (ch[q].data[j] # "none" => jb[j].kind = q) /\ (ch[q].got[j] # "none" => jb[j].kind = q)

(* Jobs apart from the strays od. *)
OneRuns(od, jb) == \A i, j \in Ids \ od : jb[i].st \in Active /\ jb[j].st \in Active => i = j

(* The job that is owned is an auto-join, and one that goes on is not      *)
(* known as over.                                                          *)
OwnJoins(ow, jb) == ow # 0 => jb[ow].kind = "join"
GoesOn(od, jb, rs) ==
  \A j \in Ids \ od : jb[j].kind = "join" /\ jb[j].st \in Active =>
    ~Over(rs[j]) /\ ~(rs[j].net = "read" /\ rs[j].got \in Terminal)
Remembered(ow, jb, od, sto) == ow # 0 /\ jb[ow].st \in Active /\ ow \notin od => sto["join"] = ow

(* What the lists hold, as a function of the server's state. *)
Of(jb, ls, q) ==
  CASE q \in Kinds -> [j \in Ids |-> IF jb[j].kind = q THEN jb[j].st ELSE "none"]
    [] q = "admin" -> [j \in Ids |-> IF jb[j].kind = "broadcast" THEN jb[j].st ELSE "none"]
    [] q = "summary" -> \E j \in Ids : jb[j].kind = "broadcast" /\ jb[j].st \in {"running", "paused"}
    [] q \in ListNames -> ls[q]

(* The handler of an answered call still has to invalidate the list. *)
Owes(k, q) == k.pc = "answered" /\ k.ans = "done" /\ q \in Refreshes(k)
Owed(f, q) == \E c \in Calls : Owes(f[c], q)

(* Nothing outdated is on its way to the entry, and what the entry holds   *)
(* at rest is the truth, or is marked stale and will be read when shown.   *)
Fine(e, v, shown) ==
  /\ e.net = "read" => e.got = v
  /\ e.net = "idle" /\ e.has => e.data = v \/ (e.stale /\ ~shown)
Told == \A q \in Queries \ off : Owed(call, q) \/ Fine(cache[q], Of(job, list, q), q \in Uses(page))

Known == Unheard(job, rows) /\ ListsFit(cache, job)
Joins == OwnJoins(own, job) /\ GoesOn(strays, job, rows) /\ Remembered(own, job, strays, stored)

IInv ==
  /\ Shaped /\ JobsOk(job) /\ CallsOk(call, job) /\ DialogFits(dlg, page) /\ Known
  /\ OneRuns(strays, job) /\ Joins /\ EditsKept /\ Told

-----------------------------------------------------------------------------
(* One entry of the QueryClient *)

LEMMA EntryFields ==
  ASSUME NEW V, NEW e \in EntryType(V)
  PROVE  /\ e.has \in BOOLEAN /\ e.data \in V /\ e.stale \in BOOLEAN
         /\ e.net \in {"idle", "sent", "read"} /\ e.got \in V
BY DEF EntryType

LEMMA FetchOk ==
  ASSUME NEW V, NEW e \in EntryType(V)
  PROVE  /\ Fetch(e) \in EntryType(V)
         /\ Idle(e) => Fetch(e).net = "sent"
         /\ ~Idle(e) => Fetch(e) = e
BY DEF EntryType, Fetch, Idle

LEMMA RefetchOk ==
  ASSUME NEW V, NEW e \in EntryType(V)
  PROVE  /\ Refetch(e) \in EntryType(V)
         /\ e.has \/ Idle(e) => Refetch(e).net = "sent"
         /\ ~(e.has \/ Idle(e)) => Refetch(e) = e
BY DEF EntryType, Refetch, Idle

LEMMA InvalidateOk ==
  ASSUME NEW V, NEW e \in EntryType(V), NEW m \in BOOLEAN
  PROVE  /\ Invalidate(e, m) \in EntryType(V)
         /\ m => Invalidate(e, m).net # "idle"
         /\ ~m => Invalidate(e, m).net = e.net /\ Invalidate(e, m).stale
         /\ Invalidate(e, m).net = "read" => e.net = "read"
<1> DEFINE k == [e EXCEPT !.stale = TRUE]
<1>1. k \in EntryType(V) /\ k.net = e.net /\ k.has = e.has /\ k.stale
  BY DEF EntryType
<1>2. Invalidate(e, m) = IF m THEN Refetch(k) ELSE k
  BY DEF Invalidate
<1> HIDE DEF k
<1>3. CASE m
  <2>1. Invalidate(e, m) = Refetch(k)
    BY <1>2, <1>3
  <2>2. Refetch(k) \in EntryType(V) /\ (k.has \/ Idle(k) => Refetch(k).net = "sent")
        /\ (~(k.has \/ Idle(k)) => Refetch(k) = k)
    BY <1>1, RefetchOk
  <2> QED BY <1>1, <1>3, <2>1, <2>2 DEF Idle
<1>4. CASE ~m
  BY <1>1, <1>2, <1>4
<1> QED BY <1>3, <1>4

LEMMA MountOk ==
  ASSUME NEW V, NEW e \in EntryType(V), NEW old \in BOOLEAN
  PROVE  /\ Mount(e, old) \in EntryType(V)
         /\ Mount(e, old) = e \/ (Idle(e) /\ Mount(e, old).net = "sent")
         /\ Mount(e, old).net = "idle" => e.has /\ ~e.stale
<1>1. CASE ~e.has \/ e.stale \/ old
  <2>1. Mount(e, old) = Fetch(e)
    BY <1>1 DEF Mount
  <2> QED BY <2>1, FetchOk DEF Idle
<1>2. CASE ~(~e.has \/ e.stale \/ old)
  BY <1>2, EntryFields DEF Mount
<1> QED BY <1>1, <1>2

LEMMA AnswerOk ==
  ASSUME NEW V, NEW e \in EntryType(V), NEW v \in V
  PROVE  /\ Read(e, v) \in EntryType(V) /\ Read(e, v).net = "read" /\ Read(e, v).got = v
         /\ Arrived(e) \in EntryType(V) /\ Arrived(e).net = "idle" /\ Arrived(e).data = e.got
         /\ Failed(e) \in EntryType(V)
BY DEF EntryType, Read, Arrived, Failed

LEMMA UnreadOk ==
  ASSUME NEW V, NEW v \in V
  PROVE  Unread(v) \in EntryType(V) /\ ~Unread(v).has /\ Unread(v).net = "idle"
BY DEF EntryType, Unread

-----------------------------------------------------------------------------
(* What is fine stays fine *)

LEMMA FineRefetch ==
  ASSUME NEW V, NEW e \in EntryType(V), NEW v, NEW s \in BOOLEAN, Fine(e, v, s)
  PROVE  Fine(Refetch(e), v, s)
<1>1. CASE e.has \/ Idle(e)
  BY <1>1, RefetchOk DEF Fine
<1>2. CASE ~(e.has \/ Idle(e))
  BY <1>2, RefetchOk
<1> QED BY <1>1, <1>2

LEMMA FineInvalidate ==
  ASSUME NEW V, NEW e \in EntryType(V), NEW v, NEW s \in BOOLEAN,
         ~(e.net = "read" /\ Invalidate(e, s).net = "read")
  PROVE  Fine(Invalidate(e, s), v, s)
BY InvalidateOk DEF Fine

LEMMA FineMount ==
  ASSUME NEW V, NEW e \in EntryType(V), NEW v, NEW s \in BOOLEAN, NEW t \in BOOLEAN, NEW old \in BOOLEAN,
         Fine(e, v, s)
  PROVE  Fine(Mount(e, old), v, t)
<1>1. CASE Mount(e, old) = e
  BY <1>1, MountOk, EntryFields DEF Fine
<1>2. CASE Mount(e, old) # e
  BY <1>2, MountOk DEF Fine
<1> QED BY <1>1, <1>2

LEMMA FineLess ==
  ASSUME NEW e, NEW v, NEW s \in BOOLEAN, NEW t \in BOOLEAN, Fine(e, v, s), t => s
  PROVE  Fine(e, v, t)
BY DEF Fine

LEMMA FineAnswer ==
  ASSUME NEW V, NEW e \in EntryType(V), NEW v \in V, NEW s \in BOOLEAN
  PROVE  /\ Fine(Read(e, v), v, s)
         /\ e.net = "read" /\ Fine(e, v, s) => Fine(Arrived(e), v, s)
BY AnswerOk DEF Fine

(* What tells the entry nothing it did not know. *)
Untold(e, f) ==
  /\ f.has = e.has /\ f.data = e.data /\ f.got \in {e.got, e.data}
  /\ f.net = "read" => e.net = "read" /\ f.got = e.got

LEMMA UntoldSame ==
  ASSUME NEW e
  PROVE  Untold(e, e)
BY DEF Untold

LEMMA FetchUntold ==
  ASSUME NEW V, NEW e \in EntryType(V)
  PROVE  Untold(e, Fetch(e)) /\ Untold(e, Refetch(e)) /\ Untold(e, Failed(e))
BY DEF EntryType, Fetch, Refetch, Failed, Untold, Idle

LEMMA MountUntold ==
  ASSUME NEW V, NEW e \in EntryType(V), NEW old
  PROVE  Untold(e, Mount(e, old))
BY FetchUntold, UntoldSame DEF Mount

LEMMA InvalidateUntold ==
  ASSUME NEW V, NEW e \in EntryType(V), NEW m \in BOOLEAN
  PROVE  Untold(e, Invalidate(e, m))
<1> DEFINE k == [e EXCEPT !.stale = TRUE]
<1>1. k \in EntryType(V) /\ k.net = e.net /\ k.has = e.has /\ k.data = e.data /\ k.got = e.got
  BY DEF EntryType
<1>2. Invalidate(e, m) = IF m THEN Refetch(k) ELSE k
  BY DEF Invalidate
<1> HIDE DEF k
<1>3. Untold(k, Refetch(k)) /\ Untold(k, k)
  BY <1>1, FetchUntold, UntoldSame
<1> QED BY <1>1, <1>2, <1>3 DEF Untold

-----------------------------------------------------------------------------
(* The server's jobs *)

LEMMA Bounds == MaxJobs \in Nat \ {0} /\ MaxClicks \in Nat \ {0} /\ MaxFaults \in Nat
BY JobsAssumption

LEMMA IdsOk == \A j \in Ids : j \in 0..MaxJobs /\ j # 0
BY Bounds DEF Ids

LEMMA JobFields ==
  ASSUME NEW r \in JobType
  PROVE  r.kind \in Kinds \cup {"none"} /\ r.st \in Statuses
BY DEF JobType

LEMMA NoneIsNoKind == "none" \notin Kinds /\ "none" \notin Active /\ "none" \notin Terminal
BY DEF Kinds, Active, Terminal

LEMMA ValueIs ==
  \A q \in Queries : Value(q) = Of(job, list, q) /\ Value(q)' = Of(job', list', q)
BY DEF Value, Of

LEMMA OfOk ==
  ASSUME NEW jb \in [Ids -> JobType], NEW ls \in [ListNames -> ListType], NEW q \in Queries
  PROVE  Of(jb, ls, q) \in ValueType(q)
<1>1. \A j \in Ids : jb[j].st \in Statuses /\ "none" \in Statuses
  BY JobFields DEF Statuses
<1>2. CASE q \in Kinds
  <2>1. Of(jb, ls, q) = [j \in Ids |-> IF jb[j].kind = q THEN jb[j].st ELSE "none"]
    BY <1>2 DEF Of, Kinds, ListNames
  <2>2. ValueType(q) = [Ids -> Statuses]
    BY <1>2 DEF ValueType, IsJobList, Kinds
  <2> QED BY <1>1, <2>1, <2>2
<1>3. CASE q = "admin"
  <2>1. Of(jb, ls, q) = [j \in Ids |-> IF jb[j].kind = "broadcast" THEN jb[j].st ELSE "none"]
    BY <1>3 DEF Of, Kinds, ListNames
  <2>2. ValueType(q) = [Ids -> Statuses]
    BY <1>3 DEF ValueType, IsJobList
  <2> QED BY <1>1, <2>1, <2>2
<1>4. CASE q = "summary"
  BY <1>4 DEF Of, Kinds, ListNames, ValueType, IsJobList
<1>5. CASE q \in ListNames
  BY <1>5 DEF Of, Kinds, ListNames, ValueType, IsJobList
<1> QED BY <1>2, <1>3, <1>4, <1>5 DEF Queries

(* A job gets a kind once and keeps it. *)
Moves(jb, nb) ==
  \A j \in Ids : nb[j].kind = jb[j].kind \/ jb[j].kind = "none"
(* The lists a job is in. *)
InLists(kind) == IF kind = "broadcast" THEN {"broadcast", "summary", "admin"} ELSE {kind}

LEMMA OfKeeps ==
  ASSUME NEW jb, NEW nb, NEW ls, NEW ms, NEW q \in Queries, JobsOk(jb), JobsOk(nb), Moves(jb, nb),
         \A j \in Ids : nb[j] = jb[j] \/ q \notin InLists(nb[j].kind),
         q \in ListNames => ms[q] = ls[q]
  PROVE  Of(nb, ms, q) = Of(jb, ls, q)
<1>1. \A j \in Ids : nb[j] = jb[j] \/ (nb[j].kind = jb[j].kind /\ q \notin InLists(nb[j].kind))
                     \/ (jb[j].kind = "none" /\ jb[j].st = "none" /\ q \notin InLists(nb[j].kind))
  BY DEF Moves, JobsOk
<1>2. CASE q \in Kinds
  <2>1. \A x, y : Of(x, y, q) = [j \in Ids |-> IF x[j].kind = q THEN x[j].st ELSE "none"]
    BY <1>2 DEF Of, Kinds, ListNames
  <2>2. \A j \in Ids : (IF nb[j].kind = q THEN nb[j].st ELSE "none") = (IF jb[j].kind = q THEN jb[j].st ELSE "none")
    BY <1>1, <1>2 DEF InLists, Kinds
  <2> QED BY <2>1, <2>2
<1>3. CASE q = "admin"
  <2>1. \A x, y : Of(x, y, q) = [j \in Ids |-> IF x[j].kind = "broadcast" THEN x[j].st ELSE "none"]
    BY <1>3 DEF Of, Kinds, ListNames
  <2>2. \A j \in Ids : (IF nb[j].kind = "broadcast" THEN nb[j].st ELSE "none")
                       = (IF jb[j].kind = "broadcast" THEN jb[j].st ELSE "none")
    BY <1>1, <1>3 DEF InLists
  <2> QED BY <2>1, <2>2
<1>4. CASE q = "summary"
  <2>1. \A x, y : Of(x, y, q) = (\E j \in Ids : x[j].kind = "broadcast" /\ x[j].st \in {"running", "paused"})
    BY <1>4 DEF Of, Kinds, ListNames
  <2>2. \A j \in Ids : (nb[j].kind = "broadcast" /\ nb[j].st \in {"running", "paused"})
                       <=> (jb[j].kind = "broadcast" /\ jb[j].st \in {"running", "paused"})
    BY <1>1, <1>4 DEF InLists
  <2>3. (\E j \in Ids : nb[j].kind = "broadcast" /\ nb[j].st \in {"running", "paused"})
        = (\E j \in Ids : jb[j].kind = "broadcast" /\ jb[j].st \in {"running", "paused"})
    BY <2>2
  <2> QED BY <2>1, <2>3
<1>5. CASE q \in ListNames
  <2>1. \A x, y : Of(x, y, q) = y[q]
    BY <1>5 DEF Of, Kinds, ListNames
  <2> QED BY <1>5, <2>1
<1> QED BY <1>2, <1>3, <1>4, <1>5 DEF Queries

LEMMA UnheardKeeps ==
  ASSUME NEW jb, NEW nb, NEW rs, Moves(jb, nb), Unheard(jb, rs)
  PROVE  Unheard(nb, rs)
BY DEF Moves, Unheard

LEMMA ListsKeep ==
  ASSUME NEW jb, NEW nb, NEW ch, Moves(jb, nb), ListsFit(ch, jb)
  PROVE  ListsFit(ch, nb)
BY NoneIsNoKind DEF Moves, ListsFit

LEMMA OwnKeeps ==
  ASSUME NEW jb, NEW nb, NEW ow \in 0..MaxJobs, Moves(jb, nb), OwnJoins(ow, jb)
  PROVE  OwnJoins(ow, nb)
BY Bounds DEF Moves, OwnJoins, Ids

(* A job that begins to hold the account has not been an auto-join, and    *)
(* begins alone.                                                           *)
Grows(jb, nb) ==
  \A j \in Ids : nb[j].st \in Active =>
    \/ jb[j].st \in Active
    \/ /\ jb[j].kind \in {"none", "broadcast", "invite"}
       /\ \A i \in Ids : jb[i].st \notin Active /\ (nb[i].st \in Active => i = j)

(* The same of the jobs that are no strays: od before, nd after. *)
Counted(jb, nb, od, nd) ==
  \A j \in Ids \ nd : nb[j].st \in Active =>
    \/ jb[j].st \in Active /\ j \notin od
    \/ /\ jb[j].kind \in {"none", "broadcast", "invite"}
       /\ \A i \in Ids : nb[i].st \in Active => i = j

LEMMA MarksOk ==
  ASSUME strays \subseteq Ids, NEW js, js \subseteq Ids, Marks(js), Grows(job, job') \/ Changed \subseteq js
  PROVE  strays' \subseteq Ids /\ Counted(job, job', strays, strays')
<1>1. ASSUME NEW j \in Ids \ strays', job'[j].st \in Active
      PROVE  j \notin strays /\ j \notin js
  BY <1>1 DEF Marks
<1>2. strays' \subseteq Ids
  BY DEF Marks
<1>3. CASE Grows(job, job')
  BY <1>1, <1>2, <1>3 DEF Grows, Counted
<1>4. CASE Changed \subseteq js
  <2>1. \A j \in Ids : j \notin js => job'[j] = job[j]
    BY <1>4 DEF Changed
  <2> QED BY <1>1, <1>2, <2>1 DEF Counted
<1> QED BY <1>2, <1>3, <1>4

LEMMA OneRunsKeeps ==
  ASSUME NEW jb, NEW nb, NEW od, NEW nd, Counted(jb, nb, od, nd), OneRuns(od, jb)
  PROVE  OneRuns(nd, nb)
BY DEF Counted, OneRuns

LEMMA JoinsKeep ==
  ASSUME NEW jb, NEW nb, NEW od, NEW nd, NEW rs, NEW ow \in 0..MaxJobs, NEW sto,
         Counted(jb, nb, od, nd), Moves(jb, nb), Unheard(jb, rs),
         OwnJoins(ow, jb), GoesOn(od, jb, rs), Remembered(ow, jb, od, sto)
  PROVE  GoesOn(nd, nb, rs) /\ Remembered(ow, nb, nd, sto)
<1>1. GoesOn(nd, nb, rs)
  <2> SUFFICES ASSUME NEW j \in Ids \ nd, nb[j].kind = "join", nb[j].st \in Active
               PROVE  ~Over(rs[j]) /\ ~(rs[j].net = "read" /\ rs[j].got \in Terminal)
    BY DEF GoesOn
  <2>1. CASE jb[j].kind = "none"
    BY <2>1 DEF Unheard, Over
  <2>2. CASE jb[j].kind = "join"
    BY <2>2 DEF GoesOn, Counted
  <2> QED BY <2>1, <2>2 DEF Moves
<1>2. Remembered(ow, nb, nd, sto)
  <2> SUFFICES ASSUME ow # 0, nb[ow].st \in Active, ow \notin nd PROVE sto["join"] = ow
    BY DEF Remembered
  <2>1. ow \in Ids /\ jb[ow].kind = "join"
    BY Bounds DEF OwnJoins, Ids
  <2> QED BY <2>1 DEF Counted, Remembered
<1> QED BY <1>1, <1>2

(* A row learns nothing, or what is true. *)
LEMMA RowsUntold ==
  ASSUME NEW jb, NEW rs, NEW ss, NEW od, \A j \in Ids : Untold(rs[j], ss[j]), Unheard(jb, rs), GoesOn(od, jb, rs)
  PROVE  Unheard(jb, ss) /\ GoesOn(od, jb, ss)
<1>1. Unheard(jb, ss)
  BY DEF Untold, Unheard
<1>2. \A j \in Ids : Over(ss[j]) = Over(rs[j])
  BY DEF Untold, Over
<1>3. GoesOn(od, jb, ss)
  BY <1>2 DEF Untold, GoesOn
<1> QED BY <1>1, <1>3

LEMMA ListsUntold ==
  ASSUME NEW jb, NEW ch, NEW dh, \A q \in Kinds : Untold(ch[q], dh[q]), ListsFit(ch, jb)
  PROVE  ListsFit(dh, jb)
<1> SUFFICES ASSUME NEW q \in Kinds, NEW j \in Ids
             PROVE  (dh[q].data[j] # "none" => jb[j].kind = q) /\ (dh[q].got[j] # "none" => jb[j].kind = q)
  BY DEF ListsFit
<1>1. dh[q].data = ch[q].data /\ dh[q].got \in {ch[q].got, ch[q].data}
  BY DEF Untold
<1> QED BY <1>1 DEF ListsFit

LEMMA WorkKeeps ==
  ASSUME NEW jb, NEW nb, NEW wk, Moves(jb, nb), WorkOk(wk, jb)
  PROVE  WorkOk(wk, nb)
BY DEF Moves, WorkOk

LEMMA WorkFields ==
  ASSUME WorkOk(work, job), NEW j \in Ids
  PROVE  /\ work[j] \in TaskType
         /\ work[j].queued \in Nat /\ work[j].task \in {"off", "begun", "on", "ending"}
         /\ work[j].saw \in Statuses
<1>1. work[j] \in TaskType
  BY DEF WorkOk
<1> QED BY <1>1 DEF TaskType

(* What the queue and the tasks of the worker are after a step. *)
LEMMA WorkSet ==
  ASSUME WorkOk(work, job), NEW j \in Ids, NEW e \in TaskType,
         work' = [work EXCEPT ![j] = e],
         e.task = "begun" => job[j].kind # "none" /\ (job[j].kind = "leave" \/ e.saw \notin {"cancelled", "completed"})
  PROVE  WorkOk(work', job) /\ work'[j] = e
BY DEF WorkOk

LEMMA TaskOk ==
  ASSUME WorkOk(work, job), NEW j \in Ids, NEW t \in {"off", "on", "ending"}, Task(j, t, "none")
  PROVE  WorkOk(work', job) /\ work'[j].task = t
<1> DEFINE e == [work[j] EXCEPT !.task = t, !.saw = "none"]
<1>1. work[j] \in TaskType
  BY WorkFields
<1>2. e \in TaskType /\ e.task = t
  BY <1>1 DEF Statuses, TaskType
<1>3. work' = [work EXCEPT ![j] = e]
  BY <1>1, WorkFields DEF Task, WorkOk
<1> HIDE DEF e
<1> QED BY <1>2, <1>3, WorkSet

LEMMA EnqueueOk ==
  ASSUME WorkOk(work, job), NEW k, NEW w, w = enqueue_job(k)
  PROVE  WorkOk(w, job)
<1>1. ASSUME NEW j \in Ids
      PROVE  /\ w[j] \in TaskType
             /\ w[j].task = work[j].task /\ w[j].saw = work[j].saw
  <2> DEFINE e == [work[j] EXCEPT !.queued = @ + 1]
  <2>1. work[j] \in TaskType
    BY WorkFields
  <2>2. /\ e \in TaskType
        /\ e.task = work[j].task /\ e.saw = work[j].saw
    BY <2>1 DEF TaskType
  <2>3. w[j] \in {e, work[j]}
    BY DEF enqueue_job
  <2> HIDE DEF e
  <2> QED BY <2>1, <2>2, <2>3
<1>2. w = [j \in Ids |-> w[j]]
  BY DEF enqueue_job
<1> QED BY <1>1, <1>2 DEF WorkOk

-----------------------------------------------------------------------------
(* The calls *)

LEMMA CallFields ==
  ASSUME NEW k \in CallType
  PROVE  /\ k.op \in Ops \cup {"none"} /\ k.kind \in Kinds \cup ListNames \cup {"admin"} /\ k.js \subseteq Ids
         /\ k.pc \in {"idle", "sent", "checked", "answered"} /\ k.ans \in {"none", "done", "failed"}
         /\ k.here \in BOOLEAN /\ k.late \in BOOLEAN
         /\ k.base \subseteq Items /\ k.want \subseteq Items /\ k.send \subseteq Items
BY DEF CallType

LEMMA NoCallOk ==
  ASSUME NEW jb
  PROVE  CallOk(NoCall, jb) /\ NoCall.pc = "idle"
<1>1. /\ NoCall.op = "none" /\ NoCall.pc = "idle" /\ NoCall.js = {} /\ NoCall \in CallType
  BY DEF NoCall, CallType, Kinds
<1> QED BY <1>1 DEF CallOk, CallShape, JobsOf

(* A request that is sent. *)
Asked(op, kind, js, base, want, send) ==
  [NoCall EXCEPT !.op = op, !.kind = kind, !.js = js, !.pc = "sent", !.here = TRUE,
                 !.base = base, !.want = want, !.send = send]
LEMMA SentOk ==
  ASSUME NEW jb, NEW op \in Ops, NEW kind \in Kinds \cup ListNames \cup {"admin"}, NEW js \in SUBSET Ids,
         NEW base \in SUBSET Items, NEW want \in SUBSET Items, NEW send \in SUBSET Items,
         op \in EditOps <=> kind \in ListNames, op = "start" => kind \in Kinds, op = "update" => send = want,
         op = "retry" => \A i \in js : jb[i].kind \in {"broadcast", "invite"} /\ \A j \in js : i = j,
         NEW r, r = Asked(op, kind, js, base, want, send)
  PROVE  CallOk(r, jb) /\ r.pc = "sent"
<1>1. /\ r.op = op /\ r.kind = kind /\ r.js = js /\ r.pc = "sent" /\ r.want = want /\ r.send = send
      /\ r \in CallType
  BY DEF Asked, NoCall, CallType
<1> QED BY <1>1 DEF CallOk, CallShape, JobsOf

(* What is remembered of the page's presence tells nothing of the job. *)
LEMMA AwayOk ==
  ASSUME NEW k, NEW jb, CallOk(k, jb), NEW r, r = [k EXCEPT !.here = FALSE]
  PROVE  CallOk(r, jb) /\ \A q : Owes(r, q) <=> Owes(k, q)
<1>1. /\ r.op = k.op /\ r.kind = k.kind /\ r.js = k.js /\ r.pc = k.pc /\ r.ans = k.ans /\ r.late = k.late
      /\ r.base = k.base /\ r.want = k.want /\ r.send = k.send /\ r \in CallType
  BY DEF CallOk, CallType
<1>2. Refreshes(r) = Refreshes(k)
  BY <1>1 DEF Refreshes
<1> QED BY <1>1, <1>2 DEF CallOk, CallShape, JobsOf, Owes

(* The jobs have moved, and a request knows if what it has read is no more. *)
LEMMA LateOk ==
  ASSUME NEW k, NEW jb, NEW nb, JobsOk(jb), JobsOk(nb), Moves(jb, nb), CallOk(k, jb),
         NEW ch \in BOOLEAN, ch => k.pc = "checked",
         k.pc = "checked" /\ ~ch => \A j \in Ids :
           nb[j] = jb[j] \/ (IF k.op \in {"start", "retry"} THEN nb[j].st \notin Active ELSE j \notin k.js),
         NEW r, r = IF ch THEN [k EXCEPT !.late = TRUE] ELSE k
  PROVE  CallOk(r, nb) /\ \A q : Owes(r, q) <=> Owes(k, q)
<1>1. k \in CallType /\ CallShape(k) /\ JobsOf(k, jb) /\ k.js \subseteq Ids
  BY CallFields DEF CallOk
<1>2. k.op = "retry" => \A j \in k.js : nb[j].kind \in {"broadcast", "invite"}
  BY <1>1 DEF JobsOf, Moves
<1>3. k.pc = "answered" /\ k.ans = "done" /\ k.op = "start" => \A j \in k.js : nb[j].kind = k.kind
  BY <1>1, NoneIsNoKind DEF JobsOf, Moves, CallShape
<1>4. CASE ch
  <2>1. /\ r.op = k.op /\ r.kind = k.kind /\ r.js = k.js /\ r.pc = k.pc /\ r.ans = k.ans /\ r.late
        /\ r.base = k.base /\ r.want = k.want /\ r.send = k.send /\ r \in CallType
    BY <1>1, <1>4 DEF CallType
  <2> QED BY <1>1, <1>2, <1>4, <2>1 DEF CallOk, CallShape, JobsOf, Owes
<1>5. CASE ~ch
  <2>1. r = k
    BY <1>5
  <2>2. k.pc = "checked" /\ k.op \in {"start", "retry"} => \A j \in Ids : nb[j] = jb[j] \/ nb[j].st \notin Active
    BY <1>5
  <2>3. k.pc = "checked" /\ k.op \notin {"start", "retry"} => \A j \in k.js : nb[j] = jb[j]
    BY <1>1, <1>5
  <2>4. JobsOf(k, nb)
    <3>1. k.pc = "checked" /\ ~k.late /\ k.op \in {"start", "retry"} => \A j \in Ids : nb[j].st \notin Active
      BY <1>1, <2>2 DEF JobsOf
    <3>2. /\ k.pc = "checked" /\ ~k.late /\ k.op \in {"pause", "pauseAll"} => \A j \in k.js : nb[j].st = "running"
          /\ k.pc = "checked" /\ ~k.late /\ k.op = "resume" => \A j \in k.js : nb[j].st = "paused"
      BY <1>1, <2>3 DEF JobsOf
    <3> QED BY <1>2, <1>3, <3>1, <3>2 DEF JobsOf
  <2> QED BY <1>1, <2>1, <2>4 DEF CallOk
<1> QED BY <1>4, <1>5

-----------------------------------------------------------------------------
(* What a request writes *)

LEMMA JobSet ==
  ASSUME NEW r \in JobType, NEW s \in Statuses
  PROVE  /\ [r EXCEPT !.st = s] \in JobType /\ [r EXCEPT !.st = s].st = s
         /\ [r EXCEPT !.st = s].kind = r.kind
BY DEF JobType

LEMMA LeastOf ==
  ASSUME NEW S \in SUBSET Ids, S # {}
  PROVE  (CHOOSE x \in S : \A y \in S : x <= y) \in S
<1>1. S \subseteq Nat
  BY Bounds DEF Ids
<1>2. PICK n \in S : \A m \in S : ~(<<m, n>> \in OpToRel(<, Nat))
  BY <1>1, NatLessThanWellFounded, WFMin
<1>3. \A m \in S : ~(m < n)
  BY <1>1, <1>2 DEF OpToRel
<1>4. \A m \in S : n <= m
  BY <1>1, <1>3
<1> QED BY <1>4

LEMMA LeastUnused ==
  ASSUME Unused # {}
  PROVE  FirstUnused \in Unused
<1>1. Unused \in SUBSET Ids
  BY DEF Unused
<1> QED BY <1>1, LeastOf DEF FirstUnused

(* What a write is to the jobs. *)
Fits(k, w) ==
  /\ JobsOk(w) /\ Moves(job, w) /\ (k.late \/ Grows(job, w))
  /\ k.op = "start" => \E j \in Ids : w[j].kind = k.kind /\ \A i \in Ids : w[i] # job[i] <=> i = j

LEMMA StartFits ==
  ASSUME JobsOk(job), NEW k, CallOk(k, job), k.pc = "checked", k.op = "start", Unused # {}, NEW w \in Written(k)
  PROVE  Fits(k, w)
<1> DEFINE i == FirstUnused
<1>1. i \in Unused
  BY LeastUnused
<1>2. PICK s \in FirstStatus(k.kind) : w = [job EXCEPT ![i] = [kind |-> k.kind, st |-> s]]
  BY DEF Written, Started
<1> HIDE DEF i
<1>3. i \in Ids /\ job[i].kind = "none"
  BY <1>1 DEF Unused
<1>4. s \in Statuses /\ k.kind \in Kinds
  BY DEF FirstStatus, Statuses, Active, CallOk, CallShape
<1> DEFINE r == [kind |-> k.kind, st |-> s]
<1>5. r \in JobType /\ r.kind = k.kind /\ r.kind # "none"
  BY <1>4, NoneIsNoKind DEF JobType
<1> HIDE DEF r
<1>6. w = [job EXCEPT ![i] = r]
  BY <1>2 DEF r
<1>7. w \in [Ids -> JobType] /\ w[i] = r /\ \A j \in Ids : j # i => w[j] = job[j]
  BY <1>3, <1>5, <1>6 DEF JobsOk
<1>8. JobsOk(w) /\ Moves(job, w)
  BY <1>3, <1>5, <1>7 DEF JobsOk, Moves
<1>9. k.late \/ Grows(job, w)
  <2> SUFFICES ASSUME ~k.late PROVE Grows(job, w)
    OBVIOUS
  <2>1. \A j \in Ids : job[j].st \notin Active
    BY DEF CallOk, JobsOf
  <2> QED BY <1>3, <1>7, <2>1 DEF Grows
<1>10. w[i].kind = k.kind /\ \A j \in Ids : w[j] # job[j] <=> j = i
  BY <1>3, <1>5, <1>7
<1> QED BY <1>3, <1>8, <1>9, <1>10 DEF Fits

(* Jobs of a set are given a status, or deleted. *)
LEMMA SetFits ==
  ASSUME JobsOk(job), NEW k, k.op # "start", NEW w, NEW A, DOMAIN w = Ids, w = [j \in Ids |-> w[j]],
         \A j \in A \cap Ids : job[j].kind # "none",
         \A j \in Ids : IF j \in A THEN w[j] \in JobType /\ w[j].kind = job[j].kind ELSE w[j] = job[j],
         \/ k.late
         \/ \A j \in A \cap Ids : w[j].st \notin Active \/ job[j].st \in Active
         \/ /\ \A j \in Ids : job[j].st \notin Active
            /\ \A j \in A \cap Ids : job[j].kind \in {"broadcast", "invite"} /\ \A i \in A \cap Ids : i = j
  PROVE  Fits(k, w)
<1>1. w \in [Ids -> JobType]
  BY DEF JobsOk
<1>2. JobsOk(w) /\ Moves(job, w)
  BY <1>1 DEF JobsOk, Moves
<1>3. CASE \A j \in A \cap Ids : w[j].st \notin Active \/ job[j].st \in Active
  BY <1>2, <1>3 DEF Grows, Fits
<1>4. CASE /\ \A j \in Ids : job[j].st \notin Active
           /\ \A j \in A \cap Ids : job[j].kind \in {"broadcast", "invite"} /\ \A i \in A \cap Ids : i = j
  <2>1. \A j \in Ids : w[j].st \in Active => j \in A
    BY <1>4
  <2>2. Grows(job, w)
    BY <1>4, <2>1 DEF Grows
  <2> QED BY <1>2, <2>2 DEF Fits
<1>5. CASE k.late
  BY <1>2, <1>5 DEF Fits
<1> QED BY <1>3, <1>4, <1>5

LEMMA WrittenFits ==
  ASSUME JobsOk(job), NEW k, CallOk(k, job), k.pc = "checked", k.op = "start" => Unused # {},
         \A j \in k.js : St(j) # "none", NEW w \in Written(k)
  PROVE  Fits(k, w)
<1>1. /\ k \in CallType /\ CallShape(k) /\ JobsOf(k, job) /\ k.js \subseteq Ids /\ k.op \in Ops \cup {"none"}
  BY CallFields DEF CallOk
<1>2. CASE k.op = "start"
  BY <1>2, StartFits
<1>n. "none" \in Statuses
  BY DEF Statuses
<1>d. \A j \in Ids : Deleted(j) \in JobType /\ Deleted(j).kind = job[j].kind /\ Deleted(j).st = "none"
  BY <1>n, JobSet DEF JobsOk, Deleted
<1>k. \A j \in Ids : job[j].kind = "none" => job[j].st = "none"
  BY DEF JobsOk
<1>3. CASE k.op = "clear"
  <2>1. w = [j \in Ids |-> IF j \in Broadcasts(Terminal) THEN Deleted(j) ELSE job[j]]
    BY <1>3 DEF Written, Cleared
  <2> DEFINE A == Broadcasts(Terminal)
  <2>2. \A j \in A \cap Ids : job[j].kind # "none"
    BY DEF Broadcasts
  <2>3. DOMAIN w = Ids /\ w = [j \in Ids |-> w[j]]
    BY <2>1
  <2>4. \A j \in Ids : IF j \in A THEN w[j] \in JobType /\ w[j].kind = job[j].kind ELSE w[j] = job[j]
    BY <1>d, <2>1
  <2>5. \A j \in A \cap Ids : w[j].st \notin Active \/ job[j].st \in Active
    BY <1>d, <2>1, NoneIsNoKind
  <2> HIDE DEF A
  <2> QED BY <1>3, <2>2, <2>3, <2>4, <2>5, SetFits
<1>4. CASE k.op \in {"create", "update", "drop"}
  <2>1. w = job
    BY <1>4 DEF Written
  <2>2. DOMAIN w = Ids /\ w = [j \in Ids |-> w[j]]
    BY <2>1 DEF JobsOk
  <2> DEFINE A == {}
  <2>3. /\ \A j \in A \cap Ids : job[j].kind # "none"
        /\ \A j \in Ids : IF j \in A THEN w[j] \in JobType /\ w[j].kind = job[j].kind ELSE w[j] = job[j]
        /\ \A j \in A \cap Ids : w[j].st \notin Active \/ job[j].st \in Active
    BY <2>1
  <2> HIDE DEF A
  <2>4. k.op # "start"
    BY <1>4
  <2> QED BY <2>2, <2>3, <2>4, SetFits
<1>5. CASE k.op \notin {"start", "clear", "create", "update", "drop"}
  <2> DEFINE s == update_job_status(k.op)
  <2>1. w = [j \in Ids |-> IF j \notin k.js THEN job[j]
                            ELSE IF k.op = "delete" THEN Deleted(j) ELSE [job[j] EXCEPT !.st = s]]
    BY <1>5 DEF Written, Steered
  <2>2. s \in Statuses
    BY DEF update_job_status, Statuses, Active, Terminal
  <2>3. \A j \in k.js \cap Ids : job[j].kind # "none"
    BY <1>k DEF St
  <2>4. /\ k.op \in {"pause", "pauseAll", "resume", "retry"} \/ s \notin Active
        /\ k.op = "delete" => s \notin Active
    BY <1>1, <1>5, NoneIsNoKind DEF update_job_status, Ops, Active
  <2> HIDE DEF s
  <2>5. \A j \in Ids : IF j \in k.js
                       THEN w[j] \in JobType /\ w[j].kind = job[j].kind /\ w[j].st \in {s, "none"}
                       ELSE w[j] = job[j]
    <3>1. ASSUME NEW j \in Ids
          PROVE  /\ [job[j] EXCEPT !.st = s] \in JobType /\ [job[j] EXCEPT !.st = s].st = s
                 /\ [job[j] EXCEPT !.st = s].kind = job[j].kind
      <4>1. job[j] \in JobType
        BY DEF JobsOk
      <4> QED BY <2>2, <4>1 DEF JobType
    <3> QED BY <1>d, <2>1, <3>1
  <2>6. DOMAIN w = Ids /\ w = [j \in Ids |-> w[j]]
    BY <2>1
  <2>7. \/ k.late
        \/ \A j \in k.js \cap Ids : w[j].st \notin Active \/ job[j].st \in Active
        \/ /\ \A j \in Ids : job[j].st \notin Active
           /\ \A j \in k.js \cap Ids : job[j].kind \in {"broadcast", "invite"} /\ \A i \in k.js \cap Ids : i = j
    <3>1. CASE k.op \in {"pause", "pauseAll", "resume"}
      <4>1. k.late \/ \A j \in k.js : job[j].st \in {"running", "paused"}
        BY <1>1, <3>1 DEF JobsOf
      <4> QED BY <4>1 DEF Active
    <3>2. CASE k.op = "retry"
      <4>1. k.late \/ \A j \in Ids : job[j].st \notin Active
        BY <1>1, <3>2 DEF JobsOf
      <4>2. \A j \in k.js : job[j].kind \in {"broadcast", "invite"} /\ \A i \in k.js : i = j
        BY <1>1, <3>2 DEF JobsOf, CallShape
      <4> QED BY <4>1, <4>2
    <3>3. CASE s \notin Active
      BY <2>5, <3>3, NoneIsNoKind
    <3> QED BY <2>4, <3>1, <3>2, <3>3
  <2>8. \A j \in Ids : IF j \in k.js THEN w[j] \in JobType /\ w[j].kind = job[j].kind ELSE w[j] = job[j]
    BY <2>5
  <2> QED BY <1>5, <2>3, <2>6, <2>7, <2>8, SetFits
<1> QED BY <1>2, <1>3, <1>4, <1>5

(* The queue is out of reach: what was to begin has failed. *)
LEMMA FailedFits ==
  ASSUME JobsOk(job), NEW k, NEW w, Fits(k, w), NEW v,
         v = [j \in Ids |-> IF w[j] # job[j] THEN [w[j] EXCEPT !.st = "failed"] ELSE w[j]],
         \A j \in Ids : w[j] # job[j] => w[j].kind # "none"
  PROVE  JobsOk(v) /\ Moves(job, v) /\ Grows(job, v)
<1>1. JobsOk(w) /\ Moves(job, w) /\ "failed" \in Statuses /\ "failed" \notin Active
  BY DEF Fits, Statuses, Active, Terminal
<1>2. ASSUME NEW j \in Ids
      PROVE  /\ [w[j] EXCEPT !.st = "failed"] \in JobType /\ [w[j] EXCEPT !.st = "failed"].st = "failed"
             /\ [w[j] EXCEPT !.st = "failed"].kind = w[j].kind
  <2>1. w[j] \in JobType
    BY <1>1 DEF JobsOk
  <2> QED BY <1>1, <2>1 DEF JobType
<1>3. \A j \in Ids : v[j] = job[j] \/ (v[j] \in JobType /\ v[j].st = "failed" /\ v[j].kind = w[j].kind /\ v[j].kind # "none")
  BY <1>2
<1>4. v \in [Ids -> JobType]
  BY <1>1, <1>2 DEF JobsOk
<1> QED BY <1>1, <1>3, <1>4 DEF JobsOk, Moves, Grows

-----------------------------------------------------------------------------
(* The cache and the rows as a whole *)

LEMMA InvalidateAllOk ==
  ASSUME NEW f, CacheOk(f), NEW qs, NEW shown, NEW g, g = InvalidateAll(f, qs, shown)
  PROVE  /\ CacheOk(g)
         /\ \A q \in Queries : /\ g[q] = IF q \in qs THEN Invalidate(f[q], q \in shown) ELSE f[q]
                               /\ Untold(f[q], g[q])
<1>1. DOMAIN g = Queries
      /\ \A q \in Queries : g[q] = IF q \in qs THEN Invalidate(f[q], q \in shown) ELSE f[q]
  BY DEF InvalidateAll, CacheOk
<1>2. ASSUME NEW q \in Queries PROVE g[q] \in EntryType(ValueType(q)) /\ Untold(f[q], g[q])
  <2> DEFINE b == q \in shown
  <2>1. f[q] \in EntryType(ValueType(q)) /\ b \in BOOLEAN
    BY DEF CacheOk
  <2>2. g[q] = IF q \in qs THEN Invalidate(f[q], b) ELSE f[q]
    BY <1>1
  <2> HIDE DEF b
  <2>3. Invalidate(f[q], b) \in EntryType(ValueType(q)) /\ Untold(f[q], Invalidate(f[q], b))
    BY <2>1, InvalidateOk, InvalidateUntold
  <2> QED BY <2>1, <2>2, <2>3, UntoldSame
<1> QED BY <1>1, <1>2 DEF CacheOk

LEMMA RefetchAllOk ==
  ASSUME NEW f, CacheOk(f), NEW qs, NEW g, g = RefetchAll(f, qs)
  PROVE  /\ CacheOk(g)
         /\ \A q \in Queries : g[q] = (IF q \in qs THEN Refetch(f[q]) ELSE f[q]) /\ Untold(f[q], g[q])
<1>1. DOMAIN g = Queries /\ \A q \in Queries : g[q] = IF q \in qs THEN Refetch(f[q]) ELSE f[q]
  BY DEF RefetchAll, CacheOk
<1>2. \A q \in Queries : f[q] \in EntryType(ValueType(q))
  BY DEF CacheOk
<1>3. \A q \in Queries : g[q] \in EntryType(ValueType(q)) /\ Untold(f[q], g[q])
  BY <1>1, <1>2, RefetchOk, FetchUntold, UntoldSame
<1> QED BY <1>1, <1>3 DEF CacheOk

LEMMA MountAllOk ==
  ASSUME NEW f, CacheOk(f), NEW qs, NEW old \in BOOLEAN, NEW g, g = MountAll(f, qs, old)
  PROVE  /\ CacheOk(g)
         /\ \A q \in Queries : g[q] = (IF q \in qs THEN Mount(f[q], old) ELSE f[q]) /\ Untold(f[q], g[q])
<1>1. DOMAIN g = Queries /\ \A q \in Queries : g[q] = IF q \in qs THEN Mount(f[q], old) ELSE f[q]
  BY DEF MountAll, CacheOk
<1>2. \A q \in Queries : f[q] \in EntryType(ValueType(q))
  BY DEF CacheOk
<1>3. \A q \in Queries : g[q] \in EntryType(ValueType(q)) /\ Untold(f[q], g[q])
  BY <1>1, <1>2, MountOk, MountUntold, UntoldSame
<1> QED BY <1>1, <1>3 DEF CacheOk

LEMMA RowChanged ==
  ASSUME NEW rs \in [Ids -> EntryType(Statuses)], NEW j \in Ids, NEW e \in EntryType(Statuses),
         NEW ss, ss = [rs EXCEPT ![j] = e]
  PROVE  /\ ss \in [Ids -> EntryType(Statuses)] /\ ss[j] = e
         /\ \A i \in Ids : i # j => ss[i] = rs[i]
         /\ Untold(rs[j], e) => \A i \in Ids : Untold(rs[i], ss[i])
BY UntoldSame

LEMMA WatchOk ==
  ASSUME NEW rs \in [Ids -> EntryType(Statuses)], NEW j \in 0..MaxJobs, NEW old \in BOOLEAN
  PROVE  /\ Watch(rs, j, old) \in [Ids -> EntryType(Statuses)]
         /\ \A i \in Ids : Untold(rs[i], Watch(rs, j, old)[i])
<1>1. CASE j = 0
  BY <1>1, UntoldSame DEF Watch
<1>2. CASE j # 0
  <2>1. j \in Ids
    BY <1>2, Bounds DEF Ids
  <2> DEFINE e == Mount(rs[j], old)
  <2>2. Watch(rs, j, old) = [rs EXCEPT ![j] = e]
    BY <1>2 DEF Watch
  <2>3. e \in EntryType(Statuses) /\ Untold(rs[j], e)
    BY <2>1, MountOk, MountUntold
  <2> HIDE DEF e
  <2> QED BY <2>1, <2>2, <2>3, RowChanged
<1> QED BY <1>1, <1>2

-----------------------------------------------------------------------------
(* What the steps have in common *)

LEMMA UserOk ==
  ASSUME clicks \in 0..MaxClicks, User
  PROVE  clicks' \in 0..MaxClicks
BY Bounds DEF User

LEMMA FaultOk ==
  ASSUME faults \in 0..MaxFaults, Fault
  PROVE  faults' \in 0..MaxFaults
BY Bounds DEF Fault

LEMMA ToldKeep ==
  ASSUME Told, \A q \in Queries : q \notin off' => q \notin off /\ Of(job', list', q) = Of(job, list, q),
         page' = page, cache' = cache,
         \A q \in Queries : q \notin off' /\ Owed(call, q) => Owed(call', q)
  PROVE  Told'
<1> SUFFICES ASSUME NEW q \in Queries \ off'
             PROVE  Owed(call', q) \/ Fine(cache'[q], Of(job', list', q), q \in Uses(page'))
  BY DEF Told
<1>1. q \notin off /\ Of(job', list', q) = Of(job, list, q)
  OBVIOUS
<1>2. Owed(call, q) \/ Fine(cache[q], Of(job, list, q), q \in Uses(page))
  BY <1>1 DEF Told
<1>4. CASE Owed(call, q)
  BY <1>4
<1>5. CASE Fine(cache[q], Of(job, list, q), q \in Uses(page))
  BY <1>1, <1>5
<1> QED BY <1>2, <1>4, <1>5

(* The tab changes, but neither the page nor what it has been told. *)
LEMMA QuietKeeps ==
  ASSUME IInv, job' = job, list' = list, work' = work, strays' = strays, page' = page, cache' = cache, rows' = rows,
         off' = off, wanted' = wanted, crossed' = crossed,
         att' \in 0..MaxJobs, stored' \in StoreType, ws' \in Statuses, dlg' \in DialogType, own' \in 0..MaxJobs,
         clicks' \in 0..MaxClicks, faults' \in 0..MaxFaults,
         DialogFits(dlg', page), CallsOk(call', job), \A q \in Queries : Owed(call, q) => Owed(call', q),
         OwnJoins(own', job), Remembered(own', job, strays, stored')
  PROVE  IInv'
<1>1. Shaped'
  BY DEF IInv, Shaped
<1>2. Told'
  BY ToldKeep DEF IInv
<1>3. EditsKept'
  BY DEF IInv, EditsKept
<1>4. JobsOk(job') /\ CallsOk(call', job') /\ DialogFits(dlg', page') /\ OneRuns(strays', job')
  BY DEF IInv
<1>5. Known'
  BY DEF IInv, Known
<1>6. Joins'
  BY DEF IInv, Joins
<1> QED BY <1>1, <1>2, <1>3, <1>4, <1>5, <1>6 DEF IInv

(* A call that owes nothing goes on to another stage. *)
LEMMA CallKeeps ==
  ASSUME IInv, NEW c \in Calls, NEW r, CallOk(r, job), call' = [call EXCEPT ![c] = r],
         \A q \in Queries : ~Owes(call[c], q)
  PROVE  CallsOk(call', job) /\ \A q \in Queries : Owed(call, q) => Owed(call', q)
<1>a. CallsOk(call, job)
  BY DEF IInv
<1>1. CallsOk(call', job) /\ \A d \in Calls : d # c => call'[d] = call[d]
  BY <1>a DEF CallsOk, CallOk
<1>2. \A q \in Queries : Owed(call, q) => Owed(call', q)
  BY <1>1 DEF Owed
<1> QED BY <1>1, <1>2

LEMMA EndpointOk ==
  ASSUME page \in Pages
  PROVE  /\ Endpoint(page) \in Kinds \cup ListNames \cup {"admin"}
         /\ Endpoint(page) \in ListNames <=> page \in ListNames
         /\ page \in {"new", "invite", "join", "leave"} => Endpoint(page) \in Kinds /\ page \notin ListNames
BY DEF Pages, Endpoint, KindOf, Kinds, ListNames

LEMMA SendKeeps ==
  ASSUME IInv, NEW c \in Calls, NEW op \in Ops, NEW js \in SUBSET Ids,
         NEW base \in SUBSET Items, NEW want \in SUBSET Items, NEW send \in SUBSET Items,
         Send(c, op, js, base, want, send),
         op \in EditOps <=> page \in ListNames, op = "start" => page \in {"new", "invite", "join", "leave"},
         op = "update" => send = want,
         op = "retry" => \A i \in js : job[i].kind \in {"broadcast", "invite"} /\ \A j \in js : i = j
  PROVE  /\ CallsOk(call', job) /\ \A q \in Queries : Owed(call, q) => Owed(call', q)
         /\ clicks' \in 0..MaxClicks
<1>1. page \in Pages /\ clicks \in 0..MaxClicks
  BY DEF IInv, Shaped
<1> DEFINE kind == Endpoint(page)
           r == Asked(op, kind, js, base, want, send)
<1>2. call' = [call EXCEPT ![c] = r] /\ User /\ call[c].pc = "idle"
  BY DEF Send, Free, At, Asked
<1>3. /\ kind \in Kinds \cup ListNames \cup {"admin"} /\ (op \in EditOps <=> kind \in ListNames)
      /\ op = "start" => kind \in Kinds
  BY <1>1, EndpointOk
<1> HIDE DEF kind
<1>4. CallOk(r, job)
  BY <1>3, SentOk
<1> HIDE DEF r
<1>5. \A q \in Queries : ~Owes(call[c], q)
  BY <1>2 DEF Owes
<1> QED BY <1>1, <1>2, <1>4, <1>5, CallKeeps, UserOk

-----------------------------------------------------------------------------
(* The buttons *)

LEMMA TrackedOk ==
  ASSUME att \in 0..MaxJobs
  PROVE  currentTrackingId \in 0..MaxJobs
<1>1. Going \in SUBSET Ids
  BY DEF Going
<1>2. Going # {} => (CHOOSE j \in Going : \A k \in Going : j <= k) \in Ids
  BY <1>1, LeastOf
<1> QED BY <1>2, IdsOk, Bounds DEF currentTrackingId

(* The rows of the lists that are retried are jobs of their kind. *)
LEMMA RowKnown ==
  ASSUME IInv, NEW q \in Kinds, NEW j \in Ids, Row(q, j) \in Terminal
  PROVE  job[j].kind = q
<1>1. cache[q].data[j] # "none"
  BY NoneIsNoKind DEF Row
<1> QED BY <1>1 DEF IInv, Known, ListsFit

LEMMA DirectKnows ==
  ASSUME IInv, NEW op \in Ops, NEW j \in 0..MaxJobs, Direct(op, j)
  PROVE  /\ op \notin EditOps /\ page \notin ListNames
         /\ op = "start" => page \in {"new", "invite", "join", "leave"}
         /\ op = "retry" => j \in Ids /\ job[j].kind \in {"broadcast", "invite"}
         /\ op = "delete" => page \in {"join", "leave"}
<1>j. j # 0 => j \in Ids
  BY Bounds DEF Ids
<1>1. CASE JoinStart(op, j) \/ LeaveStart(op, j) \/ InviteStart(op, j)
  BY <1>1 DEF JoinStart, LeaveStart, InviteStart, EditOps, ListNames
<1>2. CASE j # 0 /\ renderJobActions(op, j)
  <2>1. op \in {"pause", "resume", "retry"} /\ page = "history"
        /\ (op = "retry" => Row("broadcast", j) \in Terminal)
    BY <1>2 DEF renderJobActions
  <2>2. op = "retry" => job[j].kind = "broadcast"
    BY <1>j, <1>2, <2>1, RowKnown DEF Kinds
  <2> QED BY <1>j, <1>2, <2>1, <2>2 DEF EditOps, ListNames
<1>3. CASE j # 0 /\ InviteActions(op, j)
  <2>1. op \in {"pause", "resume", "retry"} /\ page = "inviteHistory"
        /\ (op = "retry" => Row("invite", j) \in Terminal)
    BY <1>3 DEF InviteActions
  <2>2. op = "retry" => job[j].kind = "invite"
    BY <1>j, <1>3, <2>1, RowKnown DEF Kinds
  <2> QED BY <1>j, <1>3, <2>1, <2>2 DEF EditOps, ListNames
<1>4. CASE InvitePanel(op, j)
  BY <1>4 DEF InvitePanel, EditOps, ListNames
<1>5. CASE JoinPanel(op, j) \/ JoinDelete(op, j)
  BY <1>5 DEF JoinPanel, JoinDelete, EditOps, ListNames
<1>6. CASE LeavePanel(op, j) \/ LeaveDelete(op, j)
  BY <1>6 DEF LeavePanel, LeaveDelete, EditOps, ListNames
<1> QED BY <1>1, <1>2, <1>3, <1>4, <1>5, <1>6 DEF Direct

LEMMA NoDialogOk ==
  ASSUME NEW p
  PROVE  NoDialog \in DialogType /\ DialogFits(NoDialog, p) /\ NoDialog.op = "none"
<1>1. 0 \in 0..MaxJobs
  BY Bounds
<1> QED BY <1>1 DEF NoDialog, DialogType, DialogFits, EditOps

LEMMA PressKeeps ==
  ASSUME IInv, NEW c \in Calls, NEW op \in Ops, NEW j \in 0..MaxJobs, Press(c, op, j)
  PROVE  IInv'
<1>1. /\ op \notin EditOps /\ page \notin ListNames
      /\ op = "start" => page \in {"new", "invite", "join", "leave"}
      /\ op = "retry" => j \in Ids /\ job[j].kind \in {"broadcast", "invite"}
      /\ op = "delete" => page \in {"join", "leave"}
  BY DirectKnows DEF Press
<1> DEFINE js == {j} \ {0}
<1>2. js \in SUBSET Ids /\ \A i \in js : i = j
  BY Bounds DEF Ids
<1>3. Send(c, op, js, {}, {}, {})
  BY DEF Press
<1> HIDE DEF js
<1>4. op = "retry" => \A i \in js : job[i].kind \in {"broadcast", "invite"} /\ \A k \in js : i = k
  BY <1>1, <1>2
<1>5. /\ CallsOk(call', job) /\ \A q \in Queries : Owed(call, q) => Owed(call', q)
      /\ clicks' \in 0..MaxClicks
  BY <1>1, <1>2, <1>3, <1>4, SendKeeps DEF EditOps
<1>6. /\ job' = job /\ list' = list /\ work' = work /\ strays' = strays /\ page' = page /\ cache' = cache /\ rows' = rows
      /\ off' = off /\ wanted' = wanted /\ crossed' = crossed /\ dlg' = dlg /\ faults' = faults
  BY DEF Press, server
<1>7. /\ att \in 0..MaxJobs /\ stored \in StoreType /\ ws \in Statuses /\ dlg \in DialogType /\ own \in 0..MaxJobs
      /\ faults \in 0..MaxFaults /\ DialogFits(dlg, page)
      /\ OwnJoins(own, job) /\ Remembered(own, job, strays, stored)
  BY DEF IInv, Shaped, Joins
<1>8. /\ att' \in 0..MaxJobs /\ stored' \in StoreType /\ ws' \in Statuses /\ own' \in 0..MaxJobs
      /\ OwnJoins(own', job) /\ Remembered(own', job, strays, stored')
  <2>1. CASE op = "delete" /\ j = att
    <3>1. /\ att' = 0 /\ stored' = [stored EXCEPT ![page] = 0] /\ ws' = "none"
          /\ own' = IF page = "join" THEN 0 ELSE own
      BY <2>1 DEF Press
    <3>2. page \in {"join", "leave"} /\ 0 \in 0..MaxJobs /\ "none" \in Statuses
      BY <1>1, <2>1, Bounds DEF Statuses
    <3>3. stored' \in StoreType /\ (page # "join" => stored'["join"] = stored["join"])
      BY <1>7, <3>1, <3>2 DEF StoreType
    <3> QED BY <1>7, <3>1, <3>2, <3>3 DEF OwnJoins, Remembered
  <2>2. CASE ~(op = "delete" /\ j = att)
    BY <1>7, <2>2 DEF Press
  <2> QED BY <2>1, <2>2
<1> QED BY <1>5, <1>6, <1>7, <1>8, QuietKeeps

(* The page's dialog is opened or closed, or a call is sent. *)
LEMMA DialogKeeps ==
  ASSUME IInv, dlg' \in DialogType, DialogFits(dlg', page),
         job' = job, list' = list, work' = work, strays' = strays, page' = page, cache' = cache, rows' = rows,
         att' = att, stored' = stored, ws' = ws, own' = own,
         off' = off, wanted' = wanted, crossed' = crossed, faults' = faults,
         clicks' \in 0..MaxClicks, CallsOk(call', job), \A q \in Queries : Owed(call, q) => Owed(call', q)
  PROVE  IInv'
<1>1. /\ att \in 0..MaxJobs /\ stored \in StoreType /\ ws \in Statuses /\ own \in 0..MaxJobs
      /\ faults \in 0..MaxFaults /\ OwnJoins(own, job) /\ Remembered(own, job, strays, stored)
  BY DEF IInv, Shaped, Joins
<1> QED BY <1>1, QuietKeeps

LEMMA AsksKnow ==
  ASSUME NEW op, NEW j, Asks(op, j)
  PROVE  /\ op \notin EditOps \cup {"none", "retry"} /\ page \notin ListNames
         /\ op = "start" => page = "new"
<1>1. CASE handlePreStart(op, j) \/ AdminBulk(op, j)
  BY <1>1 DEF handlePreStart, AdminBulk, EditOps, ListNames
<1>2. CASE renderJobDialogs(op, j) \/ InviteDialogs(op, j)
  BY <1>2 DEF renderJobDialogs, InviteDialogs, EditOps, ListNames
<1>3. CASE InviteStop(op, j) \/ AdminRow(op, j)
  BY <1>3 DEF InviteStop, AdminRow, EditOps, ListNames
<1> QED BY <1>1, <1>2, <1>3 DEF Asks

LEMMA AskKeeps ==
  ASSUME IInv, NEW op \in Ops, NEW j \in 0..MaxJobs, Ask(op, j)
  PROVE  IInv'
<1>1. /\ op \notin EditOps \cup {"none", "retry"} /\ page \notin ListNames /\ (op = "start" => page = "new")
  BY AsksKnow DEF Ask
<1>2. /\ dlg' = [NoDialog EXCEPT !.op = op, !.j = j]
      /\ job' = job /\ list' = list /\ work' = work /\ strays' = strays /\ page' = page /\ cache' = cache /\ rows' = rows
      /\ att' = att /\ stored' = stored /\ ws' = ws /\ own' = own /\ call' = call
      /\ off' = off /\ wanted' = wanted /\ crossed' = crossed /\ faults' = faults /\ clicks' = clicks
  BY DEF Ask, server, ghosts
<1>3. dlg' \in DialogType /\ dlg'.op = op
  BY <1>2 DEF NoDialog, DialogType
<1>4. DialogFits(dlg', page)
  BY <1>1, <1>3 DEF DialogFits
<1>5. clicks \in 0..MaxClicks /\ CallsOk(call, job)
  BY DEF IInv, Shaped
<1> QED BY <1>2, <1>3, <1>4, <1>5, DialogKeeps

LEMMA DismissKeeps ==
  ASSUME IInv, Dismiss
  PROVE  IInv'
<1>1. /\ dlg' = NoDialog
      /\ job' = job /\ list' = list /\ work' = work /\ strays' = strays /\ page' = page /\ cache' = cache /\ rows' = rows
      /\ att' = att /\ stored' = stored /\ ws' = ws /\ own' = own /\ call' = call
      /\ off' = off /\ wanted' = wanted /\ crossed' = crossed /\ faults' = faults /\ clicks' = clicks
  BY DEF Dismiss, server, ghosts
<1>2. clicks \in 0..MaxClicks /\ CallsOk(call, job)
  BY DEF IInv, Shaped
<1> QED BY <1>1, <1>2, NoDialogOk, DialogKeeps

LEMMA ConfirmKeeps ==
  ASSUME IInv, NEW c \in Calls, Confirm(c)
  PROVE  IInv'
<1> DEFINE op == dlg.op
           j == IF page = "invite" THEN currentTrackingId ELSE dlg.j
           js == {j} \ {0}
<1>1. /\ dlg \in DialogType /\ DialogFits(dlg, page) /\ att \in 0..MaxJobs
  BY DEF IInv, Shaped
<1>2. op \in Ops /\ op \notin EditOps /\ Send(c, op, js, {}, {}, {})
  BY DEF Confirm, EditOps
<1>3. j \in 0..MaxJobs
  BY <1>1, TrackedOk DEF DialogType
<1>4. js \in SUBSET Ids
  BY <1>3, Bounds DEF Ids
<1>5. page \notin ListNames /\ op # "retry" /\ (op = "start" => page = "new")
  <2>1. op # "none"
    BY <1>2 DEF Ops
  <2> QED BY <1>1, <1>2, <2>1 DEF DialogFits
<1>6. /\ dlg' = IF page \in {"new", "admin"} THEN dlg ELSE NoDialog
      /\ job' = job /\ list' = list /\ work' = work /\ strays' = strays /\ page' = page /\ cache' = cache /\ rows' = rows
      /\ att' = att /\ stored' = stored /\ ws' = ws /\ own' = own
      /\ off' = off /\ wanted' = wanted /\ crossed' = crossed /\ faults' = faults
  BY DEF Confirm, server, ghosts
<1>7. dlg' \in DialogType /\ DialogFits(dlg', page)
  BY <1>1, <1>6, NoDialogOk
<1> HIDE DEF op, js
<1>8. /\ CallsOk(call', job) /\ \A q \in Queries : Owed(call, q) => Owed(call', q)
      /\ clicks' \in 0..MaxClicks
  BY <1>2, <1>4, <1>5, SendKeeps DEF EditOps
<1> QED BY <1>6, <1>7, <1>8, DialogKeeps

-----------------------------------------------------------------------------
(* The list editors *)

LEMMA SeenOk ==
  ASSUME CacheOk(cache), NEW l \in ListNames
  PROVE  Seen(l) \in ListType /\ Seen(l).items \subseteq Items
<1>1. l \in Queries /\ ValueType(l) = ListType
  BY DEF Queries, ValueType, IsJobList, ListNames, Kinds
<1>2. cache[l].data \in ListType
  BY <1>1, EntryFields DEF CacheOk
<1>3. NoList \in ListType
  BY DEF NoList, ListType
<1> QED BY <1>2, <1>3 DEF Seen, ListType

LEMMA EditKeeps ==
  ASSUME IInv, NEW c \in Calls, NEW op \in EditOps, page \in ListNames,
         NEW base \in SUBSET Items, NEW want \in SUBSET Items, NEW send \in SUBSET Items,
         Send(c, op, {}, base, want, send), op = "update" => send = want,
         dlg' \in DialogType, DialogFits(dlg', page),
         job' = job, list' = list, work' = work, strays' = strays, page' = page, cache' = cache, rows' = rows,
         att' = att, stored' = stored, ws' = ws, own' = own,
         off' = off, wanted' = wanted, crossed' = crossed, faults' = faults
  PROVE  IInv'
<1>1. op \in Ops /\ op \notin {"start", "retry"}
  BY DEF EditOps, Ops
<1>2. {} \in SUBSET Ids
  OBVIOUS
<1>3. /\ CallsOk(call', job) /\ \A q \in Queries : Owed(call, q) => Owed(call', q)
      /\ clicks' \in 0..MaxClicks
  BY <1>1, <1>2, SendKeeps
<1> QED BY <1>3, DialogKeeps

LEMMA EditorsKeep ==
  ASSUME IInv, NEW c \in Calls,
         handleCreate(c) \/ EditGroups(c) \/ handleBulkImport(c) \/ EditTexts(c) \/ SaveTextModal(c) \/ ConfirmDrop(c)
  PROVE  IInv'
<1>1. /\ dlg \in DialogType /\ DialogFits(dlg, page) /\ CacheOk(cache) /\ {} \in SUBSET Items
      /\ "groups" \in ListNames /\ "texts" \in ListNames
      /\ "create" \in EditOps /\ "update" \in EditOps /\ "drop" \in EditOps
  BY DEF IInv, Shaped, EditOps, ListNames
<1>2. /\ job' = job /\ list' = list /\ work' = work /\ strays' = strays /\ page' = page /\ cache' = cache /\ rows' = rows
      /\ att' = att /\ stored' = stored /\ ws' = ws /\ own' = own
      /\ off' = off /\ wanted' = wanted /\ crossed' = crossed /\ faults' = faults
  BY DEF handleCreate, EditGroups, handleBulkImport, EditTexts, SaveTextModal, ConfirmDrop, server, tab, ghosts
<1>3. CASE handleCreate(c)
  <2>1. page \in ListNames /\ Send(c, "create", {}, {}, {}, {}) /\ dlg' = dlg
    BY <1>3 DEF handleCreate, tab
  <2> QED BY <1>1, <1>2, <2>1, EditKeeps
<1>4. ASSUME page \in ListNames, dlg' = dlg, NEW items, items = Seen(page).items, NEW x \in Items,
             Send(c, "update", {}, items, items \cup {x}, items \cup {x})
             \/ Send(c, "update", {}, items, items \ {x}, items \ {x})
             \/ Send(c, "update", {}, items, items \cup Items, items \cup Items)
      PROVE  IInv'
  <2>1. items \in SUBSET Items /\ items \cup {x} \in SUBSET Items /\ items \ {x} \in SUBSET Items
        /\ items \cup Items \in SUBSET Items
    BY <1>1, <1>4, SeenOk
  <2> QED BY <1>1, <1>2, <1>4, <2>1, EditKeeps
<1>5. CASE EditGroups(c) \/ EditTexts(c)
  <2> DEFINE items == Seen(page).items
  <2>1. page \in ListNames /\ dlg' = dlg /\ items \subseteq Items
    BY <1>1, <1>5, SeenOk DEF EditGroups, EditTexts, tab
  <2>2. \/ \E x \in Items \ items : Send(c, "update", {}, items, items \cup {x}, items \cup {x})
        \/ \E x \in items : Send(c, "update", {}, items, items \ {x}, items \ {x})
    BY <1>5 DEF EditGroups, EditTexts, handleAddItem, handleRemoveItem
  <2> HIDE DEF items
  <2>3. PICK x \in Items : \/ Send(c, "update", {}, items, items \cup {x}, items \cup {x})
                           \/ Send(c, "update", {}, items, items \ {x}, items \ {x})
    BY <2>1, <2>2
  <2> QED BY <1>4, <2>1, <2>3 DEF items
<1>6. CASE handleBulkImport(c)
  <2> DEFINE items == Seen("groups").items
             all == items \cup Items
  <2>1. page = "groups" /\ dlg' = dlg /\ Send(c, "update", {}, items, all, all)
    BY <1>6 DEF handleBulkImport, tab
  <2>2. items \in SUBSET Items /\ all \in SUBSET Items
    BY <1>1, SeenOk
  <2> HIDE DEF items, all
  <2> QED BY <1>1, <1>2, <2>1, <2>2, EditKeeps
<1>7. CASE SaveTextModal(c)
  <2>1. PICK x \in Items \ dlg.base :
          Send(c, "update", {}, dlg.base, dlg.base \cup {x}, handleAddItem(dlg.base, x))
    BY <1>7 DEF SaveTextModal
  <2> DEFINE base == dlg.base
             more == base \cup {x}
  <2>2. Send(c, "update", {}, base, more, more) /\ page = "texts" /\ dlg' = NoDialog
    BY <1>7, <2>1 DEF SaveTextModal, handleAddItem
  <2>3. base \in SUBSET Items /\ more \in SUBSET Items
    BY <1>1 DEF DialogType
  <2> HIDE DEF base, more
  <2> QED BY <1>1, <1>2, <2>2, <2>3, NoDialogOk, EditKeeps
<1>8. CASE ConfirmDrop(c)
  <2>1. dlg.op = "drop" /\ Send(c, "drop", {}, {}, {}, {}) /\ dlg' = NoDialog
    BY <1>8 DEF ConfirmDrop
  <2>2. page \in ListNames
    BY <1>1, <2>1 DEF DialogFits
  <2> QED BY <1>1, <1>2, <2>1, <2>2, NoDialogOk, EditKeeps
<1> QED BY <1>3, <1>5, <1>6, <1>7, <1>8

LEMMA ModalKeeps ==
  ASSUME IInv, OpenTextModal \/ AskDrop
  PROVE  IInv'
<1>1. /\ job' = job /\ list' = list /\ work' = work /\ strays' = strays /\ page' = page /\ cache' = cache /\ rows' = rows
      /\ att' = att /\ stored' = stored /\ ws' = ws /\ own' = own /\ call' = call
      /\ off' = off /\ wanted' = wanted /\ crossed' = crossed /\ faults' = faults /\ clicks' = clicks
      /\ page \in ListNames
  BY DEF OpenTextModal, AskDrop, server, ghosts, ListNames
<1>2. dlg' \in DialogType /\ dlg'.op \in {"update", "drop"}
  <2>1. CASE OpenTextModal
    <3>1. Seen("texts").items \subseteq Items /\ 0 \in 0..MaxJobs
      BY SeenOk, Bounds DEF IInv, Shaped, ListNames
    <3> QED BY <2>1, <3>1 DEF OpenTextModal, DialogType, Ops
  <2>2. CASE AskDrop
    <3>1. dlg' = [NoDialog EXCEPT !.op = "drop"] /\ 0 \in 0..MaxJobs
      BY <2>2, Bounds DEF AskDrop
    <3> QED BY <3>1 DEF NoDialog, DialogType, Ops
  <2> QED BY <2>1, <2>2
<1>3. DialogFits(dlg', page)
  BY <1>1, <1>2 DEF DialogFits, EditOps
<1>4. clicks \in 0..MaxClicks /\ CallsOk(call, job)
  BY DEF IInv, Shaped
<1> QED BY <1>1, <1>2, <1>3, <1>4, DialogKeeps

-----------------------------------------------------------------------------
(* The server reads for a request, and an error is shown *)

LEMMA CheckKeeps ==
  ASSUME IInv, NEW c \in Calls, Check(c)
  PROVE  IInv'
<1> DEFINE k == call[c]
           r == IF Admits(k) THEN [k EXCEPT !.pc = "checked", !.js = Picked(k)]
                ELSE [k EXCEPT !.pc = "answered", !.ans = "failed"]
<1>1. /\ call[c].pc = "sent" /\ call' = [call EXCEPT ![c] = r]
      /\ job' = job /\ list' = list /\ work' = work /\ strays' = strays /\ page' = page /\ cache' = cache /\ rows' = rows
      /\ att' = att /\ stored' = stored /\ ws' = ws /\ own' = own /\ dlg' = dlg
      /\ off' = off /\ wanted' = wanted /\ crossed' = crossed /\ faults' = faults /\ clicks' = clicks
  BY DEF Check, At, server, tab, ghosts
<1>2. k \in CallType /\ CallShape(k) /\ JobsOf(k, job) /\ k.js \subseteq Ids
  BY CallFields DEF IInv, CallsOk, CallOk
<1>3. k.pc = "sent"
  BY <1>1
<1> HIDE DEF k
<1>4. CallOk(r, job)
  <2>1. CASE ~Admits(k)
    <3>1. /\ r = [k EXCEPT !.pc = "answered", !.ans = "failed"]
      BY <2>1
    <3> HIDE DEF r
    <3>2. /\ r \in CallType /\ r.op = k.op /\ r.kind = k.kind /\ r.js = k.js /\ r.pc = "answered"
          /\ r.ans = "failed" /\ r.want = k.want /\ r.send = k.send
      BY <1>2, <3>1 DEF CallType
    <3> QED BY <1>2, <1>3, <3>2 DEF CallOk, CallShape, JobsOf
  <2>2. CASE Admits(k)
    <3> DEFINE js == Picked(k)
    <3>1. js \subseteq Ids
      BY <1>2 DEF Picked, Broadcasts
    <3>2. k.op # "pauseAll" /\ k.op # "stopAll" => js = k.js
      BY DEF Picked
    <3>3. k.op = "pauseAll" => \A j \in js : job[j].st = "running"
      BY DEF Picked, Broadcasts, St
    <3>4. r = [k EXCEPT !.pc = "checked", !.js = js]
      BY <2>2
    <3> HIDE DEF r, js
    <3>5. /\ r \in CallType /\ r.op = k.op /\ r.kind = k.kind /\ r.js = js /\ r.pc = "checked"
          /\ r.ans = k.ans /\ r.want = k.want /\ r.send = k.send
      BY <1>2, <3>1, <3>4 DEF CallType
    <3>6. /\ k.op \in {"start", "retry"} => \A j \in Ids : job[j].st \notin Active
          /\ k.op = "pause" => \A j \in k.js : job[j].st = "running"
          /\ k.op = "resume" => \A j \in k.js : job[j].st = "paused"
      BY <2>2 DEF Admits, Busy, retry_job, resume_job, St
    <3> QED BY <1>2, <1>3, <3>2, <3>3, <3>5, <3>6 DEF CallOk, CallShape, JobsOf
  <2> QED BY <2>1, <2>2
<1> HIDE DEF r
<1>5. \A q \in Queries : ~Owes(call[c], q)
  BY <1>1 DEF Owes
<1>6. CallsOk(call', job) /\ \A q \in Queries : Owed(call, q) => Owed(call', q)
  BY <1>1, <1>4, <1>5, CallKeeps
<1>7. dlg \in DialogType /\ DialogFits(dlg, page) /\ clicks \in 0..MaxClicks
  BY DEF IInv, Shaped
<1> QED BY <1>1, <1>6, <1>7, DialogKeeps

LEMMA AfterCallOk ==
  ASSUME IInv, NEW c
  PROVE  AfterCall(c) \in DialogType /\ DialogFits(AfterCall(c), page)
BY NoDialogOk DEF AfterCall, IInv, Shaped

LEMMA HandleErrorKeeps ==
  ASSUME IInv, NEW c \in Calls, HandleError(c)
  PROVE  IInv'
<1>1. /\ call[c].ans = "failed" /\ call' = [call EXCEPT ![c] = NoCall] /\ dlg' = AfterCall(c)
      /\ job' = job /\ list' = list /\ work' = work /\ strays' = strays /\ page' = page /\ cache' = cache /\ rows' = rows
      /\ att' = att /\ stored' = stored /\ ws' = ws /\ own' = own
      /\ off' = off /\ wanted' = wanted /\ crossed' = crossed /\ faults' = faults /\ clicks' = clicks
  BY DEF HandleError, server, ghosts
<1>2. \A q \in Queries : ~Owes(call[c], q)
  BY <1>1 DEF Owes
<1>3. CallsOk(call', job) /\ \A q \in Queries : Owed(call, q) => Owed(call', q)
  BY <1>1, <1>2, NoCallOk, CallKeeps
<1>4. clicks \in 0..MaxClicks /\ dlg' \in DialogType /\ DialogFits(dlg', page)
  BY <1>1, AfterCallOk DEF IInv, Shaped
<1> QED BY <1>1, <1>3, <1>4, DialogKeeps

-----------------------------------------------------------------------------
(* The jobs move *)

LEMMA MovedTold ==
  ASSUME Told, page' = page, cache' = cache,
         \A q \in Queries : q \notin off' =>
           \/ Owed(call', q)
           \/ /\ q \notin off /\ Of(job', list', q) = Of(job, list, q)
              /\ Owed(call, q) => Owed(call', q)
  PROVE  Told'
<1> SUFFICES ASSUME NEW q \in Queries \ off', ~Owed(call', q)
             PROVE  Fine(cache'[q], Of(job', list', q), q \in Uses(page'))
  BY DEF Told
<1>1. q \notin off /\ Of(job', list', q) = Of(job, list, q) /\ ~Owed(call, q)
  OBVIOUS
<1>2. Fine(cache[q], Of(job, list, q), q \in Uses(page))
  BY <1>1 DEF Told
<1> QED BY <1>1, <1>2

LEMMA ServerKeeps ==
  ASSUME IInv, JobsOk(job'), Moves(job, job'), WorkOk(work', job), strays' \subseteq Ids,
         Counted(job, job', strays, strays'),
         list' \in [ListNames -> ListType], wanted' \in [ListNames -> ListType],
         off' \subseteq Queries, crossed' \subseteq ListNames, ws' \in Statuses, faults' \in 0..MaxFaults,
         page' = page, att' = att, stored' = stored, dlg' = dlg, own' = own, cache' = cache, rows' = rows,
         clicks' = clicks, CallsOk(call', job'), EditsKept', Told'
  PROVE  IInv'
<1>0. WorkOk(work', job')
  BY WorkKeeps
<1>1. Shaped'
  BY <1>0 DEF IInv, Shaped
<1>2. DialogFits(dlg', page')
  BY DEF IInv
<1>3. Unheard(job', rows') /\ ListsFit(cache', job')
  <2>1. Unheard(job, rows) /\ ListsFit(cache, job)
    BY DEF IInv, Known
  <2> QED BY <2>1, UnheardKeeps, ListsKeep
<1>4. own \in 0..MaxJobs /\ OneRuns(strays, job)
      /\ OwnJoins(own, job) /\ GoesOn(strays, job, rows) /\ Remembered(own, job, strays, stored) /\ Unheard(job, rows)
  BY DEF IInv, Shaped, Joins, Known
<1>5. OneRuns(strays', job')
  BY <1>4, OneRunsKeeps
<1>6. OwnJoins(own', job')
  BY <1>4, OwnKeeps
<1>7. GoesOn(strays', job', rows') /\ Remembered(own', job', strays', stored')
  BY <1>4, JoinsKeep
<1> QED BY <1>1, <1>2, <1>3, <1>5, <1>6, <1>7 DEF IInv, Known, Joins

LEMMA LatePoint ==
  ASSUME JobsOk(job), JobsOk(job'), Moves(job, job'), NEW g, DOMAIN g = Calls, NEW d \in Calls, CallOk(g[d], job),
         call' = Late(g)
  PROVE  CallOk(call'[d], job') /\ \A q : Owes(call'[d], q) <=> Owes(g[d], q)
<1> DEFINE ch == Outdated(g[d])
<1>1. call'[d] = IF ch THEN [g[d] EXCEPT !.late = TRUE] ELSE g[d]
  BY DEF Late
<1>2. /\ ch => g[d].pc = "checked"
      /\ g[d].pc = "checked" /\ ~ch => \A j \in Ids : job'[j] = job[j]
           \/ (IF g[d].op \in {"start", "retry"} THEN job'[j].st \notin Active ELSE j \notin g[d].js)
  BY DEF Outdated, Changed
<1>3. ch \in BOOLEAN
  BY DEF Outdated
<1> HIDE DEF ch
<1> QED BY <1>1, <1>2, <1>3, LateOk

LEMMA LateAll ==
  ASSUME JobsOk(job), JobsOk(job'), Moves(job, job'), CallsOk(call, job), call' = Late(call)
  PROVE  CallsOk(call', job') /\ \A q : Owed(call, q) => Owed(call', q)
<1>1. DOMAIN call = Calls
  BY DEF CallsOk
<1>2. \A d \in Calls : CallOk(call'[d], job') /\ \A q : Owes(call'[d], q) <=> Owes(call[d], q)
  BY <1>1, LatePoint DEF CallsOk
<1>3. DOMAIN call' = Calls /\ call' = [d \in Calls |-> call'[d]]
  BY DEF Late
<1>4. CallsOk(call', job')
  BY <1>2, <1>3 DEF CallsOk, CallOk
<1> QED BY <1>2, <1>4 DEF Owed

(* All calls but the one that has been answered. *)
LEMMA LateOthers ==
  ASSUME JobsOk(job), JobsOk(job'), Moves(job, job'), CallsOk(call, job), NEW c \in Calls, NEW r,
         CallOk(r, job'), r.pc = "answered", call' = Late([call EXCEPT ![c] = r]), \A q : ~Owes(call[c], q)
  PROVE  CallsOk(call', job') /\ call'[c] = r /\ \A q : Owed(call, q) => Owed(call', q)
<1> DEFINE g == [call EXCEPT ![c] = r]
<1>1. DOMAIN g = Calls /\ g[c] = r /\ \A d \in Calls : d # c => g[d] = call[d]
  BY DEF CallsOk
<1>2. call' = Late(g)
  OBVIOUS
<1> HIDE DEF g
<1>3. \A d \in Calls : d # c => CallOk(call'[d], job') /\ \A q : Owes(call'[d], q) <=> Owes(call[d], q)
  <2> SUFFICES ASSUME NEW d \in Calls, d # c
               PROVE  CallOk(call'[d], job') /\ \A q : Owes(call'[d], q) <=> Owes(call[d], q)
    OBVIOUS
  <2>1. g[d] = call[d] /\ CallOk(g[d], job)
    BY <1>1 DEF CallsOk
  <2> QED BY <1>1, <1>2, <2>1, LatePoint
<1>4. call'[c] = r
  BY <1>1, <1>2 DEF Late, Outdated
<1>5. DOMAIN call' = Calls /\ call' = [d \in Calls |-> call'[d]]
  BY <1>1, <1>2 DEF Late
<1>6. \A d \in Calls : CallOk(call'[d], job')
  BY <1>3, <1>4
<1>7. CallsOk(call', job')
  BY <1>5, <1>6 DEF CallsOk, CallOk
<1>8. \A q : Owed(call, q) => Owed(call', q)
  BY <1>3 DEF Owed
<1> QED BY <1>4, <1>7, <1>8

LEMMA MovedLists ==
  ASSUME JobsOk(job), JobsOk(job'), Moves(job, job')
  PROVE  /\ ListsOf(Changed) \subseteq Queries
         /\ \A q \in Queries : q \notin ListsOf(Changed) /\ (q \in ListNames => list'[q] = list[q]) =>
              Of(job', list', q) = Of(job, list, q)
<1>1. \A j \in Changed : j \in Ids /\ job'[j].kind \in Kinds
  <2> SUFFICES ASSUME NEW j \in Ids, job'[j] # job[j], job'[j].kind = "none"
               PROVE  FALSE
    BY JobFields DEF Changed, JobsOk
  <2>1. /\ job'[j] \in JobType /\ job[j] \in JobType /\ job[j].kind = "none"
        /\ job'[j].st = "none" /\ job[j].st = "none"
    BY NoneIsNoKind, JobFields DEF JobsOk, Moves
  <2> QED BY <2>1 DEF JobType
<1>2. ListsOf(Changed) \subseteq Queries
  BY <1>1 DEF ListsOf, Queries
<1>3. ASSUME NEW q \in Queries, q \notin ListsOf(Changed), q \in ListNames => list'[q] = list[q]
      PROVE  Of(job', list', q) = Of(job, list, q)
  <2>1. \A j \in Ids : job'[j] = job[j] \/ q \notin InLists(job'[j].kind)
    <3> SUFFICES ASSUME NEW j \in Ids, job'[j] # job[j] PROVE q \notin InLists(job'[j].kind)
      OBVIOUS
    <3>1. j \in Changed
      BY DEF Changed
    <3> QED BY <1>3, <3>1 DEF ListsOf, InLists
  <2> QED BY <1>3, <2>1, OfKeeps
<1> QED BY <1>2, <1>3

-----------------------------------------------------------------------------
(* A request writes and answers *)

LEMMA PromisedIs ==
  ASSUME NEW k
  PROVE  Promised(k) = Refreshes(k) \/ k.kind \notin Kinds \cup ListNames \cup {"admin"}
BY DEF Promised, Refreshes, Kinds, ListNames, useBroadcastHooks, useRetryBroadcastJob, useInviteHooks,
       useAutoJoinHooks, useAutoLeaveHooks, useAdminBroadcastHooks, useGroupListHooks, useTextListHooks

LEMMA RefusedOk ==
  ASSUME NEW k, CallOk(k, job), k.pc = "checked", NEW r, r = [k EXCEPT !.pc = "answered", !.ans = "failed"]
  PROVE  CallOk(r, job)
<1>1. /\ r \in CallType /\ r.op = k.op /\ r.kind = k.kind /\ r.js = k.js /\ r.pc = "answered"
      /\ r.ans = "failed" /\ r.want = k.want /\ r.send = k.send
  BY DEF CallOk, CallType
<1> QED BY <1>1 DEF CallOk, CallShape, JobsOf

LEMMA AnsweredOk ==
  ASSUME JobsOk(job), JobsOk(job'), Moves(job, job'), NEW k, CallOk(k, job), k.pc = "checked",
         NEW a \in {"done", "failed"},
         a = "done" /\ k.op = "start" => \E j \in Ids : job'[j].kind = k.kind /\ \A i \in Ids : job'[i] # job[i] <=> i = j,
         NEW r, r = Answered(k, a)
  PROVE  /\ CallOk(r, job') /\ r.pc = "answered"
         /\ a = "done" => \A q : Owes(r, q) <=> q \in Refreshes(k)
<1>1. k \in CallType /\ CallShape(k) /\ JobsOf(k, job) /\ k.js \subseteq Ids /\ Changed \subseteq Ids
  BY CallFields DEF CallOk, Changed
<1> DEFINE js == IF k.op = "start" THEN Changed ELSE k.js
<1>2. js \subseteq Ids /\ r = [k EXCEPT !.pc = "answered", !.ans = a, !.js = js]
  BY <1>1 DEF Answered
<1>3. k.op # "start" => js = k.js
  OBVIOUS
<1>4. a = "done" /\ k.op = "start" => \E j \in Ids : js = {j} /\ job'[j].kind = k.kind
  <2> SUFFICES ASSUME a = "done", k.op = "start" PROVE \E j \in Ids : js = {j} /\ job'[j].kind = k.kind
    OBVIOUS
  <2>1. PICK j \in Ids : job'[j].kind = k.kind /\ \A i \in Ids : job'[i] # job[i] <=> i = j
    OBVIOUS
  <2>2. Changed = {j}
    BY <2>1 DEF Changed
  <2> QED BY <2>1, <2>2
<1> HIDE DEF js
<1>5. /\ r \in CallType /\ r.op = k.op /\ r.kind = k.kind /\ r.js = js /\ r.pc = "answered"
      /\ r.ans = a /\ r.want = k.want /\ r.send = k.send
  BY <1>1, <1>2 DEF CallType
<1>6. CallShape(r)
  BY <1>1, <1>3, <1>4, <1>5 DEF CallShape
<1>7. k.op = "retry" => \A j \in k.js : job'[j].kind \in {"broadcast", "invite"}
  BY <1>1 DEF JobsOf, Moves
<1>8. JobsOf(r, job')
  BY <1>3, <1>4, <1>5, <1>7 DEF JobsOf
<1>9. Refreshes(r) = Refreshes(k)
  BY <1>5 DEF Refreshes
<1> QED BY <1>5, <1>6, <1>8, <1>9 DEF CallOk, Owes

LEMMA ListWritten ==
  ASSUME IInv, NEW k, CallOk(k, job), k.pc = "checked",
         k.kind \in ListNames \ {"create"} => (k.op = "create" \/ list[k.kind].there),
         list' = IF k.kind \in ListNames THEN [list EXCEPT ![k.kind] = NewList(k)] ELSE list,
         wanted' = IF k.kind \in ListNames THEN [wanted EXCEPT ![k.kind] = Meant(k, @)] ELSE wanted,
         crossed' = IF k.op = "update" /\ list[k.kind].items # k.base THEN crossed \cup {k.kind} ELSE crossed
  PROVE  /\ list' \in [ListNames -> ListType] /\ wanted' \in [ListNames -> ListType] /\ crossed' \subseteq ListNames
         /\ EditsKept'
         /\ \A l \in ListNames : l # k.kind => list'[l] = list[l]
<1>1. /\ list \in [ListNames -> ListType] /\ wanted \in [ListNames -> ListType] /\ crossed \subseteq ListNames
      /\ EditsKept
  BY DEF IInv, Shaped
<1>2. k \in CallType /\ (k.op \in EditOps <=> k.kind \in ListNames) /\ (k.op = "update" => k.send = k.want)
  BY DEF CallOk, CallShape
<1>3. k.base \subseteq Items /\ k.want \subseteq Items /\ k.send \subseteq Items
  BY <1>2, CallFields
<1>4. CASE k.kind \notin ListNames
  <2>1. list' = list /\ wanted' = wanted /\ crossed' = crossed
    BY <1>2, <1>4 DEF EditOps
  <2> QED BY <1>1, <1>4, <2>1 DEF EditsKept
<1>5. CASE k.kind \in ListNames
  <2> DEFINE l == k.kind
             n == NewList(k)
             w == Meant(k, wanted[l])
  <2>1. k.op \in {"create", "update", "drop"}
    BY <1>2, <1>5 DEF EditOps
  <2>2. n \in ListType
    BY <1>3, <2>1 DEF NewList, NoList, ListType
  <2>3. wanted[l] \in ListType
    BY <1>1, <1>5
  <2>4. w \in ListType
    <3>1. CASE k.op = "update"
      BY <1>3, <2>3, <3>1 DEF Meant, ListType
    <3>2. CASE k.op # "update"
      BY <2>2, <3>2 DEF Meant
    <3> QED BY <3>1, <3>2
  <2>5. k.op = "update" /\ list[l].items = k.base /\ list[l] = wanted[l] => n = w
    <3> SUFFICES ASSUME k.op = "update", list[l].items = k.base, list[l] = wanted[l] PROVE n = w
      OBVIOUS
    <3>1. n = [there |-> TRUE, items |-> k.want]
      BY <1>2, <2>1, <1>5 DEF NewList
    <3>2. w = [there |-> TRUE, items |-> (k.base \ (k.base \ k.want)) \cup (k.want \ k.base)]
      BY DEF Meant
    <3>3. (k.base \ (k.base \ k.want)) \cup (k.want \ k.base) = k.want
      OBVIOUS
    <3> QED BY <3>1, <3>2, <3>3
  <2>6. k.op # "update" => n = w
    BY DEF Meant
  <2>7. list' = [list EXCEPT ![l] = n] /\ wanted' = [wanted EXCEPT ![l] = w]
    BY <1>5
  <2>8. l \notin crossed' => l \notin crossed /\ (k.op = "update" => list[l].items = k.base)
    BY <1>5
  <2>c. crossed \subseteq crossed' /\ crossed' \subseteq crossed \cup {l} /\ l \in ListNames
    BY <1>5
  <2> HIDE DEF l, n, w
  <2>9. /\ list' \in [ListNames -> ListType] /\ wanted' \in [ListNames -> ListType]
        /\ list'[l] = n /\ wanted'[l] = w
        /\ \A m \in ListNames : m # l => list'[m] = list[m] /\ wanted'[m] = wanted[m]
    BY <1>1, <2>2, <2>4, <2>7, <2>c
  <2>10. l \notin crossed' => n = w
    BY <1>1, <2>5, <2>6, <2>8, <2>c DEF EditsKept
  <2>11. EditsKept'
    <3> SUFFICES ASSUME NEW m \in ListNames \ crossed' PROVE list'[m] = wanted'[m]
      BY DEF EditsKept
    <3>1. CASE m = l
      BY <2>9, <2>10, <3>1
    <3>2. CASE m # l
      BY <1>1, <2>9, <2>c, <3>2 DEF EditsKept
    <3> QED BY <3>1, <3>2
  <2> QED BY <1>1, <2>9, <2>11, <2>c DEF l
<1> QED BY <1>4, <1>5

(* The two outcomes of a write that the server's lists have seen. *)
LEMMA WroteKeeps ==
  ASSUME IInv, NEW c \in Calls, NEW k, k = call[c], k.pc = "checked",
         JobsOk(job'), Moves(job, job'), WorkOk(work', job), NEW ms \in SUBSET Ids, Marks(ms), Grows(job, job') \/ Changed \subseteq ms,
         list' \in [ListNames -> ListType], wanted' \in [ListNames -> ListType], crossed' \subseteq ListNames,
         EditsKept', \A l \in ListNames : l # k.kind => list'[l] = list[l],
         NEW a \in {"done", "failed"},
         a = "done" /\ k.op = "start" => \E j \in Ids : job'[j].kind = k.kind /\ \A i \in Ids : job'[i] # job[i] <=> i = j,
         call' = Late([call EXCEPT ![c] = Answered(k, a)]),
         NEW told, told \in IF a = "done" THEN {{}, Promised(k)} ELSE {{}},
         off' = off \cup ((ListsOf(Changed) \cup ({k.kind} \cap ListNames)) \ told),
         page' = page, att' = att, stored' = stored, ws' = ws, dlg' = dlg, own' = own, cache' = cache, rows' = rows,
         clicks' = clicks, faults' \in 0..MaxFaults
  PROVE  IInv'
<1>1. /\ JobsOk(job) /\ CallsOk(call, job) /\ off \subseteq Queries /\ strays \subseteq Ids /\ ws \in Statuses /\ Told
  BY DEF IInv, Shaped
<1>2. CallOk(k, job) /\ k \in CallType /\ k.late \in BOOLEAN /\ k.kind \in Kinds \cup ListNames \cup {"admin"}
  BY <1>1, CallFields DEF CallsOk, CallOk
<1> DEFINE r == Answered(k, a)
<1>3. /\ CallOk(r, job') /\ r.pc = "answered" /\ (a = "done" => \A q : Owes(r, q) <=> q \in Refreshes(k))
  BY <1>1, <1>2, AnsweredOk
<1>4. call' = Late([call EXCEPT ![c] = r])
  OBVIOUS
<1> HIDE DEF r
<1>5. \A q : ~Owes(call[c], q)
  BY DEF Owes
<1>6. CallsOk(call', job') /\ call'[c] = r /\ \A q : Owed(call, q) => Owed(call', q)
  BY <1>1, <1>3, <1>4, <1>5, LateOthers
<1>7. /\ ListsOf(Changed) \subseteq Queries
      /\ \A q \in Queries : q \notin ListsOf(Changed) /\ (q \in ListNames => list'[q] = list[q]) =>
           Of(job', list', q) = Of(job, list, q)
  BY <1>1, MovedLists
<1>8. off' \subseteq Queries
  BY <1>1, <1>7 DEF Queries
<1>9. \A q \in Queries : q \notin off' => Owed(call', q)
                                          \/ (q \notin off /\ Of(job', list', q) = Of(job, list, q)
                                              /\ (Owed(call, q) => Owed(call', q)))
  <2> SUFFICES ASSUME NEW q \in Queries, q \notin off'
               PROVE  Owed(call', q)
                      \/ (q \notin off /\ Of(job', list', q) = Of(job, list, q) /\ (Owed(call, q) => Owed(call', q)))
    OBVIOUS
  <2>1. CASE q \in told
    <3>1. a = "done" /\ q \in Refreshes(k)
      BY <1>2, <2>1, PromisedIs
    <3> QED BY <1>3, <1>6, <3>1 DEF Owed
  <2>2. CASE q \notin told
    <3>1. q \notin off /\ q \notin ListsOf(Changed) /\ (q \in ListNames => q # k.kind)
      BY <2>2
    <3> QED BY <1>6, <1>7, <3>1
  <2> QED BY <2>1, <2>2
<1>10. Told'
  BY <1>1, <1>9, MovedTold
<1>11. strays' \subseteq Ids /\ Counted(job, job', strays, strays')
  BY <1>1, MarksOk
<1> QED BY <1>1, <1>6, <1>8, <1>10, <1>11, ServerKeeps

LEMMA WriteKeeps ==
  ASSUME IInv, NEW c \in Calls, Write(c)
  PROVE  IInv'
<1> DEFINE k == call[c]
           gone == \E j \in k.js : St(j) = "none"
           full == k.op = "start" /\ Unused = {}
<1>1. /\ JobsOk(job) /\ CallsOk(call, job) /\ faults \in 0..MaxFaults /\ list \in [ListNames -> ListType]
      /\ wanted \in [ListNames -> ListType] /\ crossed \subseteq ListNames /\ EditsKept
      /\ clicks \in 0..MaxClicks /\ dlg \in DialogType /\ DialogFits(dlg, page) /\ WorkOk(work, job)
  BY DEF IInv, Shaped
<1>2. CallOk(k, job) /\ k \in CallType /\ k.js \subseteq Ids
  BY <1>1, CallFields DEF CallsOk, CallOk
<1>3. /\ k.pc = "checked"
      /\ page' = page /\ att' = att /\ stored' = stored /\ ws' = ws /\ dlg' = dlg /\ own' = own
      /\ cache' = cache /\ rows' = rows /\ clicks' = clicks
  BY DEF Write, At, tab
<1>4. CASE /\ call' = [call EXCEPT ![c] = [k EXCEPT !.pc = "answered", !.ans = "failed"]]
           /\ UNCHANGED <<server, off, wanted, crossed, faults>>
  <2> DEFINE r == [k EXCEPT !.pc = "answered", !.ans = "failed"]
  <2>1. CallOk(r, job)
    BY <1>2, <1>3, RefusedOk
  <2>2. call' = [call EXCEPT ![c] = r]
    BY <1>4
  <2>3. \A q \in Queries : ~Owes(call[c], q)
    BY <1>3 DEF Owes
  <2> HIDE DEF r, k
  <2>4. CallsOk(call', job) /\ \A q \in Queries : Owed(call, q) => Owed(call', q)
    BY <2>1, <2>2, <2>3, CallKeeps
  <2>5. /\ job' = job /\ list' = list /\ work' = work /\ strays' = strays /\ off' = off /\ wanted' = wanted /\ crossed' = crossed
        /\ faults' = faults
    BY <1>4 DEF server
  <2> QED BY <1>1, <1>3, <2>4, <2>5, DialogKeeps
<1> DEFINE answer(a) == [call EXCEPT ![c] = Answered(k, a)]
<1>5. CASE /\ ~gone /\ ~full
           /\ k.kind \in ListNames \ {"create"} => (k.op = "create" \/ list[k.kind].there)
           /\ job' \in Written(k)
           /\ list' = IF k.kind \in ListNames THEN [list EXCEPT ![k.kind] = NewList(k)] ELSE list
           /\ wanted' = IF k.kind \in ListNames THEN [wanted EXCEPT ![k.kind] = Meant(k, @)] ELSE wanted
           /\ crossed' = IF k.op = "update" /\ list[k.kind].items # k.base THEN crossed \cup {k.kind} ELSE crossed
           /\ work' = enqueue_job(k) /\ Marks(IF k.late THEN Changed ELSE {})
           /\ \/ call' = Late(answer("done")) /\ UNCHANGED faults
                 /\ off' = off \cup ((ListsOf(Changed) \cup ({k.kind} \cap ListNames)) \ Promised(k))
              \/ Fault /\ call' = Late(answer("failed"))
                 /\ off' = off \cup ListsOf(Changed) \cup ({k.kind} \cap ListNames)
  <2> HIDE DEF k
  <2>1. Fits(k, job')
    BY <1>1, <1>2, <1>3, <1>5, WrittenFits
  <2>2. /\ JobsOk(job') /\ Moves(job, job') /\ (k.late \/ Grows(job, job'))
        /\ k.op = "start" => \E j \in Ids : job'[j].kind = k.kind /\ \A i \in Ids : job'[i] # job[i] <=> i = j
    BY <2>1 DEF Fits
  <2>3. /\ list' \in [ListNames -> ListType] /\ wanted' \in [ListNames -> ListType] /\ crossed' \subseteq ListNames
        /\ EditsKept'
        /\ \A l \in ListNames : l # k.kind => list'[l] = list[l]
    BY <1>2, <1>3, <1>5, ListWritten
  <2> DEFINE ms == IF k.late THEN Changed ELSE {}
  <2>4. WorkOk(work', job) /\ k = call[c]
    BY <1>1, <1>5, EnqueueOk DEF k
  <2>m. ms \in SUBSET Ids /\ Marks(ms) /\ (Grows(job, job') \/ Changed \subseteq ms)
    BY <1>5, <2>2 DEF Changed
  <2> HIDE DEF ms
  <2>5. CASE call' = Late(answer("done")) /\ UNCHANGED faults
             /\ off' = off \cup ((ListsOf(Changed) \cup ({k.kind} \cap ListNames)) \ Promised(k))
    <3> DEFINE told == Promised(k)
               a == "done"
    <3>1. told \in IF a = "done" THEN {{}, Promised(k)} ELSE {{}}
      OBVIOUS
    <3>2. off' = off \cup ((ListsOf(Changed) \cup ({k.kind} \cap ListNames)) \ told)
      BY <2>5
    <3>3. call' = Late([call EXCEPT ![c] = Answered(k, a)])
      BY <2>5
    <3>4. faults' \in 0..MaxFaults /\ a \in {"done", "failed"}
      BY <1>1, <2>5
    <3> HIDE DEF told, a
    <3> QED BY <1>3, <2>2, <2>3, <2>4, <2>m, <3>1, <3>2, <3>3, <3>4, WroteKeeps
  <2>6. CASE Fault /\ call' = Late(answer("failed"))
             /\ off' = off \cup ListsOf(Changed) \cup ({k.kind} \cap ListNames)
    <3> DEFINE told == {}
               a == "failed"
    <3>1. told \in IF a = "done" THEN {{}, Promised(k)} ELSE {{}}
      OBVIOUS
    <3>2. off' = off \cup ((ListsOf(Changed) \cup ({k.kind} \cap ListNames)) \ told)
      BY <2>6
    <3>3. call' = Late([call EXCEPT ![c] = Answered(k, a)])
      BY <2>6
    <3>4. faults' \in 0..MaxFaults /\ a \in {"done", "failed"}
      BY <1>1, <2>6, FaultOk
    <3> HIDE DEF told, a
    <3> QED BY <1>3, <2>2, <2>3, <2>4, <2>m, <3>1, <3>2, <3>3, <3>4, WroteKeeps
  <2> QED BY <1>5, <2>5, <2>6
<1>6. CASE /\ k.op \in {"start", "retry"} /\ ~gone /\ ~full /\ Fault
           /\ \E w \in Written(k) : job' = [j \in Ids |-> IF w[j] # job[j] THEN [w[j] EXCEPT !.st = "failed"] ELSE w[j]]
           /\ work' \in {work, enqueue_job(k)} /\ Marks({})
           /\ call' = Late(answer("failed")) /\ off' = off \cup ListsOf(Changed)
           /\ UNCHANGED <<list, wanted, crossed>>
  <2> HIDE DEF k
  <2>1. PICK w \in Written(k) : job' = [j \in Ids |-> IF w[j] # job[j] THEN [w[j] EXCEPT !.st = "failed"] ELSE w[j]]
    BY <1>6
  <2>2. Fits(k, w)
    BY <1>1, <1>2, <1>3, <1>6, WrittenFits
  <2>3. \A j \in Ids : w[j] # job[j] => w[j].kind # "none"
    <3>1. CASE k.op = "start"
      <4>1. \A j \in Ids : w[j] # job[j] => w[j].kind = k.kind
        BY <2>2, <3>1 DEF Fits
      <4>2. k.kind \in Kinds
        BY <1>2, <3>1 DEF CallOk, CallShape
      <4> QED BY <4>1, <4>2, NoneIsNoKind
    <3>2. CASE k.op = "retry"
      <4>1. w = Steered(k)
        BY <3>2 DEF Written
      <4>2. \A j \in Ids : w[j] # job[j] => j \in k.js
        BY <4>1 DEF Steered
      <4>3. \A j \in k.js : job[j].kind # "none"
        BY <1>2, <3>2 DEF CallOk, JobsOf
      <4> QED BY <2>2, <4>2, <4>3 DEF Fits, Moves
    <3> QED BY <1>6, <3>1, <3>2
  <2>4. JobsOk(job') /\ Moves(job, job') /\ Grows(job, job')
    BY <1>1, <2>1, <2>2, <2>3, FailedFits
  <2>5. k.kind \notin ListNames
    BY <1>2, <1>3, <1>6 DEF CallOk, CallShape, EditOps
  <2> DEFINE told == {}
             a == "failed"
  <2>6. told \in IF a = "done" THEN {{}, Promised(k)} ELSE {{}}
    OBVIOUS
  <2>7. off' = off \cup ((ListsOf(Changed) \cup ({k.kind} \cap ListNames)) \ told)
    BY <1>6, <2>5
  <2>8. call' = Late([call EXCEPT ![c] = Answered(k, a)])
    BY <1>6
  <2>9. /\ faults' \in 0..MaxFaults /\ a \in {"done", "failed"}
        /\ a = "done" /\ k.op = "start" => \E j \in Ids : job'[j].kind = k.kind /\ \A i \in Ids : job'[i] # job[i] <=> i = j
    BY <1>1, <1>6, FaultOk
  <2>10. /\ list' \in [ListNames -> ListType] /\ wanted' \in [ListNames -> ListType] /\ crossed' \subseteq ListNames
         /\ EditsKept' /\ \A l \in ListNames : list'[l] = list[l]
    BY <1>1, <1>6 DEF EditsKept
  <2> DEFINE ms == {}
  <2>11. WorkOk(work', job) /\ ms \in SUBSET Ids /\ Marks(ms) /\ k = call[c]
    BY <1>1, <1>6, EnqueueOk DEF k
  <2> HIDE DEF told, a, ms
  <2> QED BY <1>3, <2>4, <2>6, <2>7, <2>8, <2>9, <2>10, <2>11, WroteKeeps
<1> QED BY <1>4, <1>5, <1>6 DEF Write

-----------------------------------------------------------------------------
(* The worker, and the other tab *)

LEMMA StatusesAre ==
  /\ {"none", "pending", "running", "paused", "completed", "cancelled", "failed"} \subseteq Statuses
  /\ {"pending", "running", "paused"} = Active /\ {"completed", "cancelled", "failed"} = Terminal
BY DEF Statuses, Active, Terminal

(* The worker writes a status; ms are the jobs it marks.                   *)
LEMMA WorkerKeeps ==
  ASSUME IInv, NEW j \in Ids, NEW st \in Statuses, St(j) # "none", WorkerSets(j, st), WorkOk(work', job),
         NEW ms \in SUBSET Ids, Marks(ms), st \notin Active \/ St(j) \in Active \/ j \in ms,
         ws' \in Statuses, faults' \in 0..MaxFaults
  PROVE  IInv'
<1>1. /\ JobsOk(job) /\ CallsOk(call, job) /\ off \subseteq Queries /\ Told /\ EditsKept /\ strays \subseteq Ids
      /\ list \in [ListNames -> ListType] /\ wanted \in [ListNames -> ListType] /\ crossed \subseteq ListNames
  BY DEF IInv, Shaped
<1>2. /\ call' = Late(call) /\ off' = off \cup ListsOf(Changed) /\ list' = list /\ page' = page /\ att' = att
      /\ stored' = stored /\ dlg' = dlg /\ cache' = cache /\ rows' = rows /\ own' = own
      /\ wanted' = wanted /\ crossed' = crossed /\ clicks' = clicks
  BY DEF WorkerSets
<1> DEFINE r == [job[j] EXCEPT !.st = st]
<1>3. job' = [job EXCEPT ![j] = r]
  BY DEF WorkerSets
<1>4. r \in JobType /\ r.st = st /\ r.kind = job[j].kind
  <2>1. job[j] \in JobType
    BY <1>1 DEF JobsOk
  <2> QED BY <2>1, JobSet
<1> HIDE DEF r
<1>5. job \in [Ids -> JobType] /\ job[j].kind # "none"
  BY <1>1 DEF JobsOk, St
<1>6. job' \in [Ids -> JobType] /\ job'[j] = r /\ \A i \in Ids : i # j => job'[i] = job[i]
  BY <1>3, <1>4, <1>5
<1>7. JobsOk(job') /\ Moves(job, job')
  BY <1>1, <1>4, <1>5, <1>6 DEF JobsOk, Moves
<1>8. Grows(job, job') \/ Changed \subseteq ms
  BY <1>4, <1>6 DEF Grows, St, Changed
<1>9. CallsOk(call', job') /\ \A q : Owed(call, q) => Owed(call', q)
  BY <1>1, <1>2, <1>7, LateAll
<1>10. /\ ListsOf(Changed) \subseteq Queries
       /\ \A q \in Queries : q \notin ListsOf(Changed) => Of(job', list', q) = Of(job, list, q)
  BY <1>1, <1>2, <1>7, MovedLists
<1>11. Told'
  BY <1>1, <1>2, <1>9, <1>10, MovedTold
<1>12. EditsKept'
  BY <1>1, <1>2 DEF EditsKept
<1>13. /\ off' \subseteq Queries /\ list' \in [ListNames -> ListType] /\ wanted' \in [ListNames -> ListType]
       /\ crossed' \subseteq ListNames
  BY <1>1, <1>2, <1>10
<1>14. strays' \subseteq Ids /\ Counted(job, job', strays, strays')
  BY <1>1, <1>8, MarksOk
<1> QED BY <1>2, <1>7, <1>9, <1>11, <1>12, <1>13, <1>14, ServerKeeps

(* The worker reads, or leaves off. *)
LEMMA ReadsKeep ==
  ASSUME IInv, WorkerReads, WorkOk(work', job), faults' \in 0..MaxFaults
  PROVE  IInv'
<1>1. /\ JobsOk(job) /\ CallsOk(call, job) /\ Told /\ EditsKept /\ strays \subseteq Ids
      /\ off \subseteq Queries /\ list \in [ListNames -> ListType] /\ wanted \in [ListNames -> ListType]
      /\ crossed \subseteq ListNames /\ ws \in Statuses
  BY DEF IInv, Shaped
<1>2. /\ job' = job /\ list' = list /\ strays' = strays /\ page' = page /\ att' = att
      /\ stored' = stored /\ ws' = ws /\ dlg' = dlg /\ cache' = cache /\ rows' = rows /\ call' = call
      /\ off' = off /\ own' = own /\ wanted' = wanted /\ crossed' = crossed /\ clicks' = clicks
  BY DEF WorkerReads, tab, ghosts
<1>3. Moves(job, job) /\ Counted(job, job, strays, strays)
  BY DEF Moves, Counted
<1>4. Told'
  BY <1>1, <1>2, MovedTold
<1>5. EditsKept'
  BY <1>1, <1>2 DEF EditsKept
<1> QED BY <1>1, <1>2, <1>3, <1>4, <1>5, ServerKeeps

LEMMA WorkIs ==
  ASSUME IInv
  PROVE  /\ WorkOk(work, job) /\ ws \in Statuses /\ faults \in 0..MaxFaults
         /\ \A j \in Ids : St(j) \in Statuses /\ (St(j) # "none" => job[j].kind # "none")
BY JobFields DEF IInv, Shaped, JobsOk, St

LEMMA TakeKeeps ==
  ASSUME IInv, NEW j \in Ids, Take(j)
  PROVE  IInv'
<1>1. WorkOk(work, job) /\ faults \in 0..MaxFaults /\ St(j) \in Statuses /\ (St(j) # "none" => job[j].kind # "none")
  BY WorkIs
<1>2. work[j].queued > 0 /\ WorkerReads /\ faults' = faults
  BY DEF Take
<1>3. work[j].queued \in Nat /\ work[j].task \in {"off", "begun", "on", "ending"} /\ work[j].saw \in Statuses
  BY <1>1, WorkFields
<1>4. work[j].queued - 1 \in Nat
  BY <1>2, <1>3
<1> DEFINE fit == work[j].task = "off" /\ Startable(job[j].kind, St(j))
           e == IF fit THEN [queued |-> work[j].queued - 1, task |-> "begun", saw |-> St(j)]
                ELSE [queued |-> work[j].queued - 1, task |-> work[j].task, saw |-> work[j].saw]
<1>5. work' = [work EXCEPT ![j] = e]
  BY DEF Take
<1>6. e \in TaskType
  BY <1>1, <1>3, <1>4 DEF TaskType
<1>7. e.task = "begun" => job[j].kind # "none" /\ (job[j].kind = "leave" \/ e.saw \notin {"cancelled", "completed"})
  <2>1. CASE fit
    BY <1>1, <2>1 DEF Startable
  <2>2. CASE ~fit
    <3>1. e.task = work[j].task /\ e.saw = work[j].saw
      BY <2>2
    <3> HIDE DEF e, fit
    <3> QED BY <1>1, <3>1 DEF WorkOk
  <2> QED BY <2>1, <2>2
<1> HIDE DEF e
<1>8. WorkOk(work', job)
  BY <1>1, <1>5, <1>6, <1>7, WorkSet
<1> QED BY <1>1, <1>2, <1>8, ReadsKeep

LEMMA BeginKeeps ==
  ASSUME IInv, NEW j \in Ids, Begin(j)
  PROVE  IInv'
<1>1. /\ work[j].task = "begun" /\ St(j) # "none" /\ Task(j, "on", "none") /\ ws' = ws /\ faults' = faults
      /\ Marks({i \in {j} : St(i) \in Terminal})
  BY DEF Begin
<1>2. /\ WorkOk(work, job) /\ ws \in Statuses /\ faults \in 0..MaxFaults /\ St(j) \in Statuses
  BY WorkIs
<1>3. PICK st \in Statuses : WorkerSets(j, st)
  <2>1. PICK s \in FirstWritten(job[j].kind) :
          WorkerSets(j, IF s = work[j].saw /\ job[j].kind # "leave" THEN St(j) ELSE s)
    BY DEF Begin
  <2> DEFINE t == IF s = work[j].saw /\ job[j].kind # "leave" THEN St(j) ELSE s
  <2>2. t \in Statuses
    BY <1>2, StatusesAre DEF FirstWritten
  <2> QED BY <2>1, <2>2
<1>4. WorkOk(work', job)
  BY <1>1, <1>2, TaskOk
<1> DEFINE ms == {i \in {j} : St(i) \in Terminal}
<1>5. ms \in SUBSET Ids /\ Marks(ms) /\ (St(j) \in Active \/ j \in ms)
  BY <1>1, <1>2 DEF Statuses
<1> HIDE DEF ms
<1> QED BY <1>1, <1>2, <1>3, <1>4, <1>5, WorkerKeeps

LEMMA EndReadKeeps ==
  ASSUME IInv, NEW j \in Ids, EndRead(j)
  PROVE  IInv'
<1>1. Task(j, "ending", "none") /\ WorkerReads /\ faults' = faults
  BY DEF EndRead
<1> QED BY <1>1, WorkIs, TaskOk, ReadsKeep

LEMMA EndWriteKeeps ==
  ASSUME IInv, NEW j \in Ids, EndWrite(j)
  PROVE  IInv'
<1>1. /\ St(j) # "none" /\ WorkerSets(j, "completed") /\ Task(j, "off", "none") /\ Marks({})
      /\ ws' \in {ws, Heard(j, "completed")} /\ faults' = faults
  BY DEF EndWrite
<1>2. WorkOk(work, job) /\ ws \in Statuses /\ faults \in 0..MaxFaults
  BY WorkIs
<1>3. ws' \in Statuses /\ WorkOk(work', job)
  BY <1>1, <1>2, StatusesAre, TaskOk DEF Heard
<1>4. "completed" \in Statuses /\ "completed" \notin Active
  BY StatusesAre
<1> QED BY <1>1, <1>2, <1>3, <1>4, WorkerKeeps

LEMMA BreaksKeeps ==
  ASSUME IInv, NEW j \in Ids, Breaks(j)
  PROVE  IInv'
<1>1. St(j) # "none" /\ Fault /\ Task(j, "off", "none") /\ ws' = ws
  BY DEF Breaks
<1>2. PICK st \in {"failed", "paused"}, ms \in {{}, {i \in {j} : St(i) \in Terminal}} :
        WorkerSets(j, st) /\ Marks(ms) /\ (st = "failed" \/ ms = {i \in {j} : St(i) \in Terminal})
  BY DEF Breaks
<1>3. WorkOk(work, job) /\ ws \in Statuses /\ faults \in 0..MaxFaults /\ St(j) \in Statuses
  BY WorkIs
<1>4. faults' \in 0..MaxFaults /\ WorkOk(work', job)
  BY <1>1, <1>3, FaultOk, TaskOk
<1>5. ms \in SUBSET Ids /\ st \in Statuses /\ (st \notin Active \/ St(j) \in Active \/ j \in ms)
  <2>1. st = "failed" => st \notin Active
    BY StatusesAre
  <2>2. ms = {i \in {j} : St(i) \in Terminal} => St(j) \in Active \/ j \in ms
    BY <1>1, <1>3 DEF Statuses
  <2> QED BY <1>2, <2>1, <2>2, StatusesAre
<1> QED BY <1>1, <1>2, <1>3, <1>4, <1>5, WorkerKeeps

LEMMA HaltKeeps ==
  ASSUME IInv, NEW j \in Ids, Halt(j)
  PROVE  IInv'
<1>1. WorkOk(work, job) /\ ws \in Statuses /\ faults \in 0..MaxFaults
  BY WorkIs
<1>2. Task(j, "off", "none") /\ (faults' = faults \/ Fault)
  BY DEF Halt
<1>3. faults' \in 0..MaxFaults /\ WorkOk(work', job)
  BY <1>1, <1>2, FaultOk, TaskOk
<1>4. CASE WorkerReads
  BY <1>3, <1>4, ReadsKeep
<1>5. CASE St(j) # "none" /\ WorkerSets(j, "cancelled") /\ Marks({}) /\ ws' = ws
  <2>1. "cancelled" \in Statuses /\ "cancelled" \notin Active
    BY StatusesAre
  <2> QED BY <1>1, <1>3, <1>5, <2>1, WorkerKeeps
<1> QED BY <1>4, <1>5 DEF Halt

LEMMA RecoverKeeps ==
  ASSUME IInv, NEW j \in Ids, Recover(j)
  PROVE  IInv'
<1>1. /\ WorkerReads /\ faults' = faults /\ work[j].task = "off"
      /\ work' = [work EXCEPT ![j].queued = 1]
  BY DEF Recover
<1>2. WorkOk(work, job) /\ faults \in 0..MaxFaults
  BY WorkIs
<1> DEFINE e == [work[j] EXCEPT !.queued = 1]
<1>3. work[j] \in TaskType
  BY <1>2, WorkFields
<1>4. e \in TaskType /\ e.task = "off"
  BY <1>1, <1>3 DEF TaskType
<1>5. work' = [work EXCEPT ![j] = e]
  BY <1>1, <1>3 DEF TaskType
<1> HIDE DEF e
<1>6. WorkOk(work', job)
  BY <1>2, <1>4, <1>5, WorkSet
<1> QED BY <1>1, <1>2, <1>6, ReadsKeep

LEMMA OtherEditKeeps ==
  ASSUME IInv, NEW l \in ListNames, OtherEdit(l)
  PROVE  IInv'
<1>1. /\ JobsOk(job) /\ CallsOk(call, job) /\ Told /\ strays \subseteq Ids /\ WorkOk(work, job)
      /\ off \subseteq Queries /\ list \in [ListNames -> ListType]
      /\ crossed \subseteq ListNames /\ ws \in Statuses /\ faults \in 0..MaxFaults
  BY DEF IInv, Shaped
<1>2. /\ Fault /\ job' = job /\ work' = work /\ strays' = strays /\ page' = page /\ att' = att
      /\ stored' = stored /\ ws' = ws /\ dlg' = dlg /\ cache' = cache /\ rows' = rows /\ call' = call
      /\ off' = off \cup {l} /\ own' = own /\ wanted' = list' /\ crossed' = crossed /\ clicks' = clicks
  BY DEF OtherEdit, tab
<1>3. PICK s \in SUBSET Items : list' = [list EXCEPT ![l].items = s]
  BY DEF OtherEdit
<1>4. list' \in [ListNames -> ListType] /\ \A m \in ListNames : m # l => list'[m] = list[m]
  <2> DEFINE e == [list[l] EXCEPT !.items = s]
  <2>1. e \in ListType
    <3>1. list[l] \in ListType
      BY <1>1
    <3> QED BY <3>1 DEF ListType
  <2>2. list' = [list EXCEPT ![l] = e]
    BY <1>3
  <2> HIDE DEF e
  <2> QED BY <1>1, <2>1, <2>2
<1>5. faults' \in 0..MaxFaults
  BY <1>1, <1>2, FaultOk
<1>6. Moves(job, job) /\ Counted(job, job, strays, strays) /\ JobsOk(job') /\ CallsOk(call', job')
  BY <1>1, <1>2 DEF Moves, Counted
<1>7. \A q \in Queries : q # l => Of(job, list', q) = Of(job, list, q)
  BY <1>1, <1>4, <1>6, OfKeeps
<1>8. Told'
  BY <1>1, <1>2, <1>7, MovedTold
<1>9. EditsKept'
  BY <1>2 DEF EditsKept
<1>10. off' \subseteq Queries /\ l \in Queries
  BY <1>1, <1>2 DEF Queries
<1>11. wanted' \in [ListNames -> ListType] /\ crossed' \subseteq ListNames
  BY <1>1, <1>2, <1>4
<1> QED BY <1>1, <1>2, <1>4, <1>5, <1>6, <1>8, <1>9, <1>10, <1>11, ServerKeeps

-----------------------------------------------------------------------------
(* The client reads *)

LEMMA ClientKeeps ==
  ASSUME IInv, job' = job, list' = list, work' = work, strays' = strays, wanted' = wanted, crossed' = crossed,
         page' \in Pages, att' \in 0..MaxJobs, own' \in 0..MaxJobs, stored' \in StoreType, ws' \in Statuses,
         dlg' \in DialogType, CacheOk(cache'), rows' \in [Ids -> EntryType(Statuses)], off' \subseteq Queries,
         clicks' \in 0..MaxClicks, faults' \in 0..MaxFaults,
         CallsOk(call', job), DialogFits(dlg', page'), Unheard(job, rows'), ListsFit(cache', job),
         OwnJoins(own', job), GoesOn(strays, job, rows'), Remembered(own', job, strays, stored'), Told'
  PROVE  IInv'
<1>1. Shaped'
  BY DEF IInv, Shaped
<1>2. EditsKept'
  BY DEF IInv, EditsKept
<1>3. JobsOk(job') /\ CallsOk(call', job') /\ OneRuns(strays', job')
  BY DEF IInv
<1> QED BY <1>1, <1>2, <1>3 DEF IInv, Known, Joins

(* The tab and the calls as they are. *)
LEMMA TabIs ==
  ASSUME IInv
  PROVE  /\ page \in Pages /\ att \in 0..MaxJobs /\ own \in 0..MaxJobs /\ stored \in StoreType /\ ws \in Statuses
         /\ dlg \in DialogType /\ CacheOk(cache) /\ rows \in [Ids -> EntryType(Statuses)] /\ off \subseteq Queries
         /\ clicks \in 0..MaxClicks /\ faults \in 0..MaxFaults /\ list \in [ListNames -> ListType]
         /\ JobsOk(job) /\ CallsOk(call, job) /\ DialogFits(dlg, page) /\ Unheard(job, rows) /\ ListsFit(cache, job)
         /\ OwnJoins(own, job) /\ GoesOn(strays, job, rows) /\ Remembered(own, job, strays, stored) /\ Told
BY DEF IInv, Shaped, Known, Joins

(* Only the lists change. *)
LEMMA CacheKeeps ==
  ASSUME IInv, CacheOk(cache'), ListsFit(cache', job), Told', off' \subseteq Queries, ws' \in Statuses,
         job' = job, list' = list, work' = work, strays' = strays, wanted' = wanted, crossed' = crossed,
         page' = page, att' = att, own' = own, stored' = stored, dlg' = dlg, rows' = rows, call' = call,
         clicks' = clicks, faults' = faults
  PROVE  IInv'
BY TabIs, ClientKeeps

(* Only the rows change, and what the page and the storage know of them. *)
LEMMA RowsKeep ==
  ASSUME IInv, rows' \in [Ids -> EntryType(Statuses)], Unheard(job, rows'), GoesOn(strays, job, rows'),
         att' \in 0..MaxJobs, own' \in 0..MaxJobs, stored' \in StoreType, faults' \in 0..MaxFaults,
         OwnJoins(own', job), Remembered(own', job, strays, stored'),
         job' = job, list' = list, work' = work, strays' = strays, wanted' = wanted, crossed' = crossed,
         page' = page, ws' = ws, dlg' = dlg, cache' = cache, call' = call, off' = off, clicks' = clicks
  PROVE  IInv'
<1>1. Told'
  BY TabIs, ToldKeep
<1> QED BY <1>1, TabIs, ClientKeeps

LEMMA CacheChanged ==
  ASSUME CacheOk(cache), NEW q \in Queries, NEW e \in EntryType(ValueType(q)), cache' = [cache EXCEPT ![q] = e]
  PROVE  CacheOk(cache') /\ cache'[q] = e /\ \A x \in Queries : x # q => cache'[x] = cache[x]
BY DEF CacheOk

LEMMA ReadOk ==
  ASSUME NEW V, NEW e \in EntryType(V), NEW v \in V, NEW f, f = Read(e, v)
  PROVE  /\ f \in EntryType(V) /\ f.got = v /\ f.net = "read" /\ f.has = e.has /\ f.data = e.data
         /\ \A s \in BOOLEAN : Fine(f, v, s)
BY DEF Read, EntryType, Fine

LEMMA ServeQueryKeeps ==
  ASSUME IInv, NEW q \in Queries, ServeQuery(q)
  PROVE  IInv'
<1> DEFINE v == Of(job, list, q)
           e == Read(cache[q], v)
<1>1. /\ cache' = [cache EXCEPT ![q] = e] /\ off' = off \ {q}
      /\ job' = job /\ list' = list /\ work' = work /\ strays' = strays /\ wanted' = wanted /\ crossed' = crossed
      /\ page' = page /\ att' = att /\ own' = own /\ stored' = stored /\ dlg' = dlg /\ rows' = rows /\ call' = call
      /\ clicks' = clicks /\ faults' = faults /\ ws' = ws
  BY ValueIs DEF ServeQuery, server, tab
<1>2. v \in ValueType(q) /\ cache[q] \in EntryType(ValueType(q))
  BY TabIs, OfOk DEF JobsOk, CacheOk
<1>v. q \in Kinds => v = [j \in Ids |-> IF job[j].kind = q THEN job[j].st ELSE "none"]
  BY DEF Of, Kinds, ListNames
<1> HIDE DEF v
<1>3. e = Read(cache[q], v)
  OBVIOUS
<1> HIDE DEF e
<1>4. e \in EntryType(ValueType(q)) /\ e.got = v /\ e.data = cache[q].data
  BY <1>2, <1>3, ReadOk
<1>5. \A s \in BOOLEAN : Fine(e, v, s)
  BY <1>2, <1>3, ReadOk
<1> HIDE DEF e
<1>6. CacheOk(cache') /\ cache'[q] = e /\ \A x \in Queries : x # q => cache'[x] = cache[x]
  BY <1>1, <1>4, TabIs, CacheChanged
<1>7. ListsFit(cache', job)
  <2> SUFFICES ASSUME NEW x \in Kinds, NEW j \in Ids
               PROVE  (cache'[x].data[j] # "none" => job[j].kind = x) /\ (cache'[x].got[j] # "none" => job[j].kind = x)
    BY DEF ListsFit
  <2>x. x \in Queries /\ ListsFit(cache, job)
    BY TabIs DEF Queries
  <2>1. CASE x = q
    BY <1>v, <1>4, <1>6, <2>1, <2>x DEF ListsFit
  <2>2. CASE x # q
    BY <1>6, <2>2, <2>x DEF ListsFit
  <2> QED BY <2>1, <2>2
<1>8. Told'
  <2> SUFFICES ASSUME NEW x \in Queries \ off'
               PROVE  Owed(call', x) \/ Fine(cache'[x], Of(job', list', x), x \in Uses(page'))
    BY DEF Told
  <2>1. CASE x = q
    <3> DEFINE s == x \in Uses(page')
    <3>1. s \in BOOLEAN /\ Of(job', list', x) = v
      BY <1>1, <2>1 DEF v
    <3> HIDE DEF s
    <3>2. Fine(e, v, s)
      BY <1>5, <3>1
    <3> QED BY <1>6, <2>1, <3>1, <3>2 DEF s
  <2>2. CASE x # q
    <3>1. Owed(call, x) \/ Fine(cache[x], Of(job, list, x), x \in Uses(page))
      BY <1>1, <2>2, TabIs DEF Told
    <3> QED BY <1>1, <1>6, <2>2, <3>1
  <2> QED BY <2>1, <2>2
<1>9. off' \subseteq Queries /\ ws' \in Statuses
  BY <1>1, TabIs
<1> QED BY <1>1, <1>6, <1>7, <1>8, <1>9, CacheKeeps

LEMMA QueryArrivesKeeps ==
  ASSUME IInv, NEW q \in Queries, QueryArrives(q)
  PROVE  IInv'
<1> DEFINE e == Arrived(cache[q])
<1>1. /\ cache' = [cache EXCEPT ![q] = e] /\ off' = off /\ cache[q].net = "read"
      /\ job' = job /\ list' = list /\ work' = work /\ strays' = strays /\ wanted' = wanted /\ crossed' = crossed
      /\ page' = page /\ att' = att /\ own' = own /\ stored' = stored /\ dlg' = dlg /\ rows' = rows /\ call' = call
      /\ clicks' = clicks /\ faults' = faults /\ ws' = ws
  BY DEF QueryArrives, server, tab, ghosts
<1>2. Of(job, list, q) \in ValueType(q) /\ cache[q] \in EntryType(ValueType(q))
  BY TabIs, OfOk DEF JobsOk, CacheOk
<1>3. e \in EntryType(ValueType(q)) /\ e.data = cache[q].got
  BY <1>2, AnswerOk
<1>4. e.got = cache[q].got
  BY DEF Arrived
<1>5. \A s \in BOOLEAN : Fine(cache[q], Of(job, list, q), s) => Fine(e, Of(job, list, q), s)
  BY <1>1, <1>2, FineAnswer
<1> HIDE DEF e
<1>6. CacheOk(cache') /\ cache'[q] = e /\ \A x \in Queries : x # q => cache'[x] = cache[x]
  BY <1>1, <1>3, TabIs, CacheChanged
<1>7. ListsFit(cache', job)
  <2> SUFFICES ASSUME NEW x \in Kinds, NEW j \in Ids
               PROVE  (cache'[x].data[j] # "none" => job[j].kind = x) /\ (cache'[x].got[j] # "none" => job[j].kind = x)
    BY DEF ListsFit
  <2>x. x \in Queries /\ ListsFit(cache, job)
    BY TabIs DEF Queries
  <2>1. CASE x = q
    BY <1>3, <1>4, <1>6, <2>1, <2>x DEF ListsFit
  <2>2. CASE x # q
    BY <1>6, <2>2, <2>x DEF ListsFit
  <2> QED BY <2>1, <2>2
<1>8. Told'
  <2> SUFFICES ASSUME NEW x \in Queries \ off'
               PROVE  Owed(call', x) \/ Fine(cache'[x], Of(job', list', x), x \in Uses(page'))
    BY DEF Told
  <2>1. Owed(call, x) \/ Fine(cache[x], Of(job, list, x), x \in Uses(page))
    BY <1>1, TabIs DEF Told
  <2>2. CASE x = q
    <3> DEFINE s == x \in Uses(page)
    <3>1. s \in BOOLEAN /\ (Owed(call, x) \/ Fine(cache[x], Of(job, list, x), s))
      BY <2>1
    <3> HIDE DEF s
    <3>2. Owed(call, x) \/ Fine(e, Of(job, list, x), s)
      BY <1>5, <2>2, <3>1
    <3> QED BY <1>1, <1>6, <2>2, <3>2 DEF s
  <2>3. CASE x # q
    BY <1>1, <1>6, <2>1, <2>3
  <2> QED BY <2>2, <2>3
<1>9. off' \subseteq Queries /\ ws' \in Statuses
  BY <1>1, TabIs
<1> QED BY <1>1, <1>6, <1>7, <1>8, <1>9, CacheKeeps

LEMMA PollListKeeps ==
  ASSUME IInv, PollList
  PROVE  IInv'
<1>1. PICK q \in Shown : cache' = RefetchAll(cache, {q})
  BY DEF PollList
<1>2. /\ off' = off
      /\ job' = job /\ list' = list /\ work' = work /\ strays' = strays /\ wanted' = wanted /\ crossed' = crossed
      /\ page' = page /\ att' = att /\ own' = own /\ stored' = stored /\ dlg' = dlg /\ rows' = rows /\ call' = call
      /\ clicks' = clicks /\ faults' = faults /\ ws' = ws
  BY DEF PollList, server, tab, ghosts
<1>3. /\ CacheOk(cache')
      /\ \A x \in Queries : cache'[x] = (IF x \in {q} THEN Refetch(cache[x]) ELSE cache[x]) /\ Untold(cache[x], cache'[x])
  BY <1>1, TabIs, RefetchAllOk
<1>4. ListsFit(cache', job)
  BY <1>3, TabIs, ListsUntold DEF Queries
<1>5. Told'
  <2> SUFFICES ASSUME NEW x \in Queries \ off'
               PROVE  Owed(call', x) \/ Fine(cache'[x], Of(job', list', x), x \in Uses(page'))
    BY DEF Told
  <2> DEFINE s == x \in Uses(page)
             v == Of(job, list, x)
  <2>1. Owed(call, x) \/ Fine(cache[x], v, s)
    BY <1>2, TabIs DEF Told
  <2>2. cache[x] \in EntryType(ValueType(x)) /\ s \in BOOLEAN
    BY TabIs DEF CacheOk
  <2> HIDE DEF s, v
  <2>3. Fine(cache[x], v, s) => Fine(cache'[x], v, s)
    BY <1>3, <2>2, FineRefetch
  <2> QED BY <1>2, <2>1, <2>3 DEF s, v
<1>6. off' \subseteq Queries /\ ws' \in Statuses
  BY <1>2, TabIs
<1> QED BY <1>2, <1>3, <1>4, <1>5, <1>6, CacheKeeps

LEMMA ProgressKeeps ==
  ASSUME IInv, NEW j \in Ids, Progress(j)
  PROVE  IInv'
<1>1. /\ job' = job /\ list' = list /\ work' = work /\ strays' = strays /\ wanted' = wanted /\ crossed' = crossed
      /\ page' = page /\ att' = att /\ own' = own /\ stored' = stored /\ dlg' = dlg /\ rows' = rows /\ call' = call
      /\ clicks' = clicks /\ faults' = faults
  BY DEF Progress, server
<1>2. CASE ws' = "running" /\ UNCHANGED <<cache, off>>
  <2>1. ws' \in Statuses /\ cache' = cache /\ off' = off
    BY <1>2, StatusesAre
  <2>2. Told'
    BY <1>1, <2>1, TabIs, ToldKeep
  <2> QED BY <1>1, <2>1, <2>2, TabIs, CacheKeeps
<1>3. CASE /\ page = "invite" /\ Idle(cache["invite"])
           /\ cache' = InvalidateAll(cache, {"invite"}, Shown) /\ UNCHANGED <<ws, off>>
  <2>1. /\ CacheOk(cache')
        /\ \A x \in Queries : /\ cache'[x] = IF x \in {"invite"} THEN Invalidate(cache[x], x \in Shown) ELSE cache[x]
                              /\ Untold(cache[x], cache'[x])
    BY <1>3, TabIs, InvalidateAllOk
  <2>2. ListsFit(cache', job)
    BY <2>1, TabIs, ListsUntold DEF Queries
  <2>3. off' = off /\ ws' = ws
    BY <1>3
  <2>4. Told'
    <3> SUFFICES ASSUME NEW x \in Queries \ off'
                 PROVE  Owed(call', x) \/ Fine(cache'[x], Of(job', list', x), x \in Uses(page'))
      BY DEF Told
    <3> DEFINE s == x \in Uses(page)
               v == Of(job, list, x)
    <3>1. Owed(call, x) \/ Fine(cache[x], v, s)
      BY <2>3, TabIs DEF Told
    <3>2. cache[x] \in EntryType(ValueType(x)) /\ s \in BOOLEAN
      BY TabIs DEF CacheOk
    <3>3. x # "invite" => cache'[x] = cache[x]
      BY <2>1
    <3>4. x = "invite" => cache'[x] = Invalidate(cache[x], s) /\ cache[x].net # "read"
      BY <1>3, <2>1 DEF Idle, Shown
    <3> HIDE DEF s, v
    <3>5. x = "invite" => Fine(cache'[x], v, s)
      BY <3>2, <3>4, FineInvalidate
    <3> QED BY <1>1, <3>1, <3>3, <3>5 DEF s, v
  <2> QED BY <1>1, <2>1, <2>2, <2>3, <2>4, TabIs, CacheKeeps
<1> QED BY <1>2, <1>3 DEF Progress

LEMMA ServeRowKeeps ==
  ASSUME IInv, NEW j \in Ids, ServeRow(j)
  PROVE  IInv'
<1> DEFINE e == Read(rows[j], St(j))
<1>1. /\ rows' = [rows EXCEPT ![j] = e] /\ St(j) # "none"
      /\ job' = job /\ list' = list /\ work' = work /\ strays' = strays /\ wanted' = wanted /\ crossed' = crossed
      /\ page' = page /\ att' = att /\ own' = own /\ stored' = stored /\ dlg' = dlg /\ cache' = cache /\ call' = call
      /\ clicks' = clicks /\ faults' = faults /\ ws' = ws /\ off' = off
  BY DEF ServeRow, server, tab, ghosts
<1>2. St(j) \in Statuses /\ rows[j] \in EntryType(Statuses) /\ job[j].kind # "none"
  BY <1>1, TabIs, JobFields DEF JobsOk, St
<1>0. e = Read(rows[j], St(j))
  OBVIOUS
<1> HIDE DEF e
<1>3. e \in EntryType(Statuses) /\ e.got = St(j)
  BY <1>0, <1>2, ReadOk
<1>4. e.has = rows[j].has /\ e.data = rows[j].data
  BY <1>0, <1>2, ReadOk
<1>5. rows' \in [Ids -> EntryType(Statuses)] /\ rows'[j] = e /\ \A i \in Ids : i # j => rows'[i] = rows[i]
  BY <1>1, <1>3, TabIs, RowChanged
<1>6. Unheard(job, rows')
  BY <1>2, <1>5, TabIs DEF Unheard
<1>7. GoesOn(strays, job, rows')
  <2> SUFFICES ASSUME NEW i \in Ids \ strays, job[i].kind = "join", job[i].st \in Active
               PROVE  ~Over(rows'[i]) /\ ~(rows'[i].net = "read" /\ rows'[i].got \in Terminal)
    BY DEF GoesOn
  <2>1. ~Over(rows[i]) /\ ~(rows[i].net = "read" /\ rows[i].got \in Terminal)
    BY TabIs DEF GoesOn
  <2>2. CASE i = j
    <3>1. e.got \notin Terminal
      BY <1>3, <2>2 DEF St, Active, Terminal
    <3> QED BY <1>4, <1>5, <2>1, <2>2, <3>1 DEF Over
  <2>3. CASE i # j
    BY <1>5, <2>1, <2>3
  <2> QED BY <2>2, <2>3
<1> QED BY <1>1, <1>5, <1>6, <1>7, TabIs, RowsKeep

LEMMA ForgetOk ==
  ASSUME NEW st \in StoreType, NEW e
  PROVE  /\ Forget(st, e) \in StoreType
         /\ ~Over(e) => Forget(st, e) = st
BY Bounds DEF Forget, StoreType

LEMMA RowArrivesKeeps ==
  ASSUME IInv, NEW j \in Ids, RowArrives(j)
  PROVE  IInv'
<1> DEFINE e == Arrived(rows[j])
           told == page = "join" /\ att = j /\ ~(rows[j].has /\ rows[j].data = rows[j].got)
<1>1. /\ rows' = [rows EXCEPT ![j] = e] /\ rows[j].net = "read"
      /\ stored' = IF told THEN Forget(stored, e) ELSE stored
      /\ own' = IF told /\ Over(e) /\ own # j THEN 0 ELSE own
      /\ job' = job /\ list' = list /\ work' = work /\ strays' = strays /\ wanted' = wanted /\ crossed' = crossed
      /\ page' = page /\ att' = att /\ dlg' = dlg /\ cache' = cache /\ call' = call
      /\ clicks' = clicks /\ faults' = faults /\ ws' = ws /\ off' = off
  BY DEF RowArrives, server
<1>2. rows[j] \in EntryType(Statuses) /\ rows[j].got \in Statuses /\ job[j].kind # "none"
  BY <1>1, TabIs, EntryFields DEF Unheard
<1>3. e \in EntryType(Statuses) /\ e.net = "idle" /\ e.data = rows[j].got
  BY <1>2, AnswerOk
<1>4. Over(e) => rows[j].got \in Terminal
  BY <1>3 DEF Over
<1> HIDE DEF e, told
<1>5. rows' \in [Ids -> EntryType(Statuses)] /\ rows'[j] = e /\ \A i \in Ids : i # j => rows'[i] = rows[i]
  BY <1>1, <1>3, TabIs, RowChanged
<1>6. Unheard(job, rows')
  BY <1>2, <1>5, TabIs DEF Unheard
<1>7. GoesOn(strays, job, rows')
  <2> SUFFICES ASSUME NEW i \in Ids \ strays, job[i].kind = "join", job[i].st \in Active
               PROVE  ~Over(rows'[i]) /\ ~(rows'[i].net = "read" /\ rows'[i].got \in Terminal)
    BY DEF GoesOn
  <2>1. ~Over(rows[i]) /\ ~(rows[i].net = "read" /\ rows[i].got \in Terminal)
    BY TabIs DEF GoesOn
  <2>2. CASE i = j
    BY <1>1, <1>3, <1>4, <1>5, <2>1, <2>2
  <2>3. CASE i # j
    BY <1>5, <2>1, <2>3
  <2> QED BY <2>2, <2>3
<1>8. stored' \in StoreType /\ own' \in 0..MaxJobs /\ OwnJoins(own', job)
  BY <1>1, TabIs, ForgetOk, Bounds DEF OwnJoins
<1>9. Remembered(own', job, strays, stored')
  <2> SUFFICES ASSUME own' # 0, job[own'].st \in Active, own' \notin strays PROVE stored'["join"] = own'
    BY DEF Remembered
  <2>1. own' = own /\ own \in Ids /\ job[own].kind = "join" /\ stored["join"] = own
    BY <1>1, TabIs, Bounds DEF OwnJoins, Remembered, Ids
  <2>2. told /\ Over(e) => FALSE
    <3> SUFFICES ASSUME told, Over(e) PROVE FALSE
      OBVIOUS
    <3>1. own = j
      BY <1>1, <2>1
    <3> QED BY <1>1, <1>4, <2>1, <3>1, TabIs DEF GoesOn
  <2> QED BY <1>1, <2>1, <2>2, TabIs, ForgetOk
<1> QED BY <1>1, <1>5, <1>6, <1>7, <1>8, <1>9, TabIs, RowsKeep

LEMMA RowFailsKeeps ==
  ASSUME IInv, NEW j \in Ids, RowFails(j)
  PROVE  IInv'
<1> DEFINE e == Failed(rows[j])
<1>1. /\ rows' = [rows EXCEPT ![j] = e]
      /\ job' = job /\ list' = list /\ work' = work /\ strays' = strays /\ wanted' = wanted /\ crossed' = crossed
      /\ page' = page /\ dlg' = dlg /\ cache' = cache /\ call' = call
      /\ clicks' = clicks /\ ws' = ws /\ off' = off
  BY DEF RowFails, server
<1>2. faults' \in 0..MaxFaults
  BY TabIs, FaultOk DEF RowFails
<1>3. rows[j] \in EntryType(Statuses)
  BY TabIs
<1>4. e \in EntryType(Statuses) /\ Untold(rows[j], e)
  <2>1. e \in EntryType(Statuses)
    BY <1>3, AnswerOk, StatusesAre
  <2> QED BY <1>3, <2>1, FetchUntold
<1> HIDE DEF e
<1>5. rows' \in [Ids -> EntryType(Statuses)] /\ \A i \in Ids : Untold(rows[i], rows'[i])
  BY <1>1, <1>4, TabIs, RowChanged
<1>6. Unheard(job, rows') /\ GoesOn(strays, job, rows')
  BY <1>5, TabIs, RowsUntold
<1>7. /\ att' \in 0..MaxJobs /\ stored' \in StoreType /\ own' \in 0..MaxJobs
      /\ OwnJoins(own', job) /\ Remembered(own', job, strays, stored')
  <2>1. CASE page = "join" /\ att = j
    <3>1. att' = 0 /\ stored' = [stored EXCEPT !["join"] = 0] /\ own' = 0 /\ 0 \in 0..MaxJobs
      BY <2>1, Bounds DEF RowFails
    <3> QED BY <3>1, TabIs DEF StoreType, OwnJoins, Remembered
  <2>2. CASE ~(page = "join" /\ att = j)
    <3>1. att' = att /\ stored' = stored /\ own' = own
      BY <2>2 DEF RowFails
    <3> QED BY <3>1, TabIs
  <2> QED BY <2>1, <2>2
<1> QED BY <1>1, <1>2, <1>5, <1>6, <1>7, RowsKeep

LEMMA PollRowKeeps ==
  ASSUME IInv, PollRow
  PROVE  IInv'
<1> DEFINE e == Refetch(rows[att])
<1>1. /\ rows' = [rows EXCEPT ![att] = e] /\ att # 0
      /\ job' = job /\ list' = list /\ work' = work /\ strays' = strays /\ wanted' = wanted /\ crossed' = crossed
      /\ page' = page /\ att' = att /\ own' = own /\ stored' = stored /\ dlg' = dlg /\ cache' = cache /\ call' = call
      /\ clicks' = clicks /\ faults' = faults /\ ws' = ws /\ off' = off
  BY DEF PollRow, JoinPoll, server, tab, ghosts
<1>2. att \in Ids
  BY <1>1, TabIs, Bounds DEF Ids
<1>3. rows[att] \in EntryType(Statuses)
  BY <1>2, TabIs
<1>4. e \in EntryType(Statuses) /\ Untold(rows[att], e)
  BY <1>3, RefetchOk, FetchUntold
<1> HIDE DEF e
<1>5. rows' \in [Ids -> EntryType(Statuses)] /\ \A i \in Ids : Untold(rows[i], rows'[i])
  BY <1>1, <1>2, <1>4, TabIs, RowChanged
<1>6. Unheard(job, rows') /\ GoesOn(strays, job, rows')
  BY <1>5, TabIs, RowsUntold
<1> QED BY <1>1, <1>5, <1>6, TabIs, RowsKeep

LEMMA ClickRowKeeps ==
  ASSUME IInv, NEW j \in Ids, ClickRow(j)
  PROVE  IInv'
<1>1. /\ User /\ att' = j /\ ws' = "none" /\ page \in {"join", "leave"}
      /\ stored' = IF page = "join" THEN Forget([stored EXCEPT !["join"] = j], rows[j]) ELSE [stored EXCEPT !["leave"] = j]
      /\ own' = IF page = "join" THEN 0 ELSE own
      /\ job' = job /\ list' = list /\ work' = work /\ strays' = strays /\ wanted' = wanted /\ crossed' = crossed
      /\ page' = page /\ dlg' = dlg /\ cache' = cache /\ call' = call /\ faults' = faults /\ off' = off
  BY DEF ClickRow, server
<1>2. PICK old \in BOOLEAN : rows' = Watch(rows, j, old)
  BY DEF ClickRow
<1>3. j \in 0..MaxJobs /\ 0 \in 0..MaxJobs
  BY IdsOk, Bounds
<1>4. rows' \in [Ids -> EntryType(Statuses)] /\ \A i \in Ids : Untold(rows[i], rows'[i])
  BY <1>2, <1>3, TabIs, WatchOk
<1>5. Unheard(job, rows') /\ GoesOn(strays, job, rows')
  BY <1>4, TabIs, RowsUntold
<1>6. /\ [stored EXCEPT !["join"] = j] \in StoreType
      /\ [stored EXCEPT !["leave"] = j] \in StoreType /\ [stored EXCEPT !["leave"] = j]["join"] = stored["join"]
  BY <1>3, TabIs DEF StoreType
<1>7. /\ stored' \in StoreType /\ own' \in 0..MaxJobs
      /\ OwnJoins(own', job) /\ Remembered(own', job, strays, stored')
  <2>1. CASE page = "join"
    BY <1>1, <1>3, <1>6, <2>1, ForgetOk DEF OwnJoins, Remembered
  <2>2. CASE page # "join"
    BY <1>1, <1>6, <2>2, TabIs DEF Remembered
  <2> QED BY <2>1, <2>2
<1>8. clicks' \in 0..MaxClicks /\ ws' \in Statuses
  BY <1>1, TabIs, UserOk, StatusesAre
<1>9. Told'
  BY <1>1, TabIs, ToldKeep
<1> QED BY <1>1, <1>3, <1>4, <1>5, <1>7, <1>8, <1>9, TabIs, ClientKeeps

-----------------------------------------------------------------------------
(* The handlers of the answers *)

(* The lists once the handler of the call has invalidated its own. *)
LEMMA InvalidatedOk ==
  ASSUME IInv, NEW c \in Calls, NEW ch, ch = Invalidated(c)
  PROVE  /\ CacheOk(ch) /\ ListsFit(ch, job) /\ MissedBy(c) \subseteq Queries
         /\ \A q \in Queries \ MissedBy(c) :
              \/ \E d \in Calls \ {c} : Owes(call[d], q)
              \/ Fine(ch[q], Of(job, list, q), q \in Shown)
<1> DEFINE qs == Refreshes(call[c])
<1>1. /\ CacheOk(ch)
      /\ \A q \in Queries : /\ ch[q] = IF q \in qs THEN Invalidate(cache[q], q \in Shown) ELSE cache[q]
                            /\ Untold(cache[q], ch[q])
  BY TabIs, InvalidateAllOk DEF Invalidated
<1>2. ListsFit(ch, job)
  BY <1>1, TabIs, ListsUntold DEF Queries
<1>3. MissedBy(c) \subseteq Queries /\ off \subseteq MissedBy(c)
      /\ \A q \in Queries \ MissedBy(c) : q \in qs =>
           ~(cache[q].net = "read" /\ Invalidate(cache[q], q \in Shown).net = "read")
  BY TabIs DEF MissedBy, Overtaken, CacheOk
<1>4. ASSUME NEW q \in Queries \ MissedBy(c)
      PROVE  (\E d \in Calls \ {c} : Owes(call[d], q)) \/ Fine(ch[q], Of(job, list, q), q \in Shown)
  <2> DEFINE s == q \in Shown
             v == Of(job, list, q)
  <2>1. cache[q] \in EntryType(ValueType(q)) /\ s \in BOOLEAN
    BY TabIs DEF CacheOk
  <2>2. CASE q \in qs
    <3>1. ch[q] = Invalidate(cache[q], s) /\ ~(cache[q].net = "read" /\ Invalidate(cache[q], s).net = "read")
      BY <1>1, <1>3, <2>2
    <3> HIDE DEF s, v
    <3>2. Fine(ch[q], v, s)
      BY <2>1, <3>1, FineInvalidate
    <3> QED BY <3>2 DEF s, v
  <2>3. CASE q \notin qs
    <3>1. ch[q] = cache[q] /\ q \notin off
      BY <1>1, <1>3, <2>3
    <3>2. (\E d \in Calls : Owes(call[d], q)) \/ Fine(cache[q], v, s)
      BY <3>1, TabIs DEF Told, Owed, Shown
    <3>3. ~Owes(call[c], q)
      BY <2>3 DEF Owes
    <3> QED BY <3>1, <3>2, <3>3
  <2> QED BY <2>2, <2>3
<1> QED BY <1>1, <1>2, <1>3, <1>4

LEMMA Released ==
  ASSUME CallsOk(call, job), NEW c \in Calls, call' = [call EXCEPT ![c] = NoCall]
  PROVE  CallsOk(call', job) /\ \A d \in Calls \ {c} : call'[d] = call[d]
BY NoCallOk DEF CallsOk, CallOk

LEMMA HandleDoneKeeps ==
  ASSUME IInv, NEW c \in Calls, HandleDone(c)
  PROVE  IInv'
<1>1. /\ cache' = Invalidated(c) /\ off' = MissedBy(c) /\ dlg' = AfterCall(c) /\ call' = [call EXCEPT ![c] = NoCall]
      /\ job' = job /\ list' = list /\ work' = work /\ strays' = strays /\ wanted' = wanted /\ crossed' = crossed
      /\ page' = page /\ att' = att /\ own' = own /\ stored' = stored
      /\ clicks' = clicks /\ faults' = faults /\ ws' = ws
  BY DEF HandleDone, server
<1>2. /\ CacheOk(cache') /\ ListsFit(cache', job) /\ off' \subseteq Queries
      /\ \A q \in Queries \ off' :
           \/ \E d \in Calls \ {c} : Owes(call[d], q)
           \/ Fine(cache'[q], Of(job, list, q), q \in Shown)
  BY <1>1, InvalidatedOk
<1>3. CallsOk(call', job) /\ \A d \in Calls \ {c} : call'[d] = call[d]
  BY <1>1, TabIs, Released
<1>4. Told'
  <2> SUFFICES ASSUME NEW q \in Queries \ off'
               PROVE  Owed(call', q) \/ Fine(cache'[q], Of(job', list', q), q \in Uses(page'))
    BY DEF Told
  <2>1. CASE \E d \in Calls \ {c} : Owes(call[d], q)
    BY <1>3, <2>1 DEF Owed
  <2>2. CASE Fine(cache'[q], Of(job, list, q), q \in Shown)
    BY <1>1, <2>2 DEF Shown
  <2> QED BY <1>2, <2>1, <2>2
<1>5. rows' \in [Ids -> EntryType(Statuses)] /\ \A i \in Ids : Untold(rows[i], rows'[i])
  <2>1. CASE rows' = rows
    BY <2>1, TabIs, UntoldSame
  <2>2. CASE att # 0 /\ rows' = [rows EXCEPT ![att] = Invalidate(@, TRUE)]
    <3> DEFINE e == Invalidate(rows[att], TRUE)
    <3>1. att \in Ids
      BY <2>2, TabIs, Bounds DEF Ids
    <3>2. rows[att] \in EntryType(Statuses)
      BY <3>1, TabIs
    <3>3. e \in EntryType(Statuses) /\ Untold(rows[att], e)
      BY <3>2, InvalidateOk, InvalidateUntold
    <3>4. rows' = [rows EXCEPT ![att] = e]
      BY <2>2
    <3> HIDE DEF e
    <3> QED BY <3>1, <3>3, <3>4, TabIs, RowChanged
  <2> QED BY <2>1, <2>2 DEF HandleDone
<1>6. Unheard(job, rows') /\ GoesOn(strays, job, rows')
  BY <1>5, TabIs, RowsUntold
<1>7. dlg' \in DialogType /\ DialogFits(dlg', page)
  BY <1>1, AfterCallOk
<1> QED BY <1>1, <1>2, <1>3, <1>4, <1>5, <1>6, <1>7, TabIs, ClientKeeps

(* The page is left: the calls that remain only lose sight of it. *)
LEMMA LeftBehind ==
  ASSUME CallsOk(call, job), NEW S \in SUBSET Calls,
         call' = [d \in Calls |-> IF d \in S THEN NoCall ELSE [call[d] EXCEPT !.here = FALSE]]
  PROVE  CallsOk(call', job) /\ \A d \in Calls \ S, q \in Queries : Owes(call[d], q) => Owes(call'[d], q)
<1>1. ASSUME NEW d \in Calls \ S
      PROVE  CallOk(call'[d], job) /\ \A q : Owes(call'[d], q) <=> Owes(call[d], q)
  <2>1. CallOk(call[d], job) /\ call'[d] = [call[d] EXCEPT !.here = FALSE]
    BY DEF CallsOk
  <2> QED BY <2>1, AwayOk
<1>2. \A d \in S : CallOk(call'[d], job)
  BY NoCallOk
<1>3. \A d \in Calls : CallOk(call'[d], job)
  BY <1>1, <1>2
<1>4. call' = [d \in Calls |-> call'[d]]
  OBVIOUS
<1>5. CallsOk(call', job)
  BY <1>3, <1>4 DEF CallsOk, CallOk
<1> QED BY <1>1, <1>5

LEMMA HandleStartedKeeps ==
  ASSUME IInv, NEW c \in Calls, HandleStarted(c)
  PROVE  IInv'
<1> DEFINE k == call[c]
           j == CHOOSE x \in k.js : TRUE
           again == Invalidated(c)
<1>0. k = call[c]
  OBVIOUS
<1>1. /\ k.pc = "answered" /\ k.ans = "done" /\ k.op = "start"
      /\ off' = MissedBy(c)
      /\ stored' = IF k.kind = "join" /\ k.here /\ att # j THEN Forget(attachJob(k, j), rows[j]) ELSE attachJob(k, j)
      /\ own' = IF k.kind = "join" THEN j ELSE own
      /\ job' = job /\ list' = list /\ work' = work /\ strays' = strays /\ wanted' = wanted /\ crossed' = crossed
      /\ clicks' = clicks /\ faults' = faults
  BY DEF HandleStarted, server, At
<1>2. /\ CacheOk(again) /\ ListsFit(again, job) /\ off' \subseteq Queries
      /\ \A q \in Queries \ off' :
           \/ \E d \in Calls \ {c} : Owes(call[d], q)
           \/ Fine(again[q], Of(job, list, q), q \in Shown)
  BY <1>1, InvalidatedOk
<1>3. k \in CallType /\ CallShape(k) /\ JobsOf(k, job)
  BY TabIs DEF CallsOk, CallOk
<1>a. again = InvalidateAll(cache, Refreshes(k), Shown)
  BY DEF Invalidated
<1>b. \/ /\ k.kind = "broadcast"
         /\ page' = "success" /\ att' = 0 /\ ws' = "none" /\ dlg' = NoDialog
         /\ cache' = again /\ UNCHANGED rows
         /\ call' = [d \in Calls |-> IF d = c THEN NoCall ELSE [call[d] EXCEPT !.here = FALSE]]
      \/ /\ k.kind # "broadcast"
         /\ att' = IF k.here THEN j ELSE att
         /\ ws' = IF k.here THEN "none" ELSE ws
         /\ rows' = IF k.here /\ k.kind # "invite" THEN Watch(rows, j, FALSE) ELSE rows
         /\ cache' = IF k.kind = "leave" THEN RefetchAll(again, {"leave"}) ELSE again
         /\ call' = [call EXCEPT ![c] = NoCall]
         /\ UNCHANGED <<page, dlg>>
  BY DEF HandleStarted, Invalidated
<1> HIDE DEF k, again
<1>4. j \in Ids /\ job[j].kind = k.kind /\ k.kind \in Kinds
  <2>1. PICK i \in Ids : k.js = {i}
    BY <1>1, <1>3 DEF CallShape
  <2>2. j = i
    BY <2>1
  <2> QED BY <1>1, <1>3, <2>1, <2>2 DEF CallShape, JobsOf
<1> HIDE DEF j
<1>5. j \in 0..MaxJobs /\ 0 \in 0..MaxJobs /\ j # 0
  BY <1>4, IdsOk, Bounds
<1>6. attachJob(k, j) \in StoreType
      /\ attachJob(k, j)["join"] = IF k.kind = "join" THEN j ELSE stored["join"]
  BY <1>5, TabIs DEF attachJob, StoreType
<1>7. /\ stored' \in StoreType /\ own' \in 0..MaxJobs
      /\ OwnJoins(own', job) /\ Remembered(own', job, strays, stored')
  <2>1. stored' \in StoreType /\ own' \in 0..MaxJobs
    BY <1>1, <1>5, <1>6, TabIs, ForgetOk
  <2>2. OwnJoins(own', job)
    BY <1>1, <1>4, TabIs DEF OwnJoins
  <2>3. Remembered(own', job, strays, stored')
    <3>1. CASE k.kind = "join"
      <4> SUFFICES ASSUME job[j].st \in Active, j \notin strays PROVE stored'["join"] = j
        BY <1>1, <3>1 DEF Remembered
      <4>1. ~Over(rows[j])
        BY <1>4, <3>1, TabIs DEF GoesOn
      <4>2. stored' = attachJob(k, j)
        BY <1>1, <1>6, <4>1, ForgetOk
      <4> QED BY <1>6, <3>1, <4>2
    <3>2. CASE k.kind # "join"
      BY <1>1, <1>6, <3>2, TabIs DEF Remembered
    <3> QED BY <3>1, <3>2
  <2> QED BY <2>1, <2>2, <2>3
<1>8. CASE /\ k.kind = "broadcast"
           /\ page' = "success" /\ att' = 0 /\ ws' = "none" /\ dlg' = NoDialog
           /\ cache' = again /\ UNCHANGED rows
           /\ call' = [d \in Calls |-> IF d = c THEN NoCall ELSE [call[d] EXCEPT !.here = FALSE]]
  <2>1. call' = [d \in Calls |-> IF d \in {c} THEN NoCall ELSE [call[d] EXCEPT !.here = FALSE]]
    BY <1>8
  <2>2. CallsOk(call', job) /\ \A d \in Calls \ {c}, q \in Queries : Owes(call[d], q) => Owes(call'[d], q)
    BY <2>1, TabIs, LeftBehind
  <2>3. Told'
    <3> SUFFICES ASSUME NEW q \in Queries \ off'
                 PROVE  Owed(call', q) \/ Fine(cache'[q], Of(job', list', q), q \in Uses(page'))
      BY DEF Told
    <3>1. CASE \E d \in Calls \ {c} : Owes(call[d], q)
      BY <2>2, <3>1 DEF Owed
    <3>2. CASE Fine(again[q], Of(job, list, q), q \in Shown)
      <4> DEFINE s == q \in Shown
                 t == q \in Uses(page')
                 v == Of(job, list, q)
      <4>1. Fine(again[q], v, s) /\ s \in BOOLEAN /\ t \in BOOLEAN
        BY <3>2
      <4>2. ~t
        BY <1>8 DEF Uses
      <4> HIDE DEF s, t, v
      <4>3. Fine(again[q], v, t)
        BY <4>1, <4>2, FineLess
      <4> QED BY <1>1, <1>8, <4>3 DEF t, v
    <3> QED BY <1>2, <3>1, <3>2
  <2>4. page' \in Pages /\ ws' \in Statuses /\ dlg' \in DialogType /\ DialogFits(dlg', page')
    BY <1>8, NoDialogOk, StatusesAre DEF Pages
  <2>5. rows' = rows
    BY <1>8
  <2> QED BY <1>1, <1>2, <1>5, <1>7, <1>8, <2>2, <2>3, <2>4, <2>5, TabIs, ClientKeeps
<1>9. CASE /\ k.kind # "broadcast"
           /\ att' = IF k.here THEN j ELSE att
           /\ ws' = IF k.here THEN "none" ELSE ws
           /\ rows' = IF k.here /\ k.kind # "invite" THEN Watch(rows, j, FALSE) ELSE rows
           /\ cache' = IF k.kind = "leave" THEN RefetchAll(again, {"leave"}) ELSE again
           /\ call' = [call EXCEPT ![c] = NoCall]
           /\ UNCHANGED <<page, dlg>>
  <2>1. CallsOk(call', job) /\ \A d \in Calls \ {c} : call'[d] = call[d]
    BY <1>9, TabIs, Released
  <2>2. /\ CacheOk(cache') /\ ListsFit(cache', job)
        /\ \A q \in Queries : cache'[q] = again[q] \/ cache'[q] = Refetch(again[q])
    <3>1. CASE k.kind # "leave"
      BY <1>2, <1>9, <3>1
    <3>2. CASE k.kind = "leave"
      <4>1. cache' = RefetchAll(again, {"leave"})
        BY <1>9, <3>2
      <4>2. /\ CacheOk(cache')
            /\ \A q \in Queries : cache'[q] = (IF q \in {"leave"} THEN Refetch(again[q]) ELSE again[q])
                                  /\ Untold(again[q], cache'[q])
        BY <1>2, <4>1, RefetchAllOk
      <4>3. ListsFit(cache', job)
        BY <1>2, <4>2, ListsUntold DEF Queries
      <4> QED BY <4>2, <4>3
    <3> QED BY <3>1, <3>2
  <2>3. Told'
    <3> SUFFICES ASSUME NEW q \in Queries \ off'
                 PROVE  Owed(call', q) \/ Fine(cache'[q], Of(job', list', q), q \in Uses(page'))
      BY DEF Told
    <3>1. CASE \E d \in Calls \ {c} : Owes(call[d], q)
      BY <2>1, <3>1 DEF Owed
    <3>2. CASE Fine(again[q], Of(job, list, q), q \in Shown)
      <4> DEFINE s == q \in Shown
                 v == Of(job, list, q)
      <4>1. Fine(again[q], v, s) /\ s \in BOOLEAN /\ again[q] \in EntryType(ValueType(q))
        BY <1>2, <3>2 DEF CacheOk
      <4> HIDE DEF s, v
      <4>2. Fine(Refetch(again[q]), v, s)
        BY <4>1, FineRefetch
      <4>3. Fine(cache'[q], v, s)
        BY <2>2, <4>1, <4>2
      <4> QED BY <1>1, <1>9, <4>3 DEF s, v, Shown
    <3> QED BY <1>2, <3>1, <3>2
  <2>4. rows' \in [Ids -> EntryType(Statuses)] /\ \A i \in Ids : Untold(rows[i], rows'[i])
    <3>1. CASE rows' = rows
      BY <3>1, TabIs, UntoldSame
    <3>2. CASE rows' = Watch(rows, j, FALSE)
      BY <1>5, <3>2, TabIs, WatchOk
    <3> QED BY <1>9, <3>1, <3>2
  <2>5. Unheard(job, rows') /\ GoesOn(strays, job, rows')
    BY <2>4, TabIs, RowsUntold
  <2>6. att' \in 0..MaxJobs /\ ws' \in Statuses /\ page' = page /\ dlg' = dlg
    BY <1>5, <1>9, TabIs, StatusesAre
  <2> QED BY <1>1, <1>2, <1>7, <2>1, <2>2, <2>3, <2>4, <2>5, <2>6, TabIs, ClientKeeps
<1> QED BY <1>b, <1>8, <1>9

LEMMA NavigateKeeps ==
  ASSUME IInv, NEW p \in Pages, Navigate(p)
  PROVE  IInv'
<1>1. /\ User /\ page' = p /\ att' = Restored(p) /\ ws' = "none" /\ dlg' = NoDialog
      /\ stored' = IF p = "join" /\ Restored(p) # 0 THEN Forget(stored, rows[Restored(p)]) ELSE stored
      /\ call' = [c \in Calls |-> [call[c] EXCEPT !.here = FALSE]]
      /\ job' = job /\ list' = list /\ work' = work /\ strays' = strays /\ wanted' = wanted /\ crossed' = crossed
      /\ own' = own /\ off' = off /\ faults' = faults
  BY DEF Navigate, server, ghosts
<1>2. PICK old \in BOOLEAN : cache' = MountAll(cache, Uses(p) \ Shown, old) /\ rows' = Watch(rows, Restored(p), old)
  BY DEF Navigate
<1>3. Restored(p) \in 0..MaxJobs
  BY TabIs, Bounds DEF Restored, StoreType
<1>4. rows' \in [Ids -> EntryType(Statuses)] /\ \A i \in Ids : Untold(rows[i], rows'[i])
  BY <1>2, <1>3, TabIs, WatchOk
<1>5. Unheard(job, rows') /\ GoesOn(strays, job, rows')
  BY <1>4, TabIs, RowsUntold
<1>6. /\ CacheOk(cache')
      /\ \A q \in Queries : cache'[q] = (IF q \in Uses(p) \ Shown THEN Mount(cache[q], old) ELSE cache[q])
                            /\ Untold(cache[q], cache'[q])
  BY <1>2, TabIs, MountAllOk
<1>7. ListsFit(cache', job)
  BY <1>6, TabIs, ListsUntold DEF Queries
<1>8. CallsOk(call', job) /\ \A d \in Calls, q \in Queries : Owes(call[d], q) => Owes(call'[d], q)
  <2> DEFINE S == {}
  <2>1. call' = [d \in Calls |-> IF d \in S THEN NoCall ELSE [call[d] EXCEPT !.here = FALSE]]
    BY <1>1
  <2>2. S \in SUBSET Calls /\ Calls \ S = Calls
    OBVIOUS
  <2> HIDE DEF S
  <2>3. CallsOk(call', job) /\ \A d \in Calls \ S, q \in Queries : Owes(call[d], q) => Owes(call'[d], q)
    BY <2>1, <2>2, TabIs, LeftBehind
  <2> QED BY <2>2, <2>3
<1>9. Told'
  <2> SUFFICES ASSUME NEW q \in Queries \ off'
               PROVE  Owed(call', q) \/ Fine(cache'[q], Of(job', list', q), q \in Uses(page'))
    BY DEF Told
  <2> DEFINE s == q \in Uses(page)
             t == q \in Uses(page')
             v == Of(job, list, q)
  <2>1. Owed(call, q) \/ Fine(cache[q], v, s)
    BY <1>1, TabIs DEF Told
  <2>2. s \in BOOLEAN /\ t \in BOOLEAN /\ cache[q] \in EntryType(ValueType(q)) /\ v = Of(job', list', q)
    BY <1>1, TabIs DEF CacheOk
  <2>3. cache'[q] = Mount(cache[q], old) \/ (cache'[q] = cache[q] /\ (t => s))
    BY <1>1, <1>6 DEF Shown
  <2> HIDE DEF s, t, v
  <2>4. Fine(cache[q], v, s) => Fine(cache'[q], v, t)
    <3>1. CASE cache'[q] = Mount(cache[q], old)
      BY <2>2, <3>1, FineMount
    <3>2. CASE cache'[q] = cache[q] /\ (t => s)
      BY <2>2, <3>2, FineLess
    <3> QED BY <2>3, <3>1, <3>2
  <2>5. Owed(call, q) => Owed(call', q)
    BY <1>8 DEF Owed
  <2>6. Owed(call', q) \/ Fine(cache'[q], v, t)
    BY <2>1, <2>4, <2>5
  <2> QED BY <2>2, <2>6 DEF t
<1>10. stored' \in StoreType /\ Remembered(own', job, strays, stored')
  <2>1. stored' \in StoreType
    BY <1>1, TabIs, ForgetOk
  <2>2. Remembered(own', job, strays, stored')
    <3> SUFFICES ASSUME own # 0, job[own].st \in Active, own \notin strays PROVE stored'["join"] = own
      BY <1>1 DEF Remembered
    <3>1. own \in Ids /\ job[own].kind = "join" /\ stored["join"] = own
      BY TabIs, Bounds DEF OwnJoins, Remembered, Ids
    <3>2. ~Over(rows[own])
      BY <3>1, TabIs DEF GoesOn
    <3>3. p = "join" => Restored(p) = own
      BY <3>1 DEF Restored
    <3> QED BY <1>1, <3>1, <3>2, <3>3, TabIs, ForgetOk
  <2> QED BY <2>1, <2>2
<1>11. clicks' \in 0..MaxClicks /\ ws' \in Statuses /\ dlg' \in DialogType /\ DialogFits(dlg', page')
  BY <1>1, TabIs, UserOk, StatusesAre, NoDialogOk
<1> QED BY <1>1, <1>3, <1>4, <1>5, <1>6, <1>7, <1>8, <1>9, <1>10, <1>11, TabIs, ClientKeeps

-----------------------------------------------------------------------------
(* The specification *)

LEMMA UsesOk ==
  ASSUME NEW p \in Pages
  PROVE  Uses(p) \subseteq Queries /\ KindOf(p) \in Kinds
BY DEF Pages, Uses, Queries, KindOf, Kinds, ListNames

LEMMA InitJobs ==
  ASSUME Init
  PROVE  JobsOk(job) /\ OneRuns({}, job)
<1>1. PICK st \in {"none", "running", "completed"}, other \in {"none", "running"} :
        /\ job = [j \in Ids |-> LET is == CASE j = 1 -> st [] j = 2 -> other [] OTHER -> "none" IN
                     IF is = "none" THEN NoJob ELSE [NoJob EXCEPT !.kind = KindOf(page), !.st = is]]
        /\ other = "running" => st = "completed"
  BY DEF Init
<1> DEFINE is(j) == IF j = 1 THEN st ELSE IF j = 2 THEN other ELSE "none"
           r(j) == IF is(j) = "none" THEN NoJob ELSE [NoJob EXCEPT !.kind = KindOf(page), !.st = is(j)]
<1>2. \A j \in Ids : (CASE j = 1 -> st [] j = 2 -> other [] OTHER -> "none") = is(j)
  OBVIOUS
<1>3. job = [j \in Ids |-> r(j)]
  BY <1>1, <1>2
<1>4. KindOf(page) \in Kinds
  BY UsesOk DEF Init
<1>5. \A j \in Ids : is(j) \in Statuses
  BY StatusesAre
<1>6. NoJob \in JobType /\ NoJob.kind = "none" /\ NoJob.st = "none"
  BY StatusesAre DEF NoJob, JobType
<1>8. \A j \in Ids : r(j) \in JobType /\ r(j).st = is(j) /\ (r(j).kind = "none" => r(j).st = "none")
  <2> SUFFICES ASSUME NEW j \in Ids
               PROVE  r(j) \in JobType /\ r(j).st = is(j) /\ (r(j).kind = "none" => r(j).st = "none")
    OBVIOUS
  <2>1. CASE is(j) = "none"
    BY <1>6, <2>1
  <2>2. CASE is(j) # "none"
    <3>1. r(j) = [NoJob EXCEPT !.kind = KindOf(page), !.st = is(j)] /\ is(j) \in Statuses
      BY <1>5, <2>2
    <3> HIDE DEF r, is
    <3>2. r(j) \in JobType /\ r(j).kind = KindOf(page) /\ r(j).st = is(j)
      BY <1>4, <3>1 DEF NoJob, JobType
    <3> QED BY <1>4, <3>2, NoneIsNoKind
  <2> QED BY <2>1, <2>2
<1>9. \A i, j \in Ids : is(i) \in Active /\ is(j) \in Active => i = j
  BY <1>1, StatusesAre
<1> HIDE DEF r, is
<1>10. JobsOk(job)
  BY <1>3, <1>8 DEF JobsOk
<1>11. OneRuns({}, job)
  BY <1>3, <1>8, <1>9 DEF OneRuns
<1> QED BY <1>10, <1>11

LEMMA InitHolds ==
  ASSUME Init
  PROVE  IInv
<1>1. /\ page \in Pages /\ strays = {} /\ att = 0 /\ stored = [k \in {"join", "leave"} |-> 0] /\ ws = "none"
      /\ dlg = NoDialog /\ rows = [j \in Ids |-> Unread("none")] /\ call = [c \in Calls |-> NoCall]
      /\ off = {} /\ own = 0 /\ wanted = list /\ crossed = {} /\ clicks = 0 /\ faults = MaxFaults
      /\ cache = [q \in Queries |-> IF q \in Uses(page) THEN Fetch(Unread(Value(q))) ELSE Unread(Value(q))]
      /\ list \in {[l \in ListNames |-> NoList], [l \in ListNames |-> [there |-> TRUE, items |-> {}]]}
  BY DEF Init
<1>2. JobsOk(job) /\ OneRuns({}, job)
  BY InitJobs
<1>w. WorkOk(work, job)
  <2> DEFINE e == [NoWork EXCEPT !.task = "on"]
             w(j) == IF job[j].st = "running" THEN e ELSE NoWork
  <2>1. work = [j \in Ids |-> w(j)]
    BY DEF Init
  <2>2. NoWork \in TaskType /\ NoWork.task = "off" /\ e \in TaskType /\ e.task = "on"
    BY StatusesAre DEF NoWork, TaskType
  <2> HIDE DEF e
  <2>3. \A j \in Ids : w(j) \in TaskType /\ w(j).task # "begun"
    BY <2>2
  <2> HIDE DEF w
  <2> QED BY <2>1, <2>3 DEF WorkOk
<1>3. list \in [ListNames -> ListType]
  <2>1. NoList \in ListType /\ [there |-> TRUE, items |-> {}] \in ListType
    BY DEF NoList, ListType
  <2>2. PICK l \in ListType : list = [x \in ListNames |-> l]
    BY <1>1, <2>1
  <2> QED BY <2>2
<1>4. ASSUME NEW q \in Queries
      PROVE  /\ cache[q] \in EntryType(ValueType(q)) /\ ~cache[q].has /\ cache[q].net # "read"
             /\ cache[q].data = Of(job, list, q) /\ cache[q].got = Of(job, list, q)
  <2> DEFINE v == Of(job, list, q)
             e == Unread(v)
  <2>1. v \in ValueType(q)
    BY <1>2, <1>3, OfOk DEF JobsOk
  <2>2. cache[q] = Fetch(e) \/ cache[q] = e
    BY <1>1, ValueIs
  <2> HIDE DEF v
  <2>3. e \in EntryType(ValueType(q)) /\ ~e.has /\ e.net = "idle"
    BY <2>1, UnreadOk
  <2>4. e.data = v /\ e.got = v
    BY DEF Unread
  <2> HIDE DEF e
  <2>5. /\ Fetch(e) \in EntryType(ValueType(q)) /\ Fetch(e).net = "sent" /\ Untold(e, Fetch(e))
    BY <2>3, FetchOk, FetchUntold DEF Idle
  <2>6. ~Fetch(e).has /\ Fetch(e).data = v /\ Fetch(e).got = v
    BY <2>3, <2>4, <2>5 DEF Untold
  <2> QED BY <2>2, <2>3, <2>4, <2>5, <2>6 DEF v
<1>5. CacheOk(cache)
  BY <1>1, <1>4 DEF CacheOk
<1>6. rows \in [Ids -> EntryType(Statuses)] /\ \A j \in Ids : ~rows[j].has /\ rows[j].net = "idle"
  BY <1>1, UnreadOk, StatusesAre
<1>7. CallsOk(call, job)
  BY <1>1, NoCallOk DEF CallsOk, CallOk
<1>8. Shaped
  <2>1. dlg \in DialogType
    BY <1>1, NoDialogOk
  <2>2. stored \in StoreType /\ 0 \in 0..MaxJobs /\ 0 \in 0..MaxClicks /\ MaxFaults \in 0..MaxFaults
    BY <1>1, Bounds DEF StoreType
  <2> QED BY <1>1, <1>w, <1>3, <1>5, <1>6, <2>1, <2>2, StatusesAre DEF Shaped
<1>9. DialogFits(dlg, page)
  BY <1>1, NoDialogOk
<1>10. Unheard(job, rows)
  BY <1>6 DEF Unheard
<1>11. ListsFit(cache, job)
  <2> SUFFICES ASSUME NEW q \in Kinds, NEW j \in Ids
               PROVE  Of(job, list, q)[j] # "none" => job[j].kind = q
    BY <1>4 DEF ListsFit, Queries
  <2>1. Of(job, list, q) = [i \in Ids |-> IF job[i].kind = q THEN job[i].st ELSE "none"]
    BY DEF Of, Kinds, ListNames
  <2> QED BY <2>1
<1>12. OwnJoins(own, job) /\ GoesOn(strays, job, rows) /\ Remembered(own, job, strays, stored)
  BY <1>1, <1>6 DEF OwnJoins, GoesOn, Remembered, Over
<1>13. EditsKept
  BY <1>1 DEF EditsKept
<1>14. Told
  BY <1>4 DEF Told, Fine
<1> QED BY <1>1, <1>2, <1>7, <1>8, <1>9, <1>10, <1>11, <1>12, <1>13, <1>14 DEF IInv, Known, Joins

LEMMA StutterKeeps ==
  ASSUME IInv, UNCHANGED vars
  PROVE  IInv'
<1>1. /\ job' = job /\ list' = list /\ work' = work /\ strays' = strays /\ page' = page /\ cache' = cache /\ rows' = rows
      /\ att' = att /\ stored' = stored /\ ws' = ws /\ own' = own /\ dlg' = dlg /\ call' = call
      /\ off' = off /\ wanted' = wanted /\ crossed' = crossed /\ faults' = faults /\ clicks' = clicks
  BY DEF vars, server, tab, ghosts
<1> QED BY <1>1, TabIs, DialogKeeps

LEMMA NextKeeps ==
  ASSUME IInv, [Next]_vars
  PROVE  IInv'
<1>1. ASSUME NEW c \in Calls, CallStep(c)
      PROVE  IInv'
  BY <1>1, CheckKeeps, WriteKeeps, HandleErrorKeeps, HandleStartedKeeps, HandleDoneKeeps, SMT DEF CallStep
<1>2. ASSUME NEW c \in Calls, UserStep(c)
      PROVE  IInv'
  BY <1>2, PressKeeps, ConfirmKeeps, EditorsKeep DEF UserStep
<1>3. ASSUME NEW op \in Ops, NEW j \in 0..MaxJobs, Ask(op, j)
      PROVE  IInv'
  BY <1>3, AskKeeps
<1>4. ASSUME NEW j \in Ids, \/ Take(j) \/ Begin(j) \/ EndRead(j) \/ EndWrite(j) \/ Breaks(j) \/ Halt(j)
                              \/ Recover(j) \/ Progress(j) \/ ClickRow(j)
      PROVE  IInv'
  BY <1>4, TakeKeeps, BeginKeeps, EndReadKeeps, EndWriteKeeps, BreaksKeeps, HaltKeeps, RecoverKeeps,
     ProgressKeeps, ClickRowKeeps
<1>5. ASSUME NEW j \in Ids, ServeRow(j) \/ RowArrives(j) \/ RowFails(j)
      PROVE  IInv'
  BY <1>5, ServeRowKeeps, RowArrivesKeeps, RowFailsKeeps
<1>6. ASSUME NEW q \in Queries, ServeQuery(q) \/ QueryArrives(q)
      PROVE  IInv'
  BY <1>6, ServeQueryKeeps, QueryArrivesKeeps
<1>7. CASE Dismiss \/ OpenTextModal \/ AskDrop \/ PollRow \/ PollList
  BY <1>7, DismissKeeps, ModalKeeps, PollRowKeeps, PollListKeeps
<1>8. CASE UNCHANGED vars
  BY <1>8, StutterKeeps
<1> QED BY <1>1, <1>2, <1>3, <1>4, <1>5, <1>6, <1>7, <1>8, OtherEditKeeps, NavigateKeeps DEF Next

LEMMA InvSafe ==
  ASSUME IInv
  PROVE  JobsSafe
<1>1. TypeOK
  BY DEF IInv, Shaped, TypeOK, WorkOk, TaskType, JobsOk, JobType, CallsOk, CallType, DialogType, StoreType, CacheOk
<1>2. SharedOnlyByOverlap
  <2> DEFINE A == ActiveJobs \ strays
  <2>1. \A i, j \in A : i = j
    BY DEF IInv, OneRuns, ActiveJobs, St
  <2> HIDE DEF A
  <2>2. CASE A = {}
    BY <2>2, FS_EmptySet DEF SharedOnlyByOverlap, A
  <2>3. CASE A # {}
    <3>1. PICK j : A = {j}
      BY <2>1, <2>3
    <3>2. Cardinality({j}) = 1
      BY FS_Singleton
    <3>3. Cardinality(A) = 1
      BY <3>1, <3>2
    <3> QED BY <3>3 DEF SharedOnlyByOverlap, A
  <2> QED BY <2>2, <2>3
<1>3. RememberedRun
  BY TabIs DEF Remembered, RememberedRun, St
<1>4. OwnActionsShown
  <2> SUFFICES ASSUME NEW q \in Shown \ off, Rest, Idle(cache[q]), cache[q].has
               PROVE  cache[q].data = Value(q)
    BY DEF OwnActionsShown
  <2>1. q \in Queries \ off /\ q \in Uses(page)
    BY TabIs, UsesOk DEF Shown
  <2>2. ~Owed(call, q)
    BY DEF Rest, At, Owed, Owes
  <2>3. Fine(cache[q], Of(job, list, q), TRUE)
    BY <2>1, <2>2, TabIs DEF Told, Fine
  <2> QED BY <2>1, <2>3, ValueIs DEF Fine, Idle
<1>5. EditsKept
  BY DEF IInv
<1> QED BY <1>1, <1>2, <1>3, <1>4, <1>5 DEF JobsSafe

-----------------------------------------------------------------------------
(* A job that is over *)

OverStep == \A j \in Ids : St(j) \in Terminal /\ St(j)' \in Active => Revived(j)

LEMMA ApartAre == Active \cap Terminal = {}
BY DEF Active, Terminal

LEMMA WriteOver ==
  ASSUME IInv, NEW c \in Calls, Write(c)
  PROVE  OverStep
<1> DEFINE k == call[c]
<1>1. CallOk(k, job) /\ k \in CallType /\ k.js \subseteq Ids /\ JobsOk(job)
  BY TabIs, CallFields DEF CallsOk, CallOk
<1>2. k.pc = "checked" /\ k = call[c]
  BY DEF Write, At
<1>3. \/ job' = job
      \/ job' \in Written(k) /\ ~(\E j \in k.js : St(j) = "none") /\ ~(k.op = "start" /\ Unused = {})
         /\ \E x \in {"done", "failed"} : call' = Late([call EXCEPT ![c] = Answered(k, x)])
      \/ \E w \in Written(k) : job' = [j \in Ids |-> IF w[j] # job[j] THEN [w[j] EXCEPT !.st = "failed"] ELSE w[j]]
         /\ k.op \in {"start", "retry"}
         /\ ~(\E j \in k.js : St(j) = "none") /\ ~(k.op = "start" /\ Unused = {})
  BY DEF Write, server
<1> HIDE DEF k
<1> SUFFICES ASSUME NEW j \in Ids, job[j].st \in Terminal, job'[j].st \in Active,
                    ~(call'[c].pc = "answered" /\ j \in k.js /\ (k.op = "retry" \/ k.late))
             PROVE  FALSE
  BY <1>2 DEF OverStep, Revived, St, At
<1>4. CASE job' = job
  BY <1>4, ApartAre
<1>w. ASSUME NEW w \in Written(k), k.op = "start" => Unused # {}
      PROVE  w[j] = job[j] \/ w[j].st \notin Active
             \/ (k.op \in {"pause", "pauseAll", "resume", "retry"} /\ j \in k.js)
  <2>1. CASE k.op = "start"
    <3>1. FirstUnused \in Ids /\ job[FirstUnused].kind = "none" /\ job \in [Ids -> JobType]
      BY <1>w, <1>1, <2>1, LeastUnused DEF Unused, JobsOk
    <3>2. j # FirstUnused
      BY <1>1, <3>1, NoneIsNoKind DEF JobsOk
    <3> DEFINE i == FirstUnused
    <3>3. PICK s : w = [job EXCEPT ![i] = [kind |-> k.kind, st |-> s]]
      BY <2>1 DEF Written, Started
    <3> HIDE DEF i
    <3> QED BY <3>1, <3>2, <3>3 DEF i
  <2>2. CASE k.op = "clear"
    <3>1. w[j] = IF j \in Broadcasts(Terminal) THEN Deleted(j) ELSE job[j]
      BY <1>w, <2>2 DEF Written, Cleared
    <3>2. job[j] \in JobType
      BY <1>1 DEF JobsOk
    <3>3. Deleted(j).st = "none"
      BY <3>2, StatusesAre DEF Deleted, JobType
    <3> QED BY <3>1, <3>3, NoneIsNoKind
  <2>3. CASE k.op \in {"create", "update", "drop"}
    BY <1>w, <2>3 DEF Written
  <2>4. CASE k.op \notin {"start", "clear", "create", "update", "drop"}
    <3> DEFINE s == update_job_status(k.op)
    <3>1. w[j] = IF j \notin k.js THEN job[j]
                 ELSE IF k.op = "delete" THEN Deleted(j) ELSE [job[j] EXCEPT !.st = s]
      BY <1>w, <2>4 DEF Written, Steered
    <3>2. s \in Statuses /\ (k.op \in {"pause", "pauseAll", "resume", "retry"} \/ s \notin Active)
      BY <2>4, NoneIsNoKind DEF update_job_status, Statuses, Active, Terminal
    <3> HIDE DEF s
    <3>3. job[j] \in JobType
      BY <1>1 DEF JobsOk
    <3>4. Deleted(j).st = "none"
      BY <3>3, StatusesAre DEF Deleted, JobType
    <3> DEFINE r == [job[j] EXCEPT !.st = s]
    <3>5. r.st = s
      BY <3>2, <3>3 DEF JobType
    <3>6. w[j] = IF j \notin k.js THEN job[j] ELSE IF k.op = "delete" THEN Deleted(j) ELSE r
      BY <3>1
    <3> HIDE DEF r
    <3> QED BY <3>2, <3>4, <3>5, <3>6, NoneIsNoKind
  <2> QED BY <2>1, <2>2, <2>3, <2>4
<1>5. CASE /\ job' \in Written(k) /\ ~(k.op = "start" /\ Unused = {})
           /\ \E x \in {"done", "failed"} : call' = Late([call EXCEPT ![c] = Answered(k, x)])
  <2>1. k.op \in {"pause", "pauseAll", "resume", "retry"} /\ j \in k.js
    BY <1>5, <1>w, ApartAre
  <2>2. call'[c].pc = "answered"
    <3>1. PICK x \in {"done", "failed"} : call' = Late([call EXCEPT ![c] = Answered(k, x)])
      BY <1>5
    <3> DEFINE g == [call EXCEPT ![c] = Answered(k, x)]
    <3>2. g[c] = Answered(k, x) /\ DOMAIN call = Calls
      BY TabIs DEF CallsOk
    <3>3. Answered(k, x).pc = "answered"
      BY <1>1 DEF Answered, CallType
    <3>4. call' = Late(g)
      BY <3>1
    <3> HIDE DEF g
    <3>5. ~Outdated(g[c])
      BY <3>2, <3>3 DEF Outdated
    <3>6. call'[c] = g[c]
      BY <3>4, <3>5 DEF Late
    <3> QED BY <3>2, <3>3, <3>6
  <2>3. k.op # "retry" /\ ~k.late
    BY <2>1, <2>2
  <2>4. job[j].st \in {"running", "paused"}
    BY <1>1, <1>2, <2>1, <2>3 DEF CallOk, JobsOf
  <2> QED BY <2>4 DEF Terminal
<1>6. ASSUME NEW w \in Written(k), k.op \in {"start", "retry"}, ~(\E i \in k.js : St(i) = "none"),
             ~(k.op = "start" /\ Unused = {}),
             job' = [i \in Ids |-> IF w[i] # job[i] THEN [w[i] EXCEPT !.st = "failed"] ELSE w[i]]
      PROVE  FALSE
  <2>1. JobsOk(w)
    BY <1>1, <1>2, <1>6, WrittenFits DEF Fits
  <2>2. w[j] \in JobType
    BY <2>1 DEF JobsOk
  <2>3. w[j] # job[j] => job'[j].st = "failed"
    BY <1>6, <2>2, JobSet, StatusesAre
  <2>4. w[j] = job[j] => job'[j] = job[j]
    BY <1>6
  <2> QED BY <2>3, <2>4, ApartAre, StatusesAre
<1> QED BY <1>3, <1>4, <1>5, <1>6

LEMMA StepOver ==
  ASSUME IInv, [Next]_vars
  PROVE  OverStep
<1>0. job' = job => OverStep
  BY ApartAre DEF OverStep, St
<1>1. ASSUME NEW c \in Calls, CallStep(c)
      PROVE  OverStep
  <2>1. CASE Write(c)
    BY <2>1, WriteOver
  <2>2. CASE Check(c) \/ HandleError(c) \/ HandleStarted(c) \/ HandleDone(c)
    BY <1>0, <2>2 DEF Check, HandleError, HandleStarted, HandleDone, server
  <2> QED BY <1>1, <2>1, <2>2 DEF CallStep
<1>2. ASSUME NEW c \in Calls, UserStep(c)
      PROVE  OverStep
  <2>1. job' = job
    BY <1>2 DEF UserStep, Press, Confirm, handleCreate, EditGroups, handleBulkImport, SaveTextModal,
                EditTexts, ConfirmDrop, server
  <2> QED BY <1>0, <2>1
<1>3. ASSUME NEW j \in Ids, NEW st \in Statuses, WorkerSets(j, st), st \in Active => Revived(j)
      PROVE  OverStep
  <2> DEFINE r == [job[j] EXCEPT !.st = st]
  <2>1. job' = [job EXCEPT ![j] = r] /\ job \in [Ids -> JobType]
    BY <1>3, TabIs DEF WorkerSets, JobsOk
  <2>2. job[j] \in JobType
    BY <2>1
  <2>3. r.st = st
    BY <2>2, JobSet
  <2> HIDE DEF r
  <2>4. job'[j].st = st /\ \A i \in Ids : i # j => job'[i] = job[i]
    BY <2>1, <2>3
  <2> QED BY <1>3, <2>4, ApartAre DEF OverStep, St
<1>4. ASSUME NEW j \in Ids, \/ Take(j) \/ Begin(j) \/ EndRead(j) \/ EndWrite(j) \/ Breaks(j) \/ Halt(j)
                              \/ Recover(j) \/ Progress(j) \/ ClickRow(j)
      PROVE  OverStep
  <2>w. WorkOk(work, job) /\ St(j) \in Statuses
    BY WorkIs
  <2>1. CASE Take(j) \/ EndRead(j) \/ Recover(j)
    BY <1>0, <2>1 DEF Take, EndRead, Recover, WorkerReads
  <2>2. CASE Begin(j)
    <3>1. work[j].task = "begun" /\ Task(j, "on", "none")
      BY <2>2 DEF Begin
    <3>2. work'[j].task = "on"
      BY <2>w, <3>1, TaskOk
    <3>3. job[j].kind = "leave" \/ work[j].saw \notin {"cancelled", "completed"}
      BY <2>w, <3>1 DEF WorkOk
    <3>4. Revived(j)
      BY <3>1, <3>2, <3>3 DEF Revived
    <3>5. PICK s \in FirstWritten(job[j].kind) :
            WorkerSets(j, IF s = work[j].saw /\ job[j].kind # "leave" THEN St(j) ELSE s)
      BY <2>2 DEF Begin
    <3> DEFINE t == IF s = work[j].saw /\ job[j].kind # "leave" THEN St(j) ELSE s
    <3>6. t \in Statuses
      BY <2>w, StatusesAre DEF FirstWritten
    <3>7. WorkerSets(j, t)
      BY <3>5
    <3> HIDE DEF t
    <3> QED BY <1>3, <3>4, <3>6, <3>7
  <2>3. CASE EndWrite(j)
    <3>1. WorkerSets(j, "completed")
      BY <2>3 DEF EndWrite
    <3>2. "completed" \in Statuses /\ "completed" \notin Active
      BY StatusesAre
    <3> QED BY <1>3, <3>1, <3>2
  <2>4. CASE Breaks(j)
    <3>1. work[j].task # "off" /\ Task(j, "off", "none")
      BY <2>4 DEF Breaks
    <3>2. work'[j].task = "off"
      BY <2>w, <3>1, TaskOk
    <3>3. CASE WorkerSets(j, "failed")
      <4>1. "failed" \in Statuses /\ "failed" \notin Active
        BY StatusesAre
      <4> QED BY <1>3, <3>3, <4>1
    <3>4. CASE job[j].kind = "broadcast" /\ WorkerSets(j, "paused")
      <4>1. job' = [job EXCEPT ![j].st = "paused"] /\ job \in [Ids -> JobType] /\ job[j] \in JobType
        BY <3>4, TabIs DEF WorkerSets, JobsOk
      <4>2. job'[j].st = "paused"
        BY <4>1 DEF JobType
      <4>3. Revived(j)
        BY <3>1, <3>2, <3>4, <4>2 DEF Revived
      <4> QED BY <1>3, <3>4, <4>3, StatusesAre
    <3> QED BY <2>4, <3>3, <3>4 DEF Breaks
  <2>5. CASE Halt(j)
    <3>1. CASE WorkerReads
      BY <1>0, <3>1 DEF WorkerReads
    <3>2. CASE WorkerSets(j, "cancelled")
      <4>1. "cancelled" \in Statuses /\ "cancelled" \notin Active
        BY StatusesAre
      <4> QED BY <1>3, <3>2, <4>1
    <3> QED BY <2>5, <3>1, <3>2 DEF Halt
  <2>6. CASE Progress(j) \/ ClickRow(j)
    BY <1>0, <2>6 DEF Progress, ClickRow, server
  <2> QED BY <1>4, <2>1, <2>2, <2>3, <2>4, <2>5, <2>6
<1>5. ASSUME NEW j \in Ids, ServeRow(j) \/ RowArrives(j) \/ RowFails(j)
      PROVE  OverStep
  BY <1>0, <1>5 DEF ServeRow, RowArrives, RowFails, server
<1>6. ASSUME NEW q \in Queries, ServeQuery(q) \/ QueryArrives(q)
      PROVE  OverStep
  BY <1>0, <1>6 DEF ServeQuery, QueryArrives, server
<1>7. CASE Dismiss \/ OpenTextModal \/ AskDrop \/ PollRow \/ PollList
  BY <1>0, <1>7 DEF Dismiss, OpenTextModal, AskDrop, PollRow, PollList, server
<1>8. ASSUME NEW op \in Ops, NEW j \in 0..MaxJobs, Ask(op, j)
      PROVE  OverStep
  BY <1>0, <1>8 DEF Ask, server
<1>9. ASSUME NEW l \in ListNames, OtherEdit(l)
      PROVE  OverStep
  BY <1>0, <1>9 DEF OtherEdit
<1>10. ASSUME NEW p \in Pages, Navigate(p)
       PROVE  OverStep
  BY <1>0, <1>10 DEF Navigate, server
<1>11. CASE UNCHANGED vars
  BY <1>0, <1>11 DEF vars, server
<1> QED BY <1>1, <1>2, <1>4, <1>5, <1>6, <1>7, <1>8, <1>9, <1>10, <1>11 DEF Next

-----------------------------------------------------------------------------
(* For any number of requests, jobs, list entries, clicks and faults: apart *)
(* from the jobs that were made active over a status their writer had not  *)
(* read, or again after their end, the account works for one job at a time *)
(* and the auto-join that goes on is remembered; a list at rest shows what *)
(* the calls did, and no edit of a list undoes another that it had seen.   *)
THEOREM JobsAreSafe == Spec => []JobsSafe
<1>1. Init => IInv
  BY InitHolds
<1>2. IInv /\ [Next]_vars => IInv'
  BY NextKeeps
<1>3. IInv => JobsSafe
  BY InvSafe
<1> QED BY <1>1, <1>2, <1>3, PTL DEF Spec

(* A job that is over becomes active again only when it is run again, by a *)
(* request that had read it before its end, by the first write of a task   *)
(* that had not found it stopped or complete (an auto-leave's does not     *)
(* look), or when a broadcast's task finds no account.                     *)
THEOREM OverStays == Spec => OverIsOver
<1>1. Init => IInv
  BY InitHolds
<1>2. IInv /\ [Next]_vars => IInv'
  BY NextKeeps
<1>3. IInv /\ [Next]_vars => [\A j \in Ids : St(j) \in Terminal /\ St(j)' \in Active => Revived(j)]_vars
  BY StepOver DEF OverStep
<1> QED BY <1>1, <1>2, <1>3, PTL DEF Spec, OverIsOver
=============================================================================
