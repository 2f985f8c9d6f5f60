-------------------------------- MODULE Jobs --------------------------------
(***************************************************************************)
(* The jobs a Telegram account works for (broadcasts, member invites,      *)
(* auto-joins and auto-leaves) and the pages that start, watch and steer   *)
(* them, for one user with one account and one tab.  A request of the      *)
(* server reads the job's status and writes it in two steps, and so does   *)
(* the worker's task when it begins and when it ends.  A start waits in    *)
(* the queue, and may be taken after its job has ended.  Pages keep a job  *)
(* they watch, two of them in localStorage; their group and text lists are *)
(* edited by sending the whole list.                                       *)
(***************************************************************************)
EXTENDS Integers, FiniteSets, QueryClient

CONSTANTS
  Calls,   \* requests that may be in flight at the same time
  Items,   \* entries of a group or text list
  MaxJobs, MaxClicks, MaxFaults

ASSUME JobsAssumption == {MaxJobs, MaxClicks} \subseteq Nat \ {0} /\ MaxFaults \in Nat

VARIABLES
  job,      \* the jobs of the server
  work,     \* the worker's side of a job: starts in the queue, its task, the status it has read
  list,     \* the group list and the text list of the server
  strays,   \* active jobs that a write over a status its writer had not read has made active
  page,
  att,      \* activeJobId of the page
  stored,   \* the ids remembered in localStorage
  ws,       \* progress.status, from the socket of the job watched
  dlg,      \* the page's dialog, and what it holds
  cache,    \* the QueryClient: the lists
  rows,     \* the QueryClient: single jobs, by id
  call,
  off,      \* lists whose data no hook has promised to refresh
  own,      \* the auto-join last started here and not let go of
  wanted,   \* what the acknowledged edits of each list amount to
  crossed,  \* lists edited from data that was not the server's
  clicks, faults

server == <<job, work, list, strays>>
tab == <<page, att, stored, ws, dlg>>
ghosts == <<off, own, wanted, crossed>>
vars == <<server, tab, cache, rows, call, ghosts, clicks, faults>>

Ids == 1..MaxJobs
Kinds == {"broadcast", "invite", "join", "leave"}
Active == {"pending", "running", "paused"}
Terminal == {"completed", "cancelled", "failed"}
Statuses == Active \cup Terminal \cup {"none"}
ListNames == {"groups", "texts"}
Queries == Kinds \cup ListNames \cup {"summary", "admin"}
Pages == {"new", "success", "history", "logs", "groups", "texts", "invite", "inviteHistory",
          "join", "leave", "admin"}
(* An id never used has no kind; one whose job was deleted keeps it.      *)
NoJob == [kind |-> "none", st |-> "none"]
NoWork == [queued |-> 0, task |-> "off", saw |-> "none"]
NoList == [there |-> FALSE, items |-> {}]
ListType == [there: BOOLEAN, items: SUBSET Items]
NoDialog == [op |-> "none", j |-> 0, base |-> {}]
NoCall == [op |-> "none", kind |-> "broadcast", js |-> {}, pc |-> "idle", ans |-> "none",
           here |-> FALSE, late |-> FALSE, base |-> {}, want |-> {}, send |-> {}]
Ops == {"start", "pause", "resume", "stop", "delete", "retry", "pauseAll", "stopAll", "clear",
        "create", "update", "drop"}

(* The kind of job a page is about. *)
KindOf(p) == CASE p \in {"invite", "inviteHistory"} -> "invite"
               [] p \in {"join", "leave"} -> p
               [] OTHER -> "broadcast"
(* What the requests of a page are addressed to. *)
Endpoint(p) == IF p \in ListNames \cup {"admin"} THEN p ELSE KindOf(p)

IsJobList(q) == q \in Kinds \cup {"admin"}
Value(q) ==
  CASE q \in Kinds -> [j \in Ids |-> IF job[j].kind = q THEN job[j].st ELSE "none"]
    [] q = "admin" -> [j \in Ids |-> IF job[j].kind = "broadcast" THEN job[j].st ELSE "none"]
    [] q = "summary" -> \E j \in Ids : job[j].kind = "broadcast" /\ job[j].st \in {"running", "paused"}
    [] q \in ListNames -> list[q]

ValueType(q) == CASE IsJobList(q) -> [Ids -> Statuses]
                  [] q = "summary" -> BOOLEAN
                  [] OTHER -> ListType

(* The lists a page shows. *)
Uses(p) == CASE p \in {"new", "history"} -> {"broadcast", "summary"}
             [] p = "logs" -> {"broadcast"}
             [] p \in {"invite", "inviteHistory"} -> {"invite"}
             [] p = "success" -> {}
             [] OTHER -> {p}

TypeOK ==
  /\ job \in [Ids -> [kind: Kinds \cup {"none"}, st: Statuses]]
  /\ work \in [Ids -> [queued: Nat, task: {"off", "begun", "on", "ending"}, saw: Statuses]]
  /\ list \in [ListNames -> ListType] /\ wanted \in [ListNames -> ListType]
  /\ strays \subseteq Ids /\ page \in Pages /\ att \in 0..MaxJobs /\ own \in 0..MaxJobs
  /\ stored \in [{"join", "leave"} -> 0..MaxJobs] /\ ws \in Statuses
  /\ dlg \in [op: Ops \cup {"none"}, j: 0..MaxJobs, base: SUBSET Items]
  /\ DOMAIN cache = Queries /\ \A q \in Queries : cache[q] \in EntryType(ValueType(q))
  /\ rows \in [Ids -> EntryType(Statuses)]
  /\ call \in [Calls -> [op: Ops \cup {"none"}, kind: Kinds \cup ListNames \cup {"admin"}, js: SUBSET Ids,
                         pc: {"idle", "sent", "checked", "answered"}, ans: {"none", "done", "failed"},
                         here: BOOLEAN, late: BOOLEAN, base: SUBSET Items, want: SUBSET Items, send: SUBSET Items]]
  /\ off \subseteq Queries /\ crossed \subseteq ListNames
  /\ clicks \in 0..MaxClicks /\ faults \in 0..MaxFaults

(* Old says that the cached data is past its staleTime. *)
Watch(rs, j, old) == IF j = 0 THEN rs ELSE [rs EXCEPT ![j] = Mount(@, old)]

Init ==
  /\ page \in Pages \ {"success"}
  /\ \E st \in {"none", "running", "completed"}, other \in {"none", "running"} :
       /\ job = [j \in Ids |-> LET is == CASE j = 1 -> st [] j = 2 -> other [] OTHER -> "none" IN
                   IF is = "none" THEN NoJob ELSE [NoJob EXCEPT !.kind = KindOf(page), !.st = is]]
       /\ other = "running" => st = "completed" /\ page = "history"
       /\ page = "new" => st = "none"
  /\ list \in {[l \in ListNames |-> NoList], [l \in ListNames |-> [there |-> TRUE, items |-> {}]]}
  /\ page \notin ListNames => \A l \in ListNames : ~list[l].there
  /\ page \in ListNames => job[1].st = "none"
  /\ work = [j \in Ids |-> IF job[j].st = "running" THEN [NoWork EXCEPT !.task = "on"] ELSE NoWork]
  /\ strays = {} /\ att = 0 /\ stored = [k \in {"join", "leave"} |-> 0] /\ ws = "none"
  /\ dlg = NoDialog
  /\ cache = [q \in Queries |-> IF q \in Uses(page) THEN Fetch(Unread(Value(q))) ELSE Unread(Value(q))]
  /\ rows = [j \in Ids |-> Unread("none")]
  /\ call = [c \in Calls |-> NoCall]
  /\ off = {} /\ own = 0 /\ wanted = list /\ crossed = {} /\ clicks = 0 /\ faults = MaxFaults

User == clicks < MaxClicks /\ clicks' = clicks + 1
(* MaxFaults bounds what goes wrong and what others do meanwhile. *)
Fault == faults > 0 /\ faults' = faults - 1
At(c, pc) == call[c].pc = pc
Shown == Uses(page)
Row(q, j) == IF cache[q].has THEN cache[q].data[j] ELSE "none"
IsPending(ops) == \E c \in Calls : call[c].here /\ call[c].op \in ops

-----------------------------------------------------------------------------
(* The buttons of the pages *)

(* The account is offered unless the summary or a listed job holds it; a  *)
(* selection that becomes busy is dropped.                                *)
busyAccountIds == \/ cache["summary"].has /\ cache["summary"].data
                  \/ \E j \in Ids : Row("broadcast", j) \in {"running", "paused"}

(* handlePreStart asks before it starts. *)
handlePreStart(op, j) == page = "new" /\ op = "start" /\ j = 0 /\ ~busyAccountIds

(* The actions of a row of the broadcast history, by status: those that   *)
(* act at once and those that ask first.                                   *)
renderJobActions(op, j) ==
  LET st == Row("broadcast", j) IN
  /\ page = "history"
  /\ \/ st = "running" /\ op = "pause"
     \/ st = "paused" /\ op = "resume"
     \/ st \in Terminal /\ op = "retry" /\ ~IsPending({"retry"})
renderJobDialogs(op, j) ==
  LET st == Row("broadcast", j) IN
  /\ page = "history"
  /\ \/ st \in Active /\ op = "stop"
     \/ st \in Terminal /\ op = "delete" /\ ~IsPending({"delete"})

InviteActions(op, j) ==
  LET st == Row("invite", j) IN
  /\ page = "inviteHistory"
  /\ \/ st = "running" /\ op = "pause"
     \/ st = "paused" /\ op = "resume"
     \/ st \in Terminal /\ op = "retry"
InviteDialogs(op, j) ==
  LET st == Row("invite", j) IN
  /\ page = "inviteHistory"
  /\ \/ st = "running" /\ op = "stop"
     \/ st \in Terminal /\ op = "delete"

(* The invite page watches its own job, or else the first that is going on. *)
Going == {j \in Ids : Row("invite", j) \in {"running", "paused"}}
currentTrackingId ==
  IF att # 0 THEN att ELSE IF Going = {} THEN 0 ELSE CHOOSE j \in Going : \A k \in Going : j <= k
TrackedSt == IF currentTrackingId = 0 THEN "none" ELSE Row("invite", currentTrackingId)
InvitePanel(op, j) ==
  /\ page = "invite" /\ j = currentTrackingId
  /\ \/ TrackedSt = "running" /\ op = "pause"
     \/ TrackedSt = "paused" /\ op = "resume"
InviteStop(op, j) == page = "invite" /\ j = currentTrackingId /\ TrackedSt = "running" /\ op = "stop"
InviteStart(op, j) ==
  page = "invite" /\ op = "start" /\ j = 0 /\ TrackedSt \notin Active /\ ~IsPending({"start"})

(* The auto-join page: the row of the job watched decides. *)
WatchedRow == IF att # 0 /\ rows[att].has THEN rows[att].data ELSE "none"
isJobActive == WatchedRow \in Active
JoinStart(op, j) ==
  page = "join" /\ op = "start" /\ j = 0 /\ ~isJobActive /\ ~IsPending({"start"})
JoinPanel(op, j) ==
  /\ page = "join" /\ isJobActive /\ j = att /\ ~IsPending({"pause", "resume", "stop"})
  /\ \/ op = "stop"
     \/ WatchedRow # "pending" /\ op = IF WatchedRow = "paused" THEN "resume" ELSE "pause"
JoinDelete(op, j) ==
  page = "join" /\ op = "delete" /\ j # 0 /\ Row("join", j) \in Terminal /\ ~IsPending({"delete"})

(* The auto-leave page: the socket's word comes before the row's. *)
currentJobStatus == CASE ws # "none" -> ws
                      [] ws = "none" /\ WatchedRow # "none" -> WatchedRow
                      [] OTHER -> "pending"
LeaveStart(op, j) ==
  page = "leave" /\ op = "start" /\ j = 0 /\ currentJobStatus # "running" /\ ~IsPending({"start"})
LeavePanel(op, j) ==
  /\ page = "leave" /\ att # 0 /\ j = att /\ ~IsPending({"pause", "resume", "stop"})
  /\ \/ currentJobStatus = "running" /\ op \in {"pause", "stop"}
     \/ currentJobStatus = "paused" /\ op \in {"resume", "stop"}
LeaveDelete(op, j) == page = "leave" /\ op = "delete" /\ j # 0 /\ Row("leave", j) # "none"

(* The administrator's table, and its three buttons for many jobs; all of *)
(* them ask, and none while a call of the page runs.                      *)
AdminRow(op, j) ==
  LET st == Row("admin", j) IN
  /\ page = "admin" /\ ~IsPending(Ops)
  /\ \/ st = "running" /\ op \in {"pause", "stop"}
     \/ st = "paused" /\ op \in {"resume", "stop"}
     \/ st # "none" /\ op = "delete"
AdminBulk(op, j) == page = "admin" /\ ~IsPending(Ops) /\ j = 0 /\ op \in {"pauseAll", "stopAll", "clear"}

Direct(op, j) ==
  \/ JoinStart(op, j) \/ LeaveStart(op, j) \/ InviteStart(op, j)
  \/ j # 0 /\ (renderJobActions(op, j) \/ InviteActions(op, j) \/ InvitePanel(op, j))
  \/ JoinPanel(op, j) \/ JoinDelete(op, j) \/ LeavePanel(op, j) \/ LeaveDelete(op, j)
Asks(op, j) ==
  \/ handlePreStart(op, j) \/ AdminBulk(op, j)
  \/ j # 0 /\ (renderJobDialogs(op, j) \/ InviteDialogs(op, j) \/ InviteStop(op, j) \/ AdminRow(op, j))

Free(c) == At(c, "idle") /\ \A d \in Calls : At(d, "idle") => c = CHOOSE x \in Calls : At(x, "idle")

(* An edit sends a list made from base; want is what it is to become. *)
Send(c, op, js, base, want, send) ==
  /\ User /\ Free(c)
  /\ call' = [call EXCEPT ![c] = [NoCall EXCEPT !.op = op, !.kind = Endpoint(page), !.js = js,
                !.pc = "sent", !.here = TRUE, !.base = base, !.want = want, !.send = send]]

(* handleDeleteJob lets go of the job first. *)
Press(c, op, j) ==
  /\ dlg = NoDialog /\ clicks < MaxClicks /\ Free(c) /\ Direct(op, j)
  /\ Send(c, op, {j} \ {0}, {}, {}, {})
  /\ IF op = "delete" /\ j = att
     THEN /\ att' = 0 /\ stored' = [stored EXCEPT ![page] = 0] /\ ws' = "none"
          /\ own' = IF page = "join" THEN 0 ELSE own
     ELSE UNCHANGED <<att, stored, ws, own>>
  /\ UNCHANGED <<server, page, dlg, cache, rows, off, wanted, crossed, faults>>

Ask(op, j) ==
  /\ dlg = NoDialog /\ clicks < MaxClicks /\ Asks(op, j)
  /\ dlg' = [NoDialog EXCEPT !.op = op, !.j = j]
  /\ UNCHANGED <<server, page, att, stored, ws, cache, rows, call, ghosts, clicks, faults>>

(* The invite page's dialog stops whatever the page watches by now; the   *)
(* broadcast form's and the administrator's stay open while they wait,    *)
(* and only the latter's button is disabled.                              *)
Confirm(c) ==
  /\ dlg.op \in Ops \ {"create", "update", "drop"}
  /\ page = "new" => ~busyAccountIds
  /\ page = "admin" => ~IsPending(Ops)
  /\ LET j == IF page = "invite" THEN currentTrackingId ELSE dlg.j IN
       /\ page = "invite" => j # 0
       /\ Send(c, dlg.op, {j} \ {0}, {}, {}, {})
  /\ dlg' = IF page \in {"new", "admin"} THEN dlg ELSE NoDialog
  /\ UNCHANGED <<server, page, att, stored, ws, cache, rows, ghosts, faults>>

Dismiss ==
  /\ dlg # NoDialog /\ page = "admin" => ~IsPending(Ops)
  /\ dlg' = NoDialog
  /\ UNCHANGED <<server, page, att, stored, ws, cache, rows, call, ghosts, clicks, faults>>

(* The auto-join page forgets the job it watches, or starts to watch, once *)
(* it knows that it is over: the history still has it.                     *)
Over(e) == e.has /\ e.data \in Terminal
Forget(st, e) == IF Over(e) THEN [st EXCEPT !["join"] = 0] ELSE st

(* A click on a row of the history attaches the page to its job. *)
ClickRow(j) ==
  /\ User /\ page \in {"join", "leave"} /\ Row(page, j) # "none" /\ j # att
  /\ att' = j /\ ws' = "none"
  /\ stored' = IF page = "join" THEN Forget([stored EXCEPT !["join"] = j], rows[j]) ELSE [stored EXCEPT !["leave"] = j]
  /\ \E old \in BOOLEAN : rows' = Watch(rows, j, old)
  /\ own' = IF page = "join" THEN 0 ELSE own
  /\ UNCHANGED <<server, page, dlg, cache, call, off, wanted, crossed, faults>>

-----------------------------------------------------------------------------
(* The list editors *)

Seen(l) == IF cache[l].has THEN cache[l].data ELSE NoList

(* handleCreate, in the form or from the auto-join page's targets. *)
handleCreate(c) ==
  /\ page \in ListNames /\ ~Seen(page).there /\ cache[page].has
  /\ Send(c, "create", {}, {}, {}, {})
  /\ UNCHANGED <<server, tab, cache, rows, ghosts, faults>>

handleRemoveItem(items, x) == items \ {x}

(* handleAddItem: the button stays live while an update runs, and sends   *)
(* the list shown with one more.                                          *)
handleAddItem(items, x) == items \cup {x}

EditGroups(c) ==
  /\ page = "groups" /\ Seen("groups").there
  /\ LET items == Seen("groups").items IN
       \/ \E x \in Items \ items : Send(c, "update", {}, items, items \cup {x}, handleAddItem(items, x))
       \/ \E x \in items : Send(c, "update", {}, items, items \ {x}, handleRemoveItem(items, x))
  /\ UNCHANGED <<server, tab, cache, rows, ghosts, faults>>

(* handleBulkImport adds what the dialog has parsed. *)
handleBulkImport(c) ==
  /\ page = "groups" /\ Seen("groups").there
  /\ LET items == Seen("groups").items IN Send(c, "update", {}, items, items \cup Items, items \cup Items)
  /\ UNCHANGED <<server, tab, cache, rows, ghosts, faults>>

(* A text is edited in a modal that keeps the texts from its opening. *)
OpenTextModal ==
  /\ page = "texts" /\ dlg = NoDialog /\ clicks < MaxClicks /\ Seen("texts").there
  /\ dlg' = [op |-> "update", j |-> 0, base |-> Seen("texts").items]
  /\ UNCHANGED <<server, page, att, stored, ws, cache, rows, call, ghosts, clicks, faults>>

SaveTextModal(c) ==
  /\ page = "texts" /\ dlg.op = "update"
  /\ \E x \in Items \ dlg.base : Send(c, "update", {}, dlg.base, dlg.base \cup {x}, handleAddItem(dlg.base, x))
  /\ dlg' = NoDialog
  /\ UNCHANGED <<server, page, att, stored, ws, cache, rows, ghosts, faults>>

EditTexts(c) ==
  /\ page = "texts" /\ dlg = NoDialog /\ Seen("texts").there /\ ~IsPending({"update"})
  /\ LET items == Seen("texts").items IN
       \/ \E x \in Items \ items : Send(c, "update", {}, items, items \cup {x}, handleAddItem(items, x))
       \/ \E x \in items : Send(c, "update", {}, items, items \ {x}, handleRemoveItem(items, x))
  /\ UNCHANGED <<server, tab, cache, rows, ghosts, faults>>

AskDrop ==
  /\ page \in ListNames /\ dlg = NoDialog /\ clicks < MaxClicks /\ Seen(page).there
  /\ dlg' = [NoDialog EXCEPT !.op = "drop"]
  /\ UNCHANGED <<server, page, att, stored, ws, cache, rows, call, ghosts, clicks, faults>>

ConfirmDrop(c) ==
  /\ dlg.op = "drop" /\ Send(c, "drop", {}, {}, {}, {})
  /\ dlg' = NoDialog
  /\ UNCHANGED <<server, page, att, stored, ws, cache, rows, ghosts, faults>>

-----------------------------------------------------------------------------
(* The server *)

Busy == \E j \in Ids : job[j].st \in Active
Unused == {j \in Ids : job[j].kind = "none"}
St(j) == job[j].st

Finished(k) == \A j \in k.js : St(j) \in Terminal
(* Mutant: a job is run again without a look at the account. *)
retry_jobUnchecked(k) == Finished(k)
retry_job(k) == Finished(k) /\ ~Busy

resume_job(k) == \A j \in k.js : St(j) = "paused"

(* What a request is let through for, as its handler reads it. *)
Admits(k) ==
  CASE k.op = "start" -> ~Busy /\ Unused # {}
    [] k.op = "retry" -> retry_job(k)
    [] k.op = "pause" -> \A j \in k.js : St(j) = "running"
    [] k.op = "resume" -> resume_job(k)
    [] k.op = "stop" ->
         \A j \in k.js : St(j) \in (IF k.kind \in {"join", "leave"} THEN Active \ {"pending"} ELSE Active)
    [] k.op = "delete" ->
         \A j \in k.js : St(j) # "none" /\ (k.kind \in {"leave", "admin"} \/ St(j) \notin {"running", "paused"})
    [] k.op \in {"update", "drop"} -> list[k.kind].there
    [] OTHER -> TRUE

Broadcasts(sts) == {j \in Ids : job[j].kind = "broadcast" /\ St(j) \in sts}
(* The jobs a request has read and will write. *)
Picked(k) == CASE k.op = "pauseAll" -> Broadcasts({"running"})
               [] k.op = "stopAll" -> Broadcasts(Active)
               [] OTHER -> k.js

Check(c) ==
  /\ At(c, "sent")
  /\ call' = [call EXCEPT ![c] = IF Admits(call[c])
                THEN [@ EXCEPT !.pc = "checked", !.js = Picked(call[c])]
                ELSE [@ EXCEPT !.pc = "answered", !.ans = "failed"]]
  /\ UNCHANGED <<server, tab, cache, rows, ghosts, clicks, faults>>

update_job_status(op) == CASE op \in {"pause", "pauseAll"} -> "paused"
                           [] op \in {"resume", "retry"} -> "running"
                           [] op \in {"stop", "stopAll"} -> "cancelled"
                           [] OTHER -> "none"

Deleted(j) == [job[j] EXCEPT !.st = "none"]

(* A scheduled broadcast starts paused, an auto-leave waits for the worker. *)
FirstStatus(kind) == CASE kind = "broadcast" -> {"running", "paused"}
                       [] kind = "leave" -> {"pending"}
                       [] OTHER -> {"running"}

FirstUnused == CHOOSE x \in Unused : \A y \in Unused : x <= y
Started(k) ==
  {[job EXCEPT ![FirstUnused] = [kind |-> k.kind, st |-> st]] : st \in FirstStatus(k.kind)}
Cleared == [j \in Ids |-> IF j \in Broadcasts(Terminal) THEN Deleted(j) ELSE job[j]]
Steered(k) ==
  [j \in Ids |-> IF j \notin k.js THEN job[j]
                 ELSE IF k.op = "delete" THEN Deleted(j) ELSE [job[j] EXCEPT !.st = update_job_status(k.op)]]

Written(k) == CASE k.op = "start" -> Started(k)
                [] k.op = "clear" -> {Cleared}
                [] k.op \in {"create", "update", "drop"} -> {job}
                [] OTHER -> {Steered(k)}

NewList(k) == CASE k.op = "create" -> [there |-> TRUE, items |-> {}]
                [] k.op = "update" -> [there |-> TRUE, items |-> k.send]
                [] k.op = "drop" -> NoList

(* The edit as the user meant it, applied to what they had before. *)
Meant(k, w) == CASE k.op = "update" -> [there |-> TRUE, items |-> (w.items \ (k.base \ k.want)) \cup (k.want \ k.base)]
                 [] OTHER -> NewList(k)

(* The hooks: the lists their onSuccess invalidates *)
useBroadcastHooks == {"broadcast", "summary"}
useRetryBroadcastJob == {"broadcast", "summary"}
useInviteHooks == {"invite"}
useAutoJoinHooks == {"join"}
useAutoLeaveHooks == {"leave"}
useAdminBroadcastHooks == {"admin"}
useGroupListHooks == {"groups"}
useTextListHooks == {"texts"}

Refreshes(k) ==
  CASE k.kind = "broadcast" -> IF k.op = "retry" THEN useRetryBroadcastJob ELSE useBroadcastHooks
    [] k.kind = "invite" -> useInviteHooks
    [] k.kind = "join" -> useAutoJoinHooks
    [] k.kind = "leave" -> useAutoLeaveHooks
    [] k.kind = "admin" -> useAdminBroadcastHooks
    [] k.kind = "groups" -> useGroupListHooks
    [] k.kind = "texts" -> useTextListHooks

(* What each endpoint's hooks say they refresh. *)
Promised(k) == IF k.kind = "broadcast" THEN {"broadcast", "summary"} ELSE {k.kind}

(* Lists that a change of a job or a list falsifies. *)
ListsOf(js) ==
  UNION {IF job'[j].kind = "broadcast" THEN {"broadcast", "summary", "admin"} ELSE {job'[j].kind} : j \in js}
Changed == {j \in Ids : job'[j] # job[j]}

(* The answer to a start names the job. *)
Answered(k, a) == [k EXCEPT !.pc = "answered", !.ans = a, !.js = IF k.op = "start" THEN Changed ELSE k.js]

(* A request that has read and not yet written is late once a job of its  *)
(* own has moved, or, if it found the account free, once a job begins.    *)
Outdated(k) ==
  /\ k.pc = "checked"
  /\ \E j \in Changed : IF k.op \in {"start", "retry"} THEN job'[j].st \in Active ELSE j \in k.js
Late(calls) == [c \in Calls |-> IF Outdated(calls[c]) THEN [calls[c] EXCEPT !.late = TRUE] ELSE calls[c]]

(* A write over what its writer has not read may leave some of js active. *)
Marks(js) == strays' = {j \in strays \cup js : job'[j].st \in Active}

(* The jobs whose start is pushed to the queue, or signalled to the worker. *)
Signalled(k) == IF k.op = "start" THEN Changed ELSE IF k.op \in {"retry", "resume"} THEN k.js ELSE {}
enqueue_job(k) == [j \in Ids |-> IF j \in Signalled(k) THEN [work[j] EXCEPT !.queued = @ + 1] ELSE work[j]]

(* The request writes and answers.  Its row may be gone; the queue may be *)
(* out of reach, and then a new job fails, though its start may have been *)
(* pushed before the connection broke; or the answer is lost.             *)
Write(c) ==
  LET k == call[c]
      gone == \E j \in k.js : St(j) = "none"
      full == k.op = "start" /\ Unused = {}
      answer(a) == [call EXCEPT ![c] = Answered(k, a)]
  IN
  /\ At(c, "checked")
  /\ \/ /\ gone \/ full \/ (k.kind \in ListNames /\ k.op # "create" /\ ~list[k.kind].there)
        /\ call' = [call EXCEPT ![c] = [@ EXCEPT !.pc = "answered", !.ans = "failed"]]
        /\ UNCHANGED <<server, off, wanted, crossed, faults>>
     \/ /\ ~gone /\ ~full
        /\ k.kind \in ListNames \ {"create"} => (k.op = "create" \/ list[k.kind].there)
        /\ job' \in Written(k)
        /\ list' = IF k.kind \in ListNames THEN [list EXCEPT ![k.kind] = NewList(k)] ELSE list
        /\ wanted' = IF k.kind \in ListNames THEN [wanted EXCEPT ![k.kind] = Meant(k, @)] ELSE wanted
        /\ crossed' = IF k.op = "update" /\ list[k.kind].items # k.base THEN crossed \cup {k.kind} ELSE crossed
        /\ work' = enqueue_job(k) /\ Marks(IF k.late THEN Changed ELSE {})
        /\ \/ call' = Late(answer("done")) /\ UNCHANGED faults
              /\ off' = off \cup ((ListsOf(Changed) \cup ({k.kind} \cap ListNames)) \ Promised(k))
           \/ Fault /\ call' = Late(answer("failed"))
              /\ off' = off \cup ListsOf(Changed) \cup ({k.kind} \cap ListNames)
     \/ /\ k.op \in {"start", "retry"} /\ ~gone /\ ~full /\ Fault
        /\ \E w \in Written(k) : job' = [j \in Ids |-> IF w[j] # job[j] THEN [w[j] EXCEPT !.st = "failed"] ELSE w[j]]
        /\ work' \in {work, enqueue_job(k)} /\ Marks({})
        /\ call' = Late(answer("failed")) /\ off' = off \cup ListsOf(Changed)
        /\ UNCHANGED <<list, wanted, crossed>>
  /\ UNCHANGED <<tab, cache, rows, own, clicks>>

(* The worker.  A start is taken from the queue and dropped if a task     *)
(* works on the job already, or if the job is not one to start: an         *)
(* auto-leave always is, any other unless it was stopped or is complete.   *)
WorkerSets(j, st) ==
  /\ job' = [job EXCEPT ![j].st = st]
  /\ call' = Late(call) /\ off' = off \cup ListsOf(Changed)
  /\ UNCHANGED <<list, page, att, stored, dlg, cache, rows, own, wanted, crossed, clicks>>
Task(j, task, saw) == work' = [work EXCEPT ![j].task = task, ![j].saw = saw]
WorkerReads == UNCHANGED <<job, list, strays, tab, cache, rows, call, ghosts, clicks>>

(* Mutant: whatever is in the queue is started. *)
StartableStopped(kind, st) == st # "none"
Startable(kind, st) == st # "none" /\ (kind = "leave" \/ st \notin {"cancelled", "completed"})

Take(j) ==
  /\ work[j].queued > 0
  /\ work' = [work EXCEPT ![j] =
               IF work[j].task = "off" /\ Startable(job[j].kind, St(j))
               THEN [queued |-> work[j].queued - 1, task |-> "begun", saw |-> St(j)]
               ELSE [queued |-> work[j].queued - 1, task |-> work[j].task, saw |-> work[j].saw]]
  /\ WorkerReads /\ UNCHANGED faults

(* The task writes that it runs, whatever the status is by now, unless it  *)
(* has read just that; a broadcast may have to wait for its hours, and one *)
(* that was paused is left so.                                             *)
FirstWritten(kind) == IF kind = "broadcast" THEN {"running", "paused"} ELSE {"running"}
Begin(j) ==
  /\ work[j].task = "begun" /\ St(j) # "none"
  /\ \E st \in FirstWritten(job[j].kind) :
       WorkerSets(j, IF st = work[j].saw /\ job[j].kind # "leave" THEN St(j) ELSE st)
  /\ Task(j, "on", "none")
  /\ Marks({i \in {j} : St(i) \in Terminal})
  /\ UNCHANGED <<ws, faults>>

(* It reads that the job still runs, or does not look, and ends it in a    *)
(* transaction of its own.                                                 *)
EndRead(j) ==
  /\ work[j].task = "on" /\ (job[j].kind = "leave" \/ St(j) = "running")
  /\ Task(j, "ending", "none") /\ WorkerReads /\ UNCHANGED faults

Heard(j, st) == IF page = "leave" /\ att = j THEN st ELSE ws
EndWrite(j) ==
  /\ work[j].task = "ending" /\ St(j) # "none"
  /\ WorkerSets(j, "completed") /\ Task(j, "off", "none") /\ Marks({})
  /\ ws' \in {ws, Heard(j, "completed")}
  /\ UNCHANGED faults

(* It fails, or a broadcast finds no account fit to go on with: the status *)
(* is written without a look at what it is.                                *)
Breaks(j) ==
  /\ work[j].task # "off" /\ St(j) # "none" /\ Fault
  /\ \/ WorkerSets(j, "failed") /\ Marks({})
     \/ job[j].kind = "broadcast" /\ WorkerSets(j, "paused") /\ Marks({i \in {j} : St(i) \in Terminal})
  /\ Task(j, "off", "none") /\ UNCHANGED ws

(* The task ends without a word: it has seen that the job is over, or it is *)
(* cancelled by the signal of a stop, however old, or by a shutdown, or     *)
(* killed; an auto-join that is cancelled says so.                          *)
Halt(j) ==
  /\ work[j].task # "off"
  /\ \/ St(j) \notin Active /\ UNCHANGED faults
     \/ Fault
  /\ \/ WorkerReads
     \/ job[j].kind = "join" /\ St(j) # "none" /\ WorkerSets(j, "cancelled") /\ Marks({}) /\ UNCHANGED ws
  /\ Task(j, "off", "none")

(* The worker is started again, and starts the jobs it finds under way.    *)
Recover(j) ==
  /\ \A i \in Ids : work[i].task = "off"
  /\ work[j].queued = 0 /\ (St(j) = "running" \/ (job[j].kind = "leave" /\ St(j) = "pending"))
  /\ work' = [work EXCEPT ![j].queued = 1]
  /\ WorkerReads /\ UNCHANGED faults

(* A progress event reaches the page; the invite page reads its list again. *)
Progress(j) ==
  /\ St(j) = "running"
  /\ \/ page = "leave" /\ att = j /\ ws' = "running" /\ ws # "running" /\ UNCHANGED <<cache, off>>
     \/ /\ page = "invite" /\ currentTrackingId = j /\ Idle(cache["invite"])
        /\ cache' = InvalidateAll(cache, {"invite"}, Shown) /\ UNCHANGED <<ws, off>>
  /\ UNCHANGED <<server, page, att, stored, dlg, rows, call, own, wanted, crossed, clicks, faults>>

(* The same list is edited in another tab. *)
OtherEdit(l) ==
  /\ page = l /\ list[l].there /\ Fault
  /\ \E s \in SUBSET Items : list' = [list EXCEPT ![l].items = s]
  /\ wanted' = list' /\ off' = off \cup {l}
  /\ UNCHANGED <<job, work, strays, tab, cache, rows, call, own, crossed, clicks>>

-----------------------------------------------------------------------------
(* What the handlers do with the answers *)

Invalidated(c) == InvalidateAll(cache, Refreshes(call[c]), Shown)
MissedBy(c) == off \cup Overtaken(cache, Refreshes(call[c]), Shown)
(* The administrator's handlers close their dialog however they end. *)
AfterCall(c) == IF call[c].here /\ page = "admin" THEN NoDialog ELSE dlg

HandleError(c) ==
  /\ At(c, "answered") /\ call[c].ans = "failed"
  /\ dlg' = AfterCall(c)
  /\ call' = [call EXCEPT ![c] = NoCall]
  /\ UNCHANGED <<server, page, att, stored, ws, cache, rows, ghosts, clicks, faults>>

(* attachJob: the page, if it is still there, and the storage in any case. *)
attachJob(k, j) == IF k.kind \in {"join", "leave"} THEN [stored EXCEPT ![k.kind] = j] ELSE stored

(* A job was started: the page watches it; the broadcast form goes to the *)
(* page that says so, wherever the user is by now.                        *)
HandleStarted(c) ==
  LET k == call[c]
      j == CHOOSE x \in k.js : TRUE
      again == InvalidateAll(cache, Refreshes(k), Shown)
  IN
  /\ At(c, "answered") /\ k.ans = "done" /\ k.op = "start"
  /\ off' = MissedBy(c)
  /\ stored' = IF k.kind = "join" /\ k.here /\ att # j THEN Forget(attachJob(k, j), rows[j]) ELSE attachJob(k, j)
  /\ own' = IF k.kind = "join" THEN j ELSE own
  /\ \/ /\ k.kind = "broadcast"
        /\ page' = "success" /\ att' = 0 /\ ws' = "none" /\ dlg' = NoDialog
        /\ cache' = again /\ UNCHANGED rows
        /\ call' = [d \in Calls |-> IF d = c THEN NoCall ELSE [call[d] EXCEPT !.here = FALSE]]
     \/ /\ k.kind # "broadcast"
        /\ att' = IF k.here THEN j ELSE att
        /\ ws' = IF k.here THEN "none" ELSE ws
        /\ rows' = IF k.here /\ k.kind # "invite" THEN Watch(rows, j, FALSE) ELSE rows
        /\ cache' = IF k.kind = "leave" THEN RefetchAll(again, {"leave"}) ELSE again
        /\ call' = [call EXCEPT ![c] = NoCall]
        /\ UNCHANGED <<page, dlg>>
  /\ UNCHANGED <<server, wanted, crossed, clicks, faults>>

(* Any other call: the lists, and for the two pages that watch one job    *)
(* also its row, as long as it is the one they watch.                     *)
HandleDone(c) ==
  LET k == call[c] IN
  /\ At(c, "answered") /\ k.ans = "done" /\ k.op # "start"
  /\ cache' = Invalidated(c) /\ off' = MissedBy(c)
  /\ rows' = IF k.op # "delete" /\ k.here /\ k.kind \in {"join", "leave"} /\ att # 0
             THEN [rows EXCEPT ![att] = Invalidate(@, TRUE)] ELSE rows
  /\ dlg' = AfterCall(c)
  /\ call' = [call EXCEPT ![c] = NoCall]
  /\ UNCHANGED <<server, page, att, stored, ws, own, wanted, crossed, clicks, faults>>

-----------------------------------------------------------------------------
(* Queries, polls and navigation *)

ServeQuery(q) ==
  /\ cache[q].net = "sent"
  /\ cache' = [cache EXCEPT ![q] = Read(@, Value(q))]
  /\ off' = off \ {q}
  /\ UNCHANGED <<server, tab, rows, call, own, wanted, crossed, clicks, faults>>

QueryArrives(q) ==
  /\ cache[q].net = "read"
  /\ cache' = [cache EXCEPT ![q] = Arrived(@)]
  /\ UNCHANGED <<server, tab, rows, call, ghosts, clicks, faults>>

ServeRow(j) ==
  /\ rows[j].net = "sent" /\ St(j) # "none"
  /\ rows' = [rows EXCEPT ![j] = Read(@, St(j))]
  /\ UNCHANGED <<server, tab, cache, call, ghosts, clicks, faults>>

(* The effect runs when the status changes.  It empties the storage, even *)
(* of a job whose start was answered after the page had come back with     *)
(* another: that one is forgotten, and owned no more.                      *)
RowArrives(j) ==
  /\ rows[j].net = "read"
  /\ rows' = [rows EXCEPT ![j] = Arrived(@)]
  /\ LET told == page = "join" /\ att = j /\ ~(rows[j].has /\ rows[j].data = rows[j].got) IN
       /\ stored' = IF told THEN Forget(stored, Arrived(rows[j])) ELSE stored
       /\ own' = IF told /\ Over(Arrived(rows[j])) /\ own # j THEN 0 ELSE own
  /\ UNCHANGED <<server, page, att, ws, dlg, cache, call, off, wanted, crossed, clicks, faults>>

(* The row is gone, or the request fails: the auto-join page lets go of   *)
(* the job.                                                               *)
RowFails(j) ==
  /\ rows[j].net # "idle"
  /\ \/ rows[j].net = "sent" /\ St(j) = "none" /\ UNCHANGED faults
     \/ Fault
  /\ rows' = [rows EXCEPT ![j] = Failed(@)]
  /\ IF page = "join" /\ att = j
     THEN att' = 0 /\ stored' = [stored EXCEPT !["join"] = 0] /\ own' = 0
     ELSE UNCHANGED <<att, stored, own>>
  /\ UNCHANGED <<server, page, ws, dlg, cache, call, off, wanted, crossed, clicks>>

(* Every three seconds while the auto-join is not known to be over. *)
JoinPoll == page = "join" /\ att # 0 /\ WatchedRow \notin Terminal

PollRow ==
  /\ JoinPoll /\ Refetch(rows[att]) # rows[att]
  /\ rows' = [rows EXCEPT ![att] = Refetch(@)]
  /\ UNCHANGED <<server, tab, cache, call, ghosts, clicks, faults>>

(* Every ten seconds; every three while the socket is down; every three   *)
(* while the log page lists a job that runs.                              *)
SummaryPoll(q) == q = "summary"
InvitePoll(q) == q = "invite" /\ page = "invite" /\ currentTrackingId # 0
LogsPoll(q) == q = "broadcast" /\ page = "logs" /\ \E j \in Ids : Row("broadcast", j) = "running"

PollList ==
  /\ \E q \in Shown :
       /\ SummaryPoll(q) \/ InvitePoll(q) \/ LogsPoll(q)
       /\ Idle(cache[q]) /\ cache[q].data # Value(q) \* a poll that changes nothing is left out
       /\ cache' = RefetchAll(cache, {q})
  /\ UNCHANGED <<server, tab, rows, call, ghosts, clicks, faults>>

(* The id that a page finds in the storage when it opens. *)
Restored(p) == IF p \in {"join", "leave"} THEN stored[p] ELSE 0

(* The pages that share a list with this one; any other is like one that  *)
(* does not.                                                              *)
Near(p) == CASE p \in {"new", "success", "history", "logs", "admin"} -> IF p = "admin" THEN {} ELSE {"new", "history"} \ {p}
             [] p \in {"invite", "inviteHistory"} -> {"invite", "inviteHistory"} \ {p}
             [] p \in {"join", "leave"} -> {"join", "leave"} \ {p}
             [] OTHER -> ListNames \ {p}

Navigate(p) ==
  /\ User /\ p \in Near(page)
  /\ page' = p /\ att' = Restored(p) /\ ws' = "none" /\ dlg' = NoDialog
  /\ \E old \in BOOLEAN :
       /\ cache' = MountAll(cache, Uses(p) \ Shown, old)
       /\ rows' = Watch(rows, Restored(p), old)
  /\ stored' = IF p = "join" /\ Restored(p) # 0 THEN Forget(stored, rows[Restored(p)]) ELSE stored
  /\ call' = [c \in Calls |-> [call[c] EXCEPT !.here = FALSE]]
  /\ UNCHANGED <<server, ghosts, faults>>

-----------------------------------------------------------------------------
CallStep(c) == Check(c) \/ Write(c) \/ HandleError(c) \/ HandleStarted(c) \/ HandleDone(c)

UserStep(c) ==
  \/ \E op \in Ops, j \in 0..MaxJobs : Press(c, op, j)
  \/ Confirm(c) \/ handleCreate(c) \/ EditGroups(c) \/ handleBulkImport(c) \/ SaveTextModal(c)
  \/ EditTexts(c) \/ ConfirmDrop(c)

Next ==
  \/ \E c \in Calls : CallStep(c) \/ UserStep(c)
  \/ \E op \in Ops, j \in 0..MaxJobs : Ask(op, j)
  \/ \E j \in Ids : Take(j) \/ Begin(j) \/ EndRead(j) \/ EndWrite(j) \/ Breaks(j) \/ Halt(j) \/ Recover(j)
  \/ \E j \in Ids : Progress(j) \/ ClickRow(j)
  \/ \E j \in Ids : ServeRow(j) \/ RowArrives(j) \/ RowFails(j)
  \/ \E q \in Queries : ServeQuery(q) \/ QueryArrives(q)
  \/ \E l \in ListNames : OtherEdit(l)
  \/ \E p \in Pages : Navigate(p)
  \/ Dismiss \/ OpenTextModal \/ AskDrop \/ PollRow \/ PollList

Spec == Init /\ [][Next]_vars

(* The page's interval fires and a row asked for over and over is served  *)
(* and arrives at last; users, workers and the other lists owe nothing.   *)
WatchedServed == att # 0 /\ ServeRow(att)
WatchedArrives == att # 0 /\ RowArrives(att)
Fairness == WF_vars(PollRow) /\ SF_vars(WatchedServed) /\ SF_vars(WatchedArrives)

FairSpec == Spec /\ Fairness

-----------------------------------------------------------------------------
Rest == \A c \in Calls : At(c, "idle")

(* One account works for one job at a time, but for those that were        *)
(* started or run again by a request that found the account free before    *)
(* another job began, and for those that a late request, or the worker's   *)
(* task, made active again after their end.                                *)
ActiveJobs == {j \in Ids : St(j) \in Active}
SharedOnlyByOverlap == Cardinality(ActiveJobs \ strays) <= 1

(* A job that is over becomes active again only when it is run again, by a *)
(* pause or a resume that had read it before it was over, by the beginning *)
(* of a task that found it failed or not yet over, or when a broadcast's   *)
(* task finds no account; a start that is taken from the queue after a stop *)
(* never undoes the stop, except an auto-leave's.                          *)
Revived(j) ==
  \/ \E c \in Calls : /\ At(c, "checked") /\ call'[c].pc = "answered" /\ j \in call[c].js
                       /\ (call[c].op = "retry" \/ call[c].late)
  \/ /\ work[j].task = "begun" /\ work'[j].task = "on"
     /\ job[j].kind = "leave" \/ work[j].saw \notin {"cancelled", "completed"}
  \/ job[j].kind = "broadcast" /\ work[j].task # "off" /\ work'[j].task = "off" /\ job'[j].st = "paused"
OverIsOver == [][\A j \in Ids : St(j) \in Terminal /\ St(j)' \in Active => Revived(j)]_vars

(* Navigation does not orphan an auto-join: as long as it goes on, the    *)
(* page that opens next finds it, whenever its start was answered; it is  *)
(* let go of by attaching another job, or when the job that the page      *)
(* watches, this one or an older one, cannot be read or is over.          *)
RememberedRun == (own # 0 /\ St(own) \in Active /\ own \notin strays) => stored["join"] = own

(* With the calls over, a list that is not loading shows what they did.   *)
OwnActionsShown ==
  \A q \in Shown \ off : (Rest /\ Idle(cache[q]) /\ cache[q].has) => cache[q].data = Value(q)

(* No acknowledged edit of a list is undone by another, unless one was    *)
(* made from data that the server no longer had.                          *)
EditsKept == \A l \in ListNames \ crossed : list[l] = wanted[l]

(* The auto-join page notices that the job it watches is over. *)
OverUnseen == page = "join" /\ att # 0 /\ St(att) \in Terminal /\ WatchedRow \notin Terminal
FinishNoticed == OverUnseen ~> ~OverUnseen

(* What the pages know of jobs and lists is what the server has.          *)
JobsSafe == TypeOK /\ SharedOnlyByOverlap /\ RememberedRun /\ OwnActionsShown /\ EditsKept

(* A job that is over stays over, and the page that watches it notices.   *)
JobsEnd == OverIsOver /\ FinishNoticed
=============================================================================
