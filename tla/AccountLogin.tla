---------------------------- MODULE AccountLogin ----------------------------
(***************************************************************************)
(* Connecting a Telegram account: the page with its three tabs (a code by  *)
(* phone, a QR code, a session string), the server's pending logins, the   *)
(* watchers of QR codes, and the count that a plan's limit is held         *)
(* against.  One user, one tab of the browser.                             *)
(***************************************************************************)
EXTENDS Integers, FiniteSets

CONSTANTS
  Phones,     \* Telegram accounts that may be connected
  Limit,      \* ROLE_ACCOUNT_LIMITS of the user
  Calls,      \* requests of the page that may be in flight at the same time
  Polls,      \* polls of a QR code's status in flight
  MaxIds,     \* pending logins and QR codes of each kind
  MaxClicks, MaxFaults

ASSUME AccountLoginAssumption ==
  /\ {MaxIds, MaxClicks} \subseteq Nat \ {0} /\ {Limit, MaxFaults} \subseteq Nat
  /\ IsFiniteSet(Phones) /\ Phones # {}

VARIABLES
  pend,     \* _entries: the pending logins of the server
  qr,       \* _pending_qr_logins, and what their watchers do
  rows,     \* connected accounts
  ui,       \* the page
  call,     \* its requests
  poll,
  cancels,  \* cancel-login posted by an effect nobody waits for
  push,     \* a router.push is due in 600 ms
  stray,    \* logins the page cannot know of, or whose cancel was lost
  overlap,  \* an account was inserted between the count and the insert of another
  clicks, faults

server == <<pend, qr, rows, overlap>>
loginVars == <<server, ui, call, poll, cancels, push, stray, clicks, faults>>

LoginIds == 1..MaxIds
Tabs == {"otp", "qr", "upload", "account", "away"}
Steps == {"phone", "setupEmail", "setupEmailCode", "code", "twofa"}
Final == {"success", "requires_2fa", "failed", "expired"}
OtpOps == {"resend", "setup", "setupVerify", "verify", "twofa"}
Ops == OtpOps \cup {"none", "send", "change", "qrInit", "qr2fa", "upload"}
Answers == Steps \cup {"none", "ok", "done", "failed"}
Somebody == CHOOSE p \in Phones : TRUE

NoLogin == [st |-> "none", stage |-> "code", phone |-> Somebody]
NoQr == [st |-> "none", phone |-> Somebody, counted |-> FALSE]
NoCall == [op |-> "none", id |-> 0, phone |-> Somebody, pc |-> "idle", ans |-> "none", here |-> FALSE]
NoPoll == [id |-> 0, pc |-> "idle", ans |-> "pending", here |-> FALSE]
(* crossed: the phone was changed while a request of the old login ran;   *)
(* mixed: the status shown came from another QR code.                     *)
Fresh(to) == [tab |-> to, step |-> "phone", flow |-> 0, loading |-> FALSE, qid |-> 0, qst |-> "pending",
               crossed |-> FALSE, mixed |-> FALSE]

PendType == [st: {"none", "open", "gone"}, stage: Steps, phone: Phones]
QrType == [st: Final \cup {"none", "pending", "swept"}, phone: Phones, counted: BOOLEAN]
UiType == [tab: Tabs, step: Steps, flow: 0..MaxIds, loading: BOOLEAN, qid: 0..MaxIds,
           qst: Final \cup {"pending"}, crossed: BOOLEAN, mixed: BOOLEAN]
CallType == [op: Ops, id: 0..MaxIds, phone: Phones, pc: {"idle", "sent", "counted", "answered"},
             ans: Answers, here: BOOLEAN]
PollType == [id: 0..MaxIds, pc: {"idle", "sent", "answered"}, ans: Final \cup {"pending", "none"},
             here: BOOLEAN]

LoginTypeOK ==
  /\ pend \in [LoginIds -> PendType] /\ qr \in [LoginIds -> QrType] /\ rows \subseteq Phones
  /\ ui \in UiType /\ call \in [Calls -> CallType] /\ poll \in [Polls -> PollType]
  /\ cancels \subseteq LoginIds /\ stray \subseteq LoginIds /\ push \in BOOLEAN /\ overlap \in BOOLEAN
  /\ clicks \in 0..MaxClicks /\ faults \in 0..MaxFaults

LoginInit ==
  /\ pend = [l \in LoginIds |-> NoLogin] /\ qr = [q \in LoginIds |-> NoQr] /\ rows = {} /\ overlap = FALSE
  /\ ui = Fresh("otp")
  /\ call = [c \in Calls |-> NoCall] /\ poll = [k \in Polls |-> NoPoll]
  /\ cancels = {} /\ stray = {} /\ push = FALSE /\ clicks = 0 /\ faults = MaxFaults

User == clicks < MaxClicks /\ clicks' = clicks + 1
Fault == faults > 0 /\ faults' = faults - 1
CallAt(c, pc) == call[c].pc = pc
Free(c) == call[c].op = "none"
(* Slots are taken in order: which one carries a request says nothing. *)
NextFree(c) == Free(c) /\ c = CHOOSE d \in Calls : Free(d)
Request(op, id, p) ==
  [op |-> op, id |-> id, phone |-> p, pc |-> "sent", ans |-> "none", here |-> TRUE]

-----------------------------------------------------------------------------
(* The phone tab: TelegramLoginFlow *)

sendCode(c) ==
  /\ User /\ NextFree(c) /\ ui.tab = "otp" /\ ui.step = "phone" /\ ~ui.loading
  /\ \E l \in LoginIds : pend[l].st = "none"
  /\ \E p \in Phones : call' = [call EXCEPT ![c] = Request("send", 0, p)]
  /\ ui' = [ui EXCEPT !.loading = TRUE]
  /\ UNCHANGED <<server, poll, cancels, push, stray, faults>>

(* What the step shown can ask for; every button waits for the last one. *)
StepOps == CASE ui.step = "setupEmail" -> {"setup"}
             [] ui.step = "setupEmailCode" -> {"setupVerify"}
             [] ui.step = "code" -> {"resend", "verify"}
             [] ui.step = "twofa" -> {"twofa"}
             [] OTHER -> {}

(* Without a flow the handlers return at once. *)
SubmitCall(c) ==
  /\ User /\ NextFree(c) /\ ui.tab = "otp" /\ ~ui.loading /\ ui.flow # 0
  /\ \E op \in StepOps : call' = [call EXCEPT ![c] = Request(op, ui.flow, pend[ui.flow].phone)]
  /\ ui' = [ui EXCEPT !.loading = TRUE]
  /\ UNCHANGED <<server, poll, cancels, push, stray, faults>>

(* Another phone: cancel the login, then go back; not disabled meanwhile. *)
changePhone(c) ==
  /\ User /\ NextFree(c) /\ ui.tab = "otp" /\ ui.step \in {"code", "setupEmailCode"} /\ ui.flow # 0
  /\ call' = [call EXCEPT ![c] = Request("change", ui.flow, pend[ui.flow].phone)]
  /\ UNCHANGED <<server, ui, poll, cancels, push, stray, faults>>

(* Mutant: the login is left to its time to live. *)
cancelNever(flow) == {}

(* The cleanup of the cancel effect: the component goes, or its flow. *)
cancel(flow) == {flow} \ {0}

(* The tab or the page is left: its requests go on without it. *)
Leave(to) ==
  /\ ui' = [Fresh(to) EXCEPT !.loading = (to = "qr")]
  /\ cancels' = cancels \cup (IF ui.tab = "otp" THEN cancel(ui.flow) ELSE {})

Unmounted == [c \in Calls |-> [call[c] EXCEPT !.here = FALSE]]
UnmountedPolls == [k \in Polls |-> [poll[k] EXCEPT !.here = FALSE]]

(* A switch of tabs or a link.  QRLoginForm asks for a code when it       *)
(* appears.                                                               *)
SwitchTab(to, c) ==
  /\ User /\ ui.tab \in {"otp", "qr", "upload"} /\ to # ui.tab /\ to # "account" /\ Leave(to)
  /\ IF to = "qr" THEN NextFree(c) /\ call' = [Unmounted EXCEPT ![c] = Request("qrInit", 0, Somebody)]
                   ELSE call' = Unmounted
  /\ poll' = UnmountedPolls
  /\ UNCHANGED <<server, push, stray, faults>>

-----------------------------------------------------------------------------
(* The QR tab *)

initQR(u) == [u EXCEPT !.loading = TRUE, !.qst = "pending", !.qid = 0, !.mixed = FALSE]

(* Again: the refresh and the overlay wait for the last request, the link *)
(* in the error and the way back from the password form do not.           *)
RefreshQr(c) ==
  /\ User /\ NextFree(c) /\ ui.tab = "qr"
  /\ ~ui.loading \/ ui.qst \in {"requires_2fa", "failed"}
  /\ \E q \in LoginIds : qr[q].st = "none"
  /\ ui' = initQR(ui)
  /\ call' = [call EXCEPT ![c] = Request("qrInit", 0, Somebody)]
  /\ UNCHANGED <<server, poll, cancels, push, stray, faults>>

(* Five minutes are over: Telegram's token is, long before; a status in   *)
(* between may have been missed.                                          *)
Countdown ==
  /\ ui.tab = "qr" /\ ui.qid # 0 /\ ui.qst = "pending" /\ qr[ui.qid].st # "pending"
  /\ (qr[ui.qid].st \in {"expired", "swept"} /\ UNCHANGED faults) \/ Fault
  /\ ui' = [ui EXCEPT !.qst = "expired"]
  /\ UNCHANGED <<server, call, poll, cancels, push, stray, clicks>>

Polling == ui.tab = "qr" /\ ui.qid # 0 /\ ui.qst = "pending"
PollWhile == Polling

Poll(k) ==
  /\ PollWhile /\ poll[k].pc = "idle"
  /\ poll' = [poll EXCEPT ![k] = [id |-> ui.qid, pc |-> "sent", ans |-> "pending", here |-> TRUE]]
  /\ UNCHANGED <<server, ui, call, cancels, push, stray, clicks, faults>>

(* qr_login_status; a code that was swept is a 404, which the page ignores. *)
qr_login_status(k) ==
  /\ poll[k].pc = "sent"
  /\ LET st == qr[poll[k].id].st IN
     poll' = [poll EXCEPT ![k] = [@ EXCEPT !.pc = "answered", !.ans = IF st = "swept" THEN "none" ELSE st]]
  /\ UNCHANGED <<server, ui, call, cancels, push, stray, clicks, faults>>

PollFails(k) ==
  /\ poll[k].pc = "sent" /\ Fault
  /\ poll' = [poll EXCEPT ![k] = NoPoll]
  /\ UNCHANGED <<server, ui, call, cancels, push, stray, clicks>>

(* The answer is taken for the status of the code on display, whichever   *)
(* code was asked for; the way to the account is taken even from another  *)
(* page.                                                                  *)
PollAnswered(k) ==
  /\ poll[k].pc = "answered"
  /\ LET a == poll[k].ans IN
     /\ ui' = IF a \in Final /\ poll[k].here
              THEN [ui EXCEPT !.qst = a, !.mixed = (@ \/ poll[k].id # ui.qid)] ELSE ui
     /\ push' = (push \/ a = "success")
  /\ poll' = [poll EXCEPT ![k] = NoPoll]
  /\ UNCHANGED <<server, call, cancels, stray, clicks, faults>>

submit2FA(c) ==
  /\ User /\ NextFree(c) /\ ui.tab = "qr" /\ ui.qst = "requires_2fa" /\ ~ui.loading /\ ui.qid # 0
  /\ call' = [call EXCEPT ![c] = Request("qr2fa", ui.qid, qr[ui.qid].phone)]
  /\ ui' = [ui EXCEPT !.loading = TRUE]
  /\ UNCHANGED <<server, poll, cancels, push, stray, faults>>

(* UploadSessionForm *)
Upload(c) ==
  /\ User /\ NextFree(c) /\ ui.tab = "upload" /\ ~ui.loading
  /\ \E p \in Phones : call' = [call EXCEPT ![c] = Request("upload", 0, p)]
  /\ ui' = [ui EXCEPT !.loading = TRUE]
  /\ UNCHANGED <<server, poll, cancels, push, stray, faults>>

-----------------------------------------------------------------------------
(* The server *)

Reply(c, a, id) == call' = [call EXCEPT ![c] = [@ EXCEPT !.pc = "answered", !.ans = a, !.id = id]]
Open(l) == l # 0 /\ pend[l].st = "open"
discard(l) == [pend EXCEPT ![l].st = "gone"]
Unused(store) == {i \in LoginIds : store[i].st = "none"}
First(S) == CHOOSE i \in S : \A j \in S : i <= j

(* PendingLoginManager.create replaces the phone's login. *)
create(l, p, stage) ==
  [m \in LoginIds |-> IF m = l THEN [st |-> "open", stage |-> stage, phone |-> p]
                 ELSE IF Open(m) /\ pend[m].phone = p THEN [pend[m] EXCEPT !.st = "gone"] ELSE pend[m]]

send_code(c) ==
  /\ CallAt(c, "sent") /\ call[c].op = "send" /\ Unused(pend) # {}
  /\ \E stage \in {"code", "setupEmail"} :
       /\ pend' = create(First(Unused(pend)), call[c].phone, stage)
       /\ Reply(c, stage, First(Unused(pend)))
  /\ UNCHANGED <<qr, rows, overlap, ui, poll, cancels, push, stray, clicks, faults>>

(* A code that is sent again leaves the login where it is. *)
StageFor(op) == CASE op = "resend" -> Steps
                  [] op = "setup" -> {"setupEmail"}
                  [] op = "setupVerify" -> {"setupEmailCode"}
                  [] op = "verify" -> {"code"}
                  [] op = "twofa" -> {"twofa"}

(* entry.lock: one request of a login at a time. *)
Unlocked(c) == \A d \in Calls \ {c} :
                 ~(call[d].op \in OtpOps /\ call[d].id = call[c].id /\ CallAt(d, "counted"))
Ready(c) == CallAt(c, "sent") /\ call[c].op \in OtpOps /\ Unlocked(c)
Pending(c) == Open(call[c].id) /\ pend[call[c].id].stage \in StageFor(call[c].op)

(* The login moves on: a code sent, an email confirmed, a password asked. *)
Advance(c) ==
  /\ Ready(c) /\ Pending(c)
  /\ \E next \in (CASE call[c].op \in {"resend", "setupVerify"} -> {"code"}
                    [] call[c].op = "setup" -> {"setupEmailCode"}
                    [] call[c].op = "verify" -> {"twofa"}
                    [] OTHER -> {}) :
       /\ pend' = [pend EXCEPT ![call[c].id].stage = next]
       /\ Reply(c, next, call[c].id)
  /\ UNCHANGED <<qr, rows, overlap, ui, poll, cancels, push, stray, clicks, faults>>

(* No such login; or Telegram says no, and unless it may be tried again   *)
(* the login is given up.                                                 *)
Refuse(c) ==
  /\ Ready(c)
  /\ \/ ~Pending(c) /\ UNCHANGED <<pend, faults>>
     \/ Pending(c) /\ Fault /\ pend' \in {pend, discard(call[c].id)}
  /\ Reply(c, "failed", call[c].id)
  /\ UNCHANGED <<qr, rows, overlap, ui, poll, cancels, push, stray, clicks>>

(* check_account_limit; a QR code counts an account that is there again.  *)
check_account_limit(p, again) == Cardinality(rows) < Limit \/ (again /\ p \in rows)

Counting(c) == \/ Ready(c) /\ Pending(c) /\ call[c].op \in {"verify", "twofa"}
               \/ CallAt(c, "sent") /\ call[c].op = "qr2fa" /\ qr[call[c].id].st = "requires_2fa"
               \/ CallAt(c, "sent") /\ call[c].op = "upload"
Count(c) ==
  /\ Counting(c)
  /\ IF check_account_limit(call[c].phone, call[c].op # "qr2fa")
     THEN call' = [call EXCEPT ![c].pc = "counted"]
     ELSE Reply(c, "failed", call[c].id)
  /\ UNCHANGED <<server, ui, poll, cancels, push, stray, clicks, faults>>

BetweenCountAndInsert == {c \in Calls : CallAt(c, "counted")}
WatchersCounted == {q \in LoginIds : qr[q].counted}
(* The row is written; the phone is unique. *)
InsertRow(p, others) ==
  /\ rows' = rows \cup {p}
  /\ overlap' = (overlap \/ (p \notin rows /\ others))

(* _finish_login, qr_login_2fa and upload_session to their end. *)
finish_login(c) ==
  /\ CallAt(c, "counted")
  /\ InsertRow(call[c].phone, BetweenCountAndInsert # {c} \/ WatchersCounted # {})
  /\ pend' = IF call[c].op \in OtpOps THEN discard(call[c].id) ELSE pend
  /\ qr' = IF call[c].op = "qr2fa" THEN [qr EXCEPT ![call[c].id].st = "success"] ELSE qr
  /\ Reply(c, "done", call[c].id)
  /\ UNCHANGED <<ui, poll, cancels, push, stray, clicks, faults>>

FailAny(c) ==
  /\ CallAt(c, "sent") \/ CallAt(c, "counted")
  /\ \/ Fault
     \/ call[c].op = "qr2fa" /\ CallAt(c, "sent") /\ qr[call[c].id].st # "requires_2fa" /\ UNCHANGED faults
     \/ call[c].op \in {"send"} /\ Unused(pend) = {} /\ UNCHANGED faults
     \/ call[c].op \in {"qrInit"} /\ Unused(qr) = {} /\ UNCHANGED faults
  /\ Reply(c, "failed", call[c].id)
  /\ UNCHANGED <<server, ui, poll, cancels, push, stray, clicks>>

(* The server acted and its answer is lost: for the page the request      *)
(* failed, and of a login that was made it never learns the id.           *)
AnswerLost(c) ==
  /\ CallAt(c, "answered") /\ call[c].ans \notin {"none", "failed"} /\ call[c].op # "change" /\ Fault
  /\ Reply(c, "failed", IF call[c].op = "send" THEN 0 ELSE call[c].id)
  /\ stray' = IF call[c].op = "send" THEN stray \cup {call[c].id} ELSE stray
  /\ UNCHANGED <<server, ui, poll, cancels, push, clicks>>

(* cancel_login, awaited by the page or not. *)
cancel_login(c) ==
  /\ CallAt(c, "sent") /\ call[c].op = "change"
  /\ pend' = IF Open(call[c].id) THEN discard(call[c].id) ELSE pend
  /\ Reply(c, "ok", call[c].id)
  /\ UNCHANGED <<qr, rows, overlap, ui, poll, cancels, push, stray, clicks, faults>>

CancelArrives(l) ==
  /\ l \in cancels /\ cancels' = cancels \ {l}
  /\ \/ pend' = (IF Open(l) THEN discard(l) ELSE pend) /\ UNCHANGED <<stray, faults>>
     \/ Fault /\ stray' = stray \cup {l} /\ UNCHANGED pend
  /\ UNCHANGED <<qr, rows, overlap, ui, call, poll, push, clicks>>

(* sweep_expired and get: five minutes without activity. *)
sweep_expired(l) ==
  /\ Open(l) /\ Fault
  /\ pend' = discard(l)
  /\ UNCHANGED <<qr, rows, overlap, ui, call, poll, cancels, push, stray, clicks>>

qr_login_init(c) ==
  /\ CallAt(c, "sent") /\ call[c].op = "qrInit" /\ Unused(qr) # {}
  /\ qr' = [qr EXCEPT ![First(Unused(qr))].st = "pending"]
  /\ Reply(c, "ok", First(Unused(qr)))
  /\ UNCHANGED <<pend, rows, overlap, ui, poll, cancels, push, stray, clicks, faults>>

(* watch_qr_login: the code is scanned and the account has no password,   *)
(* or has one; or Telegram's token runs out.                              *)
watch_qr_login(q) ==
  /\ qr[q].st = "pending" /\ ~qr[q].counted
  /\ \/ \E p \in Phones :
          qr' = [qr EXCEPT ![q] = IF check_account_limit(p, FALSE)
                                  THEN [st |-> "pending", phone |-> p, counted |-> TRUE]
                                  ELSE [st |-> "failed", phone |-> p, counted |-> FALSE]]
     \/ \E p \in Phones : qr' = [qr EXCEPT ![q] = [@ EXCEPT !.st = "requires_2fa", !.phone = p]]
     \/ qr' = [qr EXCEPT ![q].st = "expired"]
  /\ UNCHANGED <<pend, rows, overlap, ui, call, poll, cancels, push, stray, clicks, faults>>

WatcherInserts(q) ==
  /\ qr[q].counted
  /\ InsertRow(qr[q].phone, BetweenCountAndInsert # {} \/ WatchersCounted # {q})
  /\ qr' = [qr EXCEPT ![q].counted = FALSE,
                      ![q].st = IF qr[q].st = "pending" THEN "success" ELSE qr[q].st]
  /\ UNCHANGED <<pend, ui, call, poll, cancels, push, stray, clicks, faults>>

(* clean_pending_logins_task forgets a code after five minutes. *)
clean_pending_logins(q) ==
  /\ qr[q].st \notin {"none", "swept"} /\ Fault
  /\ qr' = [qr EXCEPT ![q].st = "swept"]
  /\ UNCHANGED <<pend, rows, overlap, ui, call, poll, cancels, push, stray, clicks>>

-----------------------------------------------------------------------------
(* The page and the answers *)

Done(c) == call' = [call EXCEPT ![c] = NoCall]

HandleError(c) ==
  /\ CallAt(c, "answered") /\ call[c].ans = "failed" /\ call[c].op # "change"
  /\ ui' = IF call[c].here THEN [ui EXCEPT !.loading = FALSE] ELSE ui
  /\ Done(c)
  /\ UNCHANGED <<server, poll, cancels, push, stray, clicks, faults>>

(* applySentCode; a password asked for leaves the flow as it is. *)
applySentCode(k) ==
  [ui EXCEPT !.step = k.ans, !.loading = FALSE, !.flow = IF k.op = "verify" THEN @ ELSE k.id,
             !.crossed = (@ /\ k.op = "verify")]

StepShown(c) ==
  /\ CallAt(c, "answered") /\ call[c].ans \in Steps
  /\ ui' = IF call[c].here THEN applySentCode(call[c]) ELSE ui
  /\ stray' = IF call[c].op = "send" /\ ~call[c].here THEN stray \cup {call[c].id} ELSE stray
  /\ Done(c)
  /\ UNCHANGED <<server, poll, cancels, push, clicks, faults>>

resetFlow(u) == [u EXCEPT !.step = "phone", !.flow = 0, !.crossed = u.loading]

(* Reset whatever came of the cancel; the effect cancels once more. *)
PhoneChanged(c) ==
  /\ CallAt(c, "answered") /\ call[c].op = "change"
  /\ IF call[c].here
     THEN /\ ui' = resetFlow(ui)
          /\ cancels' = cancels \cup cancel(ui.flow)
     ELSE UNCHANGED <<ui, cancels>>
  /\ Done(c)
  /\ UNCHANGED <<server, poll, push, stray, clicks, faults>>

QrShown(c) ==
  /\ CallAt(c, "answered") /\ call[c].op = "qrInit" /\ call[c].ans = "ok"
  /\ ui' = IF call[c].here THEN [ui EXCEPT !.qid = call[c].id, !.loading = FALSE,
                                           !.mixed = (@ \/ ui.qst # "pending")] ELSE ui
  /\ Done(c)
  /\ UNCHANGED <<server, poll, cancels, push, stray, clicks, faults>>

(* complete: the account's page opens, wherever the user is. *)
complete(c) ==
  /\ CallAt(c, "answered") /\ call[c].ans = "done" /\ call[c].op # "qr2fa"
  /\ Leave("account")
  /\ call' = [Unmounted EXCEPT ![c] = NoCall] /\ poll' = UnmountedPolls
  /\ UNCHANGED <<server, push, stray, clicks, faults>>

(* The password was right: the status says so, the account opens soon. *)
Accepted2FA(c) ==
  /\ CallAt(c, "answered") /\ call[c].ans = "done" /\ call[c].op = "qr2fa"
  /\ ui' = IF call[c].here THEN [ui EXCEPT !.qst = "success", !.loading = FALSE,
                                           !.mixed = (@ \/ call[c].id # ui.qid)] ELSE ui
  /\ push' = TRUE
  /\ Done(c)
  /\ UNCHANGED <<server, poll, cancels, stray, clicks, faults>>

Push ==
  /\ push /\ push' = FALSE
  /\ Leave("account")
  /\ call' = Unmounted /\ poll' = UnmountedPolls
  /\ UNCHANGED <<server, stray, clicks, faults>>

-----------------------------------------------------------------------------
LoginUserStep(c) ==
  \/ sendCode(c) \/ SubmitCall(c) \/ changePhone(c) \/ RefreshQr(c) \/ submit2FA(c) \/ Upload(c)
  \/ \E to \in Tabs : SwitchTab(to, c)
ServerStep(c) ==
  \/ send_code(c) \/ Advance(c) \/ Refuse(c) \/ Count(c) \/ finish_login(c) \/ FailAny(c)
  \/ AnswerLost(c) \/ cancel_login(c) \/ qr_login_init(c)
AnswerStep(c) ==
  HandleError(c) \/ StepShown(c) \/ PhoneChanged(c) \/ QrShown(c) \/ complete(c) \/ Accepted2FA(c)

LoginNext ==
  \/ \E c \in Calls : LoginUserStep(c) \/ ServerStep(c) \/ AnswerStep(c)
  \/ \E l \in LoginIds : CancelArrives(l) \/ sweep_expired(l)
  \/ \E q \in LoginIds : watch_qr_login(q) \/ WatcherInserts(q) \/ clean_pending_logins(q)
  \/ \E k \in Polls : Poll(k) \/ qr_login_status(k) \/ PollFails(k) \/ PollAnswered(k)
  \/ Countdown \/ Push

LoginSpec == LoginInit /\ [][LoginNext]_loginVars

(* The interval fires, and a poll is answered; nothing else is owed. *)
LoginFairness == \A k \in Polls : WF_loginVars(Poll(k)) /\ WF_loginVars(qr_login_status(k)) /\ WF_loginVars(PollAnswered(k))

-----------------------------------------------------------------------------
(* A login that is open on the server is the page's, about to be          *)
(* cancelled, or the answer that tells of it is on its way.  It is left   *)
(* to its time to live only when that answer was lost or came after the   *)
(* page was left (telegram-login-flow.tsx:96), or when the cancel, which  *)
(* is sent once, was lost.                                                *)
NoOrphanLogin ==
  \A l \in LoginIds : Open(l) =>
    \/ ui.flow = l \/ l \in cancels \cup stray
    \/ \E c \in Calls : call[c].id = l /\ call[c].op = "send"

(* A phone has one pending login: Telegram's codes go to the last.        *)
OneLoginPerPhone == \A l, m \in LoginIds : Open(l) /\ Open(m) /\ l # m => pend[l].phone # pend[m].phone

(* The plan's limit holds, unless two logins ended together.              *)
WithinPlan == Cardinality(rows) <= Limit \/ overlap

(* A step after the first has a login to go on with, unless the phone was *)
(* changed while a request of the old login was under way.                *)
StepHasFlow == (ui.tab = "otp" /\ ui.step # "phone") => (ui.flow # 0 \/ ui.crossed)

(* What the QR tab says of a code is what the server found, unless the    *)
(* answer to a poll of an earlier code came late, or two codes were asked *)
(* for and the second came when the first had a status.                   *)
QrStatusTrue ==
  (ui.tab = "qr" /\ ui.qid # 0 /\ ui.qst \in Final \ {"expired"} /\ ~ui.mixed) =>
     \/ qr[ui.qid].st \in {ui.qst, "swept"}
     \/ ui.qst = "requires_2fa" /\ qr[ui.qid].st = "success"

(* A scan is noticed: a code that was accepted does not stay on display   *)
(* as one to be scanned.                                                  *)
Waiting(q) == ui.tab = "qr" /\ ui.qid = q /\ ui.qst = "pending"
ScanNoticed == \A q \in LoginIds : (Waiting(q) /\ qr[q].st = "success") ~> (~Waiting(q) \/ qr[q].st = "swept")

(* Pending logins, the plan's limit and what the page says of both, in    *)
(* every state.                                                           *)
LoginsSafe ==
  LoginTypeOK /\ NoOrphanLogin /\ OneLoginPerPhone /\ WithinPlan /\ StepHasFlow /\ QrStatusTrue
=============================================================================
