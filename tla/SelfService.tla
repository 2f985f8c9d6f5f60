---------------------------- MODULE SelfService ----------------------------
(***************************************************************************)
(* The pages that keep their data in component state and talk to the       *)
(* server without the QueryClient: the settings page (password, two-factor *)
(* wizard, API keys, bank accounts, Telegram bot), the support page, the   *)
(* support widget and the administrators' ticket desk.  A behaviour is one *)
(* of these parts, in one tab; srv and ui hold what the part needs.        *)
(***************************************************************************)
EXTENDS Integers, Sequences, FiniteSets, SequencesExt

CONSTANTS
  Calls,      \* requests that may be in flight at the same time
  MaxClicks, MaxFaults,
  MaxTalk     \* messages of a conversation

VARIABLES
  part,
  srv,     \* what the server holds for the part
  ui,      \* the component's state
  call,
  slip,    \* excuses: races the code does not handle that have happened
  clicks, faults

vars == <<part, srv, ui, call, slip, clicks, faults>>

Parts == {"password", "2fa", "keys", "banks", "telegram", "support", "widget", "desk"}
Excuses == {"codes", "keys", "banks", "token", "talk", "tickets", "desk", "form"}
Ops == {"none", "password", "enable", "verify", "disable", "refresh", "regenerate", "me", "load", "create",
        "revoke", "add", "drop", "default", "status", "poll", "token", "unlink", "chat", "escalate", "save"}

(* id, val: what is asked.  got: what the server answered. *)
NoCall == [op |-> "none", id |-> 0, val |-> 0, pc |-> "idle", ok |-> TRUE, got |-> <<>>]
Req(op, id, val) == [NoCall EXCEPT !.op = op, !.id = id, !.val = val, !.pc = "sent"]

At(c, pc) == call[c].pc = pc
Rest == \A c \in Calls : At(c, "idle")
Pending(ops) == \E c \in Calls : call[c].op \in ops
Free(c) == At(c, "idle") /\ c = CHOOSE x \in Calls : At(x, "idle")
Done(c) == call' = [call EXCEPT ![c] = NoCall]
User == clicks < MaxClicks /\ clicks' = clicks + 1
(* MaxFaults bounds what goes wrong and what others do meanwhile. *)
Fault == faults > 0 /\ faults' = faults - 1

(* A click that sends request r and leaves the component as u. *)
Press(c, r, u) ==
  /\ User /\ Free(c) /\ call' = [call EXCEPT ![c] = r] /\ ui' = u
  /\ UNCHANGED <<part, srv, slip, faults>>
(* Only requests are counted: dialogs, typing, timers and effects are     *)
(* free, as long as the user has something left to do.                    *)
Local(u) == ui' = u /\ UNCHANGED <<part, srv, call, slip, clicks, faults>>
Click(u) == clicks < MaxClicks /\ Local(u)

-----------------------------------------------------------------------------
(* Settings: the password *)

(* 0 nothing typed, 1 too short, 2 the present password, 3 a new one. *)
InitPassword == [new |-> 0, again |-> 0, loading |-> FALSE, err |-> FALSE, ok |-> FALSE, last |-> "none"]
TypePassword(f, v) ==
  /\ part = "password" /\ ui[f] # v
  /\ Click([ui EXCEPT ![f] = v, !.err = FALSE])
(* The button needs both fields, alike; the handler checks the rest. *)
PasswordForm == part = "password" /\ ~ui.loading /\ ui.new # 0 /\ ui.new = ui.again
Cleared(u) == [u EXCEPT !.err = FALSE, !.ok = FALSE]
handlePasswordSubmit(c) ==
  /\ PasswordForm
  /\ \/ ui.new \in 1..2 /\ Click([Cleared(ui) EXCEPT !.err = TRUE, !.last = "refused"])
     \/ ui.new = 3 /\ Press(c, Req("password", 0, 3), [Cleared(ui) EXCEPT !.loading = TRUE, !.last = "none"])
PasswordAnswered(k) ==
  IF k.ok THEN [ui EXCEPT !.ok = TRUE, !.new = 0, !.again = 0, !.loading = FALSE, !.last = "changed"]
  ELSE [ui EXCEPT !.err = TRUE, !.loading = FALSE, !.last = "refused"]
(* Five seconds after a success. *)
SuccessFades == part = "password" /\ ui.ok /\ Local([ui EXCEPT !.ok = FALSE])

-----------------------------------------------------------------------------
(* Settings: the two-factor wizard *)

(* codes: which set of backup codes is shown; owed: codes the user has    *)
(* received and not put away.  session: twoFactorEnabled as the session   *)
(* has it.                                                                *)
Init2FA == [step |-> "inactive", confirm |-> "none", loading |-> FALSE, codes |-> 0, owed |-> FALSE,
            session |-> srv.on]
TwoFaStart == part = "2fa" /\ ui.step = "inactive" /\ ui.confirm = "none"
OpenPrompt == TwoFaStart /\ ~ui.session /\ Click([ui EXCEPT !.step = "password_prompt"])
ChooseAction == TwoFaStart /\ ui.session /\ \E a \in {"disable", "regenerate"} : Click([ui EXCEPT !.confirm = a])
(* Cancel works while an answer is due, and the answer still counts. *)
Cancel(u) ==
  /\ clicks < MaxClicks /\ ui' = u /\ slip' = IF ui.loading THEN slip \cup {"codes"} ELSE slip
  /\ UNCHANGED <<part, srv, call, clicks, faults>>
CancelStep ==
  /\ part = "2fa" /\ ui.step \in {"password_prompt", "verify"}
  /\ Cancel([ui EXCEPT !.step = "inactive", !.owed = FALSE])
CancelConfirm == part = "2fa" /\ ui.confirm # "none" /\ Cancel([ui EXCEPT !.confirm = "none"])

(* Mutant: the submit buttons do not look at twoFaLoading. *)
TwoFaReadyAlways == part = "2fa"
TwoFaReady == part = "2fa" /\ ~ui.loading
Loading == [ui EXCEPT !.loading = TRUE]
PasswordPrompt == TwoFaReady /\ ui.step = "password_prompt"
VerifyForm == TwoFaReady /\ ui.step = "verify"
ConfirmForm(action) == TwoFaReady /\ ui.confirm = action
BackupCodesView == part = "2fa" /\ ui.step = "backup_codes"
handleEnable2FAStart(c) == PasswordPrompt /\ Press(c, Req("enable", 0, 0), Loading)
handleVerify2FACode(c) == VerifyForm /\ Press(c, Req("verify", 0, ui.codes), Loading)
handleDisable2FA(c) == ConfirmForm("disable") /\ Press(c, Req("disable", 0, 0), Loading)
handleRegenerateBackupCodes(c) == ConfirmForm("regenerate") /\ Press(c, Req("regenerate", 0, 0), Loading)
(* The codes go when the user has been read again, not before. *)
handleDoneEnabled(c) ==
  /\ BackupCodesView /\ clicks < MaxClicks /\ Free(c)
  /\ call' = [call EXCEPT ![c] = Req("me", 0, 0)] /\ ui' = [ui EXCEPT !.owed = FALSE]
  /\ UNCHANGED <<part, srv, slip, clicks, faults>>

TwoFaAnswered(k) ==
  LET u == [ui EXCEPT !.loading = FALSE] IN
  CASE k.op = "me" -> [ui EXCEPT !.step = "inactive", !.codes = 0]
    [] k.op = "refresh" -> u
    [] ~k.ok -> u
    [] k.op = "enable" -> [u EXCEPT !.step = "verify", !.codes = k.got[1], !.owed = TRUE]
    [] k.op = "verify" -> [u EXCEPT !.step = "backup_codes"]
    [] k.op = "regenerate" -> [u EXCEPT !.step = "backup_codes", !.codes = k.got[1], !.owed = TRUE, !.confirm = "none"]
    [] k.op = "disable" -> [ui EXCEPT !.confirm = "none"]  \* and then fetchMe

(* The session is read again after every two-factor call. *)
SessionFollows == part = "2fa" /\ ui.session # srv.on /\ Local([ui EXCEPT !.session = srv.on])

-----------------------------------------------------------------------------
(* Settings: API keys, newest first *)

ApiKeyForm == part = "keys" /\ ~ui.creating
handleCreateApiKey(c) == ApiKeyForm /\ Press(c, Req("create", 0, 0), [ui EXCEPT !.creating = TRUE])
(* A key that is revoked has no button. *)
ApiKeyRow(i) == part = "keys" /\ i \in DOMAIN ui.list /\ ui.list[i].live
handleRevokeApiKey(c, i) == ApiKeyRow(i) /\ Press(c, Req("revoke", ui.list[i].key, 0), ui)
(* The effect that loads the keys depends on the translation function. *)
SwitchLanguage(c) == part = "keys" /\ Press(c, Req("load", 0, 0), ui)

Revoked(list, id) == [i \in DOMAIN list |-> [list[i] EXCEPT !.live = @ /\ list[i].key # id]]
KeysAnswered(k) ==
  CASE k.op = "create" -> [ui EXCEPT !.creating = FALSE, !.list = IF k.ok THEN k.got \o @ ELSE @]
    [] k.op = "load" /\ k.ok -> [ui EXCEPT !.list = k.got]
    [] k.op = "revoke" /\ k.ok -> [ui EXCEPT !.list = Revoked(@, k.id)]
    [] OTHER -> ui

-----------------------------------------------------------------------------
(* Settings: bank accounts, numbered in the order they were made.  The    *)
(* store does to its own list what it asks of the server, and does it     *)
(* even when the server fails; an account the server did not take is -1.  *)

Mark(ids, defs) == [ids |-> ids, defs |-> defs]
Newest(s) == CHOOSE x \in s : \A y \in s : y <= x
Falling(s) == SortSeq(SetToSeq(s), LAMBDA a, b : a > b)
DefaultFirst(s, d) == (IF d \in s THEN <<d>> ELSE <<>>) \o Falling(s \ {d})

(* No button of this section waits for the one before. *)
BankForm == part = "banks"
handleSaveAccount(c, d) == BankForm /\ Press(c, Req("add", 0, d), ui)
BankRow(i) == part = "banks" /\ i \in DOMAIN ui.ids
DeleteBank(c, i) == BankRow(i) /\ Press(c, Req("drop", ui.ids[i], 0), ui)
DefaultBank(c, i) == BankRow(i) /\ ui.ids[i] \notin ui.defs /\ Press(c, Req("default", ui.ids[i], 0), ui)

addAccount(k) ==
  LET id == IF k.ok THEN k.got[1] ELSE -1
      isDefault == (IF k.ok THEN k.got[2] ELSE k.val) = 1
      others == SelectSeq(ui.ids, LAMBDA x : x # id)
  IN Mark(<<id>> \o others, IF isDefault \/ ui.ids = <<>> THEN {id} ELSE ui.defs \ {id})
deleteAccount(k) ==
  LET left == SelectSeq(ui.ids, LAMBDA x : x # k.id)
      defs == ui.defs \ {k.id}
  IN Mark(left, IF left # <<>> /\ defs = {} THEN {left[1]} ELSE defs)
setDefaultAccount(k) == [ui EXCEPT !.defs = {k.id} \cap ToSet(ui.ids)]
hydrate(k) == IF k.ok THEN Mark(k.got[1], {k.got[2]} \cap ToSet(k.got[1])) ELSE ui
BanksAnswered(k) ==
  CASE k.op = "load" -> hydrate(k) [] k.op = "add" -> addAccount(k)
    [] k.op = "drop" -> deleteAccount(k) [] k.op = "default" -> setDefaultAccount(k)

-----------------------------------------------------------------------------
(* Settings: the Telegram bot.  status: not loaded, off or on. *)

InitTelegram == [status |-> "none", tok |-> 0, confirm |-> FALSE]
(* Loading is only shown for the first status and the one after unlink. *)
TelegramLoaded == part = "telegram" /\ ~Pending({"status"})
NotConnected == TelegramLoaded /\ ui.status # "on"
Connected == TelegramLoaded /\ ui.status = "on"
handleGenerateToken(c) == NotConnected /\ ~Pending({"token"}) /\ Press(c, Req("token", 0, 0), ui)
OpenUnlink == Connected /\ ~ui.confirm /\ ~Pending({"unlink"}) /\ Click([ui EXCEPT !.confirm = TRUE])
UnlinkDialog == part = "telegram" /\ ui.confirm /\ ~Pending({"unlink"})
handleUnlink(c) == UnlinkDialog /\ Press(c, Req("unlink", 0, 0), ui)
CancelUnlink == UnlinkDialog /\ Click([ui EXCEPT !.confirm = FALSE])

PollDue == part = "telegram" /\ ui.tok # 0 /\ ui.status # "on"
(* Every three seconds, whether or not the last question was answered;    *)
(* one slot is kept for the user's requests.                              *)
Poll(c) ==
  /\ PollDue /\ Free(c) /\ \E d \in Calls \ {c} : At(d, "idle")
  /\ call' = [call EXCEPT ![c] = Req("poll", 0, 0)]
  /\ UNCHANGED <<part, srv, ui, slip, clicks, faults>>
(* The countdown ends when the token has. *)
Countdown ==
  /\ part = "telegram" /\ ui.tok # 0 /\ ui.tok # srv.tok
  /\ ui' = [ui EXCEPT !.tok = 0] /\ UNCHANGED <<part, srv, call, slip, clicks, faults>>

TokenAfter(got) == IF ui.tok # 0 THEN ui.tok ELSE got
fetchStatus(k) ==
  IF ~k.ok THEN ui
  ELSE [ui EXCEPT !.status = IF k.got[1] THEN "on" ELSE "off",
                  !.tok = IF k.op = "poll" /\ k.got[1] THEN 0 ELSE TokenAfter(k.got[2])]
TelegramAnswered(k) ==
  CASE k.op \in {"status", "poll"} -> fetchStatus(k)
    [] k.op = "token" /\ k.ok -> [ui EXCEPT !.tok = k.got[1]]
    [] k.op = "unlink" /\ k.ok -> [ui EXCEPT !.tok = 0, !.confirm = FALSE]
    [] OTHER -> ui

(* The bot takes the token and then links the chat. *)
BotTakesToken ==
  /\ part = "telegram" /\ srv.tok # 0 /\ ui.tok = srv.tok /\ Fault /\ srv' = [srv EXCEPT !.tok = 0, !.taken = TRUE]
  /\ UNCHANGED <<part, ui, call, slip, clicks>>
BotLinks ==
  /\ part = "telegram" /\ srv.taken /\ srv' = [srv EXCEPT !.link = TRUE, !.taken = FALSE]
  /\ UNCHANGED <<part, ui, call, slip, clicks, faults>>
TokenExpires ==
  /\ part = "telegram" /\ srv.tok # 0 /\ Fault /\ srv' = [srv EXCEPT !.tok = 0]
  /\ UNCHANGED <<part, ui, call, slip, clicks>>

-----------------------------------------------------------------------------
(* Support: the page and the widget *)

InTalk == part \in {"support", "widget"}
(* cat: a category is chosen (the widget has none and is always open). *)
InitTalk == [cat |-> part = "widget", msgs |-> IF part = "widget" THEN <<"hello">> ELSE <<>>, sending |-> FALSE,
             dlg |-> FALSE, busy |-> FALSE, tab |-> "chat", list |-> 0, loading |-> part = "support"]
Interrupted == IF ui.sending THEN slip \cup {"talk"} ELSE slip
Turned(u) == clicks < MaxClicks /\ ui' = u /\ slip' = Interrupted /\ UNCHANGED <<part, srv, call, clicks, faults>>

(* A category is picked, or the conversation under it cleared. *)
CategoryPicker == part = "support" /\ ui.tab = "chat" /\ ~ui.cat
ChatBar == part = "support" /\ ui.tab = "chat" /\ ui.cat
handleSelectCategory == (CategoryPicker \/ ChatBar) /\ Turned([ui EXCEPT !.cat = TRUE, !.msgs = <<"hello">>])
handleResetCategory == ChatBar /\ Turned([ui EXCEPT !.cat = FALSE, !.msgs = <<>>])
(* The greeting returns at once: the effect watches the number of         *)
(* messages.                                                              *)
clearChat == part = "widget" /\ Turned([ui EXCEPT !.msgs = <<"hello">>, !.dlg = FALSE])

ChatInput == ChatBar /\ ~ui.sending /\ Len(ui.msgs) < MaxTalk
WidgetInput == part = "widget" /\ ~ui.sending /\ Len(ui.msgs) < MaxTalk
Asked == [ui EXCEPT !.msgs = Append(@, "ask"), !.sending = TRUE]
handleSendMessage(c) == ChatInput /\ Press(c, Req("chat", 0, 0), Asked)
WidgetSendMessage(c) == WidgetInput /\ Press(c, Req("chat", 0, 0), Asked)

OpenEscalate == InTalk /\ ~ui.dlg /\ Click([ui EXCEPT !.dlg = TRUE])
CloseEscalate == InTalk /\ ui.dlg /\ Click([ui EXCEPT !.dlg = FALSE])
EscalateDialog == part = "support" /\ ui.dlg /\ ~ui.busy
EscalationForm == part = "widget" /\ ui.dlg /\ ~ui.busy
handleSubmitEscalate(c) == EscalateDialog /\ Press(c, Req("escalate", 0, 0), [ui EXCEPT !.busy = TRUE])
handleEscalateSubmit(c) == EscalationForm /\ Press(c, Req("escalate", 0, 0), [ui EXCEPT !.busy = TRUE])
SetTab(t) == part = "support" /\ ui.tab # t /\ Click([ui EXCEPT !.tab = t])
TicketsTab == part = "support" /\ ui.tab = "tickets"
RefreshTickets(c) ==
  TicketsTab /\ ~ui.loading /\ Press(c, Req("load", 0, 0), [ui EXCEPT !.loading = TRUE])

(* An error is answered with an apology. *)
ChatAnswered == [ui EXCEPT !.msgs = Append(@, "reply"), !.sending = FALSE]
(* The page reads its tickets before it lets go of the button (val); the  *)
(* widget says the number in the chat.                                    *)
EscalateAnswered(k) ==
  IF ~k.ok THEN [ui EXCEPT !.busy = FALSE] ELSE [ui EXCEPT !.dlg = FALSE, !.loading = TRUE]
WidgetEscalated(k) ==
  IF ~k.ok THEN [ui EXCEPT !.busy = FALSE] ELSE [ui EXCEPT !.dlg = FALSE, !.busy = FALSE, !.msgs = Append(@, "note")]
fetchTickets(k) ==
  LET u == [ui EXCEPT !.loading = FALSE, !.list = IF k.ok THEN k.got[1] ELSE @] IN
  IF k.val = 1 THEN [u EXCEPT !.tab = "tickets", !.busy = FALSE] ELSE u
TalkAnswered(k) ==
  CASE k.op = "chat" -> ChatAnswered 
    [] k.op = "escalate" /\ part = "support" -> EscalateAnswered(k) [] k.op = "escalate" -> WidgetEscalated(k)
    [] k.op = "load" -> fetchTickets(k)

-----------------------------------------------------------------------------
(* The administrators' tickets: two tickets, open or resolved *)

Tickets == 1..2
Status == {"open", "resolved"}
InitDesk == [filter |-> "all", list |-> [t \in {} |-> "open"], sel |-> 0, form |-> [of |-> 0, val |-> "open"],
             saving |-> FALSE, loading |-> TRUE]
Matching(f) == {t \in Tickets : f \in {"all", srv[t]}}
SetFilter(c, f) ==
  /\ part = "desk" /\ ui.sel = 0 /\ f # ui.filter
  /\ Press(c, Req("load", 0, f), [ui EXCEPT !.filter = f, !.loading = TRUE])
RefreshDesk(c) ==
  part = "desk" /\ ui.sel = 0 /\ ~ui.loading /\ Press(c, Req("load", 0, ui.filter), [ui EXCEPT !.loading = TRUE])
TicketRow(t) == part = "desk" /\ ui.sel = 0 /\ ~ui.loading /\ t \in DOMAIN ui.list
handleOpenDetail(t) ==
  TicketRow(t) /\ Click([ui EXCEPT !.sel = t, !.form = [of |-> t, val |-> ui.list[t]]])
TicketDialog == part = "desk" /\ ui.sel # 0
EditTicket(v) ==
  TicketDialog /\ ui.form.val # v /\ Click([ui EXCEPT !.form.val = v])
CloseTicket == TicketDialog /\ Local([ui EXCEPT !.sel = 0])
handleSaveTicket(c) ==
  /\ TicketDialog /\ ~ui.saving
  /\ Press(c, [Req("save", ui.sel, ui.form.val) EXCEPT !.got = <<ui.form.of>>], [ui EXCEPT !.saving = TRUE])

(* The row is replaced and the ticket shown, though another may be open.  *)
TicketSaved(k) ==
  IF ~k.ok THEN [ui EXCEPT !.saving = FALSE]
  ELSE [ui EXCEPT !.saving = FALSE, !.sel = k.id,
                  !.list = [t \in DOMAIN @ |-> IF t = k.id THEN k.val ELSE @[t]]]
DeskAnswered(k) ==
  CASE k.op = "load" -> [ui EXCEPT !.loading = FALSE, !.list = IF k.ok THEN k.got[1] ELSE @]
    [] k.op = "save" -> TicketSaved(k)

-----------------------------------------------------------------------------
(* The server *)

(* Wrong passwords and codes are the user's; the rest the server knows. *)
MayRefuse == {"password", "enable", "verify", "disable", "regenerate"}
Refuses(k) ==
  \/ k.op = "verify" /\ k.val # srv.codes
  \/ k.op \in {"disable", "regenerate"} /\ ~srv.on
  \/ k.op \in {"drop", "default"} /\ k.id \notin srv.list

create_bank_account(k) ==
  [list |-> srv.list \cup {srv.next}, next |-> srv.next + 1,
   def |-> IF k.val = 1 \/ srv.list = {} THEN srv.next ELSE srv.def]
delete_bank_account(k) ==
  LET left == srv.list \ {k.id} IN
  [srv EXCEPT !.list = left, !.def = CASE left = {} -> 0 [] k.id = srv.def -> Newest(left) [] OTHER -> @]

Effect(k) ==
  CASE k.op = "password" -> 1
    [] k.op \in {"enable", "regenerate"} -> [srv EXCEPT !.codes = srv.made + 1, !.made = @ + 1]
    [] k.op = "verify" -> [srv EXCEPT !.on = TRUE]
    [] k.op = "disable" -> [srv EXCEPT !.on = FALSE, !.codes = 0]
    [] k.op = "create" -> <<[key |-> Len(srv) + 1, live |-> TRUE]>> \o srv
    [] k.op = "revoke" -> Revoked(srv, k.id)
    [] k.op = "add" -> create_bank_account(k)
    [] k.op = "drop" -> delete_bank_account(k)
    [] k.op = "default" -> [srv EXCEPT !.def = k.id]
    [] k.op = "token" -> [srv EXCEPT !.tok = srv.made + 1, !.made = @ + 1]
    [] k.op = "unlink" -> [srv EXCEPT !.link = FALSE, !.tok = 0]
    [] k.op = "escalate" -> srv + 1
    [] k.op = "save" -> [srv EXCEPT ![k.id] = k.val]
    [] OTHER -> srv

(* The answer, read after the effect. *)
Answer(k) ==
  CASE k.op \in {"enable", "regenerate"} -> <<srv.made + 1>>
    [] k.op = "create" -> <<[key |-> Len(srv) + 1, live |-> TRUE]>>
    [] k.op = "load" /\ part = "keys" -> srv
    [] k.op = "load" /\ part = "banks" -> <<DefaultFirst(srv.list, srv.def), srv.def>>
    [] k.op = "load" /\ part = "support" -> <<srv>>
    [] k.op = "load" /\ part = "desk" -> <<[t \in Matching(k.val) |-> srv[t]]>>
    [] k.op = "add" -> <<srv.next, IF create_bank_account(k).def = srv.next THEN 1 ELSE 0>>
    [] k.op = "token" -> <<srv.made + 1>>
    [] k.op \in {"status", "poll"} -> <<srv.link, srv.tok>>
    [] OTHER -> k.got

(* Races that no handler undoes: an answer that was read before the       *)
(* change and may be shown after it; for the banks any other request.     *)
ReadBefore == \E d \in Calls : At(d, "answered") /\ call[d].op = "load"
Raced(c) ==
  LET k == call[c] IN
  CASE k.op \in {"create", "revoke"} /\ ReadBefore -> {"keys"}
    [] part = "banks" /\ k.op # "load" /\ (\E d \in Calls \ {c} : ~At(d, "idle")) -> {"banks"}
    [] k.op = "escalate" /\ ReadBefore -> {"tickets"}
    [] k.op = "save" /\ ReadBefore -> {"desk"}
    [] OTHER -> {}
(* The excuse of a request that fails, done or not. *)
Lost(k, done) ==
  CASE part = "banks" -> {"banks"}
    [] part = "keys" /\ (done \/ k.op = "load") -> {"keys"}
    [] part = "support" /\ (k.op = "load" \/ done) -> {"tickets"}
    [] part = "desk" /\ (k.op = "load" \/ done) -> {"desk"}
    [] k.op = "token" /\ done -> {"token"}
    [] OTHER -> {}

Serve(c) ==
  LET k == call[c]
      answered(ok, got) == [call EXCEPT ![c] = [@ EXCEPT !.pc = "answered", !.ok = ok, !.got = got]]
  IN
  /\ At(c, "sent")
  /\ \/ /\ ~Refuses(k) /\ srv' = Effect(k) /\ call' = answered(TRUE, Answer(k))
        /\ slip' = slip \cup Raced(c) /\ UNCHANGED faults
     \/ /\ Refuses(k) \/ k.op \in MayRefuse
        /\ call' = answered(FALSE, k.got)
        /\ slip' = slip \cup (IF part = "banks" THEN {"banks"} ELSE {}) /\ UNCHANGED <<srv, faults>>
     \/ /\ ~Refuses(k) /\ Fault /\ k.op \notin {"me", "refresh"}
        /\ \E done \in BOOLEAN :
             /\ srv' = IF done THEN Effect(k) ELSE srv
             /\ slip' = slip \cup Lost(k, done) \cup (IF done THEN Raced(c) ELSE {})
        /\ call' = answered(FALSE, k.got)
  /\ UNCHANGED <<part, ui, clicks>>

-----------------------------------------------------------------------------
(* The answers *)

Answered(k) ==
  CASE part = "password" -> PasswordAnswered(k) [] part = "2fa" -> TwoFaAnswered(k)
    [] part = "keys" -> KeysAnswered(k) [] part = "banks" -> BanksAnswered(k)
    [] part = "telegram" -> TelegramAnswered(k) [] InTalk -> TalkAnswered(k) [] part = "desk" -> DeskAnswered(k)

(* What a handler goes on with. *)
Then(k) ==
  CASE ~k.ok -> NoCall
    [] k.op = "disable" -> Req("refresh", 0, 0)
    [] k.op = "unlink" -> Req("status", 0, 0)
    [] k.op = "escalate" /\ part = "support" -> Req("load", 0, 1)
    [] OTHER -> NoCall

Others(c, ops) == \E d \in Calls \ {c} : call[d].op \in ops
Upset(c) ==
  LET k == call[c] IN
  CASE k.op \in {"enable", "regenerate"} /\ Others(c, {"me"}) -> {"codes"}
    [] k.op = "load" /\ part = "keys" /\ (\E d \in Calls : At(d, "answered") /\ call[d].op = "create") -> {"keys"}
    [] k.op = "drop" /\ ui.defs \subseteq {k.id} /\ ui'.ids # <<>> /\ ui'.ids[1] # Newest(ToSet(ui'.ids)) -> {"banks"}
    [] k.op \in {"status", "poll"} ->
         (IF ui.tok = 0 /\ ui'.tok # srv.tok THEN {"token"} ELSE {})
    [] k.op = "load" /\ part = "desk" /\ k.val # ui.filter
         /\ ~(\E d \in Calls \ {c} : call[d].op = "load" /\ call[d].val = ui.filter) -> {"desk"}
    [] k.op = "save" /\ k.ok -> {x \in {"form", "desk"} : IF x = "form" THEN ui.form.of # k.id ELSE k.id \notin DOMAIN ui.list}
    [] OTHER -> {}

Handle(c) ==
  /\ At(c, "answered")
  /\ ui' = Answered(call[c]) /\ call' = [call EXCEPT ![c] = Then(call[c])] /\ slip' = slip \cup Upset(c)
  /\ UNCHANGED <<part, srv, clicks, faults>>

-----------------------------------------------------------------------------
NoneAsked == [c \in Calls |-> NoCall]
First == CHOOSE c \in Calls : TRUE
Mount(r) == [NoneAsked EXCEPT ![First] = r]
Init ==
  /\ \/ part = "password" /\ srv = 0 /\ ui = InitPassword /\ call = NoneAsked
     \/ /\ part = "2fa" /\ \E on \in BOOLEAN : LET n == IF on THEN 1 ELSE 0 IN srv = [on |-> on, codes |-> n, made |-> n]
        /\ ui = Init2FA /\ call = NoneAsked
     \/ /\ part = "keys" /\ srv = <<[key |-> 1, live |-> TRUE]>> /\ ui = [list |-> <<>>, creating |-> FALSE]
        /\ call = Mount(Req("load", 0, 0))
     \/ /\ part = "banks"
        /\ \/ srv = [list |-> {}, def |-> 0, next |-> 1]
           \/ \E d \in 1..3 : srv = [list |-> 1..3, def |-> d, next |-> 4]
        /\ ui = Mark(<<>>, {}) /\ call = Mount(Req("load", 0, 0))
     \/ /\ part = "telegram" /\ \E linked \in BOOLEAN : srv = [link |-> linked, tok |-> 0, made |-> 0, taken |-> FALSE]
        /\ ui = InitTelegram /\ call = Mount(Req("status", 0, 0))
     \/ part = "support" /\ srv = 0 /\ ui = InitTalk /\ call = Mount(Req("load", 0, 0))
     \/ part = "widget" /\ srv = 0 /\ ui = InitTalk /\ call = NoneAsked
     \/ /\ part = "desk" /\ srv \in [Tickets -> Status] /\ ui = InitDesk /\ call = Mount(Req("load", 0, "all"))
  /\ slip = {} /\ clicks = 0 /\ faults = MaxFaults

Submit(c) ==
  \/ handlePasswordSubmit(c)
  \/ handleEnable2FAStart(c) \/ handleVerify2FACode(c) \/ handleDisable2FA(c) \/ handleRegenerateBackupCodes(c)
  \/ handleDoneEnabled(c)
  \/ handleCreateApiKey(c) \/ (\E i \in 1..3 : handleRevokeApiKey(c, i)) \/ SwitchLanguage(c)
  \/ (\E d \in 0..1 : handleSaveAccount(c, d)) \/ (\E i \in 1..4 : DeleteBank(c, i) \/ DefaultBank(c, i))
  \/ handleGenerateToken(c) \/ handleUnlink(c)
  \/ handleSendMessage(c) \/ WidgetSendMessage(c) \/ handleSubmitEscalate(c) \/ handleEscalateSubmit(c)
  \/ RefreshTickets(c)
  \/ (\E f \in Status \cup {"all"} : SetFilter(c, f)) \/ RefreshDesk(c) \/ handleSaveTicket(c)

Clicks ==
  \/ \E f \in {"new", "again"}, v \in 1..3 : TypePassword(f, v)
  \/ OpenPrompt \/ ChooseAction \/ CancelStep \/ CancelConfirm \/ OpenUnlink \/ CancelUnlink
  \/ handleSelectCategory \/ handleResetCategory \/ clearChat \/ OpenEscalate \/ CloseEscalate
  \/ (\E t \in {"chat", "tickets"} : SetTab(t))
  \/ (\E t \in Tickets : handleOpenDetail(t)) \/ (\E v \in Status : EditTicket(v)) \/ CloseTicket

Goes == \E c \in Calls : Poll(c) \/ Serve(c) \/ Handle(c)
Next ==
  \/ Goes \/ Clicks \/ \E c \in Calls : Submit(c)
  \/ SuccessFades \/ SessionFollows \/ Countdown \/ BotTakesToken \/ BotLinks \/ TokenExpires

Spec == Init /\ [][Next]_vars

-----------------------------------------------------------------------------
KeyList == Seq([key: Nat, live: BOOLEAN])
TypeOK ==
  /\ part \in Parts /\ slip \subseteq Excuses /\ clicks \in 0..MaxClicks /\ faults \in 0..MaxFaults
  /\ \A c \in Calls : call[c].op \in Ops /\ call[c].pc \in {"idle", "sent", "answered"} /\ call[c].ok \in BOOLEAN
  /\ CASE part = "password" -> ui \in [new: 0..3, again: 0..3, loading: BOOLEAN, err: BOOLEAN, ok: BOOLEAN,
                                       last: {"none", "refused", "changed"}]
       [] part = "2fa" -> ui \in [step: {"inactive", "password_prompt", "verify", "backup_codes"}, loading: BOOLEAN,
                                  confirm: {"none", "disable", "regenerate"}, codes: 0..srv.made, owed: BOOLEAN,
                                  session: BOOLEAN]
       [] part = "keys" -> srv \in KeyList /\ ui.list \in KeyList /\ ui.creating \in BOOLEAN
       [] part = "banks" -> /\ srv.list \subseteq 1..(srv.next - 1) /\ srv.def \in srv.list \cup {0}
                            /\ ui.defs \subseteq ToSet(ui.ids)
       [] part = "telegram" -> ui \in [status: {"none", "off", "on"}, tok: 0..srv.made, confirm: BOOLEAN]
       [] InTalk -> /\ ui.msgs \in Seq({"hello", "ask", "reply", "note"}) /\ ui.list \in 0..srv
                    /\ ui.tab \in {"chat", "tickets"} /\ (ui.sending <=> Pending({"chat"}))
       [] part = "desk" -> /\ srv \in [Tickets -> Status] /\ ui.sel \in 0..2 /\ DOMAIN ui.list \subseteq Tickets
                           /\ (ui.saving <=> Pending({"save"}))

(* The message under the password form is about the last attempt. *)
PasswordTold == part = "password" => (ui.ok => ui.last = "changed") /\ (ui.err => ui.last = "refused")

(* Backup codes on the screen are the ones that work, and codes the user  *)
(* has received stay until he puts them away, unless an earlier Done was  *)
(* still waiting for the user's data or a form was cancelled while its    *)
(* answer was due.                                                        *)
BackupCodes ==
  (part = "2fa" /\ "codes" \notin slip) =>
    /\ ui.step = "backup_codes" => ui.codes = srv.codes
    /\ ui.owed => ui.step \in {"verify", "backup_codes"}

(* The keys listed are the server's, each once, unless a load crossed a   *)
(* change or a request failed.                                            *)
KeysShown == (part = "keys" /\ Rest /\ "keys" \notin slip) => ui.list = srv

(* The accounts shown and the default among them are the server's, unless *)
(* requests overlapped or failed, or the default was deleted from a list  *)
(* that did not start with the newest account.                            *)
BanksShown ==
  (part = "banks" /\ Rest /\ "banks" \notin slip) =>
    ToSet(ui.ids) = srv.list /\ Len(ui.ids) = Cardinality(srv.list) /\ ui.defs = {srv.def} \ {0}

(* A token on the screen is the one the bot takes as long as it takes     *)
(* any, unless the answer with a newer one was lost or an old answer came *)
(* when no token was shown.                                               *)
TokenWorks ==
  (part = "telegram" /\ "token" \notin slip /\ ~Pending({"token"}) /\ ui.tok # 0 /\ srv.tok # 0) => ui.tok = srv.tok

(* Questions and answers alternate, whatever is sent to an administrator  *)
(* between them, unless the conversation was left while an answer was due.*)
TalkInOrder ==
  (InTalk /\ "talk" \notin slip) =>
    LET said == SelectSeq(ui.msgs, LAMBDA m : m # "note") IN
    \A i \in DOMAIN said : said[i] = CASE i = 1 -> "hello" [] i % 2 = 0 -> "ask" [] OTHER -> "reply"

(* The user's tickets are all listed, unless a load crossed the making of *)
(* one or a request failed.                                               *)
TicketsShown == (part = "support" /\ Rest /\ "tickets" \notin slip) => ui.list = srv

(* Every listed ticket has the status it has and no ticket of the filter  *)
(* is missing, unless the answers of two filters came in the wrong order, *)
(* a ticket was saved that the list no longer held, a load crossed a save *)
(* or a request failed.                                                   *)
DeskShown ==
  (part = "desk" /\ Rest /\ "desk" \notin slip) =>
    Matching(ui.filter) \subseteq DOMAIN ui.list /\ \A t \in DOMAIN ui.list : ui.list[t] = srv[t]

(* What is saved for a ticket was entered for it, unless another was      *)
(* opened while it was being saved.                                       *)
FormIsTickets ==
  (part = "desk" /\ "form" \notin slip) => \A c \in Calls : call[c].op = "save" => call[c].got[1] = call[c].id

(* The settings, support and ticket pages show and send what is true.     *)
PagesTrue ==
  /\ TypeOK /\ PasswordTold /\ BackupCodes /\ KeysShown /\ BanksShown /\ TokenWorks
  /\ TalkInOrder /\ TicketsShown /\ DeskShown /\ FormIsTickets
=============================================================================
