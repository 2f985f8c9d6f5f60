------------------------------ MODULE Accounts ------------------------------
(***************************************************************************)
(* The pages that manage a connected Telegram account: the list with its   *)
(* folders and transfers, the account's own pages (details, profile,       *)
(* security, devices) and the pages for automatic replies, contacts and    *)
(* groups.  One user, one tab, one account and a folder with two possible  *)
(* members.  Every page shows what its queries last answered and changes   *)
(* the account by requests that may overlap, fail or outlive the page.     *)
(***************************************************************************)
EXTENDS Integers, FiniteSets, TLC, QueryClient

CONSTANTS
  Calls,   \* requests that may be in flight at the same time
  MaxClicks, MaxFaults

ASSUME AccountsAssumption == MaxClicks \in Nat \ {0} /\ MaxFaults \in Nat

VARIABLES
  srv,     \* the account, as the server has it
  page,
  ui,      \* what the page and its dialogs hold
  cache,   \* the QueryClient
  call,
  off,     \* queries whose data no hook has promised to refresh
  clicks, faults

vars == <<srv, page, ui, cache, call, off, clicks, faults>>

(* 0 is empty or off, 1 what the account starts with, 2 a new value. *)
Profile == {"name", "bio"}
Reply == {"text", "on"}
Privacy == {"p1", "p2"}
Members == {"m1", "m2"}
Fields == Profile \cup Reply \cup Privacy \cup Members \cup
  {"photo", "spam", "appeal", "sale", "here", "twofa", "email", "code", "dev", "folder", "contact",
   "group", "synced"}
Inputs == Profile \cup Reply \cup Privacy

Pages == {"list", "detail", "settings", "security", "devices", "autoReply", "contacts", "groups"}
Queries == {"list", "account", "2fa", "privacy", "devices", "folders", "contacts", "chats"}

(* What the answer to a query holds, and the queries of a page. *)
Part(q) == CASE q = "list" -> Reply \cup {"name", "photo", "spam", "sale", "here", "synced"}
             [] q = "account" -> Profile \cup Reply \cup {"photo", "spam", "sale", "twofa"}
             [] q = "2fa" -> {"twofa", "email"}
             [] q = "privacy" -> Privacy
             [] q = "devices" -> {"dev"}
             [] q = "folders" -> Members \cup {"folder"}
             [] q = "contacts" -> {"contact"}
             [] q = "chats" -> {"group"}
Uses(p) == CASE p = "list" -> {"list", "folders"}
             [] p = "detail" -> {"account", "2fa"}
             [] p = "settings" -> {"account"}
             [] p = "security" -> {"account", "2fa", "privacy"}
             [] p = "devices" -> {"devices", "account"}
             [] p = "autoReply" -> {"list"}
             [] p = "contacts" -> {"list", "contacts"}
             [] p = "groups" -> {"list", "chats"}
OfAccount == Queries \ {"list", "folders"}
(* The parts of a page that can be worked on, one at a time. *)
Cards(p) == CASE p = "settings" -> {"photo", "profile", "reply", "wipe"}
              [] p = "security" -> {"privacy", "password", "email"}
              [] p = "list" -> {"cards", "transfer", "folders"}
              [] OTHER -> {p}
Value(q) == [f \in Part(q) |-> srv[f]]

Dialogs == {"none", "delete", "sell", "unsell", "transfer", "folders", "panel", "deleteFolder", "appeal",
            "photo", "wipe", "terminateAll", "editor", "deleteContact", "import", "join"}
Ops == {"none", "delete", "sell", "unsell", "transfer", "create", "rename", "drop", "add", "remove",
        "spam", "appeal", "resume", "photo", "unphoto", "profile", "reply", "wipe", "privacy",
        "enable", "disable", "change", "request", "recover", "mail", "confirm", "send", "verify",
        "terminate", "terminateAll", "toggle", "editor", "bulk", "forget", "import", "sync", "join"}
NoPut == [f \in {} |-> 0]
NoCall == [op |-> "none", put |-> NoPut, touched |-> {}, seen |-> TRUE, snap |-> {}, to |-> 0, force |-> FALSE, from |-> "list",
           pc |-> "idle", ans |-> "none", here |-> FALSE]

(* edit, form, touched: the profile and the reply that are typed; Blank   *)
(* is what a form shows before the account has loaded.  seen: the form    *)
(* was filled with what the server had.  step, addr: the login e-mail.    *)
(* tab, sent, needs: the cloud password.  ticks: the members panel.       *)
(* typed, deb, asked, found, card: the recipient of a transfer.  failed:  *)
(* the groups page has a syncError.  slip: the excuse of the properties.  *)
Blank == [f \in Inputs |-> IF f \in Privacy THEN -1 ELSE 0]
NewUi(card) == [at |-> card, dlg |-> "none", edit |-> FALSE, form |-> Blank, touched |-> {}, seen |-> TRUE,
          step |-> "idle", addr |-> 0, tab |-> "main", sent |-> FALSE, needs |-> FALSE,
          ticks |-> {}, typed |-> 0, deb |-> 0, asked |-> 0, found |-> FALSE, card |-> 0, over |-> FALSE,
          appeal |-> "idle", failed |-> FALSE, slip |-> FALSE]

TypeOK ==
  /\ srv \in [Fields -> 0..2] /\ page \in Pages
  /\ ui \in [at: UNION {Cards(p) : p \in Pages}, dlg: Dialogs, edit: BOOLEAN, form: [Inputs -> -1..2], touched: SUBSET (Profile \cup Reply),
             seen: BOOLEAN, step: {"idle", "sent"}, addr: 0..2, tab: {"main", "change", "forgot", "recovery"},
             sent: BOOLEAN, needs: BOOLEAN, ticks: SUBSET Members, typed: 0..2, deb: 0..2, asked: 0..2, found: BOOLEAN,
             card: 0..2, over: BOOLEAN, appeal: {"idle", "submitting", "warning", "captcha", "success"},
             failed: BOOLEAN, slip: BOOLEAN]
  /\ DOMAIN cache = Queries /\ \A q \in Queries : cache[q] \in EntryType([Part(q) -> 0..2])
  /\ \A c \in Calls :
       /\ [call[c] EXCEPT !.put = NoPut] \in
            [op: Ops, put: {NoPut}, touched: SUBSET (Profile \cup Reply), seen: BOOLEAN, snap: SUBSET Members,
             to: 0..2, force: BOOLEAN, from: Pages, pc: {"idle", "sent", "answered", "awaiting", "closing"},
             ans: {"none", "done", "again", "captcha", "failed"}, here: BOOLEAN]
       /\ DOMAIN call[c].put \subseteq Fields /\ \A f \in DOMAIN call[c].put : call[c].put[f] \in 0..2
  /\ off \subseteq Queries /\ clicks \in 0..MaxClicks /\ faults \in 0..MaxFaults

Init ==
  /\ page \in Pages
  /\ \E sale, spam, twofa, synced \in 0..1 :
       /\ (sale = 1 => page \in {"list", "detail"}) /\ (spam = 1 => page = "detail" /\ sale = 0)
       /\ (twofa = 1 => page = "security") /\ (synced = 0 => page = "groups")
       /\ srv = [f \in Fields |->
            CASE f = "sale" -> sale [] f = "spam" -> spam [] f = "twofa" -> twofa [] f = "synced" -> synced
              [] f \in {"m2", "appeal", "email", "code", "p2"} -> 0 [] OTHER -> 1]
  /\ \E card \in Cards(page) : ui = NewUi(card)
  /\ cache = [q \in Queries |-> IF q \in Uses(page) THEN Fetch(Unread(Value(q))) ELSE Unread(Value(q))]
  /\ call = [c \in Calls |-> NoCall]
  /\ off = {} /\ clicks = 0 /\ faults = MaxFaults

User == clicks < MaxClicks /\ clicks' = clicks + 1
(* MaxFaults bounds what goes wrong and what others do meanwhile. *)
Fault == faults > 0 /\ faults' = faults - 1
At(c, pc) == call[c].pc = pc
Shown == Uses(page)
Has(q) == q \in Shown /\ cache[q].has
Data(q) == cache[q].data
(* The page shows what the server has. *)
Current(q, fs) == Has(q) /\ \A f \in fs : Data(q)[f] = srv[f]
IsPending(ops) == \E c \in Calls : call[c].here /\ call[c].op \in ops
Free(c) == At(c, "idle") /\ c = CHOOSE x \in Calls : At(x, "idle")
Gone == [here |-> 0, m1 |-> 0]  \* m1 is the account's own place in the folder
Req(op, put) == [NoCall EXCEPT !.op = op, !.put = put]
Only(cond, reqs) == IF cond THEN reqs ELSE {}
Dlg(d) == ui.dlg = d
On(card) == ui.at = card

-----------------------------------------------------------------------------
(* The buttons: the requests each part of a page offers *)

(* A card of the list.  One that is for sale can only be taken back. *)
AccountCard ==
  Only(page = "list" /\ Has("list") /\ Data("list")["here"] = 1,
       Only(Dlg("delete"), {Req("delete", Gone)})
       \cup Only(Dlg("sell") /\ ~IsPending({"sell"}), {Req("sell", [sale |-> 1])})
       \cup Only(Dlg("unsell") /\ ~IsPending({"unsell"}), {Req("unsell", [sale |-> 0])}))

AccountDetailPage ==
  Only(page = "detail" /\ Has("account"),
       Only(Dlg("delete") /\ ~IsPending({"delete"}), {Req("delete", Gone)})
       \cup Only(Dlg("unsell") /\ ~IsPending({"unsell"}), {Req("unsell", [sale |-> 0])})
       \cup Only(Dlg("none") /\ Data("account")["sale"] = 0 /\ ~IsPending({"spam"}),
                 {Req("spam", [spam |-> v]) : v \in 0..1}))

(* The appeal: sent once, again only after a warning, and resumed after a *)
(* captcha.                                                               *)
SpamAppealDialog ==
  Only(Dlg("appeal"),
       Only(ui.appeal = "idle", {Req("appeal", [appeal |-> 1])})
       \cup Only(ui.appeal = "warning", {[Req("appeal", [appeal |-> 1]) EXCEPT !.force = TRUE]})
       \cup Only(ui.appeal = "captcha", {Req("resume", [appeal |-> 1])}))

(* handleTransfer sends to the address typed, whatever the card shows. *)
handleTransfer ==
  Only(Dlg("transfer") /\ ui.typed # 0 /\ ~IsPending({"transfer"}),
       {[Req("transfer", Gone @@ [on |-> 0, text |-> 0]) EXCEPT !.to = ui.typed, !.force = ui.over]})

toggleAccountInFolder ==
  Only(Dlg("panel"), {[Req(IF f \in ui.ticks THEN "remove" ELSE "add", [x \in {f} |-> IF f \in ui.ticks THEN 0 ELSE 1])
                       EXCEPT !.snap = ui.ticks] : f \in Members})
FolderManagerDialog ==
  Only(Dlg("folders"),
       Only(Has("folders") /\ Data("folders")["folder"] = 0 /\ ~IsPending({"create"}), {Req("create", [folder |-> 1])})
       \cup Only(Has("folders") /\ Data("folders")["folder"] # 0, {Req("rename", [folder |-> 2])}))
  \cup Only(Dlg("deleteFolder") /\ ~IsPending({"drop"}), {Req("drop", [folder |-> 0, m1 |-> 0, m2 |-> 0])})

PhotoUpload ==
  Only(On("photo") /\ ~IsPending({"photo", "unphoto"}),
       Only(Dlg("none"), {Req("photo", [photo |-> 2])})
       \cup Only(Dlg("photo"), {Req("unphoto", [photo |-> 0])}))

(* The profile is sent whole; without a first name it is not sent. *)
ProfileEditor ==
  Only(On("profile") /\ ui.edit /\ ui.form["name"] # 0 /\ ~IsPending({"profile"}),
       {[Req("profile", [f \in Profile |-> ui.form[f]]) EXCEPT
           !.touched = ui.touched \cap Profile, !.seen = ui.seen]})

AutoReplySettings ==
  Only(On("reply") /\ ~IsPending({"reply"}) /\ (ui.form["on"] = 0 \/ ui.form["text"] # 0),
       {[Req("reply", [f \in Reply |-> ui.form[f]]) EXCEPT
           !.touched = ui.touched \cap Reply, !.seen = Current("account", Reply)]})

DeleteContacts == Only(Dlg("wipe") /\ ~IsPending({"wipe"}), {Req("wipe", [contact |-> 0])})

Chosen == {f \in Privacy : ui.form[f] # -1}
PrivacySettings ==
  Only(On("privacy") /\ Has("privacy") /\ Chosen # {} /\ ~IsPending({"privacy"}),
       {Req("privacy", [f \in Chosen |-> ui.form[f]])})

TwoFAOps == {"enable", "disable", "change", "request", "recover", "mail", "confirm"}
TwoFAEnable == Only(Data("2fa")["twofa"] = 0, {Req("enable", [twofa |-> 1])})
TwoFAMain == Only(ui.tab = "main", {Req("disable", [twofa |-> 0])})
TwoFAChange == Only(ui.tab = "change", {Req("change", NoPut)})
TwoFAForgot == Only(ui.tab = "forgot", {IF ui.sent THEN Req("recover", NoPut) ELSE Req("request", NoPut)})
TwoFARecovery == Only(ui.tab = "recovery", {IF ui.needs THEN Req("confirm", NoPut) ELSE Req("mail", NoPut)})
TwoFASettings ==
  Only(On("password") /\ Has("2fa") /\ ~IsPending(TwoFAOps),
       TwoFAEnable \cup Only(Data("2fa")["twofa"] # 0, TwoFAMain \cup TwoFAChange \cup TwoFAForgot \cup TwoFARecovery))

LoginEmailSettings ==
  Only(On("email"),
       Only(ui.step = "idle" /\ ui.addr # 0 /\ ~IsPending({"send"}),
            {[Req("send", [code |-> ui.addr]) EXCEPT !.to = ui.addr]})
       \cup Only(ui.step = "sent" /\ ~IsPending({"verify"}),
            {[Req("verify", [email |-> 1]) EXCEPT !.to = ui.addr]}))

DevicesPage ==
  Only(page = "devices" /\ Has("devices"),
       Only(Data("devices")["dev"] > 0 /\ ~IsPending({"terminate"}), {Req("terminate", [dev |-> Data("devices")["dev"] - 1])})
       \cup Only(Dlg("terminateAll"), {Req("terminateAll", [dev |-> 0])}))

(* The switch of a row sends the row's message along. *)
handleQuickToggle ==
  Only(page = "autoReply" /\ Dlg("none") /\ Has("list"),
       {[Req("toggle", [on |-> 1 - Data("list")["on"], text |-> Data("list")["text"]]) EXCEPT
           !.touched = {"on"}, !.seen = Current("list", Reply)]})
handleSaveAccountMessage ==
  Only(page = "autoReply" /\ Dlg("editor"), {[Req("editor", [on |-> ui.form["on"], text |-> 2]) EXCEPT
         !.touched = {"text"} \cup (ui.touched \cap {"on"}), !.seen = ui.seen]})
handleBulkApply ==
  Only(page = "autoReply" /\ Dlg("none") /\ Has("list") /\ ~IsPending({"bulk"}),
       {[Req("bulk", [on |-> 1, text |-> 2]) EXCEPT !.touched = Reply]})

ContactsContent ==
  Only(page = "contacts" /\ Has("list"),
       Only(Dlg("deleteContact"), {Req("forget", [contact |-> 0])})
       \cup Only(Dlg("import") /\ ~IsPending({"import"}), {Req("import", [contact |-> 2])}))

(* The page's buttons; it also synchronises by itself, see AutoSync. *)
GroupsChannelsContent ==
  Only(page = "groups" /\ Has("list"),
       Only(Dlg("none") /\ ~IsPending({"sync"}), {Req("sync", [group |-> 1, synced |-> 1])})
       \cup Only(Dlg("join") /\ ~IsPending({"join"}), {Req("join", [group |-> 2])}))

Offered ==
  AccountCard \cup AccountDetailPage \cup SpamAppealDialog \cup handleTransfer \cup toggleAccountInFolder
  \cup FolderManagerDialog \cup PhotoUpload \cup ProfileEditor \cup AutoReplySettings \cup DeleteContacts
  \cup PrivacySettings \cup TwoFASettings \cup LoginEmailSettings \cup DevicesPage \cup handleQuickToggle
  \cup handleSaveAccountMessage \cup handleBulkApply \cup ContactsContent \cup GroupsChannelsContent

(* Dialogs that close as soon as they are confirmed. *)
ClosesAtOnce(op) == (op = "delete" /\ page = "list") \/ op \in {"terminateAll", "forget"}
Toggles == {"add", "remove"}
Crossing(r) == \E c \in Calls : call[c].op \in Toggles /\ DOMAIN call[c].put = DOMAIN r.put
AfterPress(r) ==
  CASE ClosesAtOnce(r.op) -> [ui EXCEPT !.dlg = "none"]
    [] r.op \in {"appeal", "resume"} -> [ui EXCEPT !.appeal = "submitting"]
    [] r.op = "add" -> [ui EXCEPT !.ticks = @ \cup DOMAIN r.put, !.slip = @ \/ Crossing(r)]
    [] r.op = "remove" -> [ui EXCEPT !.ticks = @ \ DOMAIN r.put, !.slip = @ \/ Crossing(r)]
    [] r.op = "sync" -> [ui EXCEPT !.failed = FALSE]
    [] r.op = "send" -> [ui EXCEPT !.slip = \E c \in Calls : call[c].op = "send"]
    [] OTHER -> ui

SendReq(c, r) ==
  /\ call' = [call EXCEPT ![c] = [r EXCEPT !.pc = "sent", !.here = TRUE, !.from = page]]
  /\ ui' = AfterPress(r)
  /\ UNCHANGED <<srv, page, cache, off, faults>>

Press(c) == clicks < MaxClicks /\ Free(c) /\ User /\ \E r \in Offered : SendReq(c, r)

(* The groups page synchronises an account that never was. *)
NeverSynced == page = "groups" /\ Has("list") /\ Data("list")["synced"] = 0
AutoSyncDue == NeverSynced /\ ~IsPending({"sync"}) /\ ~ui.failed
AutoSync(c) ==
  /\ AutoSyncDue /\ Free(c)
  /\ SendReq(c, Req("sync", [group |-> 1, synced |-> 1])) /\ UNCHANGED clicks

-----------------------------------------------------------------------------
(* Dialogs, forms and what is typed *)

Local == UNCHANGED <<srv, page, cache, call, off, clicks, faults>>
CanAct == clicks < MaxClicks

Openings ==
  (IF On("cards") /\ Has("list") /\ Data("list")["here"] = 1
   THEN {"delete"} \cup (IF Data("list")["sale"] = 1 THEN {"unsell"} ELSE {"sell"}) ELSE {})
  \cup (IF On("transfer") /\ Has("list") /\ Data("list")["here"] = 1 /\ Data("list")["sale"] = 0 THEN {"transfer"} ELSE {})
  \cup (IF On("folders") THEN {"folders"} ELSE {})
  \cup (IF page = "detail" /\ Has("account")
        THEN {"delete"} \cup (IF Data("account")["sale"] = 1 THEN {"unsell"} ELSE {})
             \cup (IF Data("account")["spam"] = 1 /\ Data("account")["sale"] = 0 THEN {"appeal"} ELSE {}) ELSE {})
  \cup (IF On("wipe") THEN {"wipe"} ELSE {})
  \cup (IF On("photo") /\ Has("account") /\ Data("account")["photo"] # 0 THEN {"photo"} ELSE {})
  \cup (IF page = "devices" /\ Has("devices") /\ Data("devices")["dev"] > 0 THEN {"terminateAll"} ELSE {})
  \cup (IF page = "contacts" /\ Has("list")
        THEN {"import"} \cup (IF Has("contacts") /\ Data("contacts")["contact"] # 0 THEN {"deleteContact"} ELSE {}) ELSE {})
  \cup (IF page = "groups" /\ Has("list") THEN {"join"} ELSE {})

(* Every dialog starts anew. *)
OpenDialog ==
  /\ Dlg("none") /\ CanAct
  /\ \E d \in Openings : ui' = [ui EXCEPT !.dlg = d, !.typed = 0, !.deb = 0, !.asked = 0, !.found = FALSE, !.card = 0,
                                          !.over = FALSE, !.appeal = "idle", !.slip = FALSE]
  /\ Local

handleOpenEditor ==
  /\ page = "autoReply" /\ Dlg("none") /\ CanAct /\ Has("list")
  /\ ui' = [ui EXCEPT !.dlg = "editor", !.form["on"] = Data("list")["on"], !.touched = {},
                      !.seen = Current("list", Reply)]
  /\ Local

(* The members panel starts from the folder as it is listed. *)
ManageFolder ==
  /\ Dlg("folders") /\ CanAct /\ Has("folders") /\ Data("folders")["folder"] # 0
  /\ \/ ui' = [ui EXCEPT !.dlg = "deleteFolder"]
     \/ ui' = [ui EXCEPT !.dlg = "panel", !.ticks = {f \in Members : Data("folders")[f] = 1},
                         !.slip = ~Current("folders", Members) \/ IsPending({"add", "remove"})]
  /\ Local

(* The request a dialog waits for before it can be closed. *)
WaitsFor(d) == CASE d = "deleteFolder" -> "drop" [] d = "photo" -> "unphoto"
                 [] d \in {"sell", "unsell", "wipe", "transfer"} -> d
                 [] d = "delete" -> IF page = "detail" THEN d ELSE "none"
                 [] OTHER -> "none"
Loading == IsPending({WaitsFor(ui.dlg)} \ {"none"}) \/ ui.appeal = "submitting"
CloseDialog ==
  /\ ~Dlg("none") /\ ~Loading
  /\ ui' = [ui EXCEPT !.dlg = IF @ \in {"panel", "deleteFolder"} THEN "folders" ELSE "none",
                      !.ticks = {}, !.typed = 0, !.deb = 0, !.asked = 0, !.found = FALSE, !.card = 0, !.slip = FALSE,
                      !.touched = IF page = "autoReply" THEN {} ELSE @]
  /\ Local

(* The user turns to another part of the page. *)
Turn(card) ==
  /\ card \in Cards(page) \ {ui.at} /\ Dlg("none") /\ User /\ ui' = [ui EXCEPT !.at = card]
  /\ UNCHANGED <<srv, page, cache, call, off, faults>>
BackToReason == Dlg("appeal") /\ ui.appeal \in {"warning", "captcha"} /\ ui' = [ui EXCEPT !.appeal = "idle"] /\ Local

(* What the profile form shows while nobody edits it. *)
Filled(fs) == [f \in Inputs |-> IF f \in fs THEN IF Has("account") THEN Data("account")[f] ELSE 0 ELSE ui.form[f]]
EditProfile ==
  /\ On("profile") /\ ~ui.edit /\ CanAct
  /\ ui' = [ui EXCEPT !.edit = TRUE, !.seen = Current("account", Profile)] /\ Local
(* Mutant: the fields keep what was typed. *)
handleCancelKeeps ==
  /\ On("profile") /\ ui.edit /\ ~IsPending({"profile"})
  /\ ui' = [ui EXCEPT !.edit = FALSE, !.touched = @ \ Profile] /\ Local
handleCancel ==
  /\ On("profile") /\ ui.edit /\ ~IsPending({"profile"})
  /\ ui' = [ui EXCEPT !.edit = FALSE, !.form = Filled(Profile), !.touched = @ \ Profile] /\ Local

Put(f, v) == ui' = [ui EXCEPT !.form[f] = v, !.touched = @ \cup {f}]
TypeProfile(f) ==
  /\ On("profile") /\ ui.edit /\ f \in Profile /\ CanAct /\ ui.form[f] # 2 /\ ~IsPending({"profile"})
  /\ Put(f, 2) /\ Local
TypeReply(f) ==
  /\ On("reply") /\ f \in Reply /\ CanAct /\ f \notin ui.touched
  /\ \/ f = "text" /\ ui.form["on"] = 1 /\ Put(f, 2)
     \/ f = "on" /\ Put(f, 1 - ui.form["on"])
  /\ Local
SwitchEditor == page = "autoReply" /\ Dlg("editor") /\ "on" \notin ui.touched /\ Put("on", 1 - ui.form["on"]) /\ Local

handleChange(f) ==
  /\ On("privacy") /\ f \in Privacy /\ Has("privacy") /\ CanAct /\ ui.form[f] = -1
  /\ ui' = [ui EXCEPT !.form[f] = 2]
  /\ Local

TypeEmail(a) ==
  /\ On("email") /\ ui.step = "idle" /\ CanAct /\ ui.addr # a
  /\ ui' = [ui EXCEPT !.addr = a, !.slip = @ \/ IsPending({"send"})] /\ Local
CancelCode == On("email") /\ ui.step = "sent" /\ ui' = [ui EXCEPT !.step = "idle", !.addr = 0, !.slip = IsPending({"send"})] /\ Local

SetTab ==
  /\ On("password") /\ CanAct /\ Has("2fa") /\ Data("2fa")["twofa"] = 1
  /\ \/ ui.tab = "main" /\ \E t \in {"change", "forgot", "recovery"} : ui' = [ui EXCEPT !.tab = t, !.sent = FALSE]
     \/ ui.tab # "main" /\ ~ui.needs /\ ui' = [ui EXCEPT !.tab = "main", !.sent = FALSE]
     \/ ui.tab = "recovery" /\ ui.needs /\ ui' = [ui EXCEPT !.needs = FALSE]
  /\ Local

(* The recipient of a transfer: two users, of whom the second has as many *)
(* accounts as the plan allows.  The search waits until typing pauses, and*)
(* a new search drops the one before.                                     *)
FullUser == 2
(* Mutant: the card stays. *)
TypeRecipientKeeps(v) ==
  /\ Dlg("transfer") /\ CanAct /\ ui.typed # v /\ ~IsPending({"transfer"})
  /\ ui' = [ui EXCEPT !.typed = v] /\ Local
TypeRecipient(v) ==
  /\ Dlg("transfer") /\ CanAct /\ ui.typed # v /\ ~IsPending({"transfer"})
  /\ ui' = [ui EXCEPT !.typed = v, !.card = 0, !.slip = FALSE] /\ Local
Debounce ==
  Dlg("transfer") /\ ui.deb # ui.typed /\ ui' = [ui EXCEPT !.deb = ui.typed, !.asked = ui.typed] /\ Local
isExceedingQuota(u) == u = FullUser
SearchAnswered ==
  /\ Dlg("transfer") /\ ui.asked # 0
  /\ ui' = [ui EXCEPT !.card = ui.asked, !.asked = 0, !.found = TRUE, !.over = @ \/ isExceedingQuota(ui.asked),
                      !.slip = ui.asked # ui.typed] /\ Local
SearchFails ==
  /\ Dlg("transfer") /\ ui.asked # 0 /\ Fault
  /\ ui' = [ui EXCEPT !.asked = 0, !.found = FALSE] /\ UNCHANGED <<srv, page, cache, call, off, clicks>>
(* What the last search found stays on offer while the next one runs. *)
SelectSuggestion(u) ==
  /\ Dlg("transfer") /\ CanAct /\ ui.found /\ u # 0 /\ ~IsPending({"transfer"})
  /\ ui' = [ui EXCEPT !.typed = u, !.card = u, !.over = @ \/ isExceedingQuota(u), !.slip = FALSE] /\ Local
ToggleOverride ==
  /\ Dlg("transfer") /\ User /\ ~IsPending({"transfer"}) /\ ui' = [ui EXCEPT !.over = ~@]
  /\ UNCHANGED <<srv, page, cache, call, off, faults>>

-----------------------------------------------------------------------------
(* The server *)

Has2FA == srv["twofa"] = 1
NoDevice(k) == k.op = "terminate" /\ srv["dev"] = 0
Refused(k) ==
  \/ k.op \notin {"create", "rename", "drop", "add", "remove"} /\ srv["here"] = 0
  \/ k.op = "sell" /\ srv["sale"] = 1
  \/ k.op = "unsell" /\ srv["sale"] = 0
  \/ k.op = "transfer" /\ (srv["sale"] = 1 \/ (isExceedingQuota(k.to) /\ ~k.force))
  \/ k.op \in {"rename", "drop"} \cup Toggles /\ srv["folder"] = 0
  \/ k.op \in {"disable", "change", "request", "recover", "mail", "confirm"} /\ ~Has2FA
  \/ k.op = "enable" /\ Has2FA
  \/ k.op = "verify" /\ (srv["code"] = 0 \/ srv["code"] # k.to)
  \/ NoDevice(k)

Effect(k) == [f \in Fields |-> CASE f = "dev" /\ k.op = "terminate" -> srv["dev"] - 1
                                 [] f \in DOMAIN k.put -> k.put[f]
                                 [] OTHER -> srv[f]]
(* An appeal may have been sent before, or lead to a captcha; a recovery  *)
(* e-mail may have to be confirmed.                                       *)
Answers(k) == CASE k.op = "appeal" /\ srv["appeal"] = 1 /\ ~k.force -> {"again"}
                [] k.op \in {"appeal", "resume"} -> {"done", "captcha"}
                [] k.op = "mail" -> {"done", "again"}
                [] OTHER -> {"done"}

ChangedFields == {f \in Fields : srv'[f] # srv[f]}
Affected == {q \in Queries : Part(q) \cap ChangedFields # {}}
(* Forms and requests made from what has changed meanwhile. *)
Blur(calls) == [c \in Calls |-> IF DOMAIN calls[c].put \cap ChangedFields # {} /\ calls[c].pc = "sent"
                                THEN [calls[c] EXCEPT !.seen = FALSE] ELSE calls[c]]
BlurUi(u) == [u EXCEPT !.seen = @ /\ ChangedFields \cap (Profile \cup Reply) = {}]

(* What an operation promises is that the page it was made on shows it;   *)
(* a deletion says nothing about the folders.                             *)
Promised(k) == IF k.op = "delete" THEN {"list", "account"} ELSE Uses(k.from)

Serve(c) ==
  LET k == call[c]
      answer(a) == [call EXCEPT ![c] = [@ EXCEPT !.pc = "answered", !.ans = a]]
  IN
  /\ At(c, "sent")
  /\ \/ Refused(k) /\ call' = answer("failed") /\ UNCHANGED <<srv, ui, off, faults>>
     \/ /\ ~Refused(k)
        /\ \E a \in Answers(k) :
             /\ srv' = IF a = "done" THEN Effect(k) ELSE srv
             /\ call' = Blur(answer(a)) /\ ui' = BlurUi(ui)
             /\ off' = off \cup (Affected \ Promised(k))
        /\ UNCHANGED faults
     \/ /\ ~Refused(k) /\ Fault
        /\ \/ UNCHANGED srv
           \/ srv' = Effect(k)
        /\ call' = Blur(answer("failed"))
        /\ ui' = [BlurUi(ui) EXCEPT !.slip = @ \/ (k.op \in Toggles /\ ChangedFields # {})]
        /\ off' = off \cup IF k.op = "sell" THEN {} ELSE Affected
  /\ UNCHANGED <<page, cache, clicks>>

(* Telegram's own applications change the profile or the cloud password. *)
OtherChange ==
  /\ Fault /\ page \in {"settings", "security", "detail"}
  /\ \E f \in {"name", "twofa"} : srv' = [srv EXCEPT ![f] = IF f = "twofa" THEN 1 - @ ELSE 2] /\ srv[f] # srv'[f]
  /\ off' = off \cup Affected /\ call' = Blur(call) /\ ui' = BlurUi(ui)
  /\ UNCHANGED <<page, cache, clicks>>

-----------------------------------------------------------------------------
(* What the hooks refresh *)

accounts == {"list", "account"}
useDeleteAccount == accounts
useUploadProfilePhoto == {"account"}
useDeleteProfilePhoto == {"account"}
useUpdateAutoReply == {"account"}
(* The page's handlers add the list. *)
AutoReplyHandlers == useUpdateAutoReply \cup accounts
useCheckSpam == accounts
useStartSpamAppeal == accounts
useResumeSpamAppeal == accounts
useBulkUpdateAutoReply == accounts
useTransferAccounts == accounts \cup {"folders"}
useCreateFolder == {"folders"}
useRenameFolder == {"folders"}
useDeleteFolder == {"folders"}
useAddAccountsToFolder == {"folders"} \cup accounts
useRemoveAccountsFromFolder == {"folders"} \cup accounts
useDeleteContact == {"contacts"}
useImportContacts == {"contacts"} \cup accounts
useSellAccounts == accounts
useCancelSellAccount == accounts
ProfileMutation == accounts
PrivacyMutation == {"privacy"}
DeviceMutations == {"devices"}

Refreshes(op) ==
  CASE op = "delete" -> useDeleteAccount [] op = "sell" -> useSellAccounts [] op = "unsell" -> useCancelSellAccount
    [] op = "transfer" -> useTransferAccounts [] op = "create" -> useCreateFolder [] op = "rename" -> useRenameFolder
    [] op = "drop" -> useDeleteFolder [] op = "add" -> useAddAccountsToFolder [] op = "remove" -> useRemoveAccountsFromFolder
    [] op = "spam" -> useCheckSpam [] op = "appeal" -> useStartSpamAppeal [] op = "resume" -> useResumeSpamAppeal
    [] op = "photo" -> useUploadProfilePhoto [] op = "unphoto" -> useDeleteProfilePhoto
    [] op = "profile" -> ProfileMutation [] op = "reply" -> useUpdateAutoReply [] op = "privacy" -> PrivacyMutation
    [] op \in {"terminate", "terminateAll"} -> DeviceMutations [] op \in {"toggle", "editor"} -> AutoReplyHandlers
    [] op = "bulk" -> useBulkUpdateAutoReply [] op = "forget" -> useDeleteContact [] op = "import" -> useImportContacts
    [] op = "join" -> {"chats"} [] OTHER -> {}

(* These wait for one query to be read before they refresh the accounts.  *)
invalidateTwoFAAccountQueries == TwoFAOps \cup {"verify"}
Chained == invalidateTwoFAAccountQueries \cup {"sync"}
First(op) == IF op = "sync" THEN {"chats"} ELSE {"2fa"}

(* The cloud password of the account follows the status that was read.    *)
synchronizeAccountTwoFAStatus(c, v) ==
  IF c["account"].has THEN [c EXCEPT !["account"] = [@ EXCEPT !.data["twofa"] = v, !.stale = FALSE]] ELSE c

(* 2fa is never read again because a page opens. *)
Forgotten(op) == IF op \in invalidateTwoFAAccountQueries /\ "2fa" \notin Shown THEN {"2fa"} ELSE {}
MissedBy(qs) == off \cup Overtaken(cache, qs, Shown)

-----------------------------------------------------------------------------
(* What the handlers do with the answers *)

(* The page after a success; k.here says it is still there. *)
Closed(u) == [u EXCEPT !.dlg = "none", !.typed = 0, !.deb = 0, !.asked = 0, !.found = FALSE, !.card = 0, !.slip = FALSE]
AfterDone(k) ==
  CASE ~k.here -> ui
    [] k.op \in {"sell", "unsell", "transfer", "unphoto", "import", "editor"} ->
         IF Dlg(CASE k.op = "unphoto" -> "photo" [] OTHER -> k.op) THEN Closed(ui) ELSE ui
    [] k.op = "drop" -> IF Dlg("deleteFolder") THEN [ui EXCEPT !.dlg = "folders"] ELSE ui
    [] k.op \in {"appeal", "resume"} ->
         [ui EXCEPT !.appeal = CASE k.ans = "done" -> "success" [] k.ans = "again" -> "warning" [] OTHER -> k.ans]
    [] k.op = "profile" -> [ui EXCEPT !.edit = FALSE, !.form = Filled(Profile), !.touched = @ \ Profile]
    [] k.op = "privacy" -> [ui EXCEPT !.form = [f \in Inputs |-> IF f \in Privacy THEN -1 ELSE @[f]]]
    [] k.op = "send" -> [ui EXCEPT !.step = "sent"]
    [] k.op \in {"change", "recover"} -> [ui EXCEPT !.tab = "main"]
    [] k.op = "request" -> [ui EXCEPT !.sent = TRUE]
    [] k.op = "mail" -> [ui EXCEPT !.needs = k.ans = "again", !.tab = IF k.ans = "again" THEN @ ELSE "main"]
    [] k.op = "confirm" -> [ui EXCEPT !.needs = FALSE, !.tab = "main"]
    [] OTHER -> ui

(* A deleted account's page gives way to the list, wherever the user is.  *)
HandleDone(c) ==
  LET k == call[c] IN
  /\ At(c, "answered") /\ k.ans # "failed" /\ k.op \notin Chained /\ (k.op = "delete" => k.from = "list")
  /\ cache' = InvalidateAll(cache, Refreshes(k.op), Shown) /\ off' = MissedBy(Refreshes(k.op))
  /\ ui' = AfterDone(k) /\ call' = [call EXCEPT ![c] = NoCall]
  /\ UNCHANGED <<srv, page, clicks, faults>>

HandleDeleted(c) ==
  LET marked == InvalidateAll(cache, useDeleteAccount, Shown) IN
  /\ At(c, "answered") /\ call[c].ans = "done" /\ call[c].op = "delete" /\ call[c].from = "detail"
  /\ page' = "list" /\ ui' = NewUi("cards")
  /\ cache' = MountAll(marked, Uses("list"), FALSE) /\ off' = MissedBy(useDeleteAccount)
  /\ call' = [d \in Calls |-> IF d = c THEN NoCall ELSE [call[d] EXCEPT !.here = FALSE]]
  /\ UNCHANGED <<srv, clicks, faults>>

(* The first of two refreshes, and the second once the first is over. *)
HandleChained(c) ==
  LET k == call[c] IN
  /\ At(c, "answered") /\ k.ans # "failed" /\ k.op \in Chained
  /\ cache' = InvalidateAll(cache, First(k.op), Shown)
  /\ off' = MissedBy(First(k.op)) \cup Forgotten(k.op)
  /\ ui' = AfterDone(k) /\ call' = [call EXCEPT ![c].pc = "awaiting"]
  /\ UNCHANGED <<srv, page, clicks, faults>>
Continue(c) ==
  /\ At(c, "awaiting") /\ \A q \in First(call[c].op) \cap Shown : Idle(cache[q])
  /\ cache' = InvalidateAll(cache, accounts, Shown) /\ off' = MissedBy(accounts)
  /\ call' = [call EXCEPT ![c].pc = "closing"]
  /\ UNCHANGED <<srv, page, ui, clicks, faults>>
Finish(c) ==
  /\ At(c, "closing") /\ \A q \in accounts \cap Shown : Idle(cache[q])
  /\ ui' = IF call[c].op = "verify" /\ call[c].here THEN [ui EXCEPT !.step = "idle", !.addr = 0, !.slip = FALSE] ELSE ui
  /\ call' = [call EXCEPT ![c] = NoCall]
  /\ UNCHANGED <<srv, page, cache, off, clicks, faults>>

(* A toggle that failed puts back the ticks it saw. *)
Reverted(k) ==
  IF ~Dlg("panel") THEN ui
  ELSE [ui EXCEPT !.ticks = k.snap,
          !.slip = @ \/ ui.ticks # (IF k.op = "add" THEN k.snap \cup DOMAIN k.put ELSE k.snap \ DOMAIN k.put)]
HandleError(c) ==
  LET k == call[c] IN
  /\ At(c, "answered") /\ k.ans = "failed"
  /\ cache' = IF k.op = "sell" THEN InvalidateAll(cache, useSellAccounts, Shown) ELSE cache
  /\ off' = IF k.op = "sell" THEN MissedBy(useSellAccounts) ELSE off
  /\ \/ ui' = CASE ~k.here -> ui
                [] k.op \in Toggles -> Reverted(k)
                [] k.op = "appeal" -> [ui EXCEPT !.appeal = "idle"]
                [] k.op = "resume" -> [ui EXCEPT !.appeal = "captcha"]
                [] k.op = "sync" -> [ui EXCEPT !.failed = TRUE]
                [] OTHER -> ui
     \/ k.op = "sell" /\ k.here /\ Dlg("sell") /\ ui' = Closed(ui)  \* its outcome is not known
  /\ call' = [call EXCEPT ![c] = NoCall]
  /\ UNCHANGED <<srv, page, clicks, faults>>

-----------------------------------------------------------------------------
(* Queries, events and navigation *)

ServeQuery(q) ==
  /\ cache[q].net = "sent" /\ (q \in OfAccount => srv["here"] = 1)
  /\ cache' = [cache EXCEPT ![q] = Read(@, Value(q))] /\ off' = off \ {q}
  /\ UNCHANGED <<srv, page, ui, call, clicks, faults>>
QueryFails(q) ==
  /\ cache[q].net # "idle"
  /\ \/ cache[q].net = "sent" /\ q \in OfAccount /\ srv["here"] = 0 /\ off' = off \cup {q} /\ UNCHANGED faults
     \/ q \in Shown /\ Fault /\ off' = off \cup {q}
  /\ cache' = [cache EXCEPT ![q] = Failed(@)]
  /\ UNCHANGED <<srv, page, ui, call, clicks>>

(* The forms of the settings page follow the account: the reply whenever  *)
(* it has changed, the profile while it is not edited.                    *)
Follow(u, new, old) ==
  IF page # "settings" THEN u
  ELSE LET changed == \E f \in Reply : new[f] # (IF cache["account"].has THEN old[f] ELSE 0)
           fs == (IF u.edit THEN {} ELSE Profile) \cup (IF changed THEN Reply ELSE {})
       IN [u EXCEPT !.form = [f \in Inputs |-> IF f \in fs THEN new[f] ELSE @[f]], !.touched = @ \ fs]
QueryArrives(q) ==
  LET new == [cache EXCEPT ![q] = Arrived(@)]
      differs == ~cache["2fa"].has \/ cache["2fa"].got # cache["2fa"].data
  IN
  /\ cache[q].net = "read"
  /\ cache' = IF q = "2fa" /\ page = "security" /\ differs
              THEN synchronizeAccountTwoFAStatus(new, cache["2fa"].got["twofa"]) ELSE new
  /\ off' = IF q = "2fa" /\ "2fa" \in off THEN off \cup {"account"} ELSE off
  /\ ui' = IF q = "account" THEN Follow(ui, cache[q].got, Data(q)) ELSE ui
  /\ UNCHANGED <<srv, page, call, clicks, faults>>

(* Events of the account's socket. *)
useProfileSync ==
  /\ page = "detail" /\ Has("account") /\ ~Current("account", {"name"}) /\ Idle(cache["account"])
  /\ cache' = InvalidateAll(cache, accounts, Shown) /\ off' = MissedBy(accounts)
  /\ UNCHANGED <<srv, page, ui, call, clicks, faults>>
useTwoFAStatusSync ==
  /\ page \in {"detail", "security"} /\ Has("2fa") /\ ~Current("2fa", {"twofa"})
  /\ cache' = synchronizeAccountTwoFAStatus(
                [cache EXCEPT !["2fa"] = [@ EXCEPT !.data = Value("2fa"), !.stale = FALSE]], srv["twofa"])
  /\ UNCHANGED <<srv, page, ui, call, off, clicks, faults>>

(* Pages that share a query with this one and offer something new. *)
Near(p) == CASE p \in {"list", "settings", "security", "devices"} -> {"detail"}
             [] p = "detail" -> {"settings", "security"} [] p = "autoReply" -> {"list"}
             [] p = "contacts" -> {"groups"} [] p = "groups" -> {"contacts"}
(* A page that opens reads what is stale or old; the status of the cloud  *)
(* password only if it was never read.                                    *)
Mounted(p, old) == MountAll(cache, {q \in Uses(p) : q = "2fa" => ~cache[q].has}, old)
Navigate(p) ==
  /\ User /\ p \in Near(page) /\ page' = p
  /\ \E old \in BOOLEAN :
       cache' = IF p = "security" /\ cache["2fa"].has
                THEN synchronizeAccountTwoFAStatus(Mounted(p, old), Data("2fa")["twofa"]) ELSE Mounted(p, old)
  /\ off' = IF p = "security" /\ "2fa" \in off THEN off \cup {"account"} ELSE off
  /\ \E card \in Cards(p) : ui' =
           IF p = "settings" /\ cache["account"].has
           THEN [NewUi(card) EXCEPT !.form = [f \in Inputs |-> IF f \in Privacy THEN -1 ELSE cache["account"].data[f]]]
           ELSE NewUi(card)
  /\ call' = [c \in Calls |-> [call[c] EXCEPT !.here = FALSE]]
  /\ UNCHANGED <<srv, faults>>

-----------------------------------------------------------------------------
Typing ==
  \/ OpenDialog \/ handleOpenEditor \/ ManageFolder \/ CloseDialog \/ BackToReason \/ EditProfile \/ handleCancel
  \/ \E f \in Inputs : TypeProfile(f) \/ TypeReply(f) \/ handleChange(f)
  \/ \E v \in 1..2 : TypeEmail(v) \/ TypeRecipient(v) \/ SelectSuggestion(v)
  \/ SwitchEditor \/ CancelCode \/ SetTab \/ ToggleOverride

System ==
  \/ \E c \in Calls : AutoSync(c) \/ Serve(c) \/ HandleDone(c) \/ HandleDeleted(c) \/ HandleChained(c)
                      \/ Continue(c) \/ Finish(c) \/ HandleError(c)
  \/ \E q \in Queries : ServeQuery(q) \/ QueryArrives(q)
  \/ Debounce \/ SearchAnswered

Next ==
  \/ System \/ Typing
  \/ \E c \in Calls : Press(c)
  \/ \E q \in Queries : QueryFails(q)
  \/ \E p \in Pages : Navigate(p)
  \/ \E p \in Pages : \E card \in Cards(p) : Turn(card)
  \/ SearchFails \/ OtherChange \/ useProfileSync \/ useTwoFAStatusSync

Spec == Init /\ [][Next]_vars

(* On the groups page requests end and effects run; users, events and     *)
(* failures owe nothing.                                                  *)
GroupsGoOn == page = "groups" /\ System
FairSpec == Spec /\ WF_vars(GroupsGoOn)

-----------------------------------------------------------------------------
Rest == \A c \in Calls : At(c, "idle")

(* With the requests over, a query that is not loading shows what they    *)
(* did, on the page they were made on and on any page opened since.       *)
OwnWritesShown ==
  \A q \in Shown \ off : (Rest /\ Idle(cache[q]) /\ cache[q].has) => Data(q) = Value(q)

(* Saving the profile or a reply changes only what was typed, unless the  *)
(* form was filled before the page showed what the server had.            *)
UntouchedKept ==
  [][\A c \in Calls :
       (At(c, "sent") /\ ~At(c, "sent")' /\ call[c].op \in {"profile", "reply", "toggle", "editor"} /\ call[c].seen)
       => \A f \in DOMAIN call[c].put \ call[c].touched : srv'[f] = srv[f]]_vars

(* The card of a transfer is that of the address it goes to, unless an    *)
(* answer came after the address was changed and before it was searched.  *)
RecipientShown == (Dlg("transfer") /\ ui.card # 0 /\ ui.card # ui.typed) => ui.slip

(* The ticks of the members panel are the folder's, unless the panel was  *)
(* opened from an older list, a member was clicked twice at once, or a    *)
(* failed click took another's tick back.                                 *)
TicksTrue == (Dlg("panel") /\ Rest /\ ~ui.slip) => ui.ticks = {f \in Members : srv[f] = 1}

(* The page names the address that the code went to, unless it was typed  *)
(* over while the code was being sent, or an earlier visit of the page had *)
(* asked for a code and was not answered.                                  *)
CodeWentTo == (On("email") /\ ui.step = "sent" /\ ~ui.slip) => ui.addr = srv["code"]

(* An account that was never synchronised does not stay so in front of    *)
(* the user, unless a synchronisation failed.                             *)
Unsynced == NeverSynced /\ ~ui.failed
SyncHappens == Unsynced ~> ~Unsynced

(* The account pages show what the server has, and dialogs what they act  *)
(* on.                                                                    *)
AccountsSafe == TypeOK /\ OwnWritesShown /\ RecipientShown /\ TicksTrue /\ CodeWentTo

(* Saving changes only what was typed, and synchronising gets done.       *)
AccountsStep == UntouchedKept /\ SyncHappens
=============================================================================
