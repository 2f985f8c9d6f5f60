---------------------------- MODULE AdminConsole ----------------------------
(***************************************************************************)
(* What the administrators' pages write: balances, roles and suspensions   *)
(* of users, redeem codes, auto-replies, services, orders, prices of       *)
(* accounts, system settings, the secrets of the wallet; and the           *)
(* notifications everybody has.  The tables are AdminPages'.               *)
(***************************************************************************)
EXTENDS AdminPages, TLC

Excuses == {"behind", "detail", "typed", "shrunk", "toggle", "draft", "reveal"} \cup AllFields
Ops == {"none", "add", "deduct", "role", "delete", "suspend", "unsuspend", "create", "revoke", "toggle", "active",
        "visible", "markup", "bulk", "sync", "refresh", "refreshAll", "update", "read", "readAll", "remove", "clear",
        "save", "otp", "reveal"}

(* id, val: what is asked; ctx: what the handler still sees when the      *)
(* answer comes; mine: the component that asked is still there.           *)
NoCall == [op |-> "none", id |-> 0, val |-> 0, ctx |-> 0, pc |-> "idle", ok |-> TRUE, mine |-> TRUE]
Req(op, id, val, ctx) == [NoCall EXCEPT !.op = op, !.id = id, !.val = val, !.ctx = ctx, !.pc = "sent"]
In(c, pc) == call[c].pc = pc
Free(c) == In(c, "idle") /\ c = CHOOSE x \in Calls : In(x, "idle")
Rest == \A c \in Calls : In(c, "idle")
Pending(ops) == \E c \in Calls : call[c].op \in ops /\ call[c].mine
Press(c, r, u) ==
  /\ User /\ Free(c) /\ call' = [call EXCEPT ![c] = r] /\ ui' = u /\ UNCHANGED <<part, srv, cache, slip, faults>>
Open(d, t) == User /\ Local([ui EXCEPT !.dlg = d, !.tgt = t])
Closed(u, ds) == IF u.dlg \in ds THEN [u EXCEPT !.dlg = "none", !.tgt = Nobody] ELSE u

-----------------------------------------------------------------------------
(* Users: the first is the administrator *)

UserRow(i) == At("users") /\ Row(i)
BalanceModal(d) ==
  \/ \E i \in Ids : UserRow(i) /\ Open(d, Snapshot(i))
  \/ On("users") /\ ui.detail # Nobody /\ ui.dlg = "none" /\ Open(d, ui.detail)
SuspendModal(i) == UserRow(i) /\ i # 1 /\ Table.data.rows[i].on /\ Open("suspend", Snapshot(i))
UnsuspendConfirm(i) == UserRow(i) /\ i # 1 /\ ~Table.data.rows[i].on /\ Open("unsuspend", Snapshot(i))
DeleteConfirm(i) == UserRow(i) /\ i # 1 /\ Open("delete", Snapshot(i))
BalanceDialog(d) == On("users") /\ ui.dlg = d
SuspendDialog == On("users") /\ ui.dlg = "suspend"
UnsuspendDialog == On("users") /\ ui.dlg = "unsuspend"
DeleteDialog == On("users") /\ ui.dlg = "delete"
CloseDialog == part \in Pages /\ ui.dlg # "none" /\ Freely(Closed(ui, {ui.dlg}))

handleRoleChange(c, i, r) ==
  /\ UserRow(i) /\ ~Pending({"role"}) /\ r # Table.data.rows[i].role /\ Press(c, Req("role", i, r, ui.detail), ui)
handleBalanceAction(c) ==
  \E d \in {"add", "deduct"} :
    BalanceDialog(d) /\ ~Pending({"add", "deduct"}) /\ Press(c, Req(d, ui.tgt.id, 1, ui.detail), ui)
(* Nothing keeps the two confirmations from being pressed again. *)
handleDeleteUser(c) == DeleteDialog /\ Press(c, Req("delete", ui.tgt.id, 0, ui.detail), ui)
handleUnsuspendUser(c) == UnsuspendDialog /\ Press(c, Req("unsuspend", ui.tgt.id, 0, ui.detail), ui)
handleSuspendUser(c) == SuspendDialog /\ ~Pending({"suspend"}) /\ Press(c, Req("suspend", ui.tgt.id, 0, ui.detail), ui)

(* The details the handler knows are written over those shown. *)
Known(k, row) == IF k.ctx.id = k.id THEN [id |-> k.id, row |-> row] ELSE ui.detail
(* Mutant: the details keep the old balance. *)
BalanceAnsweredKeeps(k) == Closed(ui, {"add", "deduct"})
BalanceAnswered(k) ==
  Closed([ui EXCEPT !.detail =
            Known(k, [k.ctx.row EXCEPT !.bal = Max({0, IF k.op = "add" THEN @ + 1 ELSE @ - 1})])], {"add", "deduct"})
RoleAnswered(k) == [ui EXCEPT !.detail = Known(k, [k.ctx.row EXCEPT !.role = k.val])]
DeleteAnswered(k) == Closed([ui EXCEPT !.detail = IF k.ctx.id = k.id THEN Nobody ELSE @], {"delete"})
SuspendAnswered(k) == Closed([ui EXCEPT !.detail = Known(k, [k.ctx.row EXCEPT !.on = FALSE])], {"suspend"})
UnsuspendAnswered(k) == Closed([ui EXCEPT !.detail = Known(k, [k.ctx.row EXCEPT !.on = TRUE])], {"unsuspend"})
UsersAnswered(k) ==
  CASE ~k.ok -> ui
    [] k.op \in {"add", "deduct"} -> BalanceAnswered(k) [] k.op = "role" -> RoleAnswered(k)
    [] k.op = "delete" -> DeleteAnswered(k) [] k.op = "suspend" -> SuspendAnswered(k)
    [] k.op = "unsuspend" -> UnsuspendAnswered(k)

-----------------------------------------------------------------------------
(* Redeem codes *)

CreateForm == At("codes") /\ Open("create", Nobody)
CreateDialog == On("codes") /\ ui.dlg = "create"
handleCreate(c) == CreateDialog /\ ~Pending({"create"}) /\ Press(c, Req("create", 0, 0, 0), ui)
CodeRow(i) == At("codes") /\ Row(i) /\ Open("revoke", Snapshot(i))
RevokeDialog == On("codes") /\ ui.dlg = "revoke"
handleRevoke(c) == RevokeDialog /\ Press(c, Req("revoke", ui.tgt.id, 0, 0), ui)
CodesAnswered(k) == IF k.ok THEN Closed(ui, {k.op}) ELSE ui

(* Auto-replies: the button says what it will do, the server turns the    *)
(* switch whichever way it stands: also when an earlier visit's request   *)
(* has not been served yet.                                               *)
Earlier(op, i) == \E d \in Calls : In(d, "sent") /\ call[d].op = op /\ call[d].id = i /\ ~call[d].mine
Switch(c, i) ==
  /\ At("replies") /\ Row(i) /\ User /\ Free(c)
  /\ call' = [call EXCEPT ![c] = Req("toggle", i, Table.data.rows[i].on, 0)]
  /\ slip' = IF Table.data.rows[i] = srv[i] /\ ~Earlier("toggle", i) THEN slip ELSE slip \cup {"toggle"}
  /\ UNCHANGED <<part, srv, ui, cache, faults>>
(* Mutant: the button stays enabled. *)
handleToggleTwice(c, i) == Switch(c, i)
handleToggle(c, i) == ~Pending({"toggle"}) /\ Switch(c, i)

(* Services: the new value is the opposite of what is shown. *)
Updates == {"active", "visible", "markup"}
ServiceRow(i) == At("services") /\ Row(i) /\ ~Pending(Updates)
handleToggleActive(c, i) == ServiceRow(i) /\ Press(c, Req("active", i, ~Table.data.rows[i].on, 0), ui)
handleToggleVisible(c, i) == ServiceRow(i) /\ Press(c, Req("visible", i, ~Table.data.rows[i].vis, 0), ui)
handleSetMarkup(c, i, m) == ServiceRow(i) /\ m # Table.data.rows[i].mk /\ Press(c, Req("markup", i, m, 0), ui)
BulkForm == At("services")
handleBulkMarkup(c, m) == BulkForm /\ ~Pending({"bulk"}) /\ Press(c, Req("bulk", 0, m, 0), ui)
handleSync(c) == At("services") /\ ~Pending({"sync"}) /\ Press(c, Req("sync", 0, 0, 0), ui)

(* Orders *)
OrderRow(i) == At("orders") /\ Row(i) /\ ~Pending({"refresh"})
handleRefreshOrder(c, i) == OrderRow(i) /\ Press(c, Req("refresh", i, 0, 0), ui)
handleRefreshAll(c) == At("orders") /\ ~Pending({"refreshAll"}) /\ Press(c, Req("refreshAll", 0, 0, 0), ui)

(* Notifications: the popover hangs over every page. *)
Popover == On("bell") /\ ui.dlg = "open"
OpenBell == At("bell") /\ Open("open", Nobody)
handleNotificationClick(c, i) ==
  /\ Popover /\ Row(i)
  /\ IF Table.data.rows[i].read THEN Freely(Closed(ui, {"open"}))
     ELSE Press(c, Req("read", i, 0, 0), Closed(ui, {"open"}))
markAllRead(c) ==
  /\ Popover /\ (\E i \in Ids : Row(i) /\ ~Table.data.rows[i].read) /\ ~Pending({"readAll"})
  /\ Press(c, Req("readAll", 0, 0, 0), ui)
removeNotification(c, i) == Popover /\ Row(i) /\ ~Pending({"remove"}) /\ Press(c, Req("remove", i, 0, 0), ui)
clearNotifications(c) ==
  Popover /\ (\E i \in Ids : Row(i)) /\ ~Pending({"clear"}) /\ Press(c, Req("clear", 0, 0, 0), ui)

-----------------------------------------------------------------------------
(* Prices of accounts: 0 is an empty field, or the global price *)

Prices == 1..2
EmptyDraft == [sell |-> 0, buy |-> 0]
Draft(i) == IF i \in DOMAIN ui.drafts THEN ui.drafts[i] ELSE EmptyDraft
Sane(r) == r.sell # 0 /\ (r.buy = 0 \/ r.buy >= r.sell)
RuleRow(i) == At("prices") /\ Row(i)
RuleCard(i) == At("prices") /\ Row(i)
setDraftField(i, f, v) ==
  /\ RuleRow(i) /\ Draft(i)[f] # v
  /\ User /\ Local([ui EXCEPT !.drafts = (i :> [Draft(i) EXCEPT ![f] = v]) @@ @])
(* An empty buy price stands for the one shown. *)
readDraft(i) ==
  [sell |-> Draft(i).sell, buy |-> IF Draft(i).buy = 0 THEN Table.data.rows[i].buy ELSE Draft(i).buy]
isDraftDirty(i) == Draft(i) # EmptyDraft
Dropped(u, i) == [u EXCEPT !.drafts = [j \in DOMAIN @ \ {i} |-> @[j]]]
(* What equals the row shown is dropped; the row may be out of date. *)
Unchanged(i) ==
  /\ User /\ ui' = Dropped(ui, i) /\ UNCHANGED <<part, srv, cache, call, faults>>
  /\ slip' = IF i \in DOMAIN srv /\ srv[i] = Table.data.rows[i] THEN slip ELSE slip \cup {"draft"}
handleUpdate(c, i) ==
  /\ RuleCard(i) /\ isDraftDirty(i) /\ ~Pending({"update"}) /\ Sane(readDraft(i))
  /\ \/ readDraft(i) = Table.data.rows[i] /\ Unchanged(i)
     \/ readDraft(i) # Table.data.rows[i] /\ Press(c, Req("update", i, readDraft(i), Draft(i)), ui)
AddForm == At("prices")
handleAdd(c, i, r) == AddForm /\ ~Pending({"create"}) /\ Sane(r) /\ Press(c, Req("create", i, r, 0), ui)
PriceRow(i) == At("prices") /\ Row(i) /\ Open("delete", Snapshot(i))
DeletePriceDialog == On("prices") /\ ui.dlg = "delete"
handleDelete(c) == DeletePriceDialog /\ Press(c, Req("delete", ui.tgt.id, 0, 0), ui)
PricesAnswered(k) ==
  CASE ~k.ok -> ui [] k.op = "update" -> Dropped(ui, k.id) [] k.op = "delete" -> Closed(ui, {"delete"}) [] OTHER -> ui

-----------------------------------------------------------------------------
(* System settings *)

(* A query whose data has changed fills its fields again, whatever was    *)
(* typed into them; want: what was last saved.                            *)
Filled(u, rows) == [u EXCEPT !.form = rows @@ @, !.typed = @ \ DOMAIN rows]
Synced(u, k, e) == IF cache[k].has /\ cache[k].data = e.data THEN u ELSE Filled(u, e.data.rows)
Setting(f, v) ==
  /\ (\E p \in Forms : On(p)) /\ ui.form[f] # v
  /\ User /\ Local([ui EXCEPT !.form[f] = v, !.typed = @ \cup {f}])
(* ctx: the save is the last one of its form, the one isPending is about;  *)
(* a save of an earlier visit is one nobody waits for either.              *)
Reordered(f) ==
  \E d \in Calls : In(d, "sent") /\ call[d].id = f /\ (f \in {"prices", "broadcast"} \/ ~call[d].ctx \/ ~call[d].mine)
(* The administrator types v and saves. *)
Saves(c, f, v) ==
  /\ User /\ Free(c)
  /\ call' = [d \in Calls |-> CASE d = c -> Req("save", f, v, TRUE)
                                [] call[d].op = "save" -> [call[d] EXCEPT !.ctx = FALSE]
                                [] OTHER -> call[d]]
  /\ ui' = [ui EXCEPT !.want[f] = v, !.form[f] = v, !.typed = @ \cup {f}]
  /\ slip' = IF Reordered(f) THEN slip \cup {f} ELSE slip
  /\ UNCHANGED <<part, srv, cache, faults>>
Saving == \E c \in Calls : call[c].op = "save" /\ call[c].mine /\ call[c].ctx
MarkupForm == On("settings")
PricesForm == On("settings")
BroadcastForm == On("settings")
GatewayForm == On("settings")
RateForm == On("usdt")
handleSaveGlobalMarkup(c, v) == MarkupForm /\ ~Saving /\ Saves(c, "markup", v)
handleSaveMarketplacePricing(c, v) == PricesForm /\ Saves(c, "prices", v)
handleSaveBroadcastEntitlement(c, v) == BroadcastForm /\ Saves(c, "broadcast", v)
handleSaveUsdtRate(c, v) == RateForm /\ ~Saving /\ Saves(c, "rate", v)
(* The deposit account is kept in this browser and read on every visit. *)
updateDepositSettings(v) == [srv EXCEPT !["gateway"] = v]
handleSavePaymentGateway(v) ==
  /\ GatewayForm /\ User /\ srv' = updateDepositSettings(v)
  /\ ui' = [ui EXCEPT !.want["gateway"] = v, !.form["gateway"] = v]
  /\ UNCHANGED <<part, cache, call, slip, faults>>

(* The secrets of the wallet: turn counts the openings of the dialog,     *)
(* secrets is the turn they were asked for in.                            *)
Hidden(u) == [u EXCEPT !.secrets = 0, !.code = 0]
CryptoCard == part = "crypto" /\ ~ui.open
handleOpenCryptoReveal(c) ==
  CryptoCard /\ ~Pending({"otp"}) /\ Press(c, Req("otp", 0, 0, 0), Hidden(ui))
RevealForm == part = "crypto" /\ ui.open /\ ui.secrets = 0
TypeCode(v) == RevealForm /\ ui.code # v /\ User /\ Local([ui EXCEPT !.code = v])
handleVerifyCryptoOtp(c) ==
  RevealForm /\ ui.code # 0 /\ ~Pending({"reveal"}) /\ Press(c, Req("reveal", 0, ui.code, ui.turn), ui)
(* Closed by its frame or, without clearing anything, by Cancel. *)
SecretsView == part = "crypto" /\ ui.open /\ ui.secrets # 0
CloseReveal ==
  /\ SecretsView \/ RevealForm
  /\ \/ ui' = Hidden([ui EXCEPT !.open = FALSE])
     \/ ui.secrets = 0 /\ ui' = [ui EXCEPT !.open = FALSE]
  /\ slip' = IF Pending({"reveal"}) THEN slip \cup {"reveal"} ELSE slip
  /\ UNCHANGED <<part, srv, cache, call, clicks, faults>>
CryptoAnswered(k) ==
  CASE ~k.ok -> ui
    [] k.op = "otp" -> [ui EXCEPT !.open = TRUE, !.turn = @ + 1]
    [] k.op = "reveal" -> [ui EXCEPT !.secrets = k.ctx]

-----------------------------------------------------------------------------
(* The server *)

NewId == IF DOMAIN srv = {} THEN 1 ELSE Max(DOMAIN srv) + 1
Without(i) == [j \in DOMAIN srv \ {i} |-> srv[j]]
NewRow == IF part = "codes" THEN [live |-> TRUE] ELSE [on |-> TRUE, vis |-> TRUE, mk |-> 0]
Refuses(k) ==
  \/ k.op \in {"add", "deduct", "role", "delete", "suspend", "unsuspend"} /\ part = "users" /\ k.id \notin DOMAIN srv
  \/ k.op = "deduct" /\ k.id \in DOMAIN srv /\ srv[k.id].bal = 0
  \/ k.op \in {"create", "sync"} /\ part # "prices" /\ NewId > MaxRows
  \/ k.op = "reveal" /\ k.val # srv.otp

(* done: what a provider says of an order. *)
EffectOf(k, done) ==
  CASE k.op = "add" -> [srv EXCEPT ![k.id].bal = @ + 1]
    [] k.op = "deduct" -> [srv EXCEPT ![k.id].bal = @ - 1]
    [] k.op = "role" -> [srv EXCEPT ![k.id].role = k.val]
    [] k.op \in {"suspend", "unsuspend"} -> [srv EXCEPT ![k.id].on = k.op = "unsuspend"]
    [] k.op \in {"delete", "remove"} -> Without(k.id)
    [] k.op \in {"create", "update"} /\ part = "prices" -> (k.id :> k.val) @@ srv
    [] k.op \in {"create", "sync"} -> (NewId :> NewRow) @@ srv
    [] k.op = "revoke" -> [srv EXCEPT ![k.id].live = FALSE]
    [] k.op = "toggle" -> [srv EXCEPT ![k.id].on = ~@]
    [] k.op = "active" -> [srv EXCEPT ![k.id].on = k.val]
    [] k.op = "visible" -> [srv EXCEPT ![k.id].vis = k.val]
    [] k.op = "markup" -> [srv EXCEPT ![k.id].mk = k.val]
    [] k.op = "bulk" -> [i \in DOMAIN srv |-> [srv[i] EXCEPT !.mk = k.val]]
    [] k.op \in {"refresh", "refreshAll"} ->
         [i \in DOMAIN srv |-> IF done /\ (k.op = "refreshAll" \/ i = k.id) THEN [done |-> TRUE] ELSE srv[i]]
    [] k.op = "read" -> [i \in DOMAIN srv |-> IF i = k.id THEN [read |-> TRUE] ELSE srv[i]]
    [] k.op = "readAll" -> [i \in DOMAIN srv |-> [read |-> TRUE]]
    [] k.op = "clear" -> NoRows
    [] k.op = "save" -> [srv EXCEPT ![k.id] = k.val]
    [] k.op = "otp" -> [otp |-> srv.made + 1, made |-> srv.made + 1]
    [] k.op = "reveal" -> [srv EXCEPT !.otp = 0]
    [] OTHER -> srv

(* A table that loses rows may lose its last page; a price may be written *)
(* again or deleted while it is being saved.                              *)
Shrinks ==
  IF part \in {"users", "replies", "orders"} /\ \E i \in DOMAIN srv : i \notin DOMAIN srv' \/ srv'[i] # srv[i]
  THEN {"shrunk"} ELSE {}
Deleted(c) ==
  IF part = "prices" /\ call[c].op # "update" /\ (\E d \in Calls \ {c} : call[d].op = "update" /\ call[d].id = call[c].id)
  THEN {"draft"} ELSE {}
Serve(c) ==
  LET k == call[c]
      answered(ok) == [call EXCEPT ![c] = [@ EXCEPT !.pc = "answered", !.ok = ok]]
  IN
  /\ In(c, "sent")
  /\ \/ /\ ~Refuses(k) /\ (\E done \in BOOLEAN : srv' = EffectOf(k, done)) /\ call' = answered(TRUE)
        /\ slip' = slip \cup Shrinks \cup Deleted(c) /\ UNCHANGED faults
     \/ Refuses(k) /\ call' = answered(FALSE) /\ UNCHANGED <<srv, slip, faults>>
     \/ /\ ~Refuses(k) /\ Fault /\ call' = answered(FALSE)
        /\ \E lost \in BOOLEAN :
             /\ srv' = IF lost THEN EffectOf(k, TRUE) ELSE srv
             /\ slip' = slip \cup Shrinks \cup Deleted(c)
                        \cup (IF lost THEN {"behind", "detail"} ELSE IF k.op = "save" THEN {k.id} ELSE {})
  /\ UNCHANGED <<part, ui, cache, clicks>>

(* Others add, change or remove a row. *)
Other(i) ==
  CASE part = "users" -> [srv[i] EXCEPT !.bal = @ + 1]
    [] part \in {"replies", "services"} -> [srv[i] EXCEPT !.on = ~@]
    [] part = "codes" -> [live |-> FALSE] [] part = "orders" -> [done |-> TRUE]
    [] part = "prices" -> [sell |-> 2, buy |-> 2] [] part = "bell" -> [read |-> TRUE]
    [] OTHER -> 3 - srv[i]
Another ==
  CASE part = "users" -> [bal |-> 0, role |-> "basic", on |-> TRUE] [] part \in {"codes", "services"} -> NewRow
    [] part = "replies" -> [on |-> TRUE] [] part = "orders" -> [done |-> FALSE]
    [] part = "prices" -> [sell |-> 1, buy |-> 0] [] part = "bell" -> [read |-> FALSE]
    [] OTHER -> 1
Theirs == CASE part = "settings" -> {"markup"} [] part = "usdt" -> {"rate"} [] OTHER -> {1} \cap DOMAIN srv
OthersWrite ==
  /\ part # "crypto" /\ Fault
  /\ \/ \E i \in Theirs : srv' = [srv EXCEPT ![i] = Other(i)]
     \/ part \in Pages /\ NewId <= MaxRows /\ srv' = (NewId :> Another) @@ srv
     \/ part \in Analytics /\ DOMAIN srv # {} /\ srv' = Without(Max(DOMAIN srv))
  /\ srv' # srv
  /\ slip' = slip \cup {"behind", "detail", "toggle", "draft"} \cup (IF part \in Pages THEN {"shrunk"} ELSE Fields)
  /\ UNCHANGED <<part, ui, cache, call, clicks>>

-----------------------------------------------------------------------------
(* Answers *)

Invalidated(k) ==
  CASE ~k.ok \/ part = "crypto" -> {}
    [] part \in Forms -> {FormKey}
    [] OTHER -> {q \in DOMAIN cache : q[1] = "table"}

Answered(k) ==
  CASE part = "users" -> UsersAnswered(k) [] part = "codes" -> CodesAnswered(k)
    [] part = "prices" -> PricesAnswered(k) [] part = "crypto" -> CryptoAnswered(k)
    [] OTHER -> ui
Upset(k) ==
  (IF part = "users" /\ k.ok /\ k.ctx.id = k.id /\ ui.detail # k.ctx THEN {"detail"} ELSE {})
  \cup (IF part = "prices" /\ k.op = "update" /\ k.ok /\ Draft(k.id) # k.ctx THEN {"draft"} ELSE {})
Handle(c) ==
  LET k == call[c] IN
  /\ In(c, "answered") /\ call' = [call EXCEPT ![c] = NoCall]
  /\ ui' = IF k.mine THEN Answered(k) ELSE ui
  /\ cache' = InvalidateAll(cache, Invalidated(k), Shown)
  /\ slip' = slip \cup Upset(k) \cup (IF Overtaken(cache, Invalidated(k), Shown) # {} THEN {"behind"} ELSE {})
  /\ UNCHANGED <<part, srv, clicks, faults>>

(* Where nothing is written, reading and answering are one step. *)
FetchRead(k) ==
  /\ part \notin Analytics /\ cache[k].net = "sent" /\ cache' = [cache EXCEPT ![k] = Read(@, Answer(k))]
  /\ UNCHANGED <<part, srv, ui, call, slip, clicks, faults>>
Settled(u, k) == IF part \in Forms THEN u ELSE [u EXCEPT !.waiting = @ \ {k}]
FetchArrive(k) ==
  /\ \/ cache[k].net = "read" /\ cache' = [cache EXCEPT ![k] = Arrived(@)]
     \/ /\ part \in Analytics /\ cache[k].net = "sent"
        /\ cache' = [cache EXCEPT ![k] = Arrived(Read(@, Answer(k)))]
  /\ ui' = IF part \in Forms /\ ui.here THEN Synced(ui, k, cache'[k]) ELSE Settled(ui, k)
  /\ UNCHANGED <<part, srv, call, slip, clicks, faults>>
(* refetch() does not throw: the flag is taken down all the same. *)
FetchFail(k) ==
  /\ cache[k].net = "sent" /\ Fault /\ cache' = [cache EXCEPT ![k] = Failed(@)]
  /\ ui' = Settled(ui, k) /\ slip' = slip \cup {"behind"} /\ UNCHANGED <<part, srv, call, clicks>>

RefetchInterval == part \in {"replies", "bell"} \/ (part = "health" /\ ui.every)
Tick ==
  /\ ui.here /\ RefetchInterval /\ (\A k \in Shown : Idle(cache[k]))
  /\ cache' = [k \in DOMAIN cache |-> IF k \in Shown THEN Fetch(cache[k]) ELSE cache[k]]
  /\ UNCHANGED <<part, srv, ui, call, slip, clicks, faults>>

-----------------------------------------------------------------------------
(* Visits *)

(* The settings forms start with what the cache holds. *)
Starts(held) ==
  IF part \notin Forms THEN Fresh
  ELSE [Fresh EXCEPT !.want = [f \in Fields |-> 0],
                     !.form = [f \in Fields |-> CASE f = "gateway" -> srv[f]
                                                  [] f \in Asked /\ held[FormKey].has -> held[FormKey].data.rows[f]
                                                  [] OTHER -> 0]]
Leave ==
  /\ part \notin {"bell", "crypto"} /\ ui.here /\ User /\ ui' = [Fresh EXCEPT !.here = FALSE]
  /\ call' = [c \in Calls |-> [call[c] EXCEPT !.mine = FALSE]] /\ slip' = slip \ {"detail", "typed"}
  /\ UNCHANGED <<part, srv, cache, faults>>
Enter(old) ==
  /\ ~ui.here /\ User /\ ui' = Starts(cache) /\ cache' = MountAll(cache, KeysOf(ui'), old)
  /\ slip' = IF \A k \in KeysOf(ui') : cache'[k].net = "sent" THEN slip \ {"behind"} ELSE slip \cup {"behind"}
  /\ UNCHANGED <<part, srv, call, faults>>

Rows(p) ==
  CASE p = "users" -> [i \in 1..3 |-> [bal |-> i % 2, role |-> "basic", on |-> i # 3]]
    [] p = "codes" -> [i \in 1..2 |-> [live |-> TRUE]]
    [] p = "replies" -> [i \in 1..3 |-> [on |-> TRUE]]
    [] p = "services" -> [i \in 1..2 |-> [on |-> TRUE, vis |-> TRUE, mk |-> 0]]
    [] p = "orders" -> [i \in 1..3 |-> [done |-> FALSE]]
    [] p = "prices" -> [i \in 1..1 |-> [sell |-> 1, buy |-> 0]]
    [] p = "bell" -> [i \in 1..2 |-> [read |-> FALSE]]
    [] p \in Forms -> [f \in Fields |-> 1]
    [] p = "crypto" -> [otp |-> 0, made |-> 0]
    [] OTHER -> [i \in 1..3 |-> 1]
Unasked == [k \in Keys |-> Unread(NoAnswer)]
Init ==
  /\ part \in Parts /\ srv = Rows(part) /\ call = [c \in Calls |-> NoCall]
  /\ ui = IF part # "crypto" THEN Starts(Unasked)
          ELSE [here |-> TRUE, open |-> FALSE, code |-> 0, secrets |-> 0, turn |-> 0, waiting |-> {}]
  /\ cache = MountAll(Unasked, Shown, FALSE)
  /\ slip = {} /\ clicks = 0 /\ faults = MaxFaults

Next ==
  \/ RefreshTasks \/ RefreshAccounts \/ RefreshPeople \/ RefreshOverview \/ RefreshDashboard \/ RefreshMoney
  \/ RefreshAudit \/ RefreshHealth \/ RefreshSurveys \/ RefreshUsers \/ RefreshReplies \/ RefreshOrders
  \/ \E r \in Ranges : TasksRange(r) \/ MoneyRange(r) \/ AccountsRange(r) \/ PeopleRange(r) \/ OverviewRange(r) \/ AuditRange(r)
  \/ \E m \in Filters : TasksMetric(m) \/ MoneyMetric(m) \/ AccountsMetric(m)
  \/ SetInterval
  \/ \E f \in Filters :
       \/ TasksFilter(f) \/ MoneyFilter(f) \/ AccountsFilter(f) \/ AuditFilter(f) \/ PeopleFilter(f)
       \/ RepliesFilter(f) \/ SurveysFilter(f) \/ ServicesFilter(f) \/ OrdersFilter(f)
  \/ \E q \in Texts :
       \/ AuditSearch(q) \/ PeopleSearch(q) \/ CodesSearch(q) \/ ServicesSearch(q) \/ SurveysSearch(q)
       \/ OrdersSearch(q) \/ AccountsSearch(q) \/ TasksSearch(q) \/ MoneySearch(q) \/ UsersSearch(q) \/ RepliesSearch(q)
  \/ AccountsSubmit \/ TasksSubmit \/ MoneySubmit \/ UsersDebounce \/ RepliesDebounce \/ OrdersToFirstPage
  \/ \E p \in 1..2 :
       \/ TasksPager(p) \/ MoneyPager(p) \/ AccountsPager(p) \/ AuditPager(p) \/ PeoplePager(p)
       \/ UsersPager(p) \/ RepliesPager(p) \/ OrdersPager(p)
  \/ \E i \in Ids :
       \/ TasksDetail(i) \/ MoneyDetail(i) \/ AuditDetail(i) \/ SurveysDetail(i) \/ RepliesPreview(i) \/ UsersDetail(i)
       \/ SuspendModal(i) \/ UnsuspendConfirm(i) \/ DeleteConfirm(i) \/ CodeRow(i) \/ PriceRow(i)
  \/ TasksClose \/ MoneyClose \/ AuditClose \/ SurveysClose \/ RepliesClose \/ UsersClose
  \/ CloseDialog \/ CreateForm \/ OpenBell
  \/ \E d \in {"add", "deduct"} : BalanceModal(d)
  \/ \E c \in Calls :
       \/ handleBalanceAction(c) \/ handleDeleteUser(c) \/ handleSuspendUser(c) \/ handleUnsuspendUser(c)
       \/ handleCreate(c) \/ handleRevoke(c) \/ handleSync(c) \/ handleRefreshAll(c) \/ handleDelete(c)
       \/ markAllRead(c) \/ clearNotifications(c) \/ handleOpenCryptoReveal(c) \/ handleVerifyCryptoOtp(c)
       \/ \E v \in Prices :
            \/ handleSaveGlobalMarkup(c, v) \/ handleSaveMarketplacePricing(c, v)
            \/ handleSaveBroadcastEntitlement(c, v) \/ handleSaveUsdtRate(c, v)
       \/ \E m \in 1..2 : handleBulkMarkup(c, m)
       \/ \E i \in Ids :
            \/ handleToggle(c, i) \/ handleToggleActive(c, i) \/ handleToggleVisible(c, i) \/ handleSetMarkup(c, i, 1)
            \/ handleRefreshOrder(c, i) \/ handleNotificationClick(c, i) \/ removeNotification(c, i)
            \/ handleUpdate(c, i)
            \/ \E r \in {"basic", "reseller"} : handleRoleChange(c, i, r)
            \/ \E sell \in Prices : i < 3 /\ handleAdd(c, i, [sell |-> sell, buy |-> 2])
       \/ Serve(c) \/ Handle(c)
  \/ \E i \in Ids, f \in {"sell", "buy"}, v \in {0, 2} : setDraftField(i, f, v)
  \/ \E f \in Fields, v \in Prices : Setting(f, v)
  \/ \E v \in Prices : handleSavePaymentGateway(v)
  \/ CloseReveal
  \/ \E v \in 1..2 : TypeCode(v)
  \/ OthersWrite \/ Tick \/ Leave
  \/ \E old \in BOOLEAN : Enter(old)
  \/ \E k \in DOMAIN cache : FetchRead(k) \/ FetchArrive(k) \/ FetchFail(k)

Spec == Init /\ [][Next]_vars
(* Requests are answered or fail, and timers fire. *)
FairSpec ==
  /\ Spec /\ WF_vars(Tick) /\ WF_vars(\E k \in DOMAIN cache : FetchRead(k) \/ FetchArrive(k))
  /\ WF_vars(\E c \in Calls : Serve(c) \/ Handle(c))

-----------------------------------------------------------------------------
Excused(e) == e \in slip
AtRest == Rest /\ \A k \in Shown : Idle(cache[k]) /\ cache[k].has

(* Types: what is asked and excused comes from the sets above, rows have  *)
(* ids and no balance is negative.                                        *)
TypeOK ==
  /\ part \in Parts /\ slip \subseteq Excuses /\ clicks \in 0..MaxClicks[part] /\ faults \in 0..MaxFaults
  /\ \A c \in Calls : call[c].op \in Ops /\ call[c].pc \in {"idle", "sent", "answered"}
  /\ part \in Pages => DOMAIN srv \subseteq Ids /\ ui.page \in 1..2 /\ ui.q \in Texts /\ ui.dq \in Texts
  /\ part = "users" => \A i \in DOMAIN srv : srv[i].bal \in Nat
  /\ Shown \subseteq Keys /\ ui.waiting \subseteq Keys

(* When no request is under way, every table and panel on the screen is   *)
(* what the server holds: each write is followed by a read of what it may *)
(* have changed, and a refresh reads everything that is shown.            *)
ShownIsServers == AtRest /\ ~Excused("behind") => \A k \in Shown : cache[k].data = Answer(k)

(* A filter, a search or a range never leaves the page number beyond the  *)
(* last page, where the table is empty and has no pager.                  *)
NotStranded ==
  part \in Paged /\ AtRest /\ ui.here /\ slip \cap {"shrunk", "typed"} = {} /\ (part = "orders" => ui.seen = <<ui.q, ui.f>>)
    => ui.page <= TotalPages(ui)

(* The details of a user follow what the administrator does to him.       *)
DetailTrue ==
  part = "users" /\ AtRest /\ ~Excused("detail") /\ ui.detail # Nobody
    => ui.detail.id \in DOMAIN srv /\ ui.detail.row = srv[ui.detail.id]

(* The server's relative switch does what the button said.                *)
ToggleAsLabelled ==
  [][\A c \in Calls :
       (part = "replies" /\ "toggle" \notin slip' /\ In(c, "sent") /\ call'[c].pc = "answered" /\ srv' # srv)
       => srv'[call[c].id].on = ~call[c].val]_vars

(* A price that was typed disappears from the row only when it has been   *)
(* stored, or with the page.                                              *)
DraftsKept ==
  [][part = "prices" /\ ui.here /\ ui'.here /\ slip' \cap {"draft", "behind"} = {} =>
       \A i \in DOMAIN ui.drafts \ DOMAIN ui'.drafts :
         i \in DOMAIN srv /\ srv[i].sell = Draft(i).sell /\ Draft(i).buy \in {0, srv[i].buy}]_vars

(* A field nobody has typed into shows the setting in force.              *)
FormIsSettings ==
  part \in Forms /\ ui.here /\ AtRest /\ ~Excused("behind") => \A f \in Fields \ ui.typed : ui.form[f] = srv[f]

(* The setting in force is the one that was saved last.                   *)
SavedIsLast ==
  part \in Forms /\ ui.here /\ Rest => \A f \in Fields \ slip : ui.want[f] \in {0, srv[f]}

(* Secrets are only shown in the dialog whose code revealed them.         *)
SecretsOfTurn ==
  part = "crypto" /\ ~Excused("reveal") /\ ui.secrets # 0 => ui.open /\ ui.secrets = ui.turn

(* A refresh that the page waits for ends, whatever its requests do.      *)
RefreshEnds == (ui.waiting # {}) ~> (ui.waiting = {})

(* Pages that ask by themselves come to show what the server holds.       *)
Polling == ui.here /\ (part \in {"replies", "bell"} \/ (part = "health" /\ ui.every))
Followed == []<>(Polling => \A k \in Shown : cache[k].data = Answer(k))

(* The administrators' pages show what the server holds, and their forms  *)
(* and dialogs what they work on.                                         *)
ConsoleTrue ==
  TypeOK /\ ShownIsServers /\ NotStranded /\ DetailTrue /\ FormIsSettings /\ SavedIsLast /\ SecretsOfTurn

(* Switches and drafts do what was asked, refreshing ends, and what is    *)
(* polled is followed.                                                    *)
ConsoleSteps == ToggleAsLabelled /\ DraftsKept /\ RefreshEnds /\ Followed
=============================================================================
