----------------------------- MODULE AdminPages -----------------------------
(***************************************************************************)
(* The administrators' pages as tables and panels over the QueryClient:    *)
(* the analytics pages, the dashboard and the lists of users, codes,       *)
(* auto-replies, services and orders.  A behaviour is one of these pages   *)
(* in one tab; AdminConsole adds what the pages write.                     *)
(***************************************************************************)
EXTENDS Integers, FiniteSets, FiniteSetsExt, QueryClient

CONSTANTS
  Calls,       \* requests that may be in flight at the same time
  MaxRows, PageSize,
  MaxClicks,   \* by page
  MaxFaults

ASSUME AdminAssumption == MaxRows \in Nat \ {0} /\ PageSize \in Nat \ {0} /\ MaxFaults \in Nat

VARIABLES
  part,
  srv,      \* the rows of the page, by id: the larger, the newer
  ui,       \* the component's state
  cache,    \* QueryClient entries by key
  call,
  slip,     \* excuses: races the code does not handle that have happened
  clicks, faults

vars == <<part, srv, ui, cache, call, slip, clicks, faults>>

Ids == 1..MaxRows
Analytics == {"tasks", "money", "accounts", "audit", "people", "overview", "dashboard", "health", "surveys"}
Lists == {"users", "codes", "replies", "services", "orders", "prices", "bell"}
Forms == {"settings", "usdt"}
Parts == Analytics \cup Lists \cup Forms \cup {"crypto"}
Pages == Analytics \cup Lists
Texts == {"", "x"}
Filters == {"all", "some"}
Ranges == {"long", "short"}

(* q: the search as typed, dq: as it is used; waiting: the reads a        *)
(* refresh waits for; every: whether the page asks by itself.             *)
NoRows == [i \in {} |-> 0]
Nobody == [id |-> 0, row |-> 0]
Fresh ==
  [here |-> TRUE, q |-> "", dq |-> "", f |-> "all", page |-> 1, seen |-> <<"", "all">>, range |-> "long",
   metric |-> "all", waiting |-> {}, every |-> TRUE, detail |-> Nobody, dlg |-> "none", tgt |-> Nobody,
   drafts |-> NoRows, form |-> NoRows, typed |-> {}, want |-> NoRows]

-----------------------------------------------------------------------------
(* The queries: kind, range, search, filter and page are the key *)

Whole == <<"table", "-", "", "all", 0>>
Panel(r) == <<"panel", r, "", "all", 0>>
Trend(r, m) == <<"trend", r, "", m, 0>>
useAdminUsers(u) == <<"table", "-", u.dq, "all", u.page>>
useAdminAutoReplies(u) == <<"table", "-", u.dq, u.f, u.page>>
useAdminSmmOrders(u) == <<"table", "-", u.q, u.f, u.page>>
useAdminSmmServices(u) == <<"table", "-", u.q, u.f, 0>>
useAdminRedeemCodes(u) == <<"table", "-", u.q, "all", 0>>
useAdminAutomationTasksDirectory(u) == <<"table", "-", u.dq, u.f, u.page>>
useAdminFinancialTransactionsDirectory(u) == <<"table", "-", u.dq, u.f, u.page>>
(* Every key pressed in this search box is a query of its own. *)
useAdminTelegramAccountsDirectory(u) == <<"table", "-", u.q, u.f, u.page>>
useAdminSecurityAuditLogs(u) == <<"table", u.range, u.q, u.f, u.page>>

TableKey(u) ==
  CASE part = "users" -> useAdminUsers(u) [] part = "replies" -> useAdminAutoReplies(u)
    [] part = "orders" -> useAdminSmmOrders(u) [] part = "services" -> useAdminSmmServices(u)
    [] part = "codes" -> useAdminRedeemCodes(u) [] part = "tasks" -> useAdminAutomationTasksDirectory(u)
    [] part = "money" -> useAdminFinancialTransactionsDirectory(u)
    [] part = "accounts" -> useAdminTelegramAccountsDirectory(u)
    [] part = "audit" -> useAdminSecurityAuditLogs(u)
    [] part \in {"people", "surveys", "prices", "bell"} -> Whole

(* useAdminSmmSettings, or useAdminCryptoWallet of the card with the rate. *)
FormKey == <<"form", "-", "", "all", 0>>
HasTable == part \in Pages \ {"overview", "dashboard", "health"}
(* The panels of a page, and its charts. *)
TasksPanel(u) == Panel(u.range)
TasksTrend(u) == Trend(u.range, u.metric)
MoneyPanel(u) == Panel(u.range)
MoneyTrend(u) == Trend(u.range, u.metric)
AccountsPanel(u) == Panel(u.range)
AccountsTrend(u) == Trend(u.range, u.metric)
PeoplePanel(u) == Panel(u.range)
PeopleTrend(u) == Trend(u.range, "all")
OverviewPanel(u) == Panel(u.range)
OverviewTrend(u) == Trend(u.range, "all")
AuditPanel(u) == Panel(u.range)
DashboardPanel == Panel("-")
DashboardProvider == Trend("-", "all")
HealthPanel == Panel("-")
Panels(u) ==
  CASE part = "tasks" -> {TasksPanel(u), TasksTrend(u)}
    [] part = "money" -> {MoneyPanel(u), MoneyTrend(u)}
    [] part = "accounts" -> {AccountsPanel(u), AccountsTrend(u)}
    [] part = "people" -> {PeoplePanel(u), PeopleTrend(u)}
    [] part = "overview" -> {OverviewPanel(u), OverviewTrend(u)}
    [] part = "audit" -> {AuditPanel(u)}
    [] part = "dashboard" -> {DashboardPanel, DashboardProvider}
    [] part = "health" -> {HealthPanel}
    [] part \in Forms -> {FormKey}
    [] OTHER -> {}
KeysOf(u) ==
  IF ~u.here \/ part = "crypto" THEN {} ELSE Panels(u) \cup (IF HasTable THEN {TableKey(u)} ELSE {})
Shown == KeysOf(ui)
(* Everything the page may ask for. *)
Paged == {"tasks", "money", "accounts", "audit", "people", "users", "replies", "orders"}
TableKeys ==
  IF part \in {"people", "surveys", "prices", "bell"} THEN {Whole}
  ELSE {<<"table", r, q, f, p>> : r \in (IF part = "audit" THEN Ranges ELSE {"-"}), q \in Texts,
                                  f \in (IF part \in {"users", "codes"} THEN {"all"} ELSE Filters),
                                  p \in (IF part \in Paged THEN 1..2 ELSE {0})}
Keys ==
  (IF HasTable THEN TableKeys ELSE {})
  \cup (CASE part \in {"dashboard", "health"} \cup Forms -> Panels(Fresh)
          [] part \in Analytics -> {Panel(r) : r \in Ranges} \cup {Trend(r, m) : r \in Ranges, m \in Filters}
          [] OTHER -> {})

(* Groups of settings: the markup, the prices of accounts and the free    *)
(* broadcasts are one query, the rate of USDT is another, and the deposit *)
(* account is none.                                                       *)
Grouped == {"markup", "prices", "broadcast"}
AllFields == Grouped \cup {"rate", "gateway"}
Fields == IF part = "usdt" THEN {"rate"} ELSE Grouped \cup {"gateway"}
Asked == Fields \ {"gateway"}

(* A row of the replies, orders and services lists may leave the filter.  *)
InFilter(i, f) ==
  \/ f = "all"
  \/ CASE part = "replies" -> srv[i].on [] part = "orders" -> ~srv[i].done [] OTHER -> i <= 2
InRange(i, r) == r \in {"-", "long"} \/ i > 1
Matching(k) ==
  {i \in DOMAIN srv : InFilter(i, k[4]) /\ InRange(i, k[2]) /\ (k[3] = "" \/ i = 1)}
(* Newest first; page 0 asks for everything. *)
OnPage(ids, p) ==
  IF p = 0 THEN ids
  ELSE {i \in ids : LET before == Cardinality({j \in ids : j > i}) IN before \div PageSize = p - 1}
Answer(k) ==
  CASE k[1] = "table" -> [rows |-> [i \in OnPage(Matching(k), k[5]) |-> srv[i]], total |-> Cardinality(Matching(k))]
    [] k = FormKey -> [rows |-> [f \in Asked |-> srv[f]], total |-> 0]
    [] OTHER -> [rows |-> [i \in {j \in DOMAIN srv : InRange(j, k[2])} |-> srv[i]], total |-> 0]
NoAnswer == [rows |-> NoRows, total |-> 0]

Table == cache[TableKey(ui)]
Row(i) == ui.here /\ HasTable /\ Table.has /\ i \in DOMAIN Table.data.rows
Snapshot(i) == [id |-> i, row |-> Table.data.rows[i]]
Fetching(kinds) == \E k \in Shown : k[1] \in kinds /\ ~Idle(cache[k])

(* The rows a page shows of the whole list it holds. *)
Filtered(u) == {i \in DOMAIN cache[Whole].data.rows : (u.q = "" \/ i = 1) /\ (u.f = "all" \/ i <= 2)}
Total(u) == IF part = "people" THEN Cardinality(Filtered(u)) ELSE cache[TableKey(u)].data.total
TotalPages(u) == Max({1, (Total(u) + PageSize - 1) \div PageSize})

-----------------------------------------------------------------------------
On(p) == part = p /\ ui.here
(* Dialogs are modal. *)
At(p) == On(p) /\ ui.detail = Nobody /\ ui.dlg = "none"
User == clicks < MaxClicks[part] /\ clicks' = clicks + 1
(* MaxFaults bounds what goes wrong and what others do meanwhile. *)
Fault == faults > 0 /\ faults' = faults - 1
Behind(on) == IF on THEN slip \cup {"behind"} ELSE slip

(* The component becomes u: queries that appear are mounted.  One that is *)
(* not read again shows what it held, or what was on its way to it.       *)
Shows(u, old) == cache' = MountAll(cache, KeysOf(u) \ Shown, old)
Held(u) == \E k \in KeysOf(u) \ Shown :
  (Idle(cache'[k]) /\ cache[k].data # Answer(k)) \/ (cache[k].net = "read" /\ cache[k].got # Answer(k))
Turn(u) ==
  /\ User /\ ui' = u /\ \E old \in BOOLEAN : Shows(u, old)
  /\ slip' = Behind(Held(u)) /\ UNCHANGED <<part, srv, call, faults>>
Local(u) == ui' = u /\ UNCHANGED <<part, srv, cache, call, slip, faults>>
Freely(u) == Local(u) /\ UNCHANGED clicks

(* refetch() of keys, for which the page waits in wait.  Everything shown *)
(* is read again: what happened before is no excuse.                      *)
Refetched(keys, wait) ==
  /\ User /\ cache' = RefetchAll(cache, keys) /\ ui' = [ui EXCEPT !.waiting = wait]
  /\ slip' = IF Shown \subseteq keys /\ \A k \in keys : cache'[k].net = "sent" THEN slip \ {"behind"} ELSE slip
  /\ UNCHANGED <<part, srv, call, faults>>
Refresh(kinds) == Refetched({k \in Shown : k[1] \in kinds}, {})
(* The pages that keep a flag of their own wait for all of it. *)
RefreshAndWait == Refetched(Shown, Shown)

Everything == {"panel", "trend", "table"}
RefreshTasks == At("tasks") /\ ~Fetching({"panel", "table"}) /\ Refresh(Everything)
RefreshAccounts == At("accounts") /\ ~Fetching({"panel", "table"}) /\ Refresh(Everything)
RefreshPeople == At("people") /\ ~Fetching({"panel"}) /\ Refresh(Everything)
RefreshOverview == At("overview") /\ ~Fetching({"panel"}) /\ Refresh(Everything)
RefreshDashboard == At("dashboard") /\ ~Fetching({"panel", "trend"}) /\ Refresh(Everything)
RefreshMoney == At("money") /\ ui.waiting = {} /\ ~Fetching({"panel"}) /\ RefreshAndWait
RefreshAudit == At("audit") /\ ui.waiting = {} /\ ~Fetching({"panel", "table"}) /\ RefreshAndWait
RefreshHealth == At("health") /\ ui.waiting = {} /\ ~Fetching({"panel"}) /\ RefreshAndWait
RefreshSurveys == At("surveys") /\ ~Fetching({"table"}) /\ Refresh(Everything)
RefreshUsers == At("users") /\ ~Fetching({"table"}) /\ Refresh(Everything)
RefreshReplies == At("replies") /\ ~Fetching({"table"}) /\ Refresh(Everything)
RefreshOrders == At("orders") /\ Refresh(Everything)

-----------------------------------------------------------------------------
(* Ranges, filters and searches *)

Reset(u) == [u EXCEPT !.page = 1]
Ranged(r) == r # ui.range /\ Turn([ui EXCEPT !.range = r])
TasksRange(r) == At("tasks") /\ Ranged(r)
MoneyRange(r) == At("money") /\ Ranged(r)
AccountsRange(r) == At("accounts") /\ Ranged(r)
PeopleRange(r) == At("people") /\ Ranged(r)
OverviewRange(r) == At("overview") /\ Ranged(r)
(* Here the table depends on the range as well. *)
AuditRange(r) == At("audit") /\ r # ui.range /\ Turn(Reset([ui EXCEPT !.range = r]))
Measured(m) == m # ui.metric /\ Turn([ui EXCEPT !.metric = m])
TasksMetric(m) == At("tasks") /\ Measured(m)
MoneyMetric(m) == At("money") /\ Measured(m)
AccountsMetric(m) == At("accounts") /\ Measured(m)
SetInterval == At("health") /\ Turn([ui EXCEPT !.every = ~@])

TasksFilter(f) == At("tasks") /\ f # ui.f /\ Turn(Reset([ui EXCEPT !.f = f]))
MoneyFilter(f) == At("money") /\ f # ui.f /\ Turn(Reset([ui EXCEPT !.f = f]))
AccountsFilter(f) == At("accounts") /\ f # ui.f /\ Turn(Reset([ui EXCEPT !.f = f]))
AuditFilter(f) == At("audit") /\ f # ui.f /\ Turn(Reset([ui EXCEPT !.f = f]))
PeopleFilter(f) == At("people") /\ f # ui.f /\ Turn(Reset([ui EXCEPT !.f = f]))
RepliesFilter(f) == At("replies") /\ f # ui.f /\ Turn(Reset([ui EXCEPT !.f = f]))
SurveysFilter(f) == At("surveys") /\ f # ui.f /\ Turn([ui EXCEPT !.f = f])
ServicesFilter(f) == At("services") /\ f # ui.f /\ Turn([ui EXCEPT !.f = f])
OrdersFilter(f) == At("orders") /\ f # ui.f /\ Turn([ui EXCEPT !.f = f])

Typed(q) == q # ui.q
AuditSearch(q) == At("audit") /\ Typed(q) /\ Turn(Reset([ui EXCEPT !.q = q]))
PeopleSearch(q) == At("people") /\ Typed(q) /\ Turn(Reset([ui EXCEPT !.q = q]))
CodesSearch(q) == At("codes") /\ Typed(q) /\ Turn([ui EXCEPT !.q = q])
ServicesSearch(q) == At("services") /\ Typed(q) /\ Turn([ui EXCEPT !.q = q])
SurveysSearch(q) == At("surveys") /\ Typed(q) /\ Turn([ui EXCEPT !.q = q])
OrdersSearch(q) == At("orders") /\ Typed(q) /\ Turn([ui EXCEPT !.q = q])
(* Typing asks at once, for the page of the last search. *)
AccountsSearch(q) ==
  /\ At("accounts") /\ Typed(q) /\ User /\ ui' = [ui EXCEPT !.q = q] /\ Shows([ui EXCEPT !.q = q], FALSE)
  /\ slip' = Behind(Held([ui EXCEPT !.q = q])) \cup (IF ui.page > 1 THEN {"typed"} ELSE {})
  /\ UNCHANGED <<part, srv, call, faults>>
(* The first page, and the page shown until now is read again. *)
AccountsSubmit ==
  LET u == Reset(ui)
      asked == [cache EXCEPT ![TableKey(ui)] = Refetch(@)]
  IN /\ At("accounts") /\ User /\ ui' = u /\ cache' = MountAll(asked, KeysOf(u) \ Shown, FALSE)
     /\ slip' = Behind(Held(u)) \ {"typed"} /\ UNCHANGED <<part, srv, call, faults>>
Types(q) == Typed(q) /\ User /\ Local([ui EXCEPT !.q = q])
TasksSearch(q) == At("tasks") /\ Types(q)
MoneySearch(q) == At("money") /\ Types(q)
UsersSearch(q) == At("users") /\ Types(q)
RepliesSearch(q) == At("replies") /\ Types(q)
TasksSubmit == At("tasks") /\ Turn(Reset([ui EXCEPT !.dq = ui.q]))
MoneySubmit == At("money") /\ Turn(Reset([ui EXCEPT !.dq = ui.q]))

(* Effects: 400 ms after the last key, and when the filters have changed. *)
Effect(u) ==
  /\ ui' = u /\ Shows(u, FALSE) /\ slip' = Behind(Held(u)) /\ UNCHANGED <<part, srv, call, clicks, faults>>
UsersDebounce == On("users") /\ ui.q # ui.dq /\ Effect(Reset([ui EXCEPT !.dq = ui.q]))
RepliesDebounce == On("replies") /\ ui.q # ui.dq /\ Effect(Reset([ui EXCEPT !.dq = ui.q]))
OrdersToFirstPage ==
  On("orders") /\ ui.seen # <<ui.q, ui.f>> /\ Effect(Reset([ui EXCEPT !.seen = <<ui.q, ui.f>>]))

-----------------------------------------------------------------------------
(* Pages of a table *)

Loaded == IF part = "people" THEN cache[Whole].has ELSE Table.has
Pager(p) == p \in 1..TotalPages(ui) /\ p # ui.page /\ TotalPages(ui) > 1 /\ Turn([ui EXCEPT !.page = p])
(* Previous and next. *)
Steps(p) == p \in {ui.page - 1, ui.page + 1} /\ Pager(p)
TasksPager(p) == At("tasks") /\ Loaded /\ Steps(p)
MoneyPager(p) == At("money") /\ Loaded /\ Steps(p)
AccountsPager(p) == At("accounts") /\ Loaded /\ Steps(p)
AuditPager(p) == At("audit") /\ Loaded /\ Steps(p)
PeoplePager(p) == At("people") /\ Steps(p)
DataPagination(p) == Loaded /\ Pager(p)
UsersPager(p) == At("users") /\ DataPagination(p)
RepliesPager(p) == At("replies") /\ ~Fetching({"table"}) /\ DataPagination(p)
OrdersPager(p) == At("orders") /\ DataPagination(p)

(* A dialog shows the row as it was when it was opened, which may be old. *)
OpenDetail(i) ==
  /\ Row(i) /\ User /\ ui' = [ui EXCEPT !.detail = Snapshot(i)]
  /\ slip' = IF i \in DOMAIN srv /\ srv[i] = Table.data.rows[i] /\ \A c \in Calls : call[c].id # i
             THEN slip ELSE slip \cup {"detail"}
  /\ UNCHANGED <<part, srv, cache, call, faults>>
TasksDetail(i) == At("tasks") /\ OpenDetail(i)
MoneyDetail(i) == At("money") /\ OpenDetail(i)
AuditDetail(i) == At("audit") /\ OpenDetail(i)
SurveysDetail(i) == At("surveys") /\ i \in Filtered(ui) /\ OpenDetail(i)
RepliesPreview(i) == At("replies") /\ OpenDetail(i)
UsersDetail(i) == At("users") /\ OpenDetail(i)
CloseDetail ==
  /\ ui.detail # Nobody /\ ui.dlg = "none"
  /\ ui' = [ui EXCEPT !.detail = Nobody] /\ slip' = slip \ {"detail"}
  /\ UNCHANGED <<part, srv, cache, call, clicks, faults>>
TasksClose == On("tasks") /\ CloseDetail
MoneyClose == On("money") /\ CloseDetail
AuditClose == On("audit") /\ CloseDetail
SurveysClose == On("surveys") /\ CloseDetail
RepliesClose == On("replies") /\ CloseDetail
UsersClose == On("users") /\ CloseDetail
=============================================================================
