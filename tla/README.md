# TeleBos: a verification project

TeleBos is a FastAPI backend (PostgreSQL, Redis, Telethon) with a Next.js front end. Users keep a wallet, buy social-media
(SMM) orders, subscriptions and Telegram accounts with it, connect Telegram accounts, chat through them and run jobs on
them. This directory holds TLA+ models of the parts in which money, accounts and other people's writes meet, the TLC runs
that check them on small instances, and TLAPS proofs for every instance. Backend paths are relative to `src/backend/app/`,
front-end paths to `src/frontend/src/`.

## 1. Inventory

| Component | State | Operations | What is hard | Correct when |
|---|---|---|---|---|
| Wallet settlement (`api/wallet/`, `services/wallet_service.py`, `ledger_service.py`) | balances, `wallet_transactions`, `wallet_ledgers`, orders paid by invoice | invoice, webhook, status check, owner's settlement, withdrawal | duplicate and concurrent deliveries, stale copies under row locks, a provider called under locks | what is credited was paid, and twice only by webhooks that overlap; a withdrawal is debited once and refunded iff rejected; ledger and balance agree unless a stale copy was written |
| Account marketplace (`services/marketplace_service.py`, `api/marketplace.py`) | `telegram_accounts` (owner, listing, prices), balances, invoices | list, cancel, session check, buy from balance, buy by invoice, settle (webhook, status check, owner), transfer | four row locks in two orders, prices that change between invoice and payment | a sale is atomic and only the owner's listing is sold |
| Placing SMM orders (`api/orders.py`, `services/order_service.py`, `smm_service.py`) | idempotency keys in Redis, balance, `orders` | single order, batch | debit committed before the provider is called, keys that expire, lost answers, killed processes | charged exactly what is on record, once per key, unless a process or the database fails after the debit |
| SMM status refresh and refunds (`order_service.py`, `admin_smm_service.py`, `schedulers/background_tasks.py`) | `orders`, balance | poll loop, administrator's and user's refresh | concurrent refreshes, stale answers, deadlocks, failed calls | what is due is refunded, once |
| Withdrawals and one-time codes (`api/wallet/withdrawals.py`, the wallet page) | a Redis entry, the dialog, pending rows | request, resend, verify, decide | read, compare and delete are separate calls; two tabs | the amount paid out is the one the mail said, and a decision is final |
| Sign-in and session (`lib/auth.ts`, `lib/brute-force.ts`, `store/auth-store.ts`) | lock columns, two user tables, sessions, the tab | sign-up, sign-in, logout, refresh | uncounted parallel attempts, late resets, answers for a page that is gone | attempts lock, a tab never loads for ever nor stays on a dead session |
| Connecting an account (`api/auth.py`, `services/telegram_*`, the connect pages) | pending logins, plan limits, polls | phone, QR and session tabs | answers out of order, logins nobody finishes | one login per phone, none orphaned but by a lost or late answer, the limit kept |
| Chat (`components/chat/`, `hooks/`) | message and chat lists, caches, drafts | send, schedule, delete, switch account, archive ... | events, pages and answers in every order | shown twice, sent twice or left though deleted only by the overlaps named; actions hit the account shown |
| Checkout and invoices (`app/(dashboard)/wallet`, `marketplace`, `orders`) | dialogs, query cache, timers | top-up, plan, voucher, purchase, sale, order | answers after navigation, refetches overlapping writes | own writes are shown, a payment is noticed |
| Jobs (`services/*_service.py`, `workers/async_worker.py`, the job pages) | job rows, queued starts, running tasks, remembered ids | start, pause, resume, stop, retry, delete; a task's start, end, failure and recovery | the row is read and written in separate steps by request and worker, and often written unread | a job that is over goes on only in the ways named, and its end is noticed |
| Account pages | details, security, devices, replies, contacts, groups | edits and dialogs | overlapping requests, partial failure | what is shown is what the server has |
| Settings and support (`settings`, `support`) | password, two-factor, keys, bank accounts, tickets | wizards and forms | overlapping requests, lost answers | pages are true once they are quiet |
| Administrators' pages | lists, settings, analytics, notifications | edits, filters, pages, polling | answers for an old filter or page | the rows shown answer the question shown |
| Redeem codes, sharding of the worker queue, ownership lease, command bus, session pool, events, gateways, rate limits, ... | | | | not modelled: see section 8 |

The components share the `user` row (every handler that changes the balance locks it with `FOR UPDATE`), the
`wallet_transactions` rows (an invoice is made by one handler and settled by another), Redis, and in the browser the query
cache.

**One fact shapes the backend models.** A handler owns one SQLAlchemy session. A row the session has loaded keeps its
attributes: `SELECT ... FOR UPDATE` takes the lock but does not refresh them unless the statement has `populate_existing`,
and `expire_on_commit` is off (`database.py`). `get_current_user` loads the `User` row into the session the endpoint uses.
So "read under the lock" is often a read made before it. The models carry these copies explicitly (`req[r].st`,
`req[r].bal`, `req[r].seen`, `ses[s].seen`, `ses[s].bal`, `call[s].snap`).

**And one the front-end models.** An answer is handled by the closure of the click that asked, whatever the page shows by
then; a query's answer is stored under the key it was asked with. The models keep, per request, what its closure captured,
and per query an answer that may be overtaken (`QueryClient`).

## 2. Modules

| Module | Models | State and actions |
|---|---|---|
| `WalletSettlement` | top-ups, subscriptions, SMM invoices and withdrawals, settled by webhook, check or owner | a request is a session with a program counter; `DeliverWebhook`, `BeginCheck`, `BeginAdmin`, `BeginWithdraw` are the first reads, `*LockTx` the transaction lock, `WithdrawLockUser`, `AdminSettleWithdraw`, `AdminRejectInvoice`, `Fulfil*` the user lock and commit; `FulfilSmmCall`, `ProviderReply`, `FulfilSmmCommit` the call made under both locks; `Abort` a crash or error anywhere; `late` and `drift` remember whose copy of a balance was overtaken and whose balance was written from one |
| `Marketplace` | listing, purchase, invoice, settlement by webhook, status check or owner, transfer | `WebhookBegin`, `CheckBegin`, `OwnerBegin` and their `*LockTx` differ in what they read before the lock (`seen`); rows are locked one statement at a time (`Locked`, `Wanted`); rings of waiters are broken by `DeadlockVictim`, as PostgreSQL does |
| `AccountMarket` | the abstract market `Marketplace` implements | an owner, an offer, a bill; a purchase or a settlement is one step, except that a settlement may write a balance noted before (`copies`) |
| `OrderPlacement` | `POST /orders` and `/orders/mass` | `SetNx`, `GetKey`, `StoreResult`, `Fail` on the key; `DebitUser`, `CallProvider` per item, `CommitOrders` or `RefundUser`; `InvoiceOrder`; `Break` and `CommitFails` are a database error before, at or after a commit (the outcome of a failed commit is open), which frees the key; `Kill` and `ExpireKey` at any time |
| `OrderRefunds` | the three refreshes and the refund | a session reads a batch (`BeginRefresh`), asks (`Ask`, `AskFails`), applies (`Apply`), flushes and locks rows in primary-key order (`LockRow`), re-reads (`ReadOrder`), credits (`CreditUser`), commits; `Abort`, `DeadlockVictim` |
| `Withdraw` | form, code dialog, both endpoints, owners' decisions | a request reads Redis and the user's row, then acts on what it read; `raced` and `crossed` remember the overlaps |
| `SignIn` | lock tiers, the auth store, page guards | a flow is one asynchronous operation whose answer may go to the tab, to another device or to nobody |
| `AccountLogin` | the page that connects accounts | calls, polls of a QR code, pending logins on the server, the plan's limit; a request is lost (`FailAny`) or its answer is (`AnswerLost`) |
| `ChatPane`, `ChatList` | one open chat; accounts and lists of chats | events, pages, refetches, requests in slots |
| `QueryClient` | the part of TanStack Query the pages use | fetch, overtaken answer, invalidation |
| `Checkout` | purchase dialogs and the invoice page | calls with their closures, timers, polls, the invoice list |
| `Jobs` | job pages, endpoints, the queue of starts and the worker's tasks | a request reads and writes a row in two steps (`Check`, `Write`); a task is taken from the queue (`Take`), writes that it runs (`Begin`), reads and ends (`EndRead`, `EndWrite`), fails (`Breaks`), is cancelled or killed (`Halt`) and is found again at start-up (`Recover`) |
| `Accounts`, `SelfService` | account pages; settings and support pages | calls with their closures, dialogs, server state |
| `AdminPages`, `AdminConsole` | the administrators' pages, and the requests and queries they share | `Serve`, `Handle`, `FetchRead`, `FetchArrive`, `Tick` |
| `MC*` | the instances TLC explores | symmetry, and parts: see section 4 |
| `WalletSettlementProofs`, `MarketplaceProofs`, `OrderProofs`, `WithdrawProofs`, `AccessProofs`, `ChatPaneProofs`, `CheckoutProofs`, `JobsProofs` | theorems | section 6; `OrderProofs` is about `OrderPlacement` and `OrderRefunds`, `AccessProofs` about `SignIn` and `AccountLogin` |

`Checkout`, `ChatList` and `AdminConsole` build on `QueryClient`; `AdminConsole` extends `AdminPages`. `Marketplace`
instantiates `AccountMarket` through the mapping `ownerBar`, `offerBar`, `billBar`, `settledBar`. Definitions marked
"Mutant" in their comment are the plausible bugs each property was tried against; no specification uses them.
`PROJECT.json` names, for every other definition, the lines it models.

### Abstractions

* Amounts are small naturals; wording, layout, telemetry, e-mail delivery and validation of free text are left out.
* `WalletSettlement`: the two gateways' webhooks differ in parsing only and are one action; a request is used once; the
  marketplace branch of `fulfill_wallet_transaction` is in `Marketplace`.
* `Marketplace`: invoices do not expire; `is_active` is not tracked (the model allows more
  sales than the code); a transfer moves one account; the legacy default price of a listing without one is omitted.
* `OrderPlacement`: every item costs 1; a failed gateway call and a rejected input are both the error path of
  `InvoiceOrder`; the 24-hour expiry of a finished key is outside the horizon. Keys of the two endpoints are kept apart.
* `OrderRefunds`: orders of one user (the worst case for locks), `Error` counts as `Canceled`, adaptive intervals are
  dropped (every order to poll is due in every round), the provider's final statuses are final.
* `Jobs`: a signal that wakes a task (a resume, a retry) and a start pushed to the queue are both an entry of `queued`; one
  worker. The schedule that pauses and resumes a broadcast in mid-run (`broadcast_service.py:1798-1824`) is left out: it
  writes over the status it read a moment before, as a request does, so a stop in between is one more that can be undone. Its
  effect on a broadcast's first status is in `Begin`.
* Front end: one tab unless said otherwise, one page at a time; a component's state is what its hooks hold between two
  renders; the browser is online.

A property about the web pages says what is shown once nothing is in flight. Where the code loses a promise in a particular
overlap, the model records the overlap in a variable or flag (`raced`, `crossed`, `late`, `twin`, `strays`, `overtook`, `slip`,
`off`) and the property holds for everything else. A property with such an excuse does not say that the excused case is
harmless: it says that there is no other. Section 7 lists the cases by hazard.

## 3. Runs

| Run | Instance | Distinct states | What it shows |
|---|---|---|---|
| `settlement` | 1 user, 2 transactions, 3 requests | 344 485 | `TypeOK`; `WithdrawalAccounted`; `FreshUnderLock`: who holds the lock works on what it has read; `CreditedTwiceOnlyByWebhook` and `SettledChangesOnlyByWebhook`: each credit after the first and each change of a final status is the commit of a webhook that read the transaction pending; `CreditIsBacked`: no credit without a payment or the owner's approval; `ApprovedGivesValue`; `Reconciled`: ledger and balance agree unless a copy from before the lock was overtaken and written, which no webhook does; `RequestsFinish` |
| `market` | 2 users, 2 accounts, 2 invoices, prices 1 and 2 | 191 000 | `TypeOK`; `ListingIsOwners`; `RingNeedsSettlement`: purchases alone never wait in a ring; `OwnerMovesOnlyBySale`; `SettledTwiceOnlyByWebhook`: status checks and the owner never settle a settled invoice; `AtomicMarket`: it implements `AccountMarket`; `RequestsFinish` |
| `orders` | 2 requests, 1 key, batches of 2, 2 expiries, failing database; then 2 canceled orders, loop and user | 1 205 931 | `ChargedForPending`; `DoubleChargeNeedsGap`; `KeyIsFreed`; `RefundedOnce`; `CanceledIsRefunded`; `CreditIsExact` |
| `refunds` | 1 order of 2 units, answers without `remains`, 1 abort, fair | 21 446 | `CancelIsRefunded`: what is due is refunded in the end |
| `sign_in` | 2 flows, 2 lock tiers, 3 visits; 2 phones, limit 1 | 377 776 | `SignInSafe` (`LockedWhenDue`), `LoginsSafe` (`NoOrphanLogin`, `OneLoginPerPhone`, `WithinPlan`, `StepHasFlow`, `QrStatusTrue`), `TabsSettle` (`LoadingEnds`, `DeadSessionLeaves`, `ScanNoticed`) |
| `chat_pane` | 4 messages, pages of 1, 4 clicks; 2 accounts, 3 chats, 4 taps | 1 515 049 | `PaneSafe` (`ShownOnce`, `SentOnce`, `DeletedOffScreen`), `ListSafe` (`RowsAreAccounts`, `ActsOnOwnChats`, `RowsOnce`, `ConfirmedIsShown`) |
| `checkout` | 2 calls, 2 clicks, balance 2, 1 fault | 375 767 | `CheckoutSafe` (`OwnWritesShown`), `PaymentNoticed` |
| `withdraw_and_pages` | 2 tabs, 2 owners, 2 codes, 2 withdrawals, 4 clicks; then 3 calls, 3 clicks, 1 fault | 764 843 | `WithdrawSafe` (`MailedAmount`, `CodeReusedOnlyInRace`, `Conserved`), `DecisionFinal`; `PagesTrue` (`PasswordTold`, `BackupCodes`, `KeysShown`, `BanksShown`, `TokenWorks`, `TalkInOrder`, `TicketsShown`, `DeskShown`, `FormIsTickets`) |
| `linked_destination` | the withdrawals of the run above, 5 clicks | | `LinkedToDestination` is violated: see finding 13 of section 7 |
| `jobs` | 2 jobs, 2 items, 2 calls, 2 clicks, 1 fault | 597 674 | `JobsSafe` (`SharedOnlyByOverlap`, `RememberedRun`, `OwnActionsShown`, `EditsKept`), `JobsEnd` (`OverIsOver`, `FinishNoticed`) |
| `accounts` | 2 calls, 2 clicks, 1 fault or outside change | 715 863 | `AccountsSafe` (`OwnWritesShown`, `RecipientShown`, `TicksTrue`, `CodeWentTo`), `AccountsStep` (`UntouchedKept`, `SyncHappens`) |
| `admin_console` | 2 calls, tables of 3 rows on pages of 2, 2 to 6 clicks by page, 1 fault | 258 704 | `ConsoleTrue` (`ShownIsServers`, `NotStranded`, `DetailTrue`, `FormIsSettings`, `SavedIsLast`, `SecretsOfTurn`), `ConsoleSteps` (`ToggleAsLabelled`, `DraftsKept`, `RefreshEnds`, `Followed`) |

All runs pass but `linked_destination`, which shows that a comment of the repository is not true. Deadlock is checked for the
backend's four; the front-end runs stop when the user's clicks are used up. `Symmetry` is used only where no liveness is
checked (`chat_pane`, `withdraw_and_pages`, `linked_destination`).

## 4. Bounds

Every hazard found or excluded needs two requests on one row and at most one bystander. The instances are cut into parts
that share no state or that would only multiply each other:

* `settlement` has the part `money` (top-ups and withdrawals, three requests: two deliveries and a status check or the owner
  in flight at once), `goods` (subscriptions and SMM invoices too, two requests) and `payout` (withdrawals of a balance an
  earlier top-up has left). Two transactions of one user share the user lock.
* `market` has `pair` (two accounts give purchases two rows to cross on; two prices tell a renewed listing from the invoiced
  one) and `ring` (three requests on one account: the smallest number that lets a settlement complete a ring that purchases
  alone do not).
* `orders` explores placing and refreshing one after the other; they share the balance only. Two orders give two refreshes a
  lock order to disagree on. `refunds` has one order of quantity two, so that a refund is neither nothing nor everything.
* `sign_in` and `chat_pane` explore two modules that share nothing but the session or the selected account.
* `withdraw_and_pages` explores the withdrawal and the settings pages one after the other: they share no state.
  Four clicks are two requests for a code and two withdrawals, in one tab or two, or a withdrawal and the decisions of two
  owners, or a code that three wrong tries use up; a right try after those three is a fifth and not explored.
* The pages are explored one at a time with two or three clicks: enough for one answer to overtake another and for one
  write to be lost in between. `MaxFaults = 1`: one failure, lost answer or write by somebody else.
* `MCJobs` starts the history with one job that is over and one that runs, lets nothing fail while the two largest pages
  are open, and lets the worker take one of the two jobs that the broadcast form or the auto-leave page can start; `MCAccounts` starts only the detail page with an account that is for sale. These are named in the modules.

## 5. Fairness

* `WF(Step(r))`: a handler that can run does (asyncio schedules it, PostgreSQL answers, HTTP clients time out). A request
  only blocked by a row lock is granted it when it stays free. `OrderRefunds` adds strong fairness of the lock grants
  (PostgreSQL queues waiters), weak fairness of the poll loop's next round (`while True`) and strong fairness of the
  provider's answer to the poll loop: one that never answers refunds nothing. `OrderPlacement` adds Redis' expiry of keys.
* Front end: requests are answered, effects and timers run, polls fire. `Checkout` and `Jobs` need strong fairness of the
  arrival of the polled list or row, because a refetch may overtake an answer any number of times.
* Users, payers, gateways, other administrators and crashes owe nothing.

## 6. Proofs

All theorems hold for every value of the constants under the modules' named assumptions (amounts and prices positive, sets
typed, the absent value in no set). None bounds a number of users, rows, requests or items
(`SignIn` asks for finitely many flows in flight, `AccountLogin` for finitely many accounts to connect).

**`WalletSettlementProofs`**: `TypeCorrect` (no balance becomes negative), `WithdrawalsAreAccounted`, `LockedReadIsFresh`.
`WithdrawalAccounted` is not inductive: a rejection refunds once only because the row it rejects is still pending, which
holds because the owner's settlement read the status with the lock (`FreshUnderLock`), which stays true because no second
request holds the same lock (`TxLockExclusive`), because a webhook or status check never works on a withdrawal
(`SettlerOK`), and because the identifier of a withdrawal in flight is used by nobody else (`WithdrawerOK`). `IInv` is the
conjunction of these with `TypeOK` and `TxOK`. One lemma per action rests on lemmas that state the effect of the building
blocks field by field and on the generic kinds of steps (`SettlerMoves`, `SettlerCommits`, `RollbackStep`,
`CreditCommitStep`).

There too: `CreditedTwiceNeedsWebhook`, `CreditsAreBacked`, `ApprovedInvoicesGiveValue` and `SettledStaysSettled`, on top of
that invariant. A pending transaction has been credited nothing, so a settlement that knows under the lock that it is pending
credits first; only a webhook can believe so of a settled one, because its status is the copy it read before the lock. Both
step properties name that webhook: the commit is its own, and its copy says pending. What a request carries is evidence: its
verdict was a payment the gateway saw or the owner's word, its provider's reply is on record, so what it commits is backed.

**`MarketplaceProofs`**: `TypeCorrect`, `ListingStaysWithOwner`, `SettledAgainNeedsWebhook`, `OwnersMoveOnlyBySale`,
`RingsNeedSettlement`. The invariant says that whoever holds an account's row has read its listing as it stands and holds it
alone, so a buyer who locks the account after the users still pays what is listed; a purchase reads balances under their own
locks, and a settlement writes what its session has seen (`seen`). A pending invoice has given nothing (`ValueOf`), and a
status check or an owner that holds the invoice holds a pending one (`SettleOf`), so only a webhook settles twice.
That purchases wait in no ring follows from the order of their locks: users by their identifier, and the account before
both; a ring among purchases would give its user of smallest number a smaller one.

And `MarketIsAtomic`: every step of the marketplace with its requests and locks, settled by webhook, status check or owner, is
a step of `AccountMarket` or a stutter of it. Begin, lock and abort steps stutter, or note or forget the copy of a balance;
the commit of a purchase is `Buy`, of a settlement `Settle` or `Credit`. The mapping reads owner, offer, bill, number of
settlements and copies off the rows and the sessions.

**`OrderProofs`, placing**: `TypeCorrect`, `ChargesArePending`, `OneChargePerKey`. Per request, `RequestOf` relates what was
debited, refunded and recorded at each program counter, whether or not the database has failed it (`broken`); `KeysOK` says
that as long as no key ran out and no request broke after its debit, at most one request that may still have charged holds a
key. The counting of items is by cardinality of intervals, so batches of any length are
covered.

**`OrderProofs`, refunds**: `RefundTypeCorrect`, `OneRefundPerOrder`, `CanceledIsPaidBack`. A credit is prepared only for a row
that is held and was read unrefunded (`Refunding`); a session's copy of a status is one the provider has given (`Knows`), and
final statuses stay final; the row and its credit are committed together (`Booked`); one session holds a row (`HeldByOne`).
`CreditsAreExact`: an open transaction of a session that started without the user carries the balance that stands plus the
credits it prepared (`Carries`), because only one session holds the user's row (`UserByOne`) and a row not yet refunded
counts nothing.

**`WithdrawProofs`**: `WithdrawalsAreSafe` (`TypeOK`, `MailedAmount`, `CodeReusedOnlyInRace`, `Conserved`) and
`DecisionsAreFinal`. An entry of Redis, and every copy a request has read of one, says what was mailed. A code nobody raced
for has one request that may use it, and once it is used it is neither in Redis nor with a request that may compare it or
write it back. One owner holds a pending row, so a decision is made once. Whoever is about to write a balance has read the
one that stands unless another transaction crossed it.

**`AccessProofs`, signing in**: `SigningInIsGuarded` (`TypeOK`, `LockedWhenDue`), for any number of flows and tiers.
`LockedWhenDue` speaks of `since`, the failures counted since the last sign-in succeeded, which a late reset does not touch:
if they reached a tier, there is a lock, unless a reset ran after failures that came later than its sign-in (`overtook`) or
the database failed (`hiccup`). A failure between its count and its lock remembers a count that reached a tier (`AttDue`), so
the lock it writes lasts; one that finds a lock has found one that is not over. The counters are bounded because each sign-in
that may still fail or succeed was started by a visit of its own (`Counted`, a cardinality).

**`AccessProofs`, connecting an account**: `LoginsAreSafe` (`LoginsSafe`), for any number of accounts, requests, polls and
pending logins and any limit. `LoginInv` adds to the five properties what a request looks like at each of its points
(`CallsShaped`; a login whose answer was lost, or came to a page that had been left, is in `stray`); that the phone tab waits for one request at a time, whose login is the one on screen unless the phone was
changed (`FlowShaped`), without which an answer could revive a login that was left; that who has counted the accounts still
has room, or two requests overlapped between counting and adding (`CountHolds`); and that a status a poll brings back, or the
page shows, is one its QR code has reached and not left again (`QrShaped`).

**`ChatPaneProofs`**: `PaneIsSafe` (`PaneSafe`), for any history, page size, number of requests, texts and clicks. Every id on
the screen, in a page, an event or an answer is a stored message (`Existing`); a text not in `slip` travels with one request
of this pane and, once stored, is held by nobody but that request (`Flow`: hence `SentOnce`); a page that may still reach the
screen lacks the deletions confirmed so far, and what an event or an answer appended since is in `late` (`Fresh`: hence
`DeletedOffScreen`, for every message on the screen). `ShownOnce` speaks of own messages too: a page in ascending order repeats
no id, appending an event, prepending and filtering keep that, and an answer appended without a look at the list marks what
it repeats (`twin`).

**`CheckoutProofs`**: `CheckoutIsSafe` (`CheckoutSafe`), for any number of requests, invoices, clicks and faults. The
invariant's core is `Told`: for every query outside `off`, either the handler of an answered request still owes its
invalidation, or nothing outdated is on its way to the entry and what rests there is true, or stale and not shown. `Counted`
bounds the orders: each is placed, being sent, or waits for an open invoice, and came from a click of its own (a sum of
cardinalities that one step moves from one part to another).

**`JobsProofs`**: `JobsAreSafe` (`JobsSafe`) and `OverStays` (`OverIsOver`), for any number of jobs, list entries, requests,
clicks and faults. What a handler has read of a job still holds when it writes, unless another wrote in between and the
request is `late` (`JobsOf`, `Moves`); a write of a late request, and a task's write over a status that says that the job is
over, make the job a stray, and apart from strays a job becomes active only if none was (`Grows`, `Counted`), so one runs at a
time (`OneRuns`). A task that is about to write that it runs has not found its job stopped or complete, unless it is an
auto-leave (`WorkOk`). The page's memory of an auto-join is dropped only for a row that is over or gone, and a row that is
known as over belongs to a job that is (`GoesOn`, `Unheard`), or to a stray; no job changes its kind. The lists name jobs of
their kind (`ListsFit`), so a button acts on one of them. What lists show rests on `Told`, as in `CheckoutProofs`. `OverStays`
is a step property on top of that invariant: each action that writes a status is one of the ways that `Revived` names, or
writes one that is over.

Sums of amounts (`Refunded`, `NotRejected`) are cardinalities of sets of units, the pairs of an item and one of its
units: that needs no recursive definition, and what one step adds or removes follows from the cardinality of a disjoint union.

Only model-checked: all liveness (`FinishNoticed` of `Jobs` too), since fairness and `ENABLED` are out of the prover's reach;
`Reconciled`, whose exceptions depend on the order of all loads and commits so far;
the safety of the pages whose invariants are not yet strengthened to inductive ones: `AccountsSafe`, `PagesTrue`,
`ConsoleTrue` and the step properties `AccountsStep` and `ConsoleSteps`; and `ListSafe`, whose list is built by sorting a set
with an operator that the provers cannot look into.

## 7. What the models show

What holds: withdrawals are debited once and refunded exactly when rejected; money is credited only for a paid or
owner-approved invoice, and an approved invoice gave something; a purchase moves exactly the listing's price, in one step as
seen from outside; an account changes hands only out of its owner's listing or by a transfer; purchases among themselves
never wait in a ring, and rings with settlements are resolved; an order request that ends, and was neither killed nor failed
by the database after its debit, has charged exactly the rows it left `Pending`; a key never stays `PROCESSING`; an order is
refunded at most once, a `Canceled` row has been refunded in full, and what is due is refunded in the end. The pages show what
the server has once they are quiet, but for the overlaps listed here.

Defects met while modelling. `linked_destination` shows one; the others are exemptions a property names, or lie outside the
models.

1. Two overlapping webhook deliveries credit an invoice twice: the re-check under the lock reads the copy of the unlocked
   pre-read (`api/wallet/webhooks.py:105,111`; the comment at `:95` promises the opposite), and one may give a marketplace invoice's
   buyer the account or the money again after a status check or the owner has settled it.
2. A balance loaded before the lock is written under it, so ledger and balance drift apart (`services/ledger_service.py:155`): a status check, an owner's settlement, a withdrawal or
   a marketplace settlement may so undo a credit committed in between, a webhook's too.
3. A listing cancelled and renewed at a higher price pays its seller more than an older invoice collected
   (`wallet_service.py:266` against `marketplace_service.py:503`), and a late settlement can sell an account to the user who
   listed it.
4. A process that is killed, or a database that fails, after the debit is committed charges the user for nothing
   (`services/order_service.py:305`). A failure is worse than a kill: its handler deletes the key at once
   (`api/orders.py:228-234,341-347`), so a retry is charged again. A key that expires during a slow provider call lets a retry
   be charged again as well (`api/orders.py:165`; `BUSSINESS_LOGIC.md:252,256`). `DoubleChargeNeedsGap` says there is only one
   other way: a key deleted between another request's `SET NX` and `GET`.
5. A stale answer written between reading and locking a partial order changes its refund (`order_service.py:782`); the user's
   own refresh may credit a copy of the balance loaded before the lock; two refreshes may lose every deadlock in turn
   (`order_service.py:793`).
6. With more due orders than a round takes, an unordered query may never reach some of them (`admin_smm_service.py:603`).
7. A process that dies after a purchase commits and before `attach_and_reconnect` leaves the account bought and unconnected
   (`api/marketplace.py:147`); a provider's lost answer refunds an order it will deliver (`smm_service.py:71`).
8. Two failed sign-ins in flight may shorten a lock (`lib/brute-force.ts:118,128`); the reset of a successful one is not
   awaited and may erase failures, and a lock, that came later (`app/api/auth/[...all]/route.ts:147`). A request for a login
   code whose answer is lost, or comes after the tab was left, leaves a login that nobody cancels
   (`components/accounts/telegram-login-flow.tsx:96`).
9. A voice note cancelled while it is encoded is posted (`MessagePane.tsx:314`); a chat link never opens its chat and an
   answer that arrives after switching accounts refreshes the new account's list (`ChatsContent.tsx:127,275`).
10. The default bank account is never preselected (`wallet/page.tsx:557`), and after deleting the default the browser and the
    server disagree on the next one (`bank-account-store.ts:290`).
11. An auto-join started before the page was left, and answered after it was opened again with an older job attached, is
    forgotten when the older row turns out to be over or gone (`groups-channels/auto-join/page.tsx:344-357`).
12. Two visits that each ask for a login-e-mail code leave the page naming one address while the code went to the other
    (`components/accounts/account-settings-page.tsx:1286`); on the administrators' pages a save or a switch of an earlier visit
    that is served after the newer one wins.
13. The code for a withdrawal pays to any destination: the comment at `api/wallet/withdrawals.py:81` links it to amount and
    destination, the comparison (`:177-184`) to the amount alone. `linked_destination` shows a code mailed for one destination
    that pays another, confirmed in the dialog of a second tab. `MailedAmount` therefore promises the amount only.

The code does not prevent the following either, and the properties excuse them; what the properties say is that there is no
other case.

* A transfer that overtakes a listing leaves it with a seller who no longer owns the account (`account_service.py:1541`).
* A sent message whose event or page overtakes the answer is on the screen twice until the newest page is merged
  (`MessagePane.tsx:522`); a message appended by its event or answer and then deleted stays on the screen (`:434`); a text whose
  answer is lost or late is sent again (`:555`). `ShownOnce` and `DeletedOffScreen` hold for all other messages, own or not.
* A refetch overtaken by an older answer, or dropped, leaves a page on what it knew before (`hooks/use-marketplace.ts:193`; `off`).
* Two jobs share an account when both requests looked before either wrote (`utils/account_ownership.py:120`), or when a job comes
  back after its end: by an old pause or resume, by a task that began before the end, wrote over a failure or is an
  auto-leave's, which does not look (`auto_leave_service.py:635`), or by a broadcast's task that finds no account
  (`broadcast_service.py:1407-1419`). Such jobs are strays. An old edit of a list undoes a newer one of another tab (`crossed`).
* The profile form, filled before the account has loaded, sends empty fields back (`account-settings-page.tsx:235`; `seen`).
* A late answer to an old search shows the wrong user's card above the address that the accounts go to
  (`transfer-accounts-dialog.tsx:134`); old suggestions stay clickable meanwhile, and a click shows the user it names (`slip`).
  A member clicked twice at once, or a click that fails, leaves a tick wrong.
* Done pressed twice takes new backup codes off the screen (`settings/page.tsx:411`; `codes`). Loads that cross a change leave
  keys, bank accounts, tickets and the desk on what was there before; a conversation left while an answer is due mixes two;
  a ticket opened while another is saved takes over its form (`SelfService`'s other excuses).
* An answer about a balance shows another user's details (`admin/users/page.tsx:182`; `detail`); a table whose last row goes
  stays on a page that no longer exists (`:676`; `shrunk`); a switch pressed on a row that is out of date does the opposite of
  what it says (`admin/auto-replies/page.tsx:403`; `toggle`); a price changed by others or typed on during its save is lost
  (`draft`); a reveal that is answered after its dialog was closed shows its secrets in the next one (`reveal`).

## 8. Not modelled

`PROJECT.json` gives each reason. Redeem codes and subscriptions, the worker queue's shards and control channel, the ownership lease, the command bus, the
session pool and real-time events on the backend have state of their own and are left out for size; where another component
depends on them they appear as a lost call, a fault or a late event. Gateways, Telegram and the SMM provider are external and
answer anything. Rate limits and pacing are wall-clock time. Token formats, media and contact wrappers, the recording of
analytics, the bot front end, translations, layout and migrations keep no state a property here is about.

## 9. Plan

1. The inductive invariants of `Accounts`, `SelfService` and `AdminConsole`, each along the argument of `CheckoutProofs` and
   `JobsProofs`: who still owes a refresh, and what is on its way to the page.
2. An abstract withdrawal (requested, then approved or refunded once) that `WalletSettlement` implements.
