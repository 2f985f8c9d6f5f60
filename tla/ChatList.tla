------------------------------ MODULE ChatList ------------------------------
(***************************************************************************)
(* The left column of the chat page: components/chat/ChatsContent.tsx with *)
(* ChatLeftColumn.tsx and AccountSwitcher.tsx.  The page shows the chats   *)
(* of one Telegram account at a time, in pages that are appended to a list *)
(* of its own (loadedChats), which real-time events change as well.  The   *)
(* names do not collide with those of ChatPane, which shows the chat that  *)
(* is opened here.                                                         *)
(***************************************************************************)
EXTENDS Integers, Sequences, SequencesExt, FiniteSets, FiniteSetsExt

CONSTANTS
  Chats,      \* chats of all accounts, numbers
  OwnerOf,    \* the account of a chat, a number
  InFolder,   \* chats of the user's one folder
  PerPage,    \* page_size (50)
  MaxPage,    \* bound on pages
  Posts,      \* mutations that may be in flight at the same time
  MaxNews,    \* bound on messages, changes made by another client and failed fetches
  MaxTaps     \* bound on these and on what the user does

ASSUME ListAssumption ==
  /\ Chats \subseteq Nat \ {0} /\ OwnerOf \in [Chats -> Nat \ {0}] /\ InFolder \subseteq Chats
  /\ {PerPage, MaxPage} \subseteq Nat \ {0} /\ {MaxNews, MaxTaps} \subseteq Nat

VARIABLES
  db,       \* telegram_chats
  bumps,    \* messages whose row is still to be written
  wire,     \* events on their way to the browser
  active,   \* accounts that are active and not for sale
  entry,    \* the queries ["chats", account, page]
  failed,   \* those whose last fetch failed: useQuery's error
  view,     \* the page
  post,     \* its mutations
  news, taps,
  sure,     \* changes of this page confirmed and not overtaken since
  astray    \* a target was kept from another account

world == <<db, bumps, wire, news>>
listVars == <<world, active, entry, failed, view, post, taps, sure, astray>>

Q == INSTANCE QueryClient

ChatAccounts == {OwnerOf[c] : c \in Chats}
Keys == ChatAccounts \X (1..MaxPage)
Flags == {"archived", "pinned", "muted"}
Row == [id: Chats, flags: SUBSET Flags, unread: Nat, last: Nat]
Singles == {"archive", "unarchive", "pin", "unpin", "mute", "unmute", "delete"}
Batches == {"batchArchive", "batchUnarchive", "batchDelete"}
NoPost == [kind |-> "none", acct |-> 0, ids |-> {}, latest |-> FALSE, to |-> 0, st |-> "asked"]
NoRow == [id |-> 0, flags |-> {}, unread |-> 0, last |-> 0]

ListTypeOK ==
  /\ \A c \in Chats : /\ db[c].on \in BOOLEAN /\ db[c].flags \subseteq Flags
                      /\ db[c].unread \in Nat /\ db[c].last \in Nat
  /\ active \subseteq ChatAccounts /\ failed \subseteq Keys
  /\ \A k \in Keys : entry[k] \in Q!EntryType(SUBSET Row)
  /\ view.acct \in ChatAccounts \cup {0} /\ view.page \in 1..MaxPage /\ view.list \in Seq(Row)
  /\ view.chat \in Chats \cup {0} /\ view.picked \subseteq Chats
  /\ view.target \in Chats \cup {0} /\ view.menu \in Row \cup {NoRow}
  /\ \A s \in Posts : post[s].kind \in Singles \cup Batches \cup {"none", "read"}
  /\ news \in 0..MaxNews /\ taps \in 0..MaxTaps /\ astray \in BOOLEAN

NewsBreaks == news < MaxNews /\ taps + news < MaxTaps /\ news' = news + 1

-----------------------------------------------------------------------------
(* The server *)

(* get_dialogs: active rows, the newest first, one page of them. *)
Dialogs(a, p) ==
  LET mine == {c \in Chats : OwnerOf[c] = a /\ db[c].on}
      rank(c) == Cardinality({d \in mine : db[d].last > db[c].last})
  IN {[id |-> c, flags |-> db[c].flags, unread |-> db[c].unread, last |-> db[c].last] :
        c \in {d \in mine : (p - 1) * PerPage <= rank(d) /\ rank(d) < p * PerPage}}

Total(a) == Cardinality({c \in Chats : OwnerOf[c] = a /\ db[c].on})

-----------------------------------------------------------------------------
(* The list *)

Loaded(v) == {v.list[i].id : i \in DOMAIN v.list}
RowsOf(S) == SetToSortSeq(S, LAMBDA x, y : x.last > y.last)

(* The effect on chatsData: page 1 replaces the list, another page adds   *)
(* the chats that the list does not hold yet.                             *)
Landed(v, rows) ==
  [v EXCEPT !.list = IF v.page = 1 THEN RowsOf(rows)
                     ELSE @ \o RowsOf({r \in rows : r.id \notin Loaded(v)})]

(* The key becomes current: cached rows land at once. *)
LookedUp(v) ==
  LET k == <<v.acct, v.page>>
  IN IF v.acct # 0 /\ entry[k].has THEN Landed(v, entry[k].data) ELSE v

Entries(v, old) ==
  IF v.acct = 0 THEN entry
  ELSE [entry EXCEPT ![<<v.acct, v.page>>] = Q!Mount(@, old)]

(* Mutant: the selection outlives the account. *)
MovedWithSelection(v, a) ==
  [v EXCEPT !.acct = a, !.page = 1, !.chat = 0]

(* The three effects that run when selectedAccount has changed. *)
Moved(v, a) ==
  [v EXCEPT !.acct = a, !.page = 1, !.chat = 0, !.picking = FALSE, !.picked = {}]

(* isLoading && page === 1, error: no row is on the screen. *)
LoadingRows(v) == ~entry[<<v.acct, v.page>>].has /\ ~Q!Idle(entry[<<v.acct, v.page>>])

Skeleton(v) == LoadingRows(v) /\ v.page = 1
RowsHidden(v) == v.acct = 0 \/ Skeleton(v) \/ <<v.acct, v.page>> \in failed

(* filteredChats, but for the search, which may hide any row. *)
Filtered(v) ==
  LET rows == ToSet(v.list)
  IN CASE v.tab = "archived" -> {r \in rows : "archived" \in r.flags}
       [] v.tab = "folder" -> {r \in rows : r.id \in InFolder}
       [] OTHER -> {r \in rows : "archived" \notin r.flags}

RowsShown(v) == IF RowsHidden(v) THEN {} ELSE Filtered(v)

-----------------------------------------------------------------------------
(* Queries *)

ListRead(k) ==
  /\ entry[k].net = "sent"
  /\ entry' = [entry EXCEPT ![k] = Q!Read(@, Dialogs(k[1], k[2]))]
  /\ UNCHANGED <<world, active, failed, view, post, taps, sure, astray>>

(* Rows equal to the cached ones keep their identity: no effect runs. *)
ListArrived(k) ==
  /\ entry[k].net = "read"
  /\ entry' = [entry EXCEPT ![k] = Q!Arrived(@)]
  /\ failed' = failed \ {k}
  /\ view' = IF <<view.acct, view.page>> = k /\ (~entry[k].has \/ entry[k].data # entry[k].got)
             THEN Landed(view, entry[k].got) ELSE view
  /\ UNCHANGED <<world, active, post, taps, sure, astray>>

ListFailed(k) ==
  /\ entry[k].net = "sent" /\ NewsBreaks
  /\ entry' = [entry EXCEPT ![k] = Q!Failed(@)]
  /\ failed' = failed \cup {k}
  /\ sure' = {x \in sure : OwnerOf[x.id] # k[1]}
  /\ UNCHANGED <<db, bumps, wire, active, view, post, taps, astray>>

(* The Retry button of the error. *)
ListRetry ==
  /\ <<view.acct, view.page>> \in failed /\ Q!Idle(entry[<<view.acct, view.page>>])
  /\ entry' = [entry EXCEPT ![<<view.acct, view.page>>] = Q!Refetch(@)]
  /\ UNCHANGED <<world, active, failed, view, post, sure, astray>>

(* invalidateQueries(["chats", account]): every page of the account is    *)
(* marked, the one on the screen is fetched again.                        *)
ListInvalidated(a) ==
  [k \in Keys |-> IF k[1] = a THEN Q!Invalidate(entry[k], k = <<view.acct, view.page>>)
                  ELSE entry[k]]

(* The sentinel below the list comes into view. *)
NextPage ==
  /\ view.acct # 0 /\ ~RowsHidden(view) /\ view.page < MaxPage
  /\ LET e == entry[<<view.acct, view.page>>]
     IN e.has /\ Cardinality(e.data) = PerPage
  /\ Cardinality(Filtered(view)) < Total(view.acct)
  /\ LET v == [view EXCEPT !.page = @ + 1]
     IN view' = LookedUp(v) /\ \E old \in BOOLEAN : entry' = Entries(v, old)
  /\ UNCHANGED <<world, active, failed, post, sure, astray>>

-----------------------------------------------------------------------------
(* Accounts *)

(* An account with a dialog or a menu open on one of its chats is left. *)
LeftBehind(a) == view.acct # a /\ (view.target # 0 \/ view.menu # NoRow)

SwitchTo(a) ==
  LET v == Moved(view, a)
  IN /\ view' = LookedUp(v)
     /\ \E old \in BOOLEAN : entry' = Entries(v, old)

(* AccountSwitcher: its list offers active accounts.  A click closes the  *)
(* context menu, and a dialog covers the switcher.                        *)
handleSelect(a) ==
  /\ a \in active /\ a # view.acct /\ view.target = 0 /\ ~view.batch
  /\ LET v == Moved([view EXCEPT !.menu = NoRow], a)
     IN view' = LookedUp(v) /\ \E old \in BOOLEAN : entry' = Entries(v, old)
  /\ UNCHANGED <<world, active, failed, post, sure, astray>>

(* The effect on accounts: one that is gone gives way to the first of the *)
(* active ones, whatever is open.                                         *)
AutoSelect ==
  /\ active # {} /\ view.acct \notin active
  /\ SwitchTo(Min(active))
  /\ astray' = (astray \/ LeftBehind(Min(active)))
  /\ UNCHANGED <<world, active, failed, post, taps, sure>>

(* The account is sold or disconnected, and useAccounts hears of it. *)
AccountGone(a) ==
  /\ a \in active /\ active # {a}
  /\ active' = active \ {a}
  /\ UNCHANGED <<world, entry, failed, view, post, sure, astray>>

-----------------------------------------------------------------------------
(* Events *)

(* _on_new_message: the event is broadcast, the row is written by a task  *)
(* of its own; the event may be lost, or another account is shown.        *)
NewMessage(c, out) ==
  /\ NewsBreaks
  /\ \E heard \in BOOLEAN :
       wire' = IF heard /\ OwnerOf[c] = view.acct
               THEN Append(wire, [type |-> "message", id |-> c, out |-> out, last |-> Max(Chats) + news'])
               ELSE wire
  /\ bumps' = bumps \cup {[id |-> c, out |-> out, last |-> Max(Chats) + news']}
  /\ UNCHANGED <<db, active, entry, failed, view, post, taps, sure, astray>>

(* _update_chat_on_new_message: the row is counted up and active again. *)
RowWritten(b) ==
  /\ b \in bumps /\ bumps' = bumps \ {b}
  /\ db' = [db EXCEPT ![b.id].on = TRUE, ![b.id].last = b.last,
                      ![b.id].unread = IF b.out THEN @ ELSE @ + 1]
  /\ sure' = {x \in sure : x.id # b.id \/ x.kind # "delete"}
  /\ UNCHANGED <<wire, news, active, entry, failed, view, post, taps, astray>>

(* Another client of the account archives the chat or takes it out. *)
ChangedElsewhere(c) ==
  /\ NewsBreaks
  /\ db' = [db EXCEPT ![c].flags = SymDiff(@, {"archived"})]
  /\ \E heard \in BOOLEAN :
       wire' = IF heard /\ OwnerOf[c] = view.acct
               THEN Append(wire, [type |-> "other", id |-> c, out |-> FALSE, last |-> 0]) ELSE wire
  /\ sure' = {x \in sure : x.id # c}
  /\ UNCHANGED <<bumps, active, entry, failed, view, post, taps, astray>>

(* handleRealtimeEvent.  A message changes the row of a chat the list     *)
(* holds and nothing else; the handlers of typing and of the online state *)
(* change what a row shows beside its name only.                          *)
MessageShown(v, e) ==
  [v EXCEPT !.list = [i \in DOMAIN @ |->
     IF @[i].id # e.id THEN @[i]
     ELSE [@[i] EXCEPT !.last = e.last,
                       !.unread = IF v.chat = e.id THEN 0 ELSE @ + (IF e.out THEN 0 ELSE 1)]]]

handleRealtimeEvent ==
  /\ wire # <<>> /\ wire' = Tail(wire)
  /\ LET e == Head(wire)
     IN CASE OwnerOf[e.id] # view.acct -> UNCHANGED <<view, entry>>
          [] OwnerOf[e.id] = view.acct /\ e.type = "message" ->
               view' = MessageShown(view, e) /\ UNCHANGED entry
          [] OTHER -> entry' = ListInvalidated(view.acct) /\ UNCHANGED view
  /\ UNCHANGED <<db, bumps, news, active, failed, post, taps, sure, astray>>

-----------------------------------------------------------------------------
(* Mutations *)

Mutate(s, kind, ids) ==
  /\ post[s] = NoPost
  /\ post' = [z \in Posts |->
       IF z = s THEN [kind |-> kind, acct |-> view.acct, ids |-> ids, latest |-> TRUE, to |-> 0, st |-> "asked"]
       ELSE IF post[z].kind = kind /\ post[z].latest
            THEN [post[z] EXCEPT !.latest = FALSE, !.to = view.acct]
            ELSE post[z]]
  /\ sure' = {x \in sure : x.id \notin ids}

(* isBusy: the seven mutations of one chat, as the hooks report them. *)
isBusy == \E s \in Posts : post[s].kind \in Singles /\ post[s].latest

Browsing == view.target = 0 /\ ~view.batch

(* archive by what the row shows *)
ArchiveKind(r) == IF "archived" \in r.flags THEN "unarchive" ELSE "archive"

(* The button on a row under the pointer. *)
handleArchiveClick(s, r) ==
  /\ Browsing /\ ~view.picking /\ r \in RowsShown(view) /\ ~isBusy
  /\ Mutate(s, ArchiveKind(r), {r.id})
  /\ view' = [view EXCEPT !.menu = NoRow]
  /\ UNCHANGED <<world, active, entry, failed, astray>>

(* The archive button of the open chat: the row is looked up in the list. *)
onArchive(s) ==
  /\ Browsing /\ view.chat # 0
  /\ \E r \in ToSet(view.list) : r.id = view.chat /\ Mutate(s, ArchiveKind(r), {r.id})
  /\ view' = [view EXCEPT !.menu = NoRow]
  /\ UNCHANGED <<world, active, entry, failed, astray>>

OpenMenu(r) ==
  /\ Browsing /\ ~view.picking /\ r \in RowsShown(view) /\ view.menu # r
  /\ view' = [view EXCEPT !.menu = r]
  /\ UNCHANGED <<world, active, entry, failed, post, sure, astray>>

(* The context menu works on the row as it was when the menu was opened,  *)
(* and is not disabled while a mutation is pending.                       *)
ContextMenu(s) ==
  /\ Browsing /\ view.menu # NoRow
  /\ \/ Mutate(s, IF "pinned" \in view.menu.flags THEN "unpin" ELSE "pin", {view.menu.id})
     \/ Mutate(s, IF "muted" \in view.menu.flags THEN "unmute" ELSE "mute", {view.menu.id})
     \/ Mutate(s, ArchiveKind(view.menu), {view.menu.id})
  /\ view' = [view EXCEPT !.menu = NoRow]
  /\ UNCHANGED <<world, active, entry, failed, astray>>

DeleteTargets ==
  (IF view.menu # NoRow THEN {view.menu.id} ELSE {})
  \cup (IF view.chat \in Loaded(view) THEN {view.chat} ELSE {})
  \cup (IF ~isBusy /\ ~view.picking THEN {r.id : r \in RowsShown(view)} ELSE {})

(* From the row, the context menu or the open chat. *)
handleDeleteClick(c) ==
  /\ Browsing /\ c \in DeleteTargets
  /\ view' = [view EXCEPT !.target = c, !.menu = NoRow]
  /\ UNCHANGED <<world, active, entry, failed, post, sure, astray>>

handleConfirmDeleteChat(s) ==
  /\ view.target # 0
  /\ Mutate(s, "delete", {view.target})
  /\ view' = [view EXCEPT !.target = 0]
  /\ UNCHANGED <<world, active, entry, failed, astray>>

(* Either dialog is dismissed: the next click on Delete sets its target. *)
DismissDialog ==
  /\ ~Browsing
  /\ view' = [view EXCEPT !.target = 0, !.batch = FALSE]
  /\ UNCHANGED <<world, active, entry, failed, post, sure, astray>>

(* The header's toggle: leaving the mode drops the selection. *)
ToggleSelection ==
  /\ Browsing /\ view.acct # 0
  /\ view' = [view EXCEPT !.picking = ~@, !.picked = IF view.picking THEN {} ELSE @, !.menu = NoRow]
  /\ UNCHANGED <<world, active, entry, failed, post, sure, astray>>

FolderTab(t) ==
  /\ Browsing /\ view.tab # t
  /\ view' = [view EXCEPT !.tab = t, !.menu = NoRow]
  /\ UNCHANGED <<world, active, entry, failed, post, sure, astray>>

RowRead(r) == [r EXCEPT !.unread = 0]

(* Opening a chat: its count is cleared in the cached page, which replaces *)
(* the list if that changes anything, and the server is told.              *)
ChatOpened(s, c) ==
  LET k == <<view.acct, view.page>>
      read == {IF r.id = c THEN RowRead(r) ELSE r : r \in entry[k].data}
      v == [view EXCEPT !.chat = c, !.menu = NoRow]
  IN /\ Mutate(s, "read", {c})
     /\ IF entry[k].has
        THEN /\ entry' = [entry EXCEPT ![k].data = read, ![k].stale = FALSE]
             /\ failed' = failed \ {k}
             /\ view' = IF read # entry[k].data THEN Landed(v, read) ELSE v
        ELSE view' = v /\ UNCHANGED <<entry, failed>>

handleSelectChat(s, c) ==
  /\ Browsing /\ \E r \in RowsShown(view) : r.id = c
  /\ IF view.picking
     THEN /\ view' = [view EXCEPT !.picked = SymDiff(@, {c}), !.menu = NoRow]
          /\ UNCHANGED <<entry, failed, post, sure>>
     ELSE ChatOpened(s, c)
  /\ UNCHANGED <<world, active, astray>>

(* Saved Messages of the menu: the first chat of the filtered list stands *)
(* in for one that is not there, and the list may not be on the screen.   *)
SavedMessages(s, c) ==
  /\ Browsing /\ view.acct # 0 /\ \E r \in Filtered(view) : r.id = c
  /\ IF view.picking
     THEN /\ view' = [view EXCEPT !.picked = SymDiff(@, {c}), !.menu = NoRow]
          /\ UNCHANGED <<entry, failed, post, sure>>
     ELSE ChatOpened(s, c)
  /\ astray' = (astray \/ OwnerOf[c] # view.acct)
  /\ UNCHANGED <<world, active>>

handleBackToList ==
  /\ Browsing /\ view.chat # 0
  /\ view' = [view EXCEPT !.chat = 0, !.menu = NoRow]
  /\ UNCHANGED <<world, active, entry, failed, post, sure, astray>>

BatchBar == Browsing /\ view.picking /\ view.picked # {} /\ ~isBusy

handleBatchArchive(s) ==
  /\ BatchBar
  /\ Mutate(s, IF view.tab = "archived" THEN "batchUnarchive" ELSE "batchArchive", view.picked)
  /\ view' = [view EXCEPT !.menu = NoRow]
  /\ UNCHANGED <<world, active, entry, failed, astray>>

handleBatchDelete ==
  /\ BatchBar
  /\ view' = [view EXCEPT !.batch = TRUE, !.menu = NoRow]
  /\ UNCHANGED <<world, active, entry, failed, post, sure, astray>>

(* The selection as it is now, which may be empty. *)
handleConfirmBatchDelete(s) ==
  /\ view.batch
  /\ Mutate(s, "batchDelete", view.picked)
  /\ view' = [view EXCEPT !.batch = FALSE]
  /\ UNCHANGED <<world, active, entry, failed, astray>>

-----------------------------------------------------------------------------
(* Answers *)

Flagged(S, kind) ==
  CASE kind \in {"archive", "batchArchive"} -> S \cup {"archived"}
    [] kind \in {"unarchive", "batchUnarchive"} -> S \ {"archived"}
    [] kind = "pin" -> S \cup {"pinned"}
    [] kind = "unpin" -> S \ {"pinned"}
    [] kind = "mute" -> S \cup {"muted"}
    [] kind = "unmute" -> S \ {"muted"}
    [] OTHER -> S

(* The server works on the rows of the account it is told. *)
PostServed(s) ==
  /\ post[s].kind # "none" /\ post[s].st = "asked"
  /\ db' = [c \in Chats |->
       IF c \notin post[s].ids \/ OwnerOf[c] # post[s].acct THEN db[c]
       ELSE [db[c] EXCEPT !.flags = Flagged(@, post[s].kind),
                          !.on = @ /\ post[s].kind \notin {"delete", "batchDelete"},
                          !.unread = IF post[s].kind = "read" THEN 0 ELSE @]]
  /\ post' = [post EXCEPT ![s].st = "ok"]
  /\ sure' = {x \in sure : x.id \notin post[s].ids}
  /\ UNCHANGED <<bumps, wire, news, active, entry, failed, view, taps, astray>>

Agrees(r, kind) ==
  CASE kind \in {"archive", "batchArchive"} -> "archived" \in r.flags
    [] kind \in {"unarchive", "batchUnarchive"} -> "archived" \notin r.flags
    [] kind = "pin" -> "pinned" \in r.flags
    [] kind = "unpin" -> "pinned" \notin r.flags
    [] kind = "mute" -> "muted" \in r.flags
    [] kind = "unmute" -> "muted" \notin r.flags
    [] OTHER -> FALSE

(* The change still stands, no answer that was read before it is still to *)
(* arrive, and no other mutation of these chats is on its way.            *)
NothingOlder(s, cache) ==
  /\ \A c \in post[s].ids : IF post[s].kind \in {"delete", "batchDelete"} THEN ~db[c].on
                            ELSE Agrees(db[c], post[s].kind)
  /\ \A k \in Keys : k[1] = post[s].acct => cache[k].net # "read"
  /\ \A z \in Posts \ {s} : post[z].ids \cap post[s].ids = {}

(* Whose lists an answer invalidates.  A pending mutation that its hook    *)
(* still observes is given the callbacks of every render: they name the   *)
(* account that is shown when the answer comes.                           *)
Invalidates(s) ==
  IF post[s].kind = "read" THEN post[s].acct
  ELSE IF post[s].latest THEN view.acct ELSE post[s].to

(* onSuccess *)
PostOk(s) ==
  /\ post[s].kind # "none" /\ post[s].st = "ok"
  /\ entry' = ListInvalidated(Invalidates(s))
  /\ view' = IF post[s].kind \in Batches THEN [view EXCEPT !.picked = {}] ELSE view
  /\ post' = [post EXCEPT ![s] = NoPost]
  /\ sure' = IF Invalidates(s) = post[s].acct /\ NothingOlder(s, entry') /\ post[s].kind \in Singles \cup Batches
             THEN sure \cup {[id |-> c, kind |-> IF post[s].kind = "batchDelete" THEN "delete" ELSE post[s].kind] :
                               c \in {d \in post[s].ids : OwnerOf[d] = post[s].acct}}
             ELSE sure
  /\ UNCHANGED <<world, active, failed, taps, astray>>

(* Refused, or the answer is lost: nobody is told. *)
PostFailed(s) ==
  /\ post[s].kind # "none"
  /\ post' = [post EXCEPT ![s] = NoPost]
  /\ UNCHANGED <<world, active, entry, failed, view, taps, sure, astray>>

-----------------------------------------------------------------------------
ListInit ==
  /\ db = [c \in Chats |-> [on |-> TRUE, flags |-> {}, unread |-> 1, last |-> c]]
  /\ bumps = {} /\ wire = <<>> /\ news = 0 /\ taps = 0
  /\ active = ChatAccounts
  /\ entry = [k \in Keys |-> Q!Unread({})]
  /\ failed = {} /\ post = [s \in Posts |-> NoPost] /\ sure = {} /\ astray = FALSE
  /\ view = [acct |-> 0, page |-> 1, list |-> <<>>, chat |-> 0, tab |-> "all", picking |-> FALSE,
             picked |-> {}, target |-> 0, batch |-> FALSE, menu |-> NoRow]

ListUser ==
  \/ NextPage \/ ListRetry
  \/ \E a \in ChatAccounts : handleSelect(a) \/ AccountGone(a)
  \/ ToggleSelection \/ DismissDialog \/ handleBackToList \/ handleBatchDelete
  \/ \E t \in {"all", "archived", "folder"} : FolderTab(t)
  \/ \E r \in RowsShown(view) : OpenMenu(r) \/ \E s \in Posts : handleArchiveClick(s, r)
  \/ \E c \in Chats : handleDeleteClick(c) \/ \E s \in Posts : handleSelectChat(s, c) \/ SavedMessages(s, c)
  \/ \E s \in Posts : \/ onArchive(s) \/ ContextMenu(s) \/ handleConfirmDeleteChat(s)
                      \/ handleBatchArchive(s) \/ handleConfirmBatchDelete(s)

ListSystem ==
  \/ \E k \in Keys : ListRead(k) \/ ListArrived(k) \/ ListFailed(k)
  \/ AutoSelect \/ handleRealtimeEvent
  \/ \E c \in Chats : ChangedElsewhere(c) \/ \E out \in BOOLEAN : NewMessage(c, out)
  \/ \E b \in bumps : RowWritten(b)
  \/ \E s \in Posts : PostServed(s) \/ PostOk(s) \/ PostFailed(s)

ListNext ==
  \/ taps + news < MaxTaps /\ taps' = taps + 1 /\ ListUser
  \/ ListSystem

-----------------------------------------------------------------------------
(* Whatever the order in which accounts are switched and pages arrive,    *)
(* the rows on the screen are chats of the account they are shown for:    *)
(* the list of the account before is covered until its own has come.      *)
RowsAreAccounts == \A r \in RowsShown(view) : OwnerOf[r.id] = view.acct

(* A chat is in the list once, although messages move chats from page to  *)
(* page between two fetches.                                              *)
RowsOnce == \A i, j \in DOMAIN view.list : i # j => view.list[i].id # view.list[j].id

(* A request names chats of the account it is sent to, unless the account *)
(* went away under an open dialog or menu, or Saved Messages picked a     *)
(* chat of the list that the skeleton covers.                             *)
ActsOnOwnChats ==
  astray \/ \A s \in Posts : \A c \in post[s].ids : OwnerOf[c] = post[s].acct

(* Once the first page is loaded and at rest, a confirmed change that     *)
(* nothing has overtaken is what the row shows; a deleted chat is gone.   *)
(* A change whose answer came after the account was left is not promised: *)
(* the lists of the account shown by then are fetched again instead.      *)
(* A list of several pages promises less: only its last page is fetched.  *)
ConfirmedIsShown ==
  view.page = 1 /\ view.acct # 0 /\ Q!Idle(entry[<<view.acct, 1>>]) =>
    \A r \in RowsShown(view), x \in sure : r.id = x.id => Agrees(r, x.kind)

(* The list shows, and acts on, the chats of its account as they are.     *)
ListSafe == ListTypeOK /\ RowsAreAccounts /\ RowsOnce /\ ActsOnOwnChats /\ ConfirmedIsShown
=============================================================================
