------------------------------ MODULE ChatPane ------------------------------
(***************************************************************************)
(* One open chat of the web client: components/chat/MessagePane.tsx with   *)
(* its bubbles, modals and emoji picker, the draft store lib/drafts.ts and *)
(* the React Query cache behind it.  Telegram answers requests, sends an   *)
(* event for every new message and may lose either.  Messages are numbered *)
(* in the order in which Telegram stores them; texts in the order in which *)
(* the user writes them, 0 being an empty composer.                        *)
(***************************************************************************)
EXTENDS Integers, Sequences, SequencesExt, FiniteSets, FiniteSetsExt

CONSTANTS
  Slots,      \* requests that may be in flight at the same time
  PageSize,   \* messages of one page (50)
  JumpBack,   \* how far before a message scrollToMessage fetches (5)
  MaxId,      \* bound on messages
  MaxText,    \* bound on texts the user writes
  MaxClicks   \* bound on what the user does

ASSUME SizesAssumption ==
  /\ PageSize \in Nat \ {0} /\ JumpBack \in Nat /\ MaxId \in Nat
  /\ PageSize < MaxId    \* the history is one message longer than a page
  /\ MaxText \in Nat /\ MaxClicks \in Nat

VARIABLES
  srv,      \* the texts of the chat at Telegram, 0 for other content
  gone,     \* messages deleted since
  sched,    \* texts in Telegram's schedule
  events,   \* events on their way to the browser
  cache,    \* ["messages", account, chat, offset]: a page, or NoPage
  fetch,    \* per offset: idle, asked, or the page on its way back
  queue,    \* ["scheduled-messages", ...] as the pane shows it
  pane,     \* the mounted MessagePane; "late" are the messages an event or an
            \* answer has appended since the newest page was merged, "twin" those
            \* whose answer came when they were already on the screen
  draft,    \* useDraftStore's entry for this chat
  texts,    \* texts written so far
  req,      \* mutations in flight
  known,    \* deletions that no page on its way still contains
  clicks,
  slip      \* texts whose answer was lost, or came to a pane no longer there,
            \* or that were also given to the schedule

vars == <<srv, gone, sched, events, cache, fetch, queue, pane, draft, texts, req, known, clicks, slip>>

Ids == 1..MaxId
Offsets == 0..MaxId
Texts == 0..MaxText
NoPage == [ids |-> {0}, more |-> FALSE]
Kinds == {"send", "post", "voice", "delete", "batch", "forward", "vote", "schedule", "unschedule"}
Ask(kind, ids, t, mine) == [kind |-> kind, st |-> "asked", ids |-> ids, text |-> t, mine |-> mine]
Free == Ask("free", {}, 0, FALSE)
Closed == [open |-> FALSE, shown |-> <<>>, offset |-> 0, more |-> FALSE, text |-> 0,
           rec |-> "off", sel |-> FALSE, picked |-> {}, late |-> {}, twin |-> {}]

Pages == [ids: SUBSET Offsets, more: BOOLEAN]

TypeOK ==
  /\ srv \in Seq(Texts) /\ gone \subseteq DOMAIN srv /\ known \subseteq gone
  /\ sched \subseteq Texts /\ events \in Seq(Ids) /\ queue \subseteq Texts
  /\ cache \in [Offsets -> Pages]
  /\ \A o \in Offsets : fetch[o].st \in {"idle", "failed", "asked", "served"} /\ fetch[o].page \in Pages
  /\ pane.open \in BOOLEAN /\ pane.shown \in Seq(Ids) /\ pane.offset \in Offsets
  /\ pane.text \in Texts /\ pane.rec \in {"off", "on", "stopping"}
  /\ pane.picked \cup pane.late \cup pane.twin \subseteq Ids
  /\ draft \in Texts /\ texts \in Texts /\ slip \subseteq Texts /\ clicks \in 0..MaxClicks
  /\ \A s \in Slots : /\ req[s].kind \in Kinds \cup {"free"}
                      /\ req[s].st \in {"asked", "ok", "lost"}

Init ==
  /\ srv = [i \in 1..(PageSize + 1) |-> 0] /\ gone = {} /\ known = {}
  /\ sched = {} /\ events = <<>> /\ queue = {}
  /\ cache = [o \in Offsets |-> NoPage]
  /\ fetch = [o \in Offsets |-> [st |-> "idle", page |-> NoPage]]
  /\ pane = Closed /\ draft = 0 /\ texts = 0
  /\ req = [s \in Slots |-> Free] /\ slip = {} /\ clicks = 0

-----------------------------------------------------------------------------
(* The message list *)

Idle(f, o) == f[o].st \in {"idle", "failed"}
Alive == DOMAIN srv \ gone

(* get_messages: the newest PageSize messages before the offset. *)
Page(o) ==
  LET older == {i \in Alive : o = 0 \/ i < o}
      rank(i) == Cardinality({j \in older : j > i})
  IN [ids |-> {i \in older : rank(i) < PageSize}, more |-> Cardinality(older) > PageSize]

(* The ids of a page, oldest first: the k-th has k - 1 below it. *)
Ascending(S) ==
  [k \in 1..Cardinality(S) |-> CHOOSE i \in S : Cardinality({j \in S : j < i}) = k - 1]

(* The effect that merges messagesData: page 0 replaces the list, another *)
(* page puts what is new in front of it.                                  *)
Merged(p, o, pg) ==
  [p EXCEPT !.more = pg.more,
            !.shown = IF o = 0 THEN Ascending(pg.ids)
                      ELSE Ascending(pg.ids \ ToSet(p.shown)) \o p.shown,
            !.late = IF o = 0 THEN {} ELSE @, !.twin = IF o = 0 THEN {} ELSE @]

(* A query's key becomes current: the cached page is merged at once and   *)
(* refetched, since staleTime is 0.                                       *)
Looked(p, o) == IF cache[o] = NoPage THEN [p EXCEPT !.offset = o]
                ELSE Merged([p EXCEPT !.offset = o], o, cache[o])

Asked(f, o) == IF Idle(f, o) THEN [f EXCEPT ![o].st = "asked"] ELSE f

(* invalidateQueries(["messages", account, chat]): the query on screen is *)
(* fetched again; a fetch under way is started over unless it is the one  *)
(* that brings the first data.                                            *)
Invalidated(f, p) ==
  IF ~p.open \/ (~Idle(f, p.offset) /\ cache[p.offset] = NoPage) THEN f
  ELSE [f EXCEPT ![p.offset] = [st |-> "asked", page |-> NoPage]]

FetchServe(o) ==
  /\ fetch[o].st = "asked"
  /\ fetch' = [fetch EXCEPT ![o] = [st |-> "served", page |-> Page(o)]]
  /\ UNCHANGED <<srv, gone, known, sched, events, cache, queue, pane, draft, texts, req, slip>>

FetchFails(o) ==
  /\ fetch[o].st = "asked"
  /\ fetch' = [fetch EXCEPT ![o].st = "failed"]
  /\ UNCHANGED <<srv, gone, known, sched, events, cache, queue, pane, draft, texts, req, slip>>

(* Data equal to what is cached keeps its identity: no effect runs. *)
FetchDeliver(o) ==
  /\ fetch[o].st = "served"
  /\ cache' = [cache EXCEPT ![o] = fetch[o].page]
  /\ fetch' = [fetch EXCEPT ![o] = [st |-> "idle", page |-> NoPage]]
  /\ pane' = IF pane.open /\ pane.offset = o /\ fetch[o].page # cache[o]
             THEN Merged(pane, o, fetch[o].page) ELSE pane
  /\ UNCHANGED <<srv, gone, known, sched, events, queue, draft, texts, req, slip>>

(* The window gets the focus back. *)
Focus ==
  /\ pane.open
  /\ fetch' = Asked(fetch, pane.offset)
  /\ UNCHANGED <<srv, gone, known, sched, events, cache, queue, pane, draft, texts, req, slip>>

HandleLoadOlder ==
  /\ pane.open /\ pane.more /\ pane.shown # <<>>
  /\ Idle(fetch, pane.offset)
  /\ pane.shown[1] # pane.offset
  /\ pane' = Looked(pane, pane.shown[1])
  /\ fetch' = Asked(fetch, pane.shown[1])
  /\ UNCHANGED <<srv, gone, known, sched, events, cache, queue, draft, texts, req, slip>>

ScrollTarget(i) == Max({0, i - JumpBack})

(* A pinned message or a search result is clicked. *)
ScrollToMessage(i) ==
  /\ pane.open /\ i \in Alive /\ i \notin ToSet(pane.shown)
  /\ ScrollTarget(i) # pane.offset
  /\ pane' = Looked(pane, ScrollTarget(i))
  /\ fetch' = Asked(fetch, ScrollTarget(i))
  /\ UNCHANGED <<srv, gone, known, sched, events, cache, queue, draft, texts, req, slip>>

(* Telegram stores a message; its event is sent if the socket is up. *)
Stored(t) ==
  /\ Len(srv) < MaxId
  /\ srv' = Append(srv, t)
  /\ events' \in {events, Append(events, Len(srv'))}

Incoming ==
  /\ Stored(0)
  /\ UNCHANGED <<gone, known, sched, cache, fetch, queue, pane, draft, texts, req, slip>>

(* handleRealtimeEventInPane: new_message and outgoing_message. *)
EventShown(p, i) ==
  IF i \in ToSet(p.shown) THEN p ELSE [p EXCEPT !.shown = Append(@, i), !.late = @ \cup {i}]

DeliverEvent ==
  /\ events # <<>>
  /\ events' = Tail(events)
  /\ pane' = IF pane.open THEN EventShown(pane, Head(events)) ELSE pane
  /\ UNCHANGED <<srv, gone, known, sched, cache, fetch, queue, draft, texts, req, slip>>

-----------------------------------------------------------------------------
(* Opening and leaving; the composer *)

(* The pane is keyed by account and chat: it is mounted anew every time. *)
Open ==
  /\ ~pane.open
  /\ pane' = Looked([Closed EXCEPT !.open = TRUE, !.text = draft, !.rec = pane.rec], 0)
  /\ fetch' = Asked(fetch, 0)
  /\ queue' = sched
  /\ UNCHANGED <<srv, gone, known, sched, events, cache, draft, texts, req, slip>>

(* Back, another chat, another page: the recorder is stopped, and the     *)
(* requests under way no longer belong to the pane on screen.             *)
Leave ==
  /\ pane.open
  /\ pane' = [Closed EXCEPT !.rec = IF pane.rec = "on" THEN "stopping" ELSE pane.rec]
  /\ req' = [s \in Slots |-> [req[s] EXCEPT !.mine = FALSE]]
  /\ slip' = slip \cup {req[s].text : s \in {z \in Slots : req[z].kind = "send"}}
  /\ UNCHANGED <<srv, gone, known, sched, events, cache, fetch, queue, draft, texts>>

Composing == pane.open /\ ~pane.sel /\ pane.rec = "off"
Written == texts < MaxText /\ texts' = texts + 1

(* The text area, or a click on an emoji: the draft follows. *)
HandleInputChange ==
  /\ Composing
  /\ Written
  /\ pane' = [pane EXCEPT !.text = texts'] /\ draft' = texts'
  /\ UNCHANGED <<srv, gone, known, sched, events, cache, fetch, queue, req, slip>>

(* A suggestion changes the composer and not the draft. *)
HandleSelectSuggestion ==
  /\ Composing /\ pane.text # 0
  /\ Written
  /\ pane' = [pane EXCEPT !.text = texts']
  /\ UNCHANGED <<srv, gone, known, sched, events, cache, fetch, queue, draft, req, slip>>

Request(s, kind, ids, t) ==
  /\ req[s] = Free
  /\ req' = [req EXCEPT ![s] = Ask(kind, ids, t, TRUE)]

(* Mutant: the button does not look whether a message is being sent. *)
SendEnabledAlways == pane.text # 0

(* sendMutation.isPending keeps the button and the Enter key from sending. *)
SendEnabled ==
  pane.text # 0 /\ ~\E s \in Slots : req[s].kind = "send" /\ req[s].mine

HandleSend(s) ==
  /\ Composing /\ SendEnabled
  /\ Request(s, "send", {}, pane.text)
  /\ UNCHANGED <<srv, gone, known, sched, events, cache, fetch, queue, pane, draft, texts, slip>>

-----------------------------------------------------------------------------
(* Voice notes *)

StartRecording ==
  /\ Composing /\ pane.text = 0
  /\ pane' = [pane EXCEPT !.rec = "on"]
  /\ UNCHANGED <<srv, gone, known, sched, events, cache, fetch, queue, draft, texts, req, slip>>

(* Cancelling drops the chunks so far, then the recorder is stopped as by *)
(* the send button; what it does at its stop is the same for both.        *)
StopRecording ==
  /\ pane.open /\ pane.rec = "on"
  /\ pane' = [pane EXCEPT !.rec = "stopping"]
  /\ UNCHANGED <<srv, gone, known, sched, events, cache, fetch, queue, draft, texts, req, slip>>

(* MediaRecorder delivers its data when it stops and reports the stop     *)
(* afterwards: onstop posts what ondataavailable has just appended.       *)
OnStop(s) ==
  /\ pane.rec = "stopping"
  /\ req[s] = Free
  /\ req' = [req EXCEPT ![s] = Ask("voice", {}, 0, pane.open)]
  /\ pane' = [pane EXCEPT !.rec = "off"]
  /\ UNCHANGED <<srv, gone, known, sched, events, cache, fetch, queue, draft, texts, slip>>

-----------------------------------------------------------------------------
(* Context menu, selection, modals *)

(* The context menu of a bubble. *)
MenuSelect(i) ==
  /\ pane.open /\ ~pane.sel /\ i \in ToSet(pane.shown)
  /\ pane' = [pane EXCEPT !.sel = TRUE, !.picked = {i}]
  /\ UNCHANGED <<srv, gone, known, sched, events, cache, fetch, queue, draft, texts, req, slip>>

MenuDelete(s, i) ==
  /\ pane.open /\ ~pane.sel /\ i \in ToSet(pane.shown)
  /\ Request(s, "delete", {i}, 0)
  /\ UNCHANGED <<srv, gone, known, sched, events, cache, fetch, queue, pane, draft, texts, slip>>

ToggleMessage(i) ==
  /\ pane.sel /\ i \in ToSet(pane.shown)
  /\ pane' = [pane EXCEPT !.picked = SymDiff(@, {i})]
  /\ UNCHANGED <<srv, gone, known, sched, events, cache, fetch, queue, draft, texts, req, slip>>

CancelSelection ==
  /\ pane.sel
  /\ pane' = [pane EXCEPT !.sel = FALSE, !.picked = {}]
  /\ UNCHANGED <<srv, gone, known, sched, events, cache, fetch, queue, draft, texts, req, slip>>

DeleteSelected(s) ==
  /\ pane.sel /\ pane.picked # {}
  /\ Request(s, "batch", pane.picked, 0)
  /\ UNCHANGED <<srv, gone, known, sched, events, cache, fetch, queue, pane, draft, texts, slip>>

ForwardTo(s) ==
  /\ pane.sel /\ pane.picked # {}
  /\ Request(s, "forward", pane.picked, 0)
  /\ UNCHANGED <<srv, gone, known, sched, events, cache, fetch, queue, pane, draft, texts, slip>>

(* A poll is complete and none is being sent. *)
SendPoll(s) ==
  /\ Composing /\ ~\E z \in Slots : req[z].kind = "post" /\ req[z].mine
  /\ Request(s, "post", {}, 0)
  /\ UNCHANGED <<srv, gone, known, sched, events, cache, fetch, queue, pane, draft, texts, slip>>

SendGif(s) ==
  /\ Composing
  /\ Request(s, "post", {}, 0)
  /\ UNCHANGED <<srv, gone, known, sched, events, cache, fetch, queue, pane, draft, texts, slip>>

SendSticker(s) ==
  /\ Composing
  /\ Request(s, "post", {}, 0)
  /\ UNCHANGED <<srv, gone, known, sched, events, cache, fetch, queue, pane, draft, texts, slip>>

Vote(s) ==
  /\ pane.open /\ pane.shown # <<>>
  /\ Request(s, "vote", {}, 0)
  /\ UNCHANGED <<srv, gone, known, sched, events, cache, fetch, queue, pane, draft, texts, slip>>

ScheduleText(s) ==
  /\ Composing /\ pane.text # 0 /\ ~\E z \in Slots : req[z].kind = "schedule" /\ req[z].mine
  /\ Request(s, "schedule", {}, pane.text)
  /\ slip' = slip \cup {pane.text}
  /\ UNCHANGED <<srv, gone, known, sched, events, cache, fetch, queue, pane, draft, texts>>

DeleteScheduled(s, t) ==
  /\ Composing /\ t \in queue
  /\ Request(s, "unschedule", {}, t)
  /\ UNCHANGED <<srv, gone, known, sched, events, cache, fetch, queue, pane, draft, texts, slip>>

(* Send Now: the text is sent and taken from the schedule, both at once. *)
SendNow(s, z, t) ==
  /\ Composing /\ t \in queue /\ s # z
  /\ req[s] = Free /\ req[z] = Free
  /\ req' = [req EXCEPT ![s] = Ask("send", {}, t, TRUE), ![z] = Ask("unschedule", {}, t, TRUE)]
  /\ UNCHANGED <<srv, gone, known, sched, events, cache, fetch, queue, pane, draft, texts, slip>>

(* Telegram executes the schedule. *)
ScheduleDue(t) ==
  /\ t \in sched
  /\ Stored(t) /\ sched' = sched \ {t}
  /\ UNCHANGED <<gone, known, cache, fetch, queue, pane, draft, texts, req, slip>>

-----------------------------------------------------------------------------
(* The backend serves a mutation; it may refuse it, and its answer may be *)
(* lost, which is an error to the client.                                  *)

Serve(s) ==
  /\ req[s].kind # "free" /\ req[s].st = "asked"
  /\ \E st \in {"ok", "lost"} :
       req' = [req EXCEPT ![s].st = st,
                          ![s].ids = IF req[s].kind = "send" THEN {Len(srv) + 1} ELSE @]
  /\ CASE req[s].kind \in {"send", "post", "voice"} ->
            Stored(req[s].text) /\ UNCHANGED <<gone, sched>>
       [] req[s].kind \in {"delete", "batch"} ->
            gone' = gone \cup req[s].ids /\ UNCHANGED <<srv, sched, events>>
       [] req[s].kind = "schedule" ->
            sched' = sched \cup {req[s].text} /\ UNCHANGED <<srv, gone, events>>
       [] req[s].kind = "unschedule" ->
            sched' = sched \ {req[s].text} /\ UNCHANGED <<srv, gone, events>>
       [] OTHER -> UNCHANGED <<srv, gone, sched, events>>
  /\ UNCHANGED <<known, cache, fetch, queue, pane, draft, texts, slip>>

Done(s) == req' = [req EXCEPT ![s] = Free]

(* sendMutation.onSuccess: the message is appended, on the screen already *)
(* or not; composer and draft are emptied, whatever they hold by now.     *)
SentOk(s) ==
  /\ req[s].kind = "send" /\ req[s].st = "ok"
  /\ pane' = IF req[s].mine
             THEN [pane EXCEPT !.text = 0, !.shown = @ \o SetToSeq(req[s].ids),
                               !.late = @ \cup req[s].ids,
                               !.twin = @ \cup (req[s].ids \cap ToSet(pane.shown))]
             ELSE pane
  /\ draft' = 0
  /\ Done(s)
  /\ UNCHANGED <<srv, gone, known, sched, events, cache, fetch, queue, texts, slip>>

RefreshedAfter(s) == Invalidated(fetch, pane)

(* What onSuccess does to the pane that sent the request. *)
Settled(p, kind) ==
  CASE kind = "batch" -> [p EXCEPT !.picked = {}]
    [] kind = "forward" -> [p EXCEPT !.sel = FALSE, !.picked = {}]
    [] OTHER -> p

(* onSuccess of every other mutation that changes messages. *)
ChangedOk(s) ==
  /\ req[s].kind \in {"post", "voice", "delete", "batch", "forward", "vote"} /\ req[s].st = "ok"
  /\ pane' = IF req[s].mine THEN Settled(pane, req[s].kind) ELSE pane
  /\ fetch' = RefreshedAfter(s)
  /\ known' = IF req[s].kind \in {"delete", "batch"} 
                 /\ \A o \in Offsets : fetch'[o].st # "served"
              THEN known \cup req[s].ids ELSE known
  /\ Done(s)
  /\ UNCHANGED <<srv, gone, sched, events, cache, queue, draft, texts, slip>>

(* The schedule is fetched again; scheduling also empties the composer. *)
ScheduleOk(s) ==
  /\ req[s].kind \in {"schedule", "unschedule"} /\ req[s].st = "ok"
  /\ queue' = IF pane.open THEN sched ELSE queue
  /\ IF req[s].kind = "schedule"
     THEN /\ draft' = 0
          /\ pane' = IF req[s].mine THEN [pane EXCEPT !.text = 0] ELSE pane
     ELSE UNCHANGED <<draft, pane>>
  /\ Done(s)
  /\ UNCHANGED <<srv, gone, known, sched, events, cache, fetch, texts, slip>>

(* An error: composer and selection stay as they are. *)
Refused(s) ==
  /\ req[s].kind # "free" /\ req[s].st \in {"asked", "lost"}
  /\ slip' = IF req[s].st = "lost" THEN slip \cup {req[s].text} ELSE slip
  /\ Done(s)
  /\ UNCHANGED <<srv, gone, known, sched, events, cache, fetch, queue, pane, draft, texts>>

-----------------------------------------------------------------------------
User ==
  \/ Open \/ Leave \/ Focus \/ HandleLoadOlder
  \/ \E i \in Ids : ScrollToMessage(i) \/ MenuSelect(i) \/ ToggleMessage(i)
  \/ HandleInputChange \/ HandleSelectSuggestion
  \/ StartRecording \/ StopRecording
  \/ CancelSelection
  \/ \E s \in Slots : \/ HandleSend(s) \/ (\E i \in Ids : MenuDelete(s, i)) \/ DeleteSelected(s) \/ ForwardTo(s)
                      \/ SendPoll(s) \/ SendSticker(s) \/ SendGif(s) \/ Vote(s) \/ ScheduleText(s)
                      \/ \E t \in Texts \ {0} : DeleteScheduled(s, t)
                      \/ \E z \in Slots, t \in Texts \ {0} : SendNow(s, z, t)

System ==
  \/ Incoming \/ DeliverEvent
  \/ \E t \in Texts : ScheduleDue(t)
  \/ \E o \in Offsets : FetchServe(o) \/ FetchFails(o) \/ FetchDeliver(o)
  \/ \E s \in Slots : Serve(s) \/ OnStop(s) \/ SentOk(s) \/ ChangedOk(s) \/ ScheduleOk(s) \/ Refused(s)

Next ==
  \/ User /\ clicks < MaxClicks /\ clicks' = clicks + 1
  \/ System /\ UNCHANGED clicks

Spec == Init /\ [][Next]_vars

-----------------------------------------------------------------------------
(* Events, pages, older pages and answers overlap in every order, and a   *)
(* message, own or not, is on the screen twice only if the answer to its  *)
(* sending came after an event or a page had brought it, and only until   *)
(* the newest page is merged again.                                       *)
ShownOnce ==
  \A m, n \in DOMAIN pane.shown :
    m # n /\ pane.shown[m] = pane.shown[n] => pane.shown[m] \in pane.twin

(* A text is stored twice only if the first answer was lost, the chat was *)
(* left while the text was on its way, or it was scheduled as well.       *)
SentOnce ==
  \A m, n \in DOMAIN srv : m # n /\ srv[m] = srv[n] /\ srv[m] # 0 => srv[m] \in slip

(* Once the list is loaded and at rest, a message whose deletion was      *)
(* confirmed is still on the screen only if it was appended by its event  *)
(* or its answer after the page the list was merged from: that page is    *)
(* fetched again unchanged, and no effect removes the message.            *)
DeletedOffScreen ==
  pane.open /\ pane.offset = 0 /\ fetch[0].st = "idle" =>
    known \cap ToSet(pane.shown) \subseteq pane.late \ cache[0].ids

(* What is shown and sent twice, and what stays though it is gone, is     *)
(* exactly what an answer that came late, was lost, or found the message  *)
(* on the screen explains.                                                *)
PaneSafe == TypeOK /\ ShownOnce /\ SentOnce /\ DeletedOffScreen
=============================================================================
