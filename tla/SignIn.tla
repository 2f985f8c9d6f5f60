------------------------------- MODULE SignIn -------------------------------
(***************************************************************************)
(* Signing up, in and out of the web front end, for one account and one    *)
(* browser tab:                                                            *)
(*   - app/api/auth/[...all]/route.ts and lib/brute-force.ts: the lock     *)
(*     that failed sign-ins put on the account;                            *)
(*   - lib/auth.ts: the hooks that keep the tables "user" (Better Auth)    *)
(*     and users (FastAPI) alike;                                          *)
(*   - store/auth-store.ts, lib/api.ts, middleware.ts and the pages that   *)
(*     move the tab between login, onboarding and dashboard.               *)
(* A flow is one asynchronous operation.  Its answer goes to the tab, or   *)
(* to another device, or to nobody once the page has been reloaded.        *)
(***************************************************************************)
EXTENDS Integers, Sequences, FiniteSets

CONSTANTS
  Flows,      \* asynchronous operations that may run at the same time
  Tiers,      \* LOCKOUT_TIERS: a sequence of [threshold, duration]
  MaxNow,     \* bound on the clock
  MaxVisits   \* bound on what the user starts

ASSUME BoundsAssumption == IsFiniteSet(Flows) /\ MaxNow \in Nat /\ MaxVisits \in Nat

ASSUME TiersAssumption ==
  /\ Tiers \in Seq([threshold : Nat \ {0}, duration : Nat \ {0}]) /\ Len(Tiers) > 0
  /\ \A i, j \in DOMAIN Tiers : i < j => Tiers[i].threshold < Tiers[j].threshold

VARIABLES
  now,        \* NOW()
  fails,      \* "user"."failedLoginAttempts"
  until,      \* "user"."lockedUntil", 0 for NULL
  resets,     \* resetFailedAttempts calls nobody waits for
  hiccup,     \* a statement of brute-force.ts failed and was only logged
  since,      \* history: failures counted since the last sign-in that succeeded
  overtook,   \* history: the reset of that sign-in, or of an earlier one, ran after them
  ba,         \* the row of "user": none, unverified, ok
  legacy,     \* the row of users exists
  onboarded,  \* users.onboarding_completed
  last,       \* sessions made so far
  live,       \* rows of the table session
  cookie,     \* the browser's session cookie, 0 for none
  tab,        \* the page and the auth store
  flow,       \* the flows
  visits

guard == <<fails, until, resets, hiccup, since, overtook>>
tables == <<ba, legacy, onboarded>>
sessions == <<last, live, cookie>>
vars == <<now, guard, tables, sessions, tab, flow, visits>>

Pages == {"login", "register", "twoFactor", "onboarding", "dashboard", "reload"}
Ids == 0..MaxVisits
TabType == [page: Pages, mounted: BOOLEAN, loading: BOOLEAN, auth: BOOLEAN,
            user: {"none", "new", "done", "fallback"}, token: Ids]
FlowType == [kind: {"none", "login", "totp", "register", "fetchMe", "logout", "survey"},
             pc: {"idle", "check", "forward", "count", "readLock", "setLock",
                  "before", "insert", "sync", "session", "gotSession", "me", "gotMe",
                  "signOut", "wipe", "saved"},
             tab: BOOLEAN, att: Ids, sess: Ids,
             user: {"none", "new", "done", "fallback", "denied"}]

NoFlow == [kind |-> "none", pc |-> "idle", tab |-> FALSE, att |-> 0, sess |-> 0, user |-> "none"]
NewTab(p) == [page |-> p, mounted |-> FALSE, loading |-> TRUE, auth |-> FALSE,
              user |-> "none", token |-> 0]

TypeOK ==
  /\ now \in 0..MaxNow /\ until \in Nat /\ fails \in Ids /\ resets \in Ids
  /\ hiccup \in BOOLEAN /\ ba \in {"none", "unverified", "ok"} /\ legacy \in BOOLEAN
  /\ onboarded \in BOOLEAN /\ since \in Ids /\ overtook \in BOOLEAN
  /\ last \in Ids /\ live \in SUBSET (1..last) /\ cookie \in 0..last
  /\ tab \in TabType /\ flow \in [Flows -> FlowType] /\ visits \in Ids

Init ==
  /\ now = 0 /\ fails = 0 /\ until = 0 /\ resets = 0 /\ hiccup = FALSE
  /\ ba \in {"none", "ok"} /\ legacy = (ba = "ok")
  /\ onboarded = FALSE /\ since = 0 /\ overtook = FALSE
  /\ last = 0 /\ live = {} /\ cookie = 0
  /\ tab = NewTab("login") /\ flow = [f \in Flows |-> NoFlow] /\ visits = 0

At(f, pc) == flow[f].pc = pc
To(f, pc) == flow' = [flow EXCEPT ![f].pc = pc]
End(f) == flow' = [flow EXCEPT ![f] = NoFlow]
Start(f, kind, pc, mine) ==
  /\ At(f, "idle")
  /\ flow' = [flow EXCEPT ![f] = [NoFlow EXCEPT !.kind = kind, !.pc = pc, !.tab = mine]]
Visit == visits < MaxVisits /\ visits' = visits + 1

-----------------------------------------------------------------------------
(* route.ts and brute-force.ts *)

Locked == until > now

(* A form's button is disabled while its own request runs. *)
Busy(kind) == \E g \in Flows : flow[g].tab /\ flow[g].kind = kind

LoginForm == tab.page = "login" /\ ~tab.loading /\ ~tab.auth /\ ~Busy("login")

RegisterForm == tab.page = "register" /\ ~tab.loading /\ ~tab.auth /\ ~Busy("register")

TwoFactorForm == tab.page = "twoFactor" /\ ~Busy("totp")

(* POST /sign-in/email from this tab's form, or from another device. *)
PostSignIn(f) ==
  /\ Visit
  /\ \/ LoginForm /\ Start(f, "login", "check", TRUE)
     \/ Start(f, "login", "check", FALSE)
  /\ UNCHANGED <<now, guard, tables, sessions, tab>>

(* 429 while the lock lasts; a database error lets the request through. *)
CheckLockout(f) ==
  /\ At(f, "check")
  /\ \/ Locked /\ End(f) /\ UNCHANGED hiccup
     \/ ~Locked /\ To(f, "forward") /\ UNCHANGED hiccup
     \/ hiccup' = TRUE /\ To(f, "forward")
  /\ UNCHANGED <<now, fails, until, resets, since, overtook, tables, sessions, tab, visits>>

NewSession(mine) ==
  /\ last' = last + 1
  /\ live' = live \cup {last'}
  /\ cookie' = IF mine THEN last' ELSE cookie

(* Better Auth answers: a session, a second factor, or a refusal; the     *)
(* reset of the counter is started and not awaited.                       *)
Succeeded == resets' = resets + 1 /\ since' = 0 /\ overtook' = FALSE

SignInOk(f) ==
  /\ At(f, "forward") /\ ba = "ok"
  /\ NewSession(flow[f].tab)
  /\ Succeeded
  /\ IF flow[f].tab THEN To(f, "session") ELSE End(f)
  /\ UNCHANGED <<now, fails, until, hiccup, tables, tab, visits>>

SecondFactorDue(f) ==
  /\ At(f, "forward") /\ ba = "ok"
  /\ Succeeded
  /\ tab' = IF flow[f].tab THEN [tab EXCEPT !.page = "twoFactor"] ELSE tab
  /\ End(f)
  /\ UNCHANGED <<now, fails, until, hiccup, tables, sessions, visits>>

(* A wrong password, an address that is not verified, or an exception. *)
SignInRefused(f) ==
  /\ At(f, "forward")
  /\ To(f, "count")
  /\ UNCHANGED <<now, guard, tables, sessions, tab, visits>>

(* Mutant: a lock is only due beyond its threshold. *)
LockDueLate(n) == n > Tiers[1].threshold

LockDue(n) == n >= Tiers[1].threshold

(* recordFailedAttempt: UPDATE ... RETURNING, which also forgets a lock   *)
(* that is over; an error is only logged.                                 *)
CountFailure(f) ==
  /\ At(f, "count")
  /\ \/ ba = "none" /\ End(f) /\ UNCHANGED <<fails, until, hiccup, since>>
     \/ /\ ba # "none"
        /\ fails' = fails + 1 /\ since' = since + 1
        /\ until' = IF Locked THEN until ELSE 0
        /\ IF LockDue(fails')
           THEN flow' = [flow EXCEPT ![f].pc = "readLock", ![f].att = fails']
           ELSE End(f)
        /\ UNCHANGED hiccup
     \/ hiccup' = TRUE /\ End(f) /\ UNCHANGED <<fails, until, since>>
  /\ UNCHANGED <<now, resets, overtook, tables, sessions, tab, visits>>

(* The SELECT that looks for a lock that is already there. *)
ReadLock(f) ==
  /\ At(f, "readLock")
  /\ IF Locked THEN End(f) ELSE To(f, "setLock")
  /\ UNCHANGED <<now, guard, tables, sessions, tab, visits>>

(* The last tier whose threshold the count has reached. *)
Duration(n) ==
  LET reached == {i \in DOMAIN Tiers : n >= Tiers[i].threshold}
  IN Tiers[CHOOSE i \in reached : \A j \in reached : j <= i].duration

SetLock(f) ==
  /\ At(f, "setLock")
  /\ \/ until' = now + Duration(flow[f].att) /\ UNCHANGED hiccup
     \/ hiccup' = TRUE /\ UNCHANGED until
  /\ End(f)
  /\ UNCHANGED <<now, fails, resets, since, overtook, tables, sessions, tab, visits>>

(* resetFailedAttempts, long after the answer perhaps. *)
ResetFailedAttempts ==
  /\ resets > 0
  /\ resets' = resets - 1
  /\ \/ fails' = 0 /\ until' = 0 /\ overtook' = (overtook \/ since > 0) /\ UNCHANGED hiccup
     \/ hiccup' = TRUE /\ UNCHANGED <<fails, until, overtook>>
  /\ UNCHANGED <<now, since, tables, sessions, tab, flow, visits>>

Tick ==
  /\ now < MaxNow
  /\ now' = now + 1
  /\ UNCHANGED <<guard, tables, sessions, tab, flow, visits>>

-----------------------------------------------------------------------------
(* lib/auth.ts: signing up *)

Submit(f) ==
  /\ Visit
  /\ RegisterForm
  /\ Start(f, "register", "before", TRUE)
  /\ UNCHANGED <<now, guard, tables, sessions, tab>>

(* databaseHooks.user.create.before: either table may hold the address. *)
CreateBefore(f) ==
  /\ At(f, "before")
  /\ IF ba # "none" \/ legacy THEN End(f) ELSE To(f, "insert")
  /\ UNCHANGED <<now, guard, tables, sessions, tab, visits>>

(* The row of "user"; its address is unique. *)
CreateUser(f) ==
  /\ At(f, "insert")
  /\ IF ba = "none" THEN ba' = "unverified" /\ To(f, "sync") ELSE End(f) /\ UNCHANGED ba
  /\ UNCHANGED <<now, guard, legacy, onboarded, sessions, tab, visits>>

(* databaseHooks.user.create.after: a failure is only logged. *)
CreateAfter(f) ==
  /\ At(f, "sync")
  /\ legacy' \in {legacy, TRUE}
  /\ IF flow[f].tab THEN To(f, "session") ELSE End(f)
  /\ UNCHANGED <<now, guard, ba, onboarded, sessions, tab, visits>>

(* The link of the verification mail. *)
VerifyEmail ==
  /\ ba = "unverified"
  /\ ba' = "ok"
  /\ UNCHANGED <<now, guard, legacy, onboarded, sessions, tab, flow, visits>>

-----------------------------------------------------------------------------
(* store/auth-store.ts *)

(* Providers, when the page has been loaded. *)
Mount(f) ==
  /\ ~tab.mounted /\ tab.page # "reload"
  /\ Start(f, "fetchMe", "session", TRUE)
  /\ tab' = [tab EXCEPT !.mounted = TRUE]
  /\ UNCHANGED <<now, guard, tables, sessions, visits>>

(* A page refreshes the user after what it did. *)
Refresh(f) ==
  /\ Visit
  /\ tab.page = "dashboard" /\ tab.auth
  /\ Start(f, "fetchMe", "session", TRUE)
  /\ UNCHANGED <<now, guard, tables, sessions, tab>>

(* The two-factor page: the code makes the session, then fetchMe. *)
VerifyTotp(f) ==
  /\ Visit
  /\ TwoFactorForm
  /\ Start(f, "totp", "session", TRUE)
  /\ NewSession(TRUE)
  /\ UNCHANGED <<now, guard, tables, tab>>

(* authClient.getSession(), answered; an error is an answer without one. *)
GetSession(f) ==
  /\ At(f, "session")
  /\ \E s \in {0, IF cookie \in live THEN cookie ELSE 0} :
       flow' = [flow EXCEPT ![f] = [@ EXCEPT !.pc = "gotSession", !.sess = s]]
  /\ UNCHANGED <<now, guard, tables, sessions, tab, visits>>

(* Mutant: the early return forgets isLoading. *)
SignedOutLoading(t) == [t EXCEPT !.token = 0, !.user = "none", !.auth = FALSE]

SignedOut(t) == [t EXCEPT !.token = 0, !.user = "none", !.auth = FALSE, !.loading = FALSE]

(* syncSessionToken, or the signed-out state.  After a sign-up without a  *)
(* session the page goes to the login page.                               *)
ApplySession(f) ==
  LET s == flow[f].sess IN
  /\ At(f, "gotSession")
  /\ \/ /\ s # 0
        /\ tab' = [tab EXCEPT !.token = s]
        /\ To(f, "me")
     \/ /\ s = 0 /\ flow[f].kind = "register"
        /\ tab' = [tab EXCEPT !.loading = FALSE,
                     !.page = IF @ = "register" THEN "login" ELSE @]
        /\ End(f)
     \/ /\ s = 0 /\ flow[f].kind # "register"
        /\ tab' = [SignedOut(tab) EXCEPT !.page =
                     IF flow[f].kind = "totp" /\ @ = "twoFactor" THEN "dashboard" ELSE @]
        /\ End(f)
  /\ UNCHANGED <<now, guard, tables, sessions, visits>>

(* get_current_user takes the token of the header before the cookie. *)
Accepts(s) == s \in live /\ legacy

(* GET /auth/me: the user, a 401, or no answer at all. *)
Me(f) ==
  /\ At(f, "me")
  /\ \E u \in {"fallback", IF ~Accepts(flow[f].sess) THEN "denied"
                            ELSE IF onboarded THEN "done" ELSE "new"} :
       flow' = [flow EXCEPT ![f] = [@ EXCEPT !.pc = "gotMe", !.user = u]]
  /\ UNCHANGED <<now, guard, tables, sessions, tab, visits>>

(* lib/api.ts: a 401 reloads the tab at /login. *)
AfterDenial(p) == IF p \in {"login", "register"} THEN p ELSE "reload"

(* hydrateUserFromBackend falls back on the session's user, also after a  *)
(* 401.                                                                   *)
ApplyMe(f) ==
  LET u == flow[f].user IN
  /\ At(f, "gotMe")
  /\ tab' = [tab EXCEPT !.auth = TRUE, !.loading = FALSE,
               !.user = IF u = "denied" THEN "fallback" ELSE u,
               !.page = IF u = "denied" THEN AfterDenial(@)
                        ELSE IF flow[f].kind = "totp" /\ @ = "twoFactor" THEN "dashboard"
                        ELSE @]
  /\ End(f)
  /\ UNCHANGED <<now, guard, tables, sessions, visits>>

Credential == IF tab.token # 0 THEN tab.token ELSE cookie

(* logout: POST /auth/logout deletes the token's row; a failure is logged. *)
Logout(f) ==
  /\ Visit
  /\ tab.page = "dashboard" /\ tab.auth
  /\ Start(f, "logout", "signOut", TRUE)
  /\ \/ live' = live \ {Credential}
     \/ UNCHANGED live
  /\ UNCHANGED <<now, guard, tables, last, cookie, tab>>

(* authClient.signOut() *)
SignOut(f) ==
  /\ At(f, "signOut")
  /\ \/ live' = live \ {cookie} /\ cookie' = 0
     \/ UNCHANGED <<live, cookie>>
  /\ To(f, "wipe")
  /\ UNCHANGED <<now, guard, tables, last, tab, visits>>

(* syncSessionToken(null), disconnectAll() and the store. *)
Wipe(f) ==
  /\ At(f, "wipe")
  /\ tab' = SignedOut(tab)
  /\ End(f)
  /\ UNCHANGED <<now, guard, tables, sessions, visits>>

-----------------------------------------------------------------------------
(* The pages *)

(* The effect of the login and the register page. *)
LoginEffect ==
  /\ tab.page \in {"login", "register"} /\ ~tab.loading /\ tab.auth
  /\ tab' = [tab EXCEPT !.page = IF tab.page = "login" /\ tab.user \in {"new", "fallback"}
                                 THEN "onboarding" ELSE "dashboard"]
  /\ UNCHANGED <<now, guard, tables, sessions, flow, visits>>

(* DashboardShell *)
ShellEffect ==
  /\ tab.page = "dashboard" /\ ~tab.loading /\ ~tab.auth
  /\ tab' = [tab EXCEPT !.page = "login"]
  /\ UNCHANGED <<now, guard, tables, sessions, flow, visits>>

OnboardingEffect ==
  /\ tab.page = "onboarding" /\ ~tab.loading
  /\ ~tab.auth \/ tab.user = "done"
  /\ tab' = [tab EXCEPT !.page = IF tab.auth THEN "dashboard" ELSE "login"]
  /\ UNCHANGED <<now, guard, tables, sessions, flow, visits>>

(* saveSurveyAndComplete, from Skip or from the last step: the survey is  *)
(* posted, the store is told it is done whatever the answer was.          *)
PostSurvey(f) ==
  /\ Visit
  /\ tab.page = "onboarding" /\ tab.auth
  /\ \/ /\ Accepts(Credential) /\ onboarded' = TRUE
        /\ flow' = [flow EXCEPT ![f] = [NoFlow EXCEPT !.kind = "survey", !.pc = "saved",
                       !.tab = TRUE, !.user = "done"]]
     \/ /\ UNCHANGED onboarded
        /\ \E u \in {"fallback", IF Accepts(Credential) THEN "fallback" ELSE "denied"} :
             flow' = [flow EXCEPT ![f] = [NoFlow EXCEPT !.kind = "survey", !.pc = "saved",
                         !.tab = TRUE, !.user = u]]
  /\ At(f, "idle")
  /\ UNCHANGED <<now, guard, ba, legacy, sessions, tab>>

FinishSurvey(f) ==
  /\ At(f, "saved")
  /\ tab' = [tab EXCEPT !.user = "done",
               !.page = IF flow[f].user = "denied" THEN AfterDenial(@) ELSE "dashboard"]
  /\ End(f)
  /\ UNCHANGED <<now, guard, tables, sessions, visits>>

(* Any query of a dashboard page whose credential is refused. *)
ApiUnauthorized ==
  /\ tab.page = "dashboard" /\ tab.auth /\ ~Accepts(Credential)
  /\ tab' = [tab EXCEPT !.page = AfterDenial(@)]
  /\ UNCHANGED <<now, guard, tables, sessions, flow, visits>>

(* The browser forgets what the tab was waiting for; the server goes on.  *)
Abandoned == [f \in Flows |->
  IF flow[f].pc \in {"check", "forward", "count", "readLock", "setLock",
                     "before", "insert", "sync"}
  THEN [flow[f] EXCEPT !.tab = FALSE] ELSE NoFlow]

Reload ==
  /\ tab.page = "reload"
  /\ tab' = NewTab("login")
  /\ flow' = Abandoned
  /\ UNCHANGED <<now, guard, tables, sessions, visits>>

(* middleware.ts: a protected page needs a cookie, and no more than that. *)
OpenPage(p) ==
  /\ Visit
  /\ tab.page # "reload"
  /\ tab' = NewTab(IF p \in {"login", "register"} \/ cookie # 0 THEN p ELSE "login")
  /\ flow' = Abandoned
  /\ UNCHANGED <<now, guard, tables, sessions>>

(* Expired, or revoked with a change of the password. *)
EndSession(s) ==
  /\ s \in live
  /\ live' = live \ {s}
  /\ UNCHANGED <<now, guard, tables, last, cookie, tab, flow, visits>>

-----------------------------------------------------------------------------
GuardStep(f) == \/ CheckLockout(f) \/ SignInOk(f) \/ SecondFactorDue(f) \/ SignInRefused(f)
                \/ CountFailure(f) \/ ReadLock(f) \/ SetLock(f)

SignUpStep(f) == CreateBefore(f) \/ CreateUser(f) \/ CreateAfter(f)

StoreStep(f) == \/ GetSession(f) \/ ApplySession(f) \/ Me(f) \/ ApplyMe(f)
                \/ SignOut(f) \/ Wipe(f) \/ FinishSurvey(f)

Effect == LoginEffect \/ ShellEffect \/ OnboardingEffect \/ ApiUnauthorized \/ Reload

UserStep(f) == \/ PostSignIn(f) \/ Submit(f) \/ Refresh(f) \/ VerifyTotp(f) \/ Logout(f)
               \/ PostSurvey(f)

Next ==
  \/ \E f \in Flows : GuardStep(f) \/ SignUpStep(f) \/ StoreStep(f) \/ UserStep(f) \/ Mount(f)
  \/ \E p \in {"login", "register", "dashboard"} : OpenPage(p)
  \/ \E s \in live : EndSession(s)
  \/ Effect \/ ResetFailedAttempts \/ VerifyEmail \/ Tick

Spec == Init /\ [][Next]_vars

(* Requests are answered, effects run after a render, pages poll.  The    *)
(* user, the mail and the clock owe nothing.                              *)
Fairness ==
  /\ \A f \in Flows : WF_vars(GuardStep(f) \/ SignUpStep(f) \/ StoreStep(f))
  /\ WF_vars(\E f \in Flows : Mount(f))
  /\ WF_vars(Effect)

FairSpec == Spec /\ Fairness

-----------------------------------------------------------------------------
(* An account whose failures since its last successful sign-in reached a  *)
(* threshold carries a lock, which may be over by now, however failures   *)
(* and locks of several requests overlap.  Two things lose one, and no    *)
(* other does: a database error that brute-force.ts only logs, and the    *)
(* reset that an earlier sign-in started and did not wait for             *)
(* (route.ts:147), run after failures that came later.                    *)
LockedWhenDue ==
  (/\ since >= Tiers[1].threshold /\ ~hiccup /\ ~overtook
   /\ \A f \in Flows : flow[f].pc \notin {"readLock", "setLock"}) => until # 0

(* The spinner of a loaded page goes away: fetchMe settles isLoading on   *)
(* every path.                                                            *)
LoadingEnds == tab.loading ~> ~tab.loading

(* A tab that shows the dashboard with a dead session, as after a logout  *)
(* that a slow fetchMe overtakes, does not stay there.                    *)
ShowsDeadSession == tab.page = "dashboard" /\ tab.auth /\ Credential \notin live
DeadSessionLeaves == ShowsDeadSession ~> ~ShowsDeadSession

(* The guard of signing in keeps its record, in every state.              *)
SignInSafe == TypeOK /\ LockedWhenDue
=============================================================================
