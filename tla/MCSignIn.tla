------------------------------ MODULE MCSignIn ------------------------------
(* Signing in to the web front end, with two tiers of locks and as many   *)
(* flows as a race needs; and connecting Telegram accounts, in a tab that *)
(* is signed in.  The second needs nothing of the first but the session,  *)
(* so the two are explored one after the other.                           *)
EXTENDS SignIn, AccountLogin

MCTiers == << [threshold |-> 1, duration |-> 1], [threshold |-> 2, duration |-> 2] >>

VARIABLE part   \* sign_in, connect

MCInit ==
  /\ LoginInit
  /\ \/ part = "sign_in" /\ Init
     \/ /\ part = "connect"
        /\ now = 0 /\ fails = 0 /\ until = 0 /\ resets = 0 /\ hiccup = FALSE /\ since = 0 /\ overtook = FALSE
        /\ ba = "ok" /\ legacy = TRUE /\ onboarded = TRUE
        /\ last = 1 /\ live = {1} /\ cookie = 1
        /\ tab = [page |-> "dashboard", mounted |-> TRUE, loading |-> FALSE, auth |-> TRUE,
                  user |-> "done", token |-> 1]
        /\ flow = [f \in Flows |-> NoFlow] /\ visits = 0

MCNext ==
  \/ part = "sign_in" /\ Next /\ UNCHANGED <<loginVars, part>>
  \/ part = "connect" /\ LoginNext /\ UNCHANGED <<vars, part>>

(* The fairness of the two modules. *)
MCFairness ==
  /\ \A f \in Flows : WF_vars(part = "sign_in" /\ (GuardStep(f) \/ SignUpStep(f) \/ StoreStep(f)))
  /\ WF_vars(part = "sign_in" /\ \E f \in Flows : Mount(f))
  /\ WF_vars(part = "sign_in" /\ Effect)
  /\ \A k \in Polls : /\ WF_loginVars(part = "connect" /\ Poll(k))
                      /\ WF_loginVars(part = "connect" /\ qr_login_status(k))
                      /\ WF_loginVars(part = "connect" /\ PollAnswered(k))

MCSpec == MCInit /\ [][MCNext]_<<vars, loginVars, part>> /\ MCFairness

(* No tab stays on a spinner, on the dashboard of a dead session, or on a *)
(* QR code that was accepted.                                             *)
TabsSettle == LoadingEnds /\ DeadSessionLeaves /\ ScanNoticed
=============================================================================
