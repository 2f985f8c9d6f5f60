--------------------------- MODULE MCSelfService ---------------------------
(* The pages that keep their data in component state: first a withdrawal   *)
(* with its code, in two tabs and before two owners; then one of the       *)
(* settings and support pages.  They are different pages on different      *)
(* endpoints and share no state, so the two are explored one after the     *)
(* other.                                                                  *)
EXTENDS MCWithdraw

CONSTANTS PageCalls, PageClicks, PageFaults, PageTalk

VARIABLES part, page, pageSrv, pageUi, pageCall, pageSlip, pageClicks, pageFaults

Self == INSTANCE SelfService
  WITH Calls <- PageCalls, MaxClicks <- PageClicks, MaxFaults <- PageFaults, MaxTalk <- PageTalk,
       part <- page, srv <- pageSrv, ui <- pageUi, call <- pageCall, slip <- pageSlip,
       clicks <- pageClicks, faults <- pageFaults

pageVars == <<page, pageSrv, pageUi, pageCall, pageSlip, pageClicks, pageFaults>>

MCInit ==
  /\ Init /\ Self!Init
  /\ \/ part = "withdraw" /\ page = "password"
     \/ part = "pages"
MCNext ==
  \/ part = "withdraw" /\ Next /\ UNCHANGED <<pageVars, part>>
  \/ part = "pages" /\ Self!Next /\ UNCHANGED <<vars, part>>
MCSpec == MCInit /\ [][MCNext]_<<vars, pageVars, part>>

(* SelfService's invariant.  The settings, support and ticket pages show   *)
(* and send what is true.                                                  *)
PagesTrue == Self!PagesTrue
=============================================================================
