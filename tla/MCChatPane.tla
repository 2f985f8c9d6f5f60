----------------------------- MODULE MCChatPane -----------------------------
(* The chat page: the list of two accounts, one with two chats and the    *)
(* other with one, in pages of one chat; and one open chat with a page of *)
(* one message and a history one message longer.  The pane is keyed by    *)
(* account and chat and shares no state with the list, so the two are     *)
(* explored one after the other.                                          *)
EXTENDS ChatPane, ChatList, TLC

MCOwner == [c \in Chats |-> IF c = 3 THEN 2 ELSE 1]

VARIABLE part

MCInit == Init /\ ListInit /\ part \in {"pane", "list"}
MCNext ==
  \/ part = "pane" /\ Next /\ UNCHANGED <<listVars, part>>
  \/ part = "list" /\ ListNext /\ UNCHANGED <<vars, part>>
MCSpec == MCInit /\ [][MCNext]_<<vars, listVars, part>>

Symmetry == Permutations(Slots)
=============================================================================
