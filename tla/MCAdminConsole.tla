--------------------------- MODULE MCAdminConsole ---------------------------
(* Two requests at a time, tables of up to three rows on pages of two. *)
EXTENDS AdminConsole

MCClicks ==
  [p \in Parts |-> CASE p \in {"users", "codes", "health", "dashboard", "surveys", "bell", "usdt", "prices"} -> 3
                     [] p = "crypto" -> 6 [] OTHER -> 2]
=============================================================================
