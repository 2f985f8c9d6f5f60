---------------------------- MODULE QueryClient ----------------------------
(***************************************************************************)
(* One query of the front end's QueryClient (app/providers.tsx), as the    *)
(* pages use it through useQuery, refetch() and invalidateQueries().  An   *)
(* entry holds the last answer and at most one request: a refetch of a     *)
(* query that has data drops the request in flight and starts another,     *)
(* one of a query without data joins it.                                   *)
(***************************************************************************)

(* net: no request, one that the server has not read for, or an answer    *)
(* (got) on its way back.                                                  *)
EntryType(V) == [has: BOOLEAN, data: V, stale: BOOLEAN, net: {"idle", "sent", "read"}, got: V]

Unread(v) == [has |-> FALSE, data |-> v, stale |-> TRUE, net |-> "idle", got |-> v]

Idle(e) == e.net = "idle"

(* fetch() without cancelRefetch: what a mount does. *)
Fetch(e) == IF Idle(e) THEN [e EXCEPT !.net = "sent", !.got = e.data] ELSE e

(* fetch() with cancelRefetch: refetch() and invalidateQueries(). *)
Refetch(e) == IF e.has \/ Idle(e) THEN [e EXCEPT !.net = "sent", !.got = e.data] ELSE e

(* invalidateQueries: an entry nobody shows is only marked. *)
Invalidate(e, mounted) ==
  LET marked == [e EXCEPT !.stale = TRUE] IN IF mounted THEN Refetch(marked) ELSE marked

(* A component that uses the query appears; old says staleTime is over. *)
Mount(e, old) == IF ~e.has \/ e.stale \/ old THEN Fetch(e) ELSE e

(* The server reads v for the request; the answer replaces the data.  An  *)
(* error leaves the data and what was known about it.                     *)
Read(e, v) == [e EXCEPT !.net = "read", !.got = v]
Arrived(e) == [has |-> TRUE, data |-> e.got, stale |-> FALSE, net |-> "idle", got |-> e.got]
Failed(e) == [e EXCEPT !.net = "idle", !.got = e.data]

(* The same for a cache: the entries of qs, of which those in shown are   *)
(* mounted.                                                                *)
InvalidateAll(cache, qs, shown) ==
  [q \in DOMAIN cache |-> IF q \in qs THEN Invalidate(cache[q], q \in shown) ELSE cache[q]]
RefetchAll(cache, qs) == [q \in DOMAIN cache |-> IF q \in qs THEN Refetch(cache[q]) ELSE cache[q]]
MountAll(cache, qs, old) ==
  [q \in DOMAIN cache |-> IF q \in qs THEN Mount(cache[q], old) ELSE cache[q]]

(* What an invalidation of qs cannot make fresh: an answer that was read  *)
(* before and is neither dropped nor asked for again.                     *)
Overtaken(cache, qs, shown) ==
  {q \in qs \cap DOMAIN cache : cache[q].net = "read" /\ Invalidate(cache[q], q \in shown).net = "read"}
=============================================================================
