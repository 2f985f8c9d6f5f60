------------------------------- MODULE MCJobs -------------------------------
(* Instances of Jobs.  The history opens on a job that is over and one     *)
(* that runs; an auto-leave runs.  Nothing goes wrong while the history or *)
(* the form of a broadcast is open, and the worker takes one of the two    *)
(* jobs that the form or the auto-leave page may start: these pages have   *)
(* the most states.                                                        *)
EXTENDS Jobs

MCInit == /\ Init
          /\ page = "history" => job[2].st = "running"
          /\ page = "leave" => job[1].st = "running"

MCNext == /\ Next
          /\ page \in {"new", "history"} => UNCHANGED faults
          /\ page \in {"new", "success", "leave"} => work'[2].task = "off"

MCSpec == MCInit /\ [][MCNext]_vars /\ Fairness
=============================================================================
