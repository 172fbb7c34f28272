---------------------------- MODULE MCWebTasks -----------------------------
(* WebTasks, with one or two tasks and few failures: see the configurations. *)
EXTENDS WebTasks
=============================================================================
