----------------------------- MODULE MCWatchers -----------------------------
(***************************************************************************)
(* Two nodes and one parameter, which starts at one.                       *)
(***************************************************************************)
EXTENDS Watchers, TLC

MCParams == {"max_concurrent_tasks"}
MCDefault == [k \in MCParams |-> 1]
=============================================================================
