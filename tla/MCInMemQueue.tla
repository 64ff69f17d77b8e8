---------------------------- MODULE MCInMemQueue ----------------------------
(***************************************************************************)
(* Values of the constants for TLC: one ordinary task and two priorities.  *)
(***************************************************************************)
EXTENDS InMemQueue

CONSTANTS t1, t2

MCPriority == [t \in Tasks |-> IF t = t1 THEN 0 ELSE 1]
=============================================================================
