------------------------------- MODULE Faults -------------------------------
(***************************************************************************)
(* What the services outside the server (PostgreSQL, Redis, the network to *)
(* the agents) may do to one call.  "ok": the call takes effect and says   *)
(* so.  "error": it has no effect and returns an error.  "lost": it takes  *)
(* effect and the caller still sees an error (the reply is lost).  A       *)
(* behaviour has at most MaxFaults calls that are not "ok", crashes of the *)
(* server and losses of messages included.                                 *)
(***************************************************************************)
EXTENDS Naturals

CONSTANT MaxFaults
ASSUME MaxFaultsAssumption == MaxFaults \in Nat

VARIABLE faults

Outcomes == {"ok", "error", "lost"}

FaultsTypeOK == faults \in 0 .. MaxFaults

FaultsInit == faults = 0

Fault == faults < MaxFaults /\ faults' = faults + 1

Attempt(outcome) ==
    \/ outcome = "ok" /\ UNCHANGED faults
    \/ outcome # "ok" /\ Fault
=============================================================================
