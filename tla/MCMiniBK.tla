------------------------------ MODULE MCMiniBK ------------------------------
(***************************************************************************)
(* Values of the constants for TLC.  Tasks are model values; the           *)
(* identities of runs are numbers, so that CHOOSE takes the smallest free  *)
(* one.  t2 has a priority and needs two CPUs and no memory; t1 is        *)
(* ordinary and needs one of each.                                         *)
(***************************************************************************)
EXTENDS MiniBK

CONSTANTS t1, t2

MCCPULimit == [t \in Tasks |-> IF t = t2 THEN 2 ELSE 1]
MCMemoryLimit == [t \in Tasks |-> IF t = t2 THEN 0 ELSE 1]
MCPriority == [t \in Tasks |-> IF t = t2 THEN 1 ELSE 0]
=============================================================================
