------------------------------ MODULE Watchers ------------------------------
(***************************************************************************)
(* The two list-then-watch clients of a server over one etcd: service      *)
(* discovery and the watcher of the scheduler's configuration.             *)
(***************************************************************************)
EXTENDS Discovery, ConfigWatcher

vars == <<log, faults, discoveryVars, configVars>>

Init == log = <<>> /\ FaultsInit /\ DiscoveryInit /\ ConfigInit

EtcdChange == \E e \in Events : Change(e) /\ UNCHANGED <<faults, discoveryVars, configVars>>

Next ==
    \/ EtcdChange
    \/ DiscoveryNext /\ UNCHANGED <<log, configVars>>
    \/ ConfigNext /\ UNCHANGED <<log, discoveryVars>>

Spec == Init /\ [][Next]_vars

\* The goroutines of the server go on; etcd and the consumer need not.
FairSpec ==
    /\ Spec
    /\ WF_vars(DiscoveryStep /\ UNCHANGED <<log, configVars>>)
    /\ WF_vars(ConfigStep /\ UNCHANGED <<log, discoveryVars>>)

-----------------------------------------------------------------------------
TypeOK ==
    /\ log \in Seq(Events) /\ Len(log) <= MaxEvents
    /\ FaultsTypeOK /\ DiscoveryTypeOK /\ ConfigTypeOK
=============================================================================
