------------------------------- MODULE EtcdLog ------------------------------
(***************************************************************************)
(* The history of an etcd store, external to the repository: the events in *)
(* the order of their revisions.  A Get answers the values at the present  *)
(* revision and names it; a Watch delivers the events of its keys after    *)
(* the revision it starts from.                                            *)
(***************************************************************************)
EXTENDS Faults, Sequences, FiniteSetsExt

CONSTANTS
    Nodes,        \* keys under /nodes/: one for each node
    Params,       \* keys under /config/scheduler/
    NodeValues, ParamValues,
    NoVal,        \* the value of a key that is not there
    MaxEvents     \* bound: length of the history

ASSUME EtcdAssumption ==
    /\ ParamValues \subseteq Nat /\ MaxEvents \in Nat
    /\ Nodes \cap Params = {}
    /\ NoVal \notin NodeValues \cup ParamValues

VARIABLE log

Keys == Nodes \cup Params

NodeEvents == [key : Nodes, val : NodeValues \cup {NoVal}]
Events == NodeEvents \cup [key : Params, val : ParamValues \cup {NoVal}]

\* The events about key k among the first i of a sequence.
About(l, k, i) == {j \in 1 .. i : l[j].key = k}

\* The value of k after the first i events, if it was v before.
ValueAfter(l, k, i, v) ==
    IF About(l, k, i) = {} THEN v ELSE l[Max(About(l, k, i))].val

ValueAt(k, i) == ValueAfter(log, k, i, NoVal)

Now(k) == ValueAt(k, Len(log))

\* Register and UpdateConfig put, a lease that ends and an operator delete.
Change(e) ==
    /\ Len(log) < MaxEvents
    /\ e.val = NoVal => Now(e.key) # NoVal
    /\ log' = Append(log, e)

\* The next event of a watch of keys from revision i on.
NextEvents(keys, i) == {j \in i + 1 .. Len(log) : log[j].key \in keys}
=============================================================================
