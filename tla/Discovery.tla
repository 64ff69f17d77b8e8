------------------------------ MODULE Discovery -----------------------------
(***************************************************************************)
(* ServiceDiscovery of internal/discovery/discovery.go: the goroutine of   *)
(* StartWatching lists the nodes, then watches from the revision after the *)
(* list; every change of the cache is followed by emit.  One consumer      *)
(* subscribes, reads the cache and applies the events that it receives (no *)
(* code of the repository does so yet: the consumer is external).          *)
(***************************************************************************)
EXTENDS EtcdLog

CONSTANT Buffer   \* capacity of a listener's channel
ASSUME BufferAssumption == Buffer \in Nat \ {0}

VARIABLES
    sdPc,      \* "get", "load", "watch", "ended"
    sdTodo,    \* keys of the list that are not in the cache yet
    sdGot,     \* the list was answered
    sdPos,     \* revision up to which the goroutine has got
    sdFrom,    \* revision after which the watch began
    nodes,     \* the cache
    toEmit,    \* the event that emit is about to send: at most one
    inbox,     \* the channel of the consumer
    view,      \* the consumer's picture
    toRead,    \* node IDs it got and whose data it has not read yet
    consumer   \* "out", "subscribed", "reading", or "missed" an event

watchVars == <<sdPc, sdTodo, sdGot, sdPos, sdFrom>>
consumerVars == <<inbox, view, toRead, consumer>>
discoveryVars == <<watchVars, nodes, toEmit, consumerVars>>

DiscoveryInit ==
    /\ sdPc = "get" /\ sdTodo = {} /\ sdGot = FALSE /\ sdPos = 0 /\ sdFrom = 0
    /\ nodes = [n \in Nodes |-> NoVal]
    /\ toEmit = <<>>
    /\ inbox = <<>> /\ view = [n \in Nodes |-> NoVal] /\ toRead = {} /\ consumer = "out"

\* The initial Get; after an error it is as if there were no node.
GetNodes(outcome) ==
    /\ sdPc = "get"
    /\ Attempt(outcome)
    /\ sdPc' = "load"
    /\ sdGot' = (outcome = "ok")
    /\ sdPos' = Len(log)
    /\ sdTodo' = IF outcome = "ok" THEN {n \in Nodes : Now(n) # NoVal} ELSE {}
    /\ UNCHANGED <<sdFrom, nodes, toEmit, consumerVars>>

\* Mutant: a removal is not announced.
SetNodeQuietly(n, v) ==
    /\ toEmit = <<>>
    /\ nodes' = [nodes EXCEPT ![n] = v]
    /\ toEmit' = IF v = NoVal THEN <<>> ELSE <<[key |-> n, val |-> v]>>

\* The cache is changed under the lock; the event is sent after it.
SetNode(n, v) ==
    /\ toEmit = <<>>
    /\ nodes' = [nodes EXCEPT ![n] = v]
    /\ toEmit' = <<[key |-> n, val |-> v]>>

LoadNode(n) ==
    /\ sdPc = "load" /\ n \in sdTodo
    /\ SetNode(n, ValueAt(n, sdPos))
    /\ sdTodo' = sdTodo \ {n}
    /\ UNCHANGED <<sdPc, sdGot, sdPos, sdFrom, consumerVars, faults>>

\* Mutant: the watch begins with what comes next.
WatchRevNow == Len(log)

\* Without an answer to Get the revision is zero: what comes next.
WatchRev == IF sdGot THEN sdPos ELSE Len(log)

WatchNodes ==
    /\ sdPc = "load" /\ sdTodo = {} /\ toEmit = <<>>
    /\ sdPc' = "watch"
    /\ sdPos' = WatchRev
    /\ sdFrom' = WatchRev
    /\ UNCHANGED <<sdTodo, sdGot, nodes, toEmit, consumerVars, faults>>

\* Mutant: the newest event is left for later.
UnseenButLast == NextEvents(Nodes, sdPos) \ {Len(log)}

Unseen == NextEvents(Nodes, sdPos)

WatchEvent ==
    /\ sdPc = "watch" /\ Unseen # {}
    /\ sdPos' = Min(Unseen)
    /\ SetNode(log[sdPos'].key, log[sdPos'].val)
    /\ UNCHANGED <<sdPc, sdTodo, sdGot, sdFrom, consumerVars, faults>>

\* The watch is cancelled by etcd: the channel is closed and the loop ends.
WatchEnds ==
    /\ Fault
    /\ sdPc = "watch" /\ toEmit = <<>>
    /\ sdPc' = "ended"
    /\ UNCHANGED <<sdTodo, sdGot, sdPos, sdFrom, nodes, toEmit, consumerVars>>

Emit ==
    /\ toEmit # <<>>
    /\ toEmit' = <<>>
    /\ \/ consumer = "out" /\ UNCHANGED <<inbox, consumer>>
       \/ /\ consumer # "out" /\ Len(inbox) < Buffer
          /\ inbox' = inbox \o toEmit
          /\ UNCHANGED consumer
       \/ /\ consumer # "out" /\ Len(inbox) = Buffer
          /\ consumer' = "missed"
          /\ UNCHANGED inbox
    /\ UNCHANGED <<watchVars, nodes, view, toRead, faults>>

Subscribe ==
    /\ consumer = "out"
    /\ consumer' = "subscribed"
    /\ UNCHANGED <<watchVars, nodes, toEmit, inbox, view, toRead, faults>>

\* The consumer asks for the IDs and then, one by one, for the data: each
\* call locks the cache for itself.
GetOnlineNodeIDs ==
    /\ consumer = "subscribed"
    /\ consumer' = "reading"
    /\ toRead' = {n \in Nodes : nodes[n] # NoVal}
    /\ UNCHANGED <<watchVars, nodes, toEmit, inbox, view, faults>>

GetNodeInfo(n) ==
    /\ n \in toRead
    /\ toRead' = toRead \ {n}
    /\ view' = [view EXCEPT ![n] = nodes[n]]
    /\ UNCHANGED <<watchVars, nodes, toEmit, inbox, consumer, faults>>

ReceiveEvent ==
    /\ consumer \in {"reading", "missed"} /\ toRead = {} /\ inbox # <<>>
    /\ view' = [view EXCEPT ![Head(inbox).key] = Head(inbox).val]
    /\ inbox' = Tail(inbox)
    /\ UNCHANGED <<watchVars, nodes, toEmit, toRead, consumer, faults>>

DiscoveryStep ==
    \/ \E outcome \in {"ok", "error"} : GetNodes(outcome)
    \/ \E n \in Nodes : LoadNode(n)
    \/ WatchNodes \/ WatchEvent \/ Emit

ConsumerStep ==
    \/ Subscribe \/ GetOnlineNodeIDs \/ ReceiveEvent
    \/ \E n \in Nodes : GetNodeInfo(n)

DiscoveryNext == DiscoveryStep \/ WatchEnds \/ ConsumerStep

-----------------------------------------------------------------------------
DiscoveryTypeOK ==
    /\ sdPc \in {"get", "load", "watch", "ended"}
    /\ sdTodo \subseteq Nodes /\ sdGot \in BOOLEAN
    /\ sdPos \in 0 .. Len(log) /\ sdFrom \in 0 .. sdPos
    /\ nodes \in [Nodes -> NodeValues \cup {NoVal}]
    /\ toEmit \in Seq(NodeEvents) /\ Len(toEmit) <= 1
    /\ inbox \in Seq(NodeEvents) /\ Len(inbox) <= Buffer
    /\ view \in [Nodes -> NodeValues \cup {NoVal}] /\ toRead \subseteq Nodes
    /\ consumer \in {"out", "subscribed", "reading", "missed"}

\* The watch knows of n: from the list or from a change it saw.
Known(n) == sdGot \/ \E j \in About(log, n, sdPos) : j > sdFrom

\* While and after the watch the cache is what etcd had at the revision the
\* watch has got to: no change falls between the list and the watch.  A list
\* that failed leaves out the nodes that have not changed since, no others.
CacheIsReplay ==
    sdPc \in {"watch", "ended"} =>
        \A n \in Nodes : nodes[n] = IF Known(n) THEN ValueAt(n, sdPos) ELSE NoVal

\* What the consumer will have for n when it has applied what is under way.
Coming == inbox \o toEmit
Outcome(n) == ValueAfter(Coming, n, Len(Coming), view[n])

\* A consumer that subscribed before it read the cache, and for which no
\* event was dropped, ends up with the cache, whenever it did so and whatever
\* changed between its calls.
ConsumerFollows ==
    consumer = "reading" /\ toRead = {} => \A n \in Nodes : Outcome(n) = nodes[n]

\* A cache that was listed catches up with etcd, unless the watch ends.
CacheConverges ==
    sdPc = "watch" /\ sdGot ~> sdPc = "ended" \/ \A n \in Nodes : nodes[n] = Now(n)
=============================================================================
