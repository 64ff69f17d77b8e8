--------------------------- MODULE WatchersProofs ---------------------------
(***************************************************************************)
(* The list-then-watch clients of etcd, for every set of nodes and         *)
(* parameters, every history and every capacity of a listener's channel.   *)
(***************************************************************************)
EXTENDS Watchers, WellFoundedInduction, TLAPS

(***************************************************************************)
(* Greatest and least elements.                                            *)
(***************************************************************************)

\* A set of natural numbers has a least element.
LEMMA MinOfNats ==
    ASSUME NEW S, S \subseteq Nat, S # {}
    PROVE  Min(S) \in S /\ \A x \in S : Min(S) <= x
  <1>1. \E x \in S : \A y \in S : ~(<<y, x>> \in OpToRel(<, Nat))
    BY NatLessThanWellFounded, WFMin
  <1>2. \A x, y \in Nat : <<y, x>> \in OpToRel(<, Nat) <=> y < x
    BY DEF OpToRel
  <1> HIDE DEF OpToRel
  <1>3. \E x \in S : \A y \in S : ~(y < x)
    BY <1>1, <1>2
  <1>4. \E x \in S : \A y \in S : x <= y
    BY <1>3
  <1> QED BY <1>4 DEF Min

\* An element that is above all others is the greatest.
LEMMA MaxIs ==
    ASSUME NEW S, S \subseteq Int, NEW m \in S, \A x \in S : x <= m
    PROVE  Max(S) = m
  <1>1. Max(S) \in S /\ \A x \in S : Max(S) >= x
    <2>1. \E x \in S : \A y \in S : x >= y
      OBVIOUS
    <2> QED BY <2>1 DEF Max
  <1>2. Max(S) \in Int /\ m \in Int /\ Max(S) >= m /\ Max(S) <= m
    BY <1>1
  <1> QED BY <1>2

\* A bounded set of positive numbers has a greatest element.
LEMMA MaxOfBounded ==
    ASSUME NEW n \in Nat, NEW S, S \subseteq 1 .. n, S # {}
    PROVE  Max(S) \in S /\ \A x \in S : x <= Max(S)
  <1> DEFINE T == {n - x : x \in S}
  <1>1. Min(T) \in T /\ \A y \in T : Min(T) <= y
    <2>1. \A x \in S : n - x \in Nat
      OBVIOUS
    <2>2. T \subseteq Nat
      BY <2>1
    <2>3. T # {}
      OBVIOUS
    <2> HIDE DEF T
    <2> QED BY <2>2, <2>3, MinOfNats
  <1>2. PICK m \in S : Min(T) = n - m
    BY <1>1
  <1>3. \A x \in S : x <= m
    <2> TAKE x \in S
    <2>1. n - x \in T
      OBVIOUS
    <2>2. n - m <= n - x
      BY <1>1, <1>2, <2>1
    <2>3. x \in Int /\ m \in Int
      OBVIOUS
    <2> HIDE DEF T
    <2> QED BY <2>2, <2>3
  <1>4. Max(S) = m
    <2>1. S \subseteq Int
      OBVIOUS
    <2> HIDE DEF T
    <2> QED BY <1>3, <2>1, MaxIs
  <1> QED BY <1>3, <1>4

(***************************************************************************)
(* Histories.                                                              *)
(***************************************************************************)

\* An event appended later does not change the past.
LEMMA PastIsFixed ==
    ASSUME NEW S, NEW l \in Seq(S), NEW e \in S, NEW i \in 0 .. Len(l), NEW k, NEW v
    PROVE  /\ About(Append(l, e), k, i) = About(l, k, i)
           /\ \A j \in About(l, k, i) : Append(l, e)[j] = l[j]
           /\ ValueAfter(Append(l, e), k, i, v) = ValueAfter(l, k, i, v)
  <1>1. \A j \in 1 .. i : Append(l, e)[j] = l[j]
    OBVIOUS
  <1>2. About(Append(l, e), k, i) = About(l, k, i)
    BY <1>1 DEF About
  <1>3. \A j \in About(l, k, i) : Append(l, e)[j] = l[j]
    BY <1>1 DEF About
  <1>4. About(l, k, i) # {} => Max(About(l, k, i)) \in About(l, k, i)
    <2>1. About(l, k, i) \subseteq 1 .. i /\ i \in Nat
      BY DEF About
    <2> QED BY <2>1, MaxOfBounded
  <1> QED BY <1>2, <1>3, <1>4 DEF ValueAfter

\* From one event of a set of keys to the next one.
LEMMA NextChange ==
    ASSUME NEW l, NEW i \in Nat, NEW j \in Nat, i < j, NEW k, NEW v,
           \A m \in i + 1 .. j - 1 : l[m].key # k
    PROVE  /\ About(l, k, j) = IF l[j].key = k THEN About(l, k, i) \cup {j} ELSE About(l, k, i)
           /\ ValueAfter(l, k, j, v) = IF l[j].key = k THEN l[j].val ELSE ValueAfter(l, k, i, v)
  <1>1. About(l, k, j) = IF l[j].key = k THEN About(l, k, i) \cup {j} ELSE About(l, k, i)
    BY DEF About
  <1>2. CASE l[j].key = k
    <2>1. j \in About(l, k, j) /\ About(l, k, j) \subseteq Int /\ \A x \in About(l, k, j) : x <= j
      BY <1>2 DEF About
    <2>2. Max(About(l, k, j)) = j
      BY <2>1, MaxIs
    <2> QED BY <1>1, <1>2, <2>1, <2>2 DEF ValueAfter
  <1>3. CASE l[j].key # k
    BY <1>1, <1>3 DEF ValueAfter
  <1> QED BY <1>2, <1>3

\* The value of a key is the one it had, or that of an event about it.
LEMMA ValueIsOfEvent ==
    ASSUME NEW l, NEW i \in Nat, NEW k, NEW v
    PROVE  \/ About(l, k, i) = {} /\ ValueAfter(l, k, i, v) = v
           \/ \E j \in About(l, k, i) : ValueAfter(l, k, i, v) = l[j].val
  <1>1. About(l, k, i) \subseteq 1 .. i
    BY DEF About
  <1>2. About(l, k, i) # {} => Max(About(l, k, i)) \in About(l, k, i)
    BY <1>1, MaxOfBounded
  <1> QED BY <1>2 DEF ValueAfter

\* Values of nodes and of parameters have their type.
LEMMA ValueTypes ==
    ASSUME log \in Seq(Events), NEW i \in 0 .. Len(log), NEW k \in Keys
    PROVE  /\ k \in Nodes => ValueAt(k, i) \in NodeValues \cup {NoVal}
           /\ k \in Params => ValueAt(k, i) \in ParamValues \cup {NoVal}
  <1>1. \A j \in About(log, k, i) : log[j] \in Events /\ log[j].key = k
    BY DEF About
  <1>2. \A e \in Events : /\ e.key \in Nodes => e.val \in NodeValues \cup {NoVal}
                          /\ e.key \in Params => e.val \in ParamValues \cup {NoVal}
    BY EtcdAssumption DEF Events, NodeEvents
  <1> QED BY <1>1, <1>2, ValueIsOfEvent DEF ValueAt

\* What a watch of the keys K that has got to i receives next.
LEMMA NextReceived ==
    ASSUME log \in Seq(Events), NEW i \in 0 .. Len(log), NEW K, NextEvents(K, i) # {},
           NEW j, j = Min(NextEvents(K, i))
    PROVE  /\ j \in i + 1 .. Len(log) /\ log[j].key \in K
           /\ \A k \in K :
                 /\ About(log, k, j) = IF log[j].key = k THEN About(log, k, i) \cup {j}
                                                        ELSE About(log, k, i)
                 /\ ValueAt(k, j) = IF log[j].key = k THEN log[j].val ELSE ValueAt(k, i)
  <1>1. NextEvents(K, i) \subseteq Nat
    BY DEF NextEvents
  <1>2. j \in NextEvents(K, i) /\ \A x \in NextEvents(K, i) : j <= x
    BY <1>1, MinOfNats
  <1>3. j \in i + 1 .. Len(log) /\ log[j].key \in K
    BY <1>2 DEF NextEvents
  <1>4. \A m \in i + 1 .. j - 1 : log[m].key \notin K
    BY <1>2, <1>3 DEF NextEvents
  <1>5. ASSUME NEW k \in K
        PROVE  /\ About(log, k, j) = IF log[j].key = k THEN About(log, k, i) \cup {j}
                                                      ELSE About(log, k, i)
               /\ ValueAt(k, j) = IF log[j].key = k THEN log[j].val ELSE ValueAt(k, i)
    <2>1. \A m \in i + 1 .. j - 1 : log[m].key # k
      BY <1>4
    <2>2. i \in Nat /\ j \in Nat /\ i < j
      BY <1>3
    <2> QED BY <2>1, <2>2, NextChange DEF ValueAt
  <1> QED BY <1>3, <1>5

(***************************************************************************)
(* Service discovery: what the cache holds while the list is taken over.   *)
(***************************************************************************)
Listed ==
    /\ ~sdGot => sdTodo = {}
    /\ sdPc = "get" => \A n \in Nodes : nodes[n] = NoVal
    /\ sdPc = "load" =>
          \A n \in Nodes : nodes[n] = IF sdGot /\ n \notin sdTodo THEN ValueAt(n, sdPos) ELSE NoVal

CacheInv == Listed /\ CacheIsReplay

\* A change in etcd leaves what the watch has seen as it is.
LEMMA CacheKeptByEtcd ==
    ASSUME TypeOK, CacheInv, EtcdChange
    PROVE  CacheInv'
  <1>1. PICK e \in Events : log' = Append(log, e)
    BY DEF EtcdChange, Change
  <1>2. UNCHANGED <<sdPc, sdTodo, sdGot, sdPos, sdFrom, nodes>>
    BY DEF EtcdChange, discoveryVars, watchVars
  <1>3. \A n \in Nodes : /\ ValueAfter(log', n, sdPos, NoVal) = ValueAfter(log, n, sdPos, NoVal)
                         /\ About(log', n, sdPos) = About(log, n, sdPos)
    BY <1>1, PastIsFixed DEF TypeOK, DiscoveryTypeOK
  <1>4. \A n \in Nodes : ValueAt(n, sdPos)' = ValueAt(n, sdPos) /\ Known(n)' = Known(n)
    BY <1>2, <1>3 DEF ValueAt, Known
  <1> QED BY <1>2, <1>4 DEF CacheInv, Listed, CacheIsReplay

\* The goroutine of StartWatching keeps the cache in step with the history.
LEMMA CacheKept ==
    ASSUME TypeOK, CacheInv, UNCHANGED log,
           DiscoveryNext \/ UNCHANGED discoveryVars
    PROVE  CacheInv'
  <1> USE DEF TypeOK, DiscoveryTypeOK
  <1>0. \A n \in Nodes : nodes[n] \in NodeValues \cup {NoVal}
    OBVIOUS
  <1>1. ASSUME NEW outcome, GetNodes(outcome) PROVE CacheInv'
    <2>1. \A n \in Nodes : n \notin sdTodo' /\ sdGot' => ValueAt(n, sdPos)' = NoVal
      BY <1>1 DEF GetNodes, Now, ValueAt
    <2> QED BY <1>1, <2>1 DEF GetNodes, CacheInv, Listed, CacheIsReplay
  <1>2. ASSUME NEW m \in Nodes, LoadNode(m) PROVE CacheInv'
    <2>1. \A n \in Nodes : ValueAt(n, sdPos)' = ValueAt(n, sdPos)
      BY <1>2 DEF LoadNode, ValueAt
    <2>2. sdGot
      BY <1>2 DEF LoadNode, CacheInv, Listed
    <2> QED BY <1>2, <2>1, <2>2 DEF LoadNode, SetNode, CacheInv, Listed, CacheIsReplay
  <1>3. CASE WatchNodes
    <2>1. sdPos' = (IF sdGot THEN sdPos ELSE Len(log)) /\ sdFrom' = sdPos'
      BY <1>3 DEF WatchNodes, WatchRev
    <2>2. \A n \in Nodes : Known(n)' <=> sdGot
      BY <1>3, <2>1 DEF WatchNodes, Known, About
    <2>3. sdGot => \A n \in Nodes : ValueAt(n, sdPos)' = ValueAt(n, sdPos)
      BY <2>1 DEF ValueAt
    <2> QED BY <1>3, <2>2, <2>3 DEF WatchNodes, CacheInv, Listed, CacheIsReplay
  <1>4. CASE WatchEvent
    <2>2. PICK j : j = Min(Unseen)
      OBVIOUS
    <2>4. j \in sdPos + 1 .. Len(log) /\ log[j].key \in Nodes
      BY <1>4, <2>2, NextReceived DEF WatchEvent, Unseen
    <2>5. sdPos' = j /\ nodes' = [nodes EXCEPT ![log[j].key] = log[j].val]
      BY <1>4, <2>2 DEF WatchEvent, SetNode
    <2>6. \A n \in Nodes :
            /\ About(log, n, j) = IF log[j].key = n THEN About(log, n, sdPos) \cup {j}
                                                   ELSE About(log, n, sdPos)
            /\ ValueAt(n, j) = IF log[j].key = n THEN log[j].val ELSE ValueAt(n, sdPos)
      BY <1>4, <2>2, NextReceived DEF WatchEvent, Unseen
    <2>7. \A n \in Nodes :
            /\ ValueAt(n, sdPos)' = IF log[j].key = n THEN log[j].val ELSE ValueAt(n, sdPos)
            /\ log[j].key = n => Known(n)'
            /\ log[j].key # n => Known(n)' = Known(n)
      <3> TAKE n \in Nodes
      <3>1. ValueAt(n, sdPos)' = ValueAt(n, j)
        BY <2>5 DEF ValueAt
      <3>2. Known(n)' <=> (sdGot \/ \E x \in About(log, n, j) : x > sdFrom)
        BY <1>4, <2>5 DEF WatchEvent, Known
      <3>3. j > sdFrom
        BY <2>4
      <3>4. CASE log[j].key = n
        BY <2>6, <3>1, <3>2, <3>3, <3>4
      <3>5. CASE log[j].key # n
        BY <2>6, <3>1, <3>2, <3>5 DEF ValueAt, Known
      <3> QED BY <3>4, <3>5
    <2> QED BY <1>4, <2>4, <2>5, <2>7 DEF WatchEvent, CacheInv, Listed, CacheIsReplay
  <1>5. ASSUME UNCHANGED <<sdTodo, sdGot, sdPos, sdFrom, nodes>>,
               sdPc' = sdPc \/ (sdPc = "watch" /\ sdPc' = "ended")
        PROVE  CacheInv'
    <2>1. \A n \in Nodes : ValueAt(n, sdPos)' = ValueAt(n, sdPos) /\ Known(n)' = Known(n)
      BY <1>5 DEF ValueAt, Known
    <2> QED BY <1>5, <2>1 DEF CacheInv, Listed, CacheIsReplay
  <1>6. CASE WatchEnds
    BY <1>5, <1>6 DEF WatchEnds
  <1>7. CASE Emit
    <2>1. UNCHANGED <<sdTodo, sdGot, sdPos, sdFrom, nodes>> /\ sdPc' = sdPc
      BY <1>7 DEF Emit, watchVars
    <2> QED BY <1>5, <2>1
  <1>8. CASE ConsumerStep
    <2>1. UNCHANGED <<sdTodo, sdGot, sdPos, sdFrom, nodes>> /\ sdPc' = sdPc
      BY <1>8 DEF ConsumerStep, Subscribe, GetOnlineNodeIDs, GetNodeInfo, ReceiveEvent, watchVars
    <2> QED BY <1>5, <2>1
  <1>9. CASE UNCHANGED discoveryVars
    <2>1. UNCHANGED <<sdTodo, sdGot, sdPos, sdFrom, nodes>> /\ sdPc' = sdPc
      BY <1>9 DEF discoveryVars, watchVars
    <2> QED BY <1>5, <2>1
  <1> QED BY <1>1, <1>2, <1>3, <1>4, <1>6, <1>7, <1>8, <1>9 DEF DiscoveryNext, DiscoveryStep
(***************************************************************************)
(* The consumer of the events.                                             *)
(***************************************************************************)

\* To apply the first event and then the others is to apply them all.
LEMMA HeadApplied ==
    ASSUME NEW S, NEW c \in Seq(S), c # <<>>, NEW k, NEW v
    PROVE  /\ Head(c).key = k =>
                ValueAfter(Tail(c), k, Len(Tail(c)), Head(c).val) = ValueAfter(c, k, Len(c), v)
           /\ Head(c).key # k =>
                ValueAfter(Tail(c), k, Len(Tail(c)), v) = ValueAfter(c, k, Len(c), v)
           /\ About(c, k, Len(c)) = {} => About(Tail(c), k, Len(Tail(c))) = {}
  <1> DEFINE A == About(c, k, Len(c))
             B == About(Tail(c), k, Len(Tail(c)))
  <1>1. /\ Len(c) \in Nat /\ Len(c) > 0 /\ Len(Tail(c)) = Len(c) - 1 /\ Head(c) = c[1]
        /\ \A i \in 1 .. Len(c) - 1 : Tail(c)[i] = c[i + 1]
    OBVIOUS
  <1>2. \A i \in B : i \in Nat /\ i + 1 \in A /\ Tail(c)[i] = c[i + 1]
    BY <1>1 DEF About
  <1>3. \A i \in A : i \in Nat /\ (i = 1 \/ i - 1 \in B)
    BY <1>1 DEF About
  <1>4. 1 \in A <=> Head(c).key = k
    BY <1>1 DEF About
  <1>5. B \subseteq 1 .. Len(Tail(c)) /\ Len(Tail(c)) \in Nat
    BY <1>1 DEF About
  <1> HIDE DEF A, B
  <1>6. CASE B = {}
    <2>1. CASE 1 \in A
      <3>1. A \subseteq Int /\ \A i \in A : i <= 1
        BY <1>3, <1>6
      <3>2. Max(A) = 1
        BY <2>1, <3>1, MaxIs
      <3> QED BY <1>1, <1>4, <1>6, <2>1, <3>2 DEF A, B, ValueAfter
    <2>2. CASE 1 \notin A
      <3>1. A = {}
        BY <1>3, <1>6, <2>2
      <3> QED BY <1>4, <1>6, <2>2, <3>1 DEF A, B, ValueAfter
    <2> QED BY <2>1, <2>2
  <1>7. CASE B # {}
    <2>1. PICK b : b = Max(B)
      OBVIOUS
    <2>2. b \in B /\ \A i \in B : i <= b
      BY <1>5, <1>7, <2>1, MaxOfBounded
    <2>3. b \in Nat /\ b + 1 \in A /\ Tail(c)[b] = c[b + 1]
      BY <1>2, <2>2
    <2>4. \A i \in A : i <= b + 1
      BY <1>3, <2>2, <2>3
    <2>5. Max(A) = b + 1
      <3>1. A \subseteq Int
        BY <1>3
      <3> QED BY <2>3, <2>4, <3>1, MaxIs
    <2> QED BY <1>7, <2>1, <2>3, <2>5 DEF A, B, ValueAfter
  <1> QED BY <1>6, <1>7

\* To apply one more event.
LEMMA LastApplied ==
    ASSUME NEW S, NEW c \in Seq(S), NEW e \in S, NEW k, NEW v
    PROVE  /\ e.key = k => ValueAfter(Append(c, e), k, Len(c) + 1, v) = e.val
           /\ e.key # k =>
                /\ ValueAfter(Append(c, e), k, Len(c) + 1, v) = ValueAfter(c, k, Len(c), v)
                /\ About(Append(c, e), k, Len(c) + 1) = About(c, k, Len(c))
  <1> PICK l : l = Append(c, e)
    OBVIOUS
  <1> DEFINE A == About(c, k, Len(c))
             B == About(l, k, Len(l))
  <1>1. /\ Len(c) \in Nat /\ Len(l) = Len(c) + 1 /\ l[Len(l)] = e
        /\ \A m \in 1 .. Len(c) : l[m] = c[m]
    OBVIOUS
  <1>2. B = IF e.key = k THEN A \cup {Len(l)} ELSE A
    BY <1>1 DEF About
  <1>3. A \subseteq 1 .. Len(c)
    BY DEF About
  <1> HIDE DEF A, B
  <1>4. ASSUME e.key = k PROVE ValueAfter(l, k, Len(l), v) = e.val
    <2>1. Len(l) \in B /\ B \subseteq Int /\ \A x \in B : x <= Len(l)
      <3>1. B = A \cup {Len(l)}
        BY <1>2, <1>4
      <3>2. \A x \in A : x \in Int /\ x <= Len(c)
        BY <1>3
      <3>3. Len(l) \in Int /\ \A x \in Int : x <= Len(c) => x <= Len(l)
        BY <1>1
      <3> QED BY <3>1, <3>2, <3>3
    <2>2. Max(B) = Len(l)
      BY <2>1, MaxIs
    <2> QED BY <1>1, <1>4, <2>1, <2>2 DEF B, ValueAfter
  <1>5. ASSUME e.key # k
        PROVE  ValueAfter(l, k, Len(l), v) = ValueAfter(c, k, Len(c), v) /\ B = A
    <2>1. A # {} => Max(A) \in A
      BY <1>1, <1>3, MaxOfBounded
    <2>2. A # {} => l[Max(A)] = c[Max(A)]
      BY <1>1, <1>3, <2>1
    <2> QED BY <1>2, <1>5, <2>2 DEF A, B, ValueAfter
  <1> QED BY <1>1, <1>4, <1>5 DEF A, B

\* What is under way agrees with the cache, as long as nothing was dropped, and
\* so does the consumer's picture of the nodes that it need not read any more.
ConsumerInv ==
    /\ consumer = "out" => inbox = <<>>
    /\ consumer # "missed" =>
          \A n \in Nodes : About(Coming, n, Len(Coming)) # {} => Outcome(n) = nodes[n]
    /\ consumer \in {"out", "subscribed"} => toRead = {} /\ \A n \in Nodes : view[n] = NoVal
    /\ consumer = "reading" => \A n \in Nodes \ toRead : Outcome(n) = nodes[n]

\* When the cache is changed, the event that is about to be sent says so.
LEMMA ConsumerKeptBySet ==
    ASSUME TypeOK, ConsumerInv, NEW m \in Nodes, NEW v \in NodeValues \cup {NoVal}, SetNode(m, v),
           UNCHANGED consumerVars
    PROVE  ConsumerInv'
  <1> DEFINE e == [key |-> m, val |-> v]
  <1>1. e \in NodeEvents
    BY DEF NodeEvents
  <1>2. Coming = inbox /\ Coming' = Append(inbox, e) /\ inbox \in Seq(NodeEvents)
    BY <1>1 DEF Coming, SetNode, consumerVars, TypeOK, DiscoveryTypeOK
  <1>4. ASSUME NEW n \in Nodes
        PROVE  /\ n = m => Outcome(n)' = v
               /\ n # m => /\ Outcome(n)' = Outcome(n)
                           /\ About(Coming, n, Len(Coming))' = About(Coming, n, Len(Coming))
    <2>1. /\ e.key = n => ValueAfter(Coming', n, Len(Coming'), view[n]) = e.val
          /\ e.key # n =>
               /\ ValueAfter(Coming', n, Len(Coming'), view[n]) = ValueAfter(inbox, n, Len(inbox), view[n])
               /\ About(Coming', n, Len(Coming')) = About(inbox, n, Len(inbox))
      <3> HIDE DEF e
      <3>1. inbox \in Seq(NodeEvents)
        BY <1>2
      <3>2. /\ e.key = n => ValueAfter(Append(inbox, e), n, Len(inbox) + 1, view[n]) = e.val
            /\ e.key # n =>
                 /\ ValueAfter(Append(inbox, e), n, Len(inbox) + 1, view[n]) =
                      ValueAfter(inbox, n, Len(inbox), view[n])
                 /\ About(Append(inbox, e), n, Len(inbox) + 1) = About(inbox, n, Len(inbox))
        BY SMTT(40), <1>1, <3>1, LastApplied
      <3>3. Coming' = Append(inbox, e) /\ Len(Coming') = Len(inbox) + 1
        BY <1>1, <1>2, <3>1
      <3> QED BY <3>2, <3>3
    <2>3. e.key = m /\ e.val = v /\ view' = view
      BY DEF consumerVars
    <2> QED BY <1>2, <2>1, <2>3 DEF Outcome
  <1>5. \A n \in Nodes : nodes'[n] = IF n = m THEN v ELSE nodes[n]
    BY DEF SetNode, TypeOK, DiscoveryTypeOK
  <1>6. UNCHANGED <<consumer, inbox, toRead, view>>
    BY DEF consumerVars
  <1> QED BY <1>4, <1>5, <1>6 DEF ConsumerInv
\* Every step of discovery and of the consumer keeps what is under way right.
LEMMA ConsumerKept ==
    ASSUME TypeOK, ConsumerInv,
           \/ DiscoveryNext /\ UNCHANGED log
           \/ UNCHANGED discoveryVars
    PROVE  ConsumerInv'
  <1>1. ASSUME UNCHANGED <<nodes, toEmit, consumerVars>> PROVE ConsumerInv'
    <2>1. UNCHANGED <<nodes, toEmit, inbox, view, toRead, consumer>>
      BY <1>1 DEF consumerVars
    <2> QED BY <2>1 DEF ConsumerInv, Coming, Outcome
  <1>2. CASE \E outcome \in {"ok", "error"} : GetNodes(outcome)
    BY <1>1, <1>2 DEF GetNodes
  <1>3. ASSUME NEW n \in Nodes, LoadNode(n) PROVE ConsumerInv'
    <2>1. ValueAt(n, sdPos) \in NodeValues \cup {NoVal}
      BY ValueTypes DEF TypeOK, DiscoveryTypeOK, Keys
    <2> QED BY <1>3, <2>1, ConsumerKeptBySet DEF LoadNode
  <1>4. CASE WatchNodes
    BY <1>1, <1>4 DEF WatchNodes
  <1>5. CASE WatchEvent /\ UNCHANGED log
    <2>1. PICK j : j = Min(Unseen)
      OBVIOUS
    <2>2. j \in sdPos + 1 .. Len(log) /\ log[j].key \in Nodes
      BY <1>5, <2>1, NextReceived DEF WatchEvent, Unseen, TypeOK, DiscoveryTypeOK
    <2>3. log[j] \in Events
      BY <2>2 DEF TypeOK, DiscoveryTypeOK
    <2>4. log[j].val \in NodeValues \cup {NoVal}
      BY <2>2, <2>3, EtcdAssumption DEF Events, NodeEvents
    <2>5. SetNode(log[j].key, log[j].val) /\ UNCHANGED consumerVars
      BY <1>5, <2>1 DEF WatchEvent
    <2> QED BY <2>2, <2>4, <2>5, ConsumerKeptBySet
  <1>6. CASE WatchEnds
    BY <1>1, <1>6 DEF WatchEnds
  <1>7. CASE Emit
    <2> USE <1>7 DEF Emit, TypeOK, DiscoveryTypeOK
    <2>1. CASE consumer = "out"
      <3>1. inbox' = <<>> /\ toEmit' = <<>> /\ consumer' = "out"
        BY <2>1 DEF ConsumerInv
      <3>2. Coming' = <<>>
        BY <3>1 DEF Coming
      <3>3. \A n \in Nodes : About(Coming, n, Len(Coming))' = {}
        BY <3>2 DEF About
      <3> QED BY <2>1, <3>1, <3>3 DEF ConsumerInv
    <2>2. CASE consumer # "out" /\ Len(inbox) < Buffer
      <3>1. Coming' = Coming /\ UNCHANGED <<consumer, view, toRead, nodes>>
        BY <2>2 DEF Coming
      <3> QED BY <2>2, <3>1 DEF ConsumerInv, Outcome
    <2>3. CASE consumer # "out" /\ Len(inbox) = Buffer
      BY <2>3 DEF ConsumerInv
    <2> QED BY <2>1, <2>2, <2>3
  <1>8. CASE Subscribe
    <2>1. UNCHANGED <<nodes, view, toRead, Coming>> /\ consumer = "out" /\ consumer' = "subscribed"
      BY <1>8 DEF Subscribe, Coming
    <2> QED BY <2>1 DEF ConsumerInv, Outcome
  <1>9. CASE GetOnlineNodeIDs
    <2>1. /\ UNCHANGED <<nodes, Coming, view>> /\ consumer = "subscribed" /\ consumer' = "reading"
          /\ toRead' = {n \in Nodes : nodes[n] # NoVal}
      BY <1>9 DEF GetOnlineNodeIDs, Coming
    <2>2. \A n \in Nodes : Outcome(n)' = Outcome(n)
      BY <2>1 DEF Outcome
    <2>3. ASSUME NEW n \in Nodes, nodes[n] = NoVal PROVE Outcome(n) = nodes[n]
      BY <2>1, <2>3 DEF ConsumerInv, Outcome, ValueAfter
    <2> QED BY <2>1, <2>2, <2>3 DEF ConsumerInv
  <1>12. ASSUME NEW m \in Nodes, GetNodeInfo(m) PROVE ConsumerInv'
    <2>1. /\ UNCHANGED <<nodes, Coming, inbox, consumer>> /\ m \in toRead /\ toRead' = toRead \ {m}
          /\ \A n \in Nodes : view'[n] = IF n = m THEN nodes[n] ELSE view[n]
      BY <1>12 DEF GetNodeInfo, Coming, TypeOK, DiscoveryTypeOK
    <2>2. \A n \in Nodes : n # m => Outcome(n)' = Outcome(n)
      BY <2>1 DEF Outcome
    <2>3. About(Coming, m, Len(Coming)) # {} => Outcome(m)' = Outcome(m)
      BY <2>1 DEF Outcome, ValueAfter
    <2>4. About(Coming, m, Len(Coming)) = {} => Outcome(m)' = nodes[m]
      BY <2>1 DEF Outcome, ValueAfter
    <2> QED BY <2>1, <2>2, <2>3, <2>4 DEF ConsumerInv
  <1>10. CASE ReceiveEvent
    <2> USE <1>10 DEF ReceiveEvent, TypeOK, DiscoveryTypeOK
    <2>1. /\ Coming \in Seq(NodeEvents) /\ Coming # <<>> /\ Coming' = Tail(Coming)
          /\ Head(Coming) = Head(inbox)
      BY DEF Coming
    <2>2. \A n \in Nodes : view'[n] = IF Head(Coming).key = n THEN Head(Coming).val ELSE view[n]
      BY <2>1
    <2>3. \A n \in Nodes : /\ Outcome(n)' = Outcome(n)
                           /\ About(Coming, n, Len(Coming)) = {} => About(Coming, n, Len(Coming))' = {}
      <3> TAKE n \in Nodes
      <3>1. /\ Head(Coming).key = n =>
                 ValueAfter(Tail(Coming), n, Len(Tail(Coming)), Head(Coming).val) =
                   ValueAfter(Coming, n, Len(Coming), view[n])
            /\ Head(Coming).key # n =>
                 ValueAfter(Tail(Coming), n, Len(Tail(Coming)), view[n]) =
                   ValueAfter(Coming, n, Len(Coming), view[n])
            /\ About(Coming, n, Len(Coming)) = {} => About(Tail(Coming), n, Len(Tail(Coming))) = {}
        BY <2>1, HeadApplied
      <3> QED BY <2>1, <2>2, <3>1 DEF Outcome
    <2>4. UNCHANGED <<nodes, toRead, consumer>> /\ consumer \in {"reading", "missed"}
      OBVIOUS
    <2> QED BY <2>3, <2>4 DEF ConsumerInv
  <1>11. CASE UNCHANGED discoveryVars
    BY <1>1, <1>11 DEF discoveryVars
  <1> QED
    BY <1>2, <1>3, <1>4, <1>5, <1>6, <1>7, <1>8, <1>9, <1>10, <1>11, <1>12
    DEF DiscoveryNext, DiscoveryStep, ConsumerStep

(***************************************************************************)
(* The configuration.                                                      *)
(***************************************************************************)

\* What the scheduler has while the list is taken over.
ConfigListed ==
    /\ ~cwGot => cwTodo = {}
    /\ cwPc = "get" => param = Default
    /\ cwPc = "load" =>
          \A k \in Params :
              param[k] = IF cwGot /\ k \notin cwTodo /\ Usable(ValueAt(k, cwPos))
                           THEN ValueAt(k, cwPos) ELSE Default[k]

ConfigInv == ConfigListed /\ ConfigCurrent

\* What the callback left in the field of k.
LastAccepted(k) == IF Accepted(k) = {} THEN Default[k] ELSE log[Max(Accepted(k))].val

\* The greatest revision with a usable value is one of them.
LEMMA AcceptedBounded ==
    ASSUME TypeOK, NEW k
    PROVE  /\ Accepted(k) \subseteq 1 .. cwPos
           /\ Accepted(k) # {} =>
                Max(Accepted(k)) \in Accepted(k) /\ \A x \in Accepted(k) : x <= Max(Accepted(k))
  <1>1. Accepted(k) \subseteq 1 .. cwPos /\ cwPos \in Nat
    BY DEF Accepted, Shown, About, TypeOK, ConfigTypeOK
  <1> QED BY <1>1, MaxOfBounded

\* A change in etcd leaves what the watcher has seen as it is.
LEMMA ConfigKeptByEtcd ==
    ASSUME TypeOK, ConfigInv, EtcdChange
    PROVE  ConfigInv'
  <1>1. PICK e \in Events : log' = Append(log, e)
    BY DEF EtcdChange, Change
  <1>2. UNCHANGED <<cwPc, cwTodo, cwGot, cwPos, cwFrom, param>>
    BY DEF EtcdChange, configVars
  <1>3. \A k \in Params : /\ ValueAfter(log', k, cwPos, NoVal) = ValueAfter(log, k, cwPos, NoVal)
                          /\ About(log', k, cwPos) = About(log, k, cwPos)
                          /\ \A j \in About(log, k, cwPos) : log'[j] = log[j]
    <2> TAKE k \in Params
    <2>1. log \in Seq(Events) /\ cwPos \in 0 .. Len(log)
      BY DEF TypeOK, ConfigTypeOK
    <2>2. /\ About(Append(log, e), k, cwPos) = About(log, k, cwPos)
          /\ ValueAfter(Append(log, e), k, cwPos, NoVal) = ValueAfter(log, k, cwPos, NoVal)
      BY <2>1, PastIsFixed
    <2>3. \A j \in About(log, k, cwPos) : Append(log, e)[j] = log[j]
      BY <2>1 DEF About
    <2> QED BY <1>1, <2>2, <2>3
  <1>4. \A k \in Params : ValueAt(k, cwPos)' = ValueAt(k, cwPos)
    BY <1>2, <1>3 DEF ValueAt
  <1>5. \A k \in Params : LastAccepted(k)' = LastAccepted(k)
    <2> TAKE k \in Params
    <2>1. log \in Seq(Events) /\ cwFrom \in 0 .. Len(log)
      BY DEF TypeOK, ConfigTypeOK
    <2>2. About(Append(log, e), k, cwFrom) = About(log, k, cwFrom)
      BY <2>1, PastIsFixed
    <2>3. Shown(k)' = Shown(k)
      BY <1>1, <1>2, <1>3, <2>2 DEF Shown
    <2>4. \A i \in Shown(k) : log'[i] = log[i]
      BY <1>3 DEF Shown
    <2>5. Accepted(k)' = Accepted(k)
      BY <2>3, <2>4 DEF Accepted
    <2>6. Accepted(k) # {} => Max(Accepted(k)) \in Shown(k)
      BY AcceptedBounded DEF Accepted
    <2> QED BY <2>4, <2>5, <2>6 DEF LastAccepted
  <1>6. ConfigListed'
    BY <1>2, <1>4 DEF ConfigInv, ConfigListed
  <1>7. ConfigCurrent'
    BY <1>2, <1>5 DEF ConfigInv, ConfigCurrent, LastAccepted
  <1> QED BY <1>6, <1>7 DEF ConfigInv

\* The watcher and its callback keep the parameters in step with the history.
LEMMA ConfigKept ==
    ASSUME TypeOK, ConfigInv, UNCHANGED log, ConfigNext \/ UNCHANGED configVars
    PROVE  ConfigInv'
  <1> USE DEF TypeOK, ConfigTypeOK
  <1>1. ASSUME NEW outcome, GetConfig(outcome) PROVE ConfigInv'
    <2>1. \A k \in Params : k \notin cwTodo' /\ cwGot' => ~Usable(ValueAt(k, cwPos)')
      BY <1>1 DEF GetConfig, Now, ValueAt, Usable
    <2> QED BY <1>1, <2>1 DEF GetConfig, ConfigInv, ConfigListed, ConfigCurrent
  <1>2. ASSUME NEW m \in Params, LoadParam(m) PROVE ConfigInv'
    <2>1. \A k \in Params : ValueAt(k, cwPos)' = ValueAt(k, cwPos)
      BY <1>2 DEF LoadParam, ValueAt
    <2>2. cwGot
      BY <1>2 DEF LoadParam, ConfigInv, ConfigListed
    <2> QED BY <1>2, <2>1, <2>2 DEF LoadParam, Callback, ConfigInv, ConfigListed, ConfigCurrent
  <1>3. CASE WatchConfig
    <2>1. /\ cwPos' = (IF cwGot THEN cwPos ELSE Len(log)) /\ cwFrom' = cwPos'
          /\ UNCHANGED <<cwGot, param>> /\ cwPc = "load" /\ cwPc' = "watch" /\ cwTodo' = {} /\ cwTodo = {}
      BY <1>3 DEF WatchConfig, ConfigRev
    <2>2. ASSUME NEW k \in Params PROVE param'[k] = LastAccepted(k)'
      <3> DEFINE A == About(log, k, cwPos')
      <3>1. A \subseteq 1 .. cwPos' /\ cwPos' \in Nat
        BY <2>1 DEF About
      <3>2. Shown(k)' = {j \in A : cwGot /\ \A i \in A : i <= j}
        BY <2>1, <3>1 DEF Shown
      <3>3. CASE ~cwGot
        <4>1. Accepted(k)' = {}
          BY <3>2, <3>3 DEF Accepted
        <4> QED BY <2>1, <3>3, <4>1 DEF LastAccepted, ConfigInv, ConfigListed
      <3>4. CASE cwGot /\ A = {}
        <4>1. Accepted(k)' = {}
          BY <3>2, <3>4 DEF Accepted
        <4>2. ~Usable(ValueAt(k, cwPos))
          BY <2>1, <3>4 DEF ValueAt, ValueAfter, Usable
        <4> QED BY <2>1, <4>1, <4>2 DEF LastAccepted, ConfigInv, ConfigListed
      <3>5. CASE cwGot /\ A # {}
        <4>1. PICK m : m = Max(A)
          OBVIOUS
        <4>2. m \in A /\ \A i \in A : i <= m
          BY <3>1, <3>5, <4>1, MaxOfBounded
        <4>3. m \in Int /\ \A i \in A : i \in Int
          BY <3>1, <4>2
        <4>4. Shown(k)' = {m}
          <5> HIDE DEF A
          <5>1. \A j \in A : (\A i \in A : i <= j) => j = m
            BY <4>2, <4>3
          <5> QED BY <3>2, <3>5, <4>2, <5>1
        <4>5. ValueAt(k, cwPos) = log[m].val
          BY <2>1, <3>5, <4>1 DEF ValueAt, ValueAfter
        <4>6. CASE Usable(log[m].val)
          <5>1. Accepted(k)' = {m}
            BY <4>4, <4>6 DEF Accepted
          <5>2. Max({m}) = m
            <6>1. {m} \subseteq Int /\ m \in {m} /\ \A x \in {m} : x <= m
              BY <4>3
            <6> QED BY ONLY <6>1, MaxIs
          <5>3. LastAccepted(k)' = log[m].val
            BY <5>1, <5>2 DEF LastAccepted
          <5> QED BY <2>1, <3>5, <4>5, <4>6, <5>3 DEF ConfigInv, ConfigListed
        <4>7. CASE ~Usable(log[m].val)
          <5>1. Accepted(k)' = {}
            BY <4>4, <4>7 DEF Accepted
          <5> QED BY <2>1, <3>5, <4>5, <4>7, <5>1 DEF LastAccepted, ConfigInv, ConfigListed
        <4> QED BY <4>6, <4>7
      <3> QED BY <3>3, <3>4, <3>5
    <2> QED BY <2>1, <2>2 DEF ConfigInv, ConfigListed, ConfigCurrent, LastAccepted
  <1>4. CASE ConfigEvent
    <2>1. PICK j : j = Min(NextEvents(Params, cwPos))
      OBVIOUS
    <2>2. /\ j \in cwPos + 1 .. Len(log) /\ log[j].key \in Params
          /\ \A k \in Params :
               /\ About(log, k, j) = IF log[j].key = k THEN About(log, k, cwPos) \cup {j}
                                                      ELSE About(log, k, cwPos)
               /\ ValueAt(k, j) = IF log[j].key = k THEN log[j].val ELSE ValueAt(k, cwPos)
      BY <1>4, <2>1, NextReceived DEF ConfigEvent
    <2>3. /\ cwPos' = j /\ Callback(log[j].key, log[j].val) /\ cwPc = "watch"
          /\ UNCHANGED <<cwPc, cwTodo, cwGot, cwFrom>>
      BY <1>4, <2>1 DEF ConfigEvent
    <2>4. ASSUME NEW k \in Params PROVE param'[k] = LastAccepted(k)'
      <3>1. param[k] = LastAccepted(k)
        BY <2>3 DEF ConfigInv, ConfigCurrent, LastAccepted
      <3>2. /\ Accepted(k) \subseteq 1 .. cwPos
            /\ Accepted(k) # {} =>
                 Max(Accepted(k)) \in Accepted(k) /\ \A x \in Accepted(k) : x <= Max(Accepted(k))
        BY AcceptedBounded
      <3>3. Shown(k)' = {x \in About(log, k, j) :
                           x > cwFrom \/ (cwGot /\ \A i \in About(log, k, cwFrom) : i <= x)}
        BY <2>3 DEF Shown
      <3>4. CASE log[j].key = k /\ Usable(log[j].val)
        <4>1. Accepted(k)' = Accepted(k) \cup {j}
          <5>1. j > cwFrom
            BY <2>2
          <5>2. Shown(k)' = Shown(k) \cup {j}
            BY <2>2, <3>3, <3>4, <5>1 DEF Shown
          <5> QED BY <3>4, <5>2 DEF Accepted
        <4>2. Max(Accepted(k) \cup {j}) = j
          <5>1. Accepted(k) \cup {j} \subseteq Int /\ \A x \in Accepted(k) \cup {j} : x <= j
            BY <2>2, <3>2
          <5> QED BY <5>1, MaxIs
        <4>3. LastAccepted(k)' = log[j].val
          BY <4>1, <4>2 DEF LastAccepted
        <4> QED BY <2>3, <3>4, <4>3 DEF Callback
      <3>5. CASE ~(log[j].key = k /\ Usable(log[j].val))
        <4>1. Accepted(k)' = Accepted(k)
          <5>1. Shown(k)' = Shown(k) \/ (log[j].key = k /\ Shown(k)' = Shown(k) \cup {j})
            <6>1. j > cwFrom
              BY <2>2
            <6>2. CASE log[j].key = k
              BY <2>2, <3>3, <6>1, <6>2 DEF Shown
            <6>3. CASE log[j].key # k
              BY <2>2, <3>3, <6>3 DEF Shown
            <6> QED BY <6>2, <6>3
          <5> QED BY <3>5, <5>1 DEF Accepted
        <4>2. LastAccepted(k)' = LastAccepted(k)
          BY <4>1 DEF LastAccepted
        <4>3. param'[k] = param[k]
          BY <2>2, <2>3, <3>5 DEF Callback
        <4> QED BY <3>1, <4>2, <4>3
      <3> QED BY <3>4, <3>5
    <2> QED BY <2>3, <2>4 DEF ConfigInv, ConfigListed, ConfigCurrent, LastAccepted
  <1>5. ASSUME UNCHANGED <<cwTodo, cwGot, cwPos, cwFrom, param>>,
               cwPc' = cwPc \/ (cwPc = "watch" /\ cwPc' = "ended")
        PROVE  ConfigInv'
    <2>1. \A k \in Params : ValueAt(k, cwPos)' = ValueAt(k, cwPos) /\ Accepted(k)' = Accepted(k)
      BY <1>5 DEF ValueAt, Accepted, Shown
    <2> QED BY <1>5, <2>1 DEF ConfigInv, ConfigListed, ConfigCurrent
  <1>6. CASE UNCHANGED configVars
    <2>1. UNCHANGED <<cwTodo, cwGot, cwPos, cwFrom, param>> /\ cwPc' = cwPc
      BY <1>6 DEF configVars
    <2> QED BY <1>5, <2>1
  <1>7. CASE ConfigEnds
    BY <1>5, <1>7 DEF ConfigEnds
  <1> QED BY <1>1, <1>2, <1>3, <1>4, <1>6, <1>7 DEF ConfigNext, ConfigStep

(***************************************************************************)
(* The type invariant.                                                     *)
(***************************************************************************)

\* Every change in etcd keeps positions within the history.
LEMMA TypeKeptByEtcd ==
    ASSUME TypeOK, EtcdChange
    PROVE  TypeOK'
  <1>1. PICK e \in Events : Len(log) < MaxEvents /\ log' = Append(log, e)
    BY DEF EtcdChange, Change
  <1>2. log' \in Seq(Events) /\ Len(log') = Len(log) + 1 /\ Len(log) \in Nat
    BY <1>1 DEF TypeOK
  <1>3. Len(log') <= MaxEvents
    BY <1>1, <1>2, EtcdAssumption
  <1>4. FaultsTypeOK'
    BY DEF EtcdChange, TypeOK, FaultsTypeOK
  <1>5. DiscoveryTypeOK'
    <2>1. UNCHANGED <<sdPc, sdTodo, sdGot, sdPos, sdFrom, nodes, toEmit, inbox, view, toRead, consumer>>
      BY DEF EtcdChange, discoveryVars, watchVars, consumerVars
    <2> QED BY <1>2, <2>1 DEF TypeOK, DiscoveryTypeOK
  <1>6. ConfigTypeOK'
    <2>1. UNCHANGED <<cwPc, cwTodo, cwGot, cwPos, cwFrom, param>>
      BY DEF EtcdChange, configVars
    <2> QED BY <1>2, <2>1 DEF TypeOK, ConfigTypeOK
  <1> QED BY <1>2, <1>3, <1>4, <1>5, <1>6 DEF TypeOK

\* A fault is counted.
LEMMA FaultsTyped ==
    ASSUME FaultsTypeOK, Fault \/ UNCHANGED faults
    PROVE  FaultsTypeOK'
  BY MaxFaultsAssumption DEF FaultsTypeOK, Fault

LEMMA TypeKeptByDiscovery ==
    ASSUME TypeOK, DiscoveryNext, UNCHANGED <<log, configVars>>
    PROVE  TypeOK'
  <1> USE DEF TypeOK
  <1>1. ConfigTypeOK'
    BY DEF ConfigTypeOK, configVars
  <1> SUFFICES DiscoveryTypeOK' /\ FaultsTypeOK'
    BY <1>1
  <1>2. Len(log) \in Nat /\ NoVal \in NodeValues \cup {NoVal}
    OBVIOUS
  <1>3. ASSUME NEW n \in Nodes, NEW v \in NodeValues \cup {NoVal}, SetNode(n, v)
        PROVE  /\ nodes' \in [Nodes -> NodeValues \cup {NoVal}]
               /\ toEmit' \in Seq(NodeEvents) /\ Len(toEmit') <= 1
    <2>1. [key |-> n, val |-> v] \in NodeEvents
      BY DEF NodeEvents
    <2> QED BY <1>3, <2>1 DEF SetNode, DiscoveryTypeOK
  <1>4. ASSUME NEW outcome, GetNodes(outcome) PROVE DiscoveryTypeOK' /\ FaultsTypeOK'
    <2>1. DiscoveryTypeOK'
      BY <1>2, <1>4 DEF GetNodes, DiscoveryTypeOK, consumerVars
    <2>2. FaultsTypeOK'
      BY <1>4, FaultsTyped DEF GetNodes, Attempt
    <2> QED BY <2>1, <2>2
  <1>5. ASSUME NEW n \in Nodes, LoadNode(n) PROVE DiscoveryTypeOK' /\ FaultsTypeOK'
    <2>1. ValueAt(n, sdPos) \in NodeValues \cup {NoVal}
      BY ValueTypes DEF DiscoveryTypeOK, Keys
    <2>2. /\ nodes' \in [Nodes -> NodeValues \cup {NoVal}]
          /\ toEmit' \in Seq(NodeEvents) /\ Len(toEmit') <= 1
      BY <1>3, <1>5, <2>1 DEF LoadNode
    <2> QED BY <1>5, <2>2, FaultsTyped DEF LoadNode, DiscoveryTypeOK, consumerVars
  <1>6. CASE WatchNodes
    <2>1. DiscoveryTypeOK'
      BY <1>2, <1>6 DEF WatchNodes, WatchRev, DiscoveryTypeOK, consumerVars
    <2>2. FaultsTypeOK'
      BY <1>6, FaultsTyped DEF WatchNodes
    <2> QED BY <2>1, <2>2
  <1>7. CASE WatchEvent
    <2>1. PICK j : j = Min(Unseen)
      OBVIOUS
    <2>2. j \in sdPos + 1 .. Len(log) /\ log[j].key \in Nodes
      BY <1>7, <2>1, NextReceived DEF WatchEvent, Unseen, DiscoveryTypeOK
    <2>3. log[j] \in Events
      BY <2>2 DEF DiscoveryTypeOK
    <2>4. log[j].val \in NodeValues \cup {NoVal}
      BY <2>2, <2>3, EtcdAssumption DEF Events, NodeEvents
    <2>5. sdPos' = j /\ SetNode(log[j].key, log[j].val)
      BY <1>7, <2>1 DEF WatchEvent
    <2>6. /\ nodes' \in [Nodes -> NodeValues \cup {NoVal}]
          /\ toEmit' \in Seq(NodeEvents) /\ Len(toEmit') <= 1
      BY <1>3, <2>2, <2>4, <2>5
    <2>7. DiscoveryTypeOK'
      BY <1>7, <2>2, <2>5, <2>6 DEF WatchEvent, DiscoveryTypeOK, consumerVars
    <2>8. FaultsTypeOK'
      BY <1>7, FaultsTyped DEF WatchEvent
    <2> QED BY <2>7, <2>8
  <1>8. CASE WatchEnds
    <2>1. DiscoveryTypeOK'
      BY <1>8 DEF WatchEnds, DiscoveryTypeOK, consumerVars
    <2>2. FaultsTypeOK'
      BY <1>8, FaultsTyped DEF WatchEnds
    <2> QED BY <2>1, <2>2
  <1>9. CASE Emit
    <2>1. inbox' \in Seq(NodeEvents) /\ Len(inbox') <= Buffer
      <3>1. /\ toEmit \in Seq(NodeEvents) /\ Len(toEmit) <= 1 /\ inbox \in Seq(NodeEvents)
            /\ Len(inbox) <= Buffer
        BY DEF DiscoveryTypeOK
      <3>2. inbox \o toEmit \in Seq(NodeEvents) /\ Len(inbox \o toEmit) <= Len(inbox) + 1
        BY <3>1
      <3>3. CASE inbox' = inbox
        BY <3>1, <3>3
      <3>4. CASE Len(inbox) < Buffer /\ inbox' = inbox \o toEmit
        <4>1. Len(inbox) \in Nat /\ Len(inbox') \in Nat /\ Len(inbox') <= Len(inbox) + 1
          BY <3>1, <3>2, <3>4
        <4>2. Len(inbox') <= Buffer
          BY <3>4, <4>1, BufferAssumption
        <4> QED BY <3>2, <3>4, <4>2
      <3> QED BY <1>9, <3>3, <3>4 DEF Emit
    <2>2. toEmit' \in Seq(NodeEvents) /\ Len(toEmit') <= 1
      BY <1>9 DEF Emit
    <2>3. consumer' \in {"out", "subscribed", "reading", "missed"}
      BY <1>9 DEF Emit, DiscoveryTypeOK
    <2>4. UNCHANGED <<sdPc, sdTodo, sdGot, sdPos, sdFrom, nodes, view, toRead, faults>>
      BY <1>9 DEF Emit, watchVars
    <2>5. DiscoveryTypeOK'
      BY <2>1, <2>2, <2>3, <2>4 DEF DiscoveryTypeOK
    <2> QED BY <2>4, <2>5, FaultsTyped
  <1>10. CASE Subscribe \/ GetOnlineNodeIDs \/ \E n \in Nodes : GetNodeInfo(n)
    <2>1. UNCHANGED <<sdPc, sdTodo, sdGot, sdPos, sdFrom, nodes, toEmit, inbox, faults>>
      BY <1>10 DEF Subscribe, GetOnlineNodeIDs, GetNodeInfo, watchVars
    <2>2. /\ view' = view \/ \E n \in Nodes : view' = [view EXCEPT ![n] = nodes[n]]
          /\ toRead' \subseteq Nodes
          /\ consumer' \in {"subscribed", "reading", consumer}
      BY <1>10 DEF Subscribe, GetOnlineNodeIDs, GetNodeInfo, DiscoveryTypeOK
    <2>3. view' \in [Nodes -> NodeValues \cup {NoVal}]
      BY <2>2 DEF DiscoveryTypeOK
    <2>4. DiscoveryTypeOK'
      BY <2>1, <2>2, <2>3 DEF DiscoveryTypeOK
    <2> QED BY <2>1, <2>4, FaultsTyped
  <1>11. CASE ReceiveEvent
    <2>1. /\ Head(inbox) \in NodeEvents /\ Tail(inbox) \in Seq(NodeEvents)
          /\ Len(Tail(inbox)) <= Buffer
      BY <1>11, BufferAssumption DEF ReceiveEvent, DiscoveryTypeOK
    <2>2. Head(inbox).val \in NodeValues \cup {NoVal}
      BY <2>1 DEF NodeEvents
    <2>3. UNCHANGED <<sdPc, sdTodo, sdGot, sdPos, sdFrom, nodes, toEmit, toRead, consumer, faults>>
      BY <1>11 DEF ReceiveEvent, watchVars
    <2>4. view' \in [Nodes -> NodeValues \cup {NoVal}] /\ inbox' = Tail(inbox)
      BY <1>11, <2>2 DEF ReceiveEvent, DiscoveryTypeOK
    <2>5. DiscoveryTypeOK'
      BY <2>1, <2>3, <2>4 DEF DiscoveryTypeOK
    <2> QED BY <2>3, <2>5, FaultsTyped
  <1> QED
    BY <1>4, <1>5, <1>6, <1>7, <1>8, <1>9, <1>10, <1>11
    DEF DiscoveryNext, DiscoveryStep, ConsumerStep

LEMMA TypeKeptByConfig ==
    ASSUME TypeOK, ConfigNext, UNCHANGED <<log, discoveryVars>>
    PROVE  TypeOK'
  <1> USE DEF TypeOK
  <1>1. DiscoveryTypeOK'
    BY DEF DiscoveryTypeOK, discoveryVars, watchVars, consumerVars
  <1> SUFFICES ConfigTypeOK' /\ FaultsTypeOK'
    BY <1>1
  <1>2. Len(log) \in Nat
    OBVIOUS
  <1>3. ASSUME NEW k \in Params, NEW v \in ParamValues \cup {NoVal}, Callback(k, v)
        PROVE  param' \in [Params -> Nat \ {0}]
    <2>1. Usable(v) => v \in Nat \ {0}
      BY EtcdAssumption DEF Usable
    <2> QED BY <1>3, <2>1 DEF Callback, ConfigTypeOK
  <1>4. ASSUME NEW outcome, GetConfig(outcome) PROVE ConfigTypeOK' /\ FaultsTypeOK'
    <2>1. ConfigTypeOK'
      BY <1>2, <1>4 DEF GetConfig, ConfigTypeOK
    <2>2. FaultsTypeOK'
      BY <1>4, FaultsTyped DEF GetConfig, Attempt
    <2> QED BY <2>1, <2>2
  <1>5. ASSUME NEW k \in Params, LoadParam(k) PROVE ConfigTypeOK' /\ FaultsTypeOK'
    <2>1. ValueAt(k, cwPos) \in ParamValues \cup {NoVal}
      BY ValueTypes DEF ConfigTypeOK, Keys
    <2>2. param' \in [Params -> Nat \ {0}]
      BY <1>3, <1>5, <2>1 DEF LoadParam
    <2> QED BY <1>5, <2>2, FaultsTyped DEF LoadParam, ConfigTypeOK
  <1>6. CASE WatchConfig
    <2>1. ConfigTypeOK'
      BY <1>2, <1>6 DEF WatchConfig, ConfigRev, ConfigTypeOK
    <2>2. FaultsTypeOK'
      BY <1>6, FaultsTyped DEF WatchConfig
    <2> QED BY <2>1, <2>2
  <1>7. CASE ConfigEvent
    <2>1. PICK j : j = Min(NextEvents(Params, cwPos))
      OBVIOUS
    <2>2. j \in cwPos + 1 .. Len(log) /\ log[j].key \in Params
      BY <1>7, <2>1, NextReceived DEF ConfigEvent, ConfigTypeOK
    <2>3. log[j] \in Events
      BY <2>2 DEF ConfigTypeOK
    <2>4. log[j].val \in ParamValues \cup {NoVal}
      BY <2>2, <2>3, EtcdAssumption DEF Events, NodeEvents
    <2>5. cwPos' = j /\ Callback(log[j].key, log[j].val)
      BY <1>7, <2>1 DEF ConfigEvent
    <2>6. param' \in [Params -> Nat \ {0}]
      BY <1>3, <2>2, <2>4, <2>5
    <2>7. ConfigTypeOK'
      BY <1>7, <2>2, <2>5, <2>6 DEF ConfigEvent, ConfigTypeOK
    <2>8. FaultsTypeOK'
      BY <1>7, FaultsTyped DEF ConfigEvent
    <2> QED BY <2>7, <2>8
  <1>8. CASE ConfigEnds
    <2>1. ConfigTypeOK'
      BY <1>8 DEF ConfigEnds, ConfigTypeOK
    <2>2. FaultsTypeOK'
      BY <1>8, FaultsTyped DEF ConfigEnds
    <2> QED BY <2>1, <2>2
  <1> QED BY <1>4, <1>5, <1>6, <1>7, <1>8 DEF ConfigNext, ConfigStep

(***************************************************************************)
(* The inductive invariant and the theorems.                               *)
(***************************************************************************)
IInv == TypeOK /\ CacheInv /\ ConsumerInv /\ ConfigInv

LEMMA InitInv ==
    ASSUME Init
    PROVE  IInv
  <1> USE DEF Init, DiscoveryInit, ConfigInit
  <1>1. TypeOK
    <2>1. log \in Seq(Events) /\ Len(log) = 0 /\ 0 <= MaxEvents
      BY EtcdAssumption
    <2>2. FaultsTypeOK
      BY MaxFaultsAssumption DEF FaultsInit, FaultsTypeOK
    <2>3. DiscoveryTypeOK
      <3>1. <<>> \in Seq(NodeEvents) /\ Len(<<>>) = 0 /\ 0 <= Buffer
        BY BufferAssumption
      <3>2. 0 \in 0 .. Len(log) /\ 0 \in 0 .. 0
        BY <2>1
      <3>3. [n \in Nodes |-> NoVal] \in [Nodes -> NodeValues \cup {NoVal}]
        OBVIOUS
      <3>4. inbox = <<>> /\ toEmit = <<>> /\ Len(inbox) <= Buffer /\ Len(toEmit) <= 1
        BY <3>1
      <3>5. toEmit \in Seq(NodeEvents) /\ inbox \in Seq(NodeEvents)
        BY <3>1, <3>4
      <3> QED BY <3>2, <3>3, <3>4, <3>5 DEF DiscoveryTypeOK
    <2>4. ConfigTypeOK
      <3>1. 0 \in 0 .. Len(log) /\ 0 \in 0 .. 0
        BY <2>1
      <3> QED BY <3>1, DefaultAssumption DEF ConfigTypeOK
    <2> QED BY <2>1, <2>2, <2>3, <2>4 DEF TypeOK
  <1>2. CacheInv
    BY DEF CacheInv, Listed, CacheIsReplay
  <1>3. ConsumerInv
    <2>1. Coming = <<>>
      BY DEF Coming
    <2>2. \A n \in Nodes : About(Coming, n, Len(Coming)) = {}
      BY <2>1 DEF About
    <2> QED BY <2>2 DEF ConsumerInv
  <1>4. ConfigInv
    BY DEF ConfigInv, ConfigListed, ConfigCurrent
  <1> QED BY <1>1, <1>2, <1>3, <1>4 DEF IInv

LEMMA NextInv ==
    ASSUME IInv, [Next]_vars
    PROVE  IInv'
  <1> USE DEF IInv
  <1>1. CASE EtcdChange
    <2>1. UNCHANGED discoveryVars
      BY <1>1 DEF EtcdChange
    <2> QED BY <1>1, <2>1, TypeKeptByEtcd, CacheKeptByEtcd, ConsumerKept, ConfigKeptByEtcd
  <1>2. CASE DiscoveryNext /\ UNCHANGED <<log, configVars>>
    BY <1>2, TypeKeptByDiscovery, CacheKept, ConsumerKept, ConfigKept
  <1>3. CASE ConfigNext /\ UNCHANGED <<log, discoveryVars>>
    BY <1>3, TypeKeptByConfig, CacheKept, ConsumerKept, ConfigKept
  <1>4. CASE UNCHANGED vars
    <2>1. UNCHANGED <<log, faults, discoveryVars, configVars>>
      BY <1>4 DEF vars
    <2>2. TypeOK'
      BY <2>1 DEF TypeOK, FaultsTypeOK, DiscoveryTypeOK, ConfigTypeOK, discoveryVars, watchVars,
                  consumerVars, configVars
    <2> QED BY <2>1, <2>2, CacheKept, ConsumerKept, ConfigKept
  <1> QED BY <1>1, <1>2, <1>3, <1>4 DEF Next

\* The nodes that ServiceDiscovery holds are the ones etcd had at the revision
\* its watch has got to: between the list and the watch nothing is lost and
\* nothing is applied twice or out of order.
THEOREM CacheFollowsEtcd == Spec => []CacheIsReplay
  <1>1. IInv => CacheIsReplay
    BY DEF IInv, CacheInv
  <1> QED BY <1>1, InitInv, NextInv, PTL DEF Spec

\* A consumer of Subscribe for which emit dropped nothing ends up with the
\* nodes that ServiceDiscovery holds, whenever it subscribed.
THEOREM ConsumerFollowsCache == Spec => []ConsumerFollows
  <1>1. IInv => ConsumerFollows
    BY DEF IInv, ConsumerInv, ConsumerFollows
  <1> QED BY <1>1, InitInv, NextInv, PTL DEF Spec

\* The scheduler's fields hold the last usable values etcd had up to the
\* revision the watch has got to, and those of the file when there was none.
THEOREM ConfigFollowsEtcd == Spec => []ConfigCurrent
  <1>1. IInv => ConfigCurrent
    BY DEF IInv, ConfigInv
  <1> QED BY <1>1, InitInv, NextInv, PTL DEF Spec

\* In every behaviour every variable of the watchers has its type: positions
\* in the history of etcd stay positions, and the inbox stays within its
\* buffer.
THEOREM WatcherTypes == Spec => []TypeOK
  <1>1. IInv => TypeOK
    BY DEF IInv
  <1> QED BY <1>1, InitInv, NextInv, PTL DEF Spec
=============================================================================
